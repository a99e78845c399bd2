----------------------------- MODULE MCMacroMesh -----------------------------
(* Meshes of one to four unit cubes, turned in all the ways that matter, and *)
(* particles in some of them.                                                *)
EXTENDS PIC, TLC

Turned == << <<0,1,0>>, <<-1,0,0>>, <<0,0,1>> >>
Corner == << <<0,0,0>>, <<1,0,0>>, <<0,1,0>> >>
CornerFile == File(Corner, << Skew, Turned, Id >>, {}, No, "3D", <<1,1,1>>, <<2,2,2>>)
PairFile   == File(Row2, << Skew, Id >>, {}, No, "3D", <<1,1,1>>, <<2,2,2>>)
SquareFile == File(Square, << Turned, Id, Turned, Skew >>, {}, No, "2D", <<2,2,0>>, <<2,2,1>>)

MCMeshFiles ==
  {File(Row2, << r, s >>, {}, No, "3D", <<1,1,1>>, <<2,2,2>>) : r \in Turns, s \in {Id, Skew}}
  \cup {File(Row2, << s, r >>, {<<3000, 3000, 3000>>}, No, "3D", <<3,3,3>>, <<1,1,1>>) :
          r \in Turns, s \in {Skew}}
  \cup {File(Square, << r, Id, r, Skew >>, {}, No, "2D", <<2,2,0>>, <<2,2,1>>) : r \in Turns}
  \cup {File(Row3, << r, r, r >>, {<< 0, 3000, 3000 >>, << 9001, 3000, 3000 >>}, p, "3D", <<1,1,1>>, <<2,2,2>>) :
          r \in {Id, Skew}, p \in {<< 3 * Unit, -1, -1 >>, << 3 * Unit, Unit, Unit >>}}
  \cup {File(OneCell, << r >>, {}, << Unit, Unit, Unit >>, "3D", <<1,2,3>>, <<3,2,1>>) : r \in Turns}
  \cup {File(Row3, << r, r, r >>, {}, << 3 * Unit, -1, -1 >>, "1D", <<2,0,0>>, <<3,1,1>>) :
          r \in {t \in Turns : t[1] = <<1,0,0>>}}
  \cup {File(Row2, << Id, Id >>, {}, No, "3D", <<1,2,3>>, <<3,2,1>>)}
  \cup {CornerFile, PairFile, SquareFile}

\* Constant, harmonic and magnetic fields; the initial charge and current are
\* not null.
Fields(ex, ey, bz) ==
  [iv \in 0..6 |-> << ex, ey, bz, <<1,0,1,0>>, <<7,0,0,0>>, <<5,0,0,0>>, <<3,0,0,0>> >>[iv + 1]]
Uniform(c) == << c, 0, 0, 0 >>
Particles(file, pushes, field, samples) ==
  [file |-> file, nbparts |-> 2, weight |-> 29, pushes |-> pushes, coil |-> FALSE,
   samples |-> samples, field |-> field]
At(r, v) == [r |-> r, v |-> v]
MCPlasmas ==
  {Particles(CornerFile, 4, Fields(<< 6500, -1, 0, 0 >>, << 5500, 0, -1, 0 >>, Uniform(0)),
             {At(<< 11, 3, 7 >>, << 0, -2000, 250 >>), At(<< 5, 17, 13 >>, << -2000, 0, -250 >>),
              At(<< 17, 15, 5 >>, << 0, 0, 0 >>)}),
   Particles(PairFile, 2, Fields(<< -5500, 0, 2, 0 >>, Uniform(0), Uniform(4)),
             {At(<< 9, 11, 7 >>, << 250, -250, 250 >>), At(<< 13, 3, 13 >>, << -250, 250, 0 >>),
              At(<< 12, 12, 12 >>, << 1000, 0, 0 >>)}),
   Particles(SquareFile, 4, Fields(<< 6500, -1, 0, 0 >>, << 5500, 0, -1, 0 >>, Uniform(0)),
             {At(<< 9, 11, 12 >>, << 250, 500, 0 >>), At(<< 17, 7, 12 >>, << 0, 250, 0 >>)}),
   [Particles(SquareFile, 0, Fields(Uniform(0), Uniform(0), Uniform(0)),
              {[x |-> << 3600, 4800, 3000 >>, v |-> << -4800, 3600, 0 >>],
               [x |-> << -3600, 4800, 3000 >>, v |-> << -4800, -3600, 0 >>]}) EXCEPT !.coil = TRUE]}

NoPlasmas == {}

\* One element away from the origin: x goes from 1 to 2, z from 0 to 1.
MCBoxFiles == {File(<< <<1,0,0>> >>, << Id >>, {}, No, "3D", <<1,1,1>>, <<1,1,1>>)}
=============================================================================
