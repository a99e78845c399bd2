-------------------------- MODULE MCImplicitSchemes --------------------------
(* Meshes of one or two unit cubes, periodic or not, of degree 0 to 2, one   *)
(* and two unknowns, for the three schemes; and lattices of 9 and 19 nodes   *)
(* on such meshes, of one element in the third direction.                    *)
EXTENDS LatticeBoltzmann, ContinuousSolver, TLC

\* The faces of a mesh, found by their centres: what MacroMesh computes.  L is
\* the last of the two elements, or the side with local face 0, 1 or 4 if the
\* face is periodic.
Side(mm, e, lf) ==
  LET x == schnaps_ref2phy(Frame(mm, e), FaceCenter(lf))
      Home(d) == IF mm.period[d] > 0 THEN x[d] % mm.period[d] ELSE x[d]
  IN  [e |-> e, lf |-> lf, x |-> x, home |-> Vec(Home)]
Sides(mm, kept) ==
  SelectSeq(Tuple(6 * Len(mm.elem2node), LAMBDA k : Side(mm, (k - 1) \div 6, (k - 1) % 6)),
            LAMBDA s : s.lf \in kept)
TwinOf(sides, s) ==
  LET twins == {t \in sides : t.home = s.home /\ t # s}
  IN  IF twins = {} THEN [e |-> -1, lf |-> -1] ELSE CHOOSE t \in twins : TRUE
FacesAmong(sides) ==
  LET all == Tuple(Len(sides), LAMBDA i : [s |-> sides[i], t |-> TwinOf(Range(sides), sides[i])])
      IsLeft(f) == \/ f.t.e = -1
                   \/ f.t.e # -1 /\ f.t.x # f.s.x /\ f.s.lf \in {0, 1, 4}
                   \/ f.t.e # -1 /\ f.t.x = f.s.x /\ f.t.e < f.s.e
      left == SelectSeq(all, IsLeft)
  IN  Tuple(Len(left), LAMBDA i : [L |-> left[i].s.e, lfL |-> left[i].s.lf,
                                   R |-> left[i].t.e, lfR |-> left[i].t.lf])
FacesOf(mm, kept) == CHOOSE f \in {FacesAmong(sides) : sides \in {Sides(mm, kept)}} : TRUE

OneTurn  == << <<0,1,0>>, <<-1,0,0>>, <<0,0,1>> >>
Periodic == << Unit, Unit, Unit >>
Cube(deg, raf, period, turn) == File(OneCell, << turn >>, {}, period, "3D", deg, raf)
Pair(deg, raf, period, turn) == File(Row2, << Id, turn >>, {}, period, "3D", deg, raf)

\* Advection with a source, and a system of two equations.
Flux(m) == IF m = 1 THEN << << <<6>> >>, << <<10>> >>, << <<-4>> >> >>
           ELSE << << <<2, 7>>, <<7, -4>> >>, << <<0, 3>>, <<3, 1>> >>, << <<5, 0>>, <<0, 2>> >> >>
Model(m, data, source) ==
  [kind |-> "linear", flux |-> Flux(m), upwind |-> 11, data |-> Tuple(m, LAMBDA i : data),
   source |-> Tuple(m, LAMBDA i : source)]
Constantly(c) == << c, 0, 0 >>

Problem(scheme, s, w0, closed) ==
  [scheme |-> scheme, sim |-> s, tmax |-> 5,
   w0 |-> Tuple(s.n * Wsize(s), LAMBDA k : w0[1] + ((w0[2] * k * k) % 23)),
   uniform |-> w0[2] = 0 /\ (closed \/ s.model.data[1] = Constantly(w0[1])), closed |-> closed]

All    == {"Theta", "Local", "JF", "RK1", "bis"}
Global == {"Theta", "JF", "RK1", "bis"}

\* A case: [file, m, data, source, w0, closed, schemes].
Case(file, m, data, source, w0, closed, schemes) ==
  [file |-> file, m |-> m, data |-> data, source |-> source, w0 |-> w0, closed |-> closed,
   schemes |-> schemes]
Forced(file, m, schemes) == Case(file, m, << 5, 3, 7 >>, << 2, 1, 9 >>, << 4, 3 >>, FALSE, schemes)
Still(file, m, schemes)  == Case(file, m, Constantly(8), Constantly(0), << 8, 0 >>, FALSE, schemes)
Closed(file, m, w0, schemes) == Case(file, m, Constantly(0), Constantly(0), w0, TRUE, schemes)
Cases ==
  {Forced(Cube(<<1,0,0>>, <<2,1,1>>, No, Id), 1, All),
   Still(Cube(<<1,0,0>>, <<2,1,1>>, No, Id), 1, All),
   Forced(Cube(<<2,0,0>>, <<1,2,1>>, No, Skew), 2, All),
   Still(Cube(<<2,0,0>>, <<1,2,1>>, No, Skew), 2, {"Local"}),
   Forced(Pair(<<1,1,0>>, <<1,1,1>>, No, Id), 1, All),
   Still(Pair(<<1,1,0>>, <<1,1,1>>, No, Id), 1, All),
   Forced(Pair(<<0,0,0>>, <<2,2,1>>, No, Id), 1, All),
   Still(Pair(<<0,0,0>>, <<2,2,1>>, No, Id), 1, {"Local"}),
   Forced(Pair(<<1,1,1>>, <<1,1,1>>, No, Skew), 1, All),
   Forced(Pair(<<1,1,1>>, <<1,1,1>>, No, OneTurn), 1, All),
   Forced(Pair(<<2,1,1>>, <<1,1,1>>, No, Id), 2, All),
   Closed(Cube(<<1,0,2>>, <<2,1,1>>, Periodic, Id), 1, << 4, 3 >>, Global),
   Closed(Pair(<<1,0,0>>, <<1,1,1>>, << 2 * Unit, Unit, Unit >>, Id), 2, << 6, 0 >>, All),
   Closed(Pair(<<1,0,0>>, <<1,2,1>>, << 2 * Unit, Unit, Unit >>, Id), 1, << 4, 3 >>, Global)}

ProblemsOf(c) ==
  {Problem(x[1], x[2], c.w0, c.closed) : x \in c.schemes \X
     {Simulation(c.file, FacesOf(c.file, Faces), c.m, Model(c.m, c.data, c.source))}}

\* Lattices: the fluid enters at x = 0 and leaves at lx and ly, or all is
\* periodic.
Node ==
  [kind |-> "node", v |-> << 0, 0 >>, imposed |-> 0, opposite |-> None,
   lx |-> 2 * Unit, ly |-> Unit, source |-> << Constantly(0) >>]
LatticeCase(scheme, file, desc, closed) ==
  [scheme |-> scheme, file |-> file, desc |-> desc, closed |-> closed]
Torus(deg, raf) == Pair(deg, raf, << 2 * Unit, Unit, Unit >>, Id)
LatticeCases ==
  {LatticeCase("LBM", Torus(<<1,1,0>>, <<1,1,1>>), LBM_Set_D2Q9_ISOTH_model, TRUE),
   LatticeCase("LBM", Pair(<<1,1,0>>, <<1,1,1>>, No, Id), LBM_Set_D2Q9_ISOTH_INC_model, FALSE),
   LatticeCase("LBM", Pair(<<1,0,0>>, <<1,2,1>>, No, OneTurn), LBM_Set_D2Q9_ISOTH_LINEARIZED_model, FALSE),
   LatticeCase("LBM", Torus(<<0,1,0>>, <<2,1,1>>), LBM_Set_MHD_D2Q9_2D2Q5_model, TRUE),
   LatticeCase("Lattice", Torus(<<1,1,0>>, <<1,1,1>>), InitLatticeData("isothermal"), TRUE),
   LatticeCase("Lattice", Torus(<<2,0,0>>, <<1,2,1>>), InitLatticeData("linearwave"), TRUE)}
LatticeProblem(c, s, n) ==
  [scheme |-> c.scheme, sim |-> s, tmax |-> 3, w0 |-> Zeros(n), uniform |-> FALSE,
   closed |-> c.closed, lb |-> c.desc, imposed |-> << 1, 5, 0, 2, 3 >>, rate |-> 29, tau |-> 4,
   macro |-> Tuple(n, LAMBDA p : Tuple(Len(c.desc.moments), LAMBDA r : 2 + ((r * p * p) % 23)))]
Lattices ==
  UNION {{LatticeProblem(c, s, s.n * Npg(s)) : s \in {Simulation(c.file, FacesOf(c.file, Faces), 1, Node)}} :
         c \in LatticeCases}

\* Poisson: lines, planes and slices, f polynomials of the values of a hash.
Plane == {0, 1, 2, 3}
Plasma(operator, damping, quasineutrality, mean) ==
  [nb_elem_v |-> 2, deg_v |-> 1, mv |-> 3, dv |-> 6, operator |-> operator, qn_damping |-> damping,
   solve_quasineutrality |-> quasineutrality, substract_mean_charge |-> mean]
PoissonCase(file, kept, plasma, below, type) ==
  [file |-> file, kept |-> kept, kd |-> plasma, below |-> below, type |-> type]
PoissonCases ==
  {PoissonCase(Pair(<<2,0,0>>, <<2,1,1>>, No, Id), {1, 3}, Plasma("1D", 0, FALSE, FALSE), TRUE, "LU"),
   PoissonCase(Cube(<<1,0,0>>, <<5,1,1>>, No, Id), {1, 3}, Plasma("1D", 0, FALSE, TRUE), FALSE, "GMRES"),
   PoissonCase(Pair(<<2,2,0>>, <<1,1,1>>, No, Id), Plane, Plasma("2D", 0, FALSE, FALSE), TRUE, "LU"),
   PoissonCase(Pair(<<1,1,0>>, <<2,2,1>>, No, OneTurn), Plane, Plasma("2D", 3, FALSE, TRUE), TRUE, "LU"),
   PoissonCase(Cube(<<2,2,0>>, <<1,1,3>>, << -1, -1, Unit >>, Id), Faces, Plasma("2D", 2, TRUE, FALSE), TRUE, "LU")}
Hash(k) == (7 + k * k * 3 + k) % 41
PoissonProblem(c, s) ==
  [scheme |-> "Poisson", sim |-> s, tmax |-> 0, w0 |-> Tuple(s.n * Wsize(s), Hash), uniform |-> FALSE,
   closed |-> FALSE, kd |-> c.kd, below |-> c.below, solver_type |-> c.type]
Poissons ==
  UNION {{PoissonProblem(c, s) : s \in {Simulation(c.file, FacesOf(c.file, c.kept), 8,
                                          [data |-> Tuple(8, LAMBDA i : << i, 3, 7 >>), kind |-> "plasma"])}} :
         c \in PoissonCases}

MCProblems == UNION {ProblemsOf(c) : c \in Cases} \union Lattices \union Poissons
=============================================================================
