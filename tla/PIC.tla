--------------------------------- MODULE PIC ---------------------------------
(***************************************************************************)
(* Particles in the cells of a mesh (pic.c, InterpField of field.c, the    *)
(* basis functions of interpolation.c): where they are created, the charge *)
(* and current they deposit on the points of the DG mesh, and how the      *)
(* field moves them from element to element.  A particle keeps reference   *)
(* coordinates, which change when it enters another element.               *)
(*                                                                         *)
(* Positions and velocities are integers in the units of Geometry, and     *)
(* fields and basis functions residues; a field that moves particles is    *)
(* affine, so that its value at a particle is an integer, which its        *)
(* residue gives.                                                          *)
(* The programs that use pic.c push and accumulate in orders of their own: *)
(* any order is allowed, up to plasma.pushes pushes.                       *)
(***************************************************************************)
EXTENDS MacroMesh, Residues

CONSTANT Plasmas
\* Each is a record: file, one of MeshFiles; nbparts, weight, pushes;
\*   coil     whether CreateCoil2DParticles places the particles
\*   samples  what the generators give: r, in 24ths of the bounding box, or x, and v
\*   field    iv -> << a, b1, b2, b3 >>: the initial value is (a + b . x) / 4

VARIABLES
  plasma,   \* the element of Plasmas, or NoPlasma
  pic,      \* the particles: [x, v, cell_id, old_cell_id], x in the element old_cell_id
  w,        \* element -> variable iv -> point -> value
  pushed    \* number of pushes
picvars == << vars, plasma, pic, w, pushed >>

dt == 2
NoPlasma == [nbparts |-> 0]
Charge == 6     \* and the two components of the current, 4 and 5
Vars == 0..6

\* In quarters.
FieldAt(iv, x) == LET a == plasma.field[iv] IN a[1] + dot_product(<< a[2], a[3], a[4] >>, x)
NbPg == NPG(m.deg, m.raf)
PointOf(ie, ib) == schnaps_ref2phy(Frame(m, ie), ref_pg_vol(m.deg, m.raf, ib).x)
Weight(ib) ==
  Quotient(ref_pg_vol(m.deg, m.raf, ib).wpg % P, ((180 * 180) % P) * ((180 * Prod3(m.raf)) % P))

PICInit ==
  /\ Init
  /\ LET here == {p \in Plasmas : ReadMacroMesh(p.file) = m}
     IN  IF here = {} THEN plasma = NoPlasma ELSE plasma \in here
  /\ pic = << >> /\ w = << >> /\ pushed = 0

(***************************************************************************)
(* Basis functions.                                                        *)
(***************************************************************************)
\* x and the points are in thousandths.
lagrange_polynomial(deg, ii, x) ==
  LET Factor(j) == Quotient(x - Abscissa(deg, j), Abscissa(deg, ii) - Abscissa(deg, j))
  IN  Loop(1, 0, deg, LAMBDA p, j : IF j = ii THEN p ELSE (p * Factor(j)) % P)

\* The conversion to an integer truncates towards zero, and the assertions on
\* the result stop the program.
SubcellOf(xref) ==
  Vec(LAMBDA d : LET q == xref[d] * m.raf[d] IN IF q < 0 THEN -((-q) \div Unit) ELSE q \div Unit)
InSubcells(xref) == \A d \in Dim : SubcellOf(xref)[d] \in 0 .. m.raf[d] - 1

X_AnySubcell(is, ib, xref) ==
  LET b == ipg_to_xyz(m.raf, m.deg, ib)
      psi(d) == lagrange_polynomial(m.deg[d], b.ix[d],
                  Quotient(xref[d] * m.raf[d] - b.ic[d] * Unit, Unit \div 1000))
  IN  (((psi(1) * psi(2)) % P) * psi(3)) % P
psi_ref_subcell(is, ib, xref) ==
  LET b == ipg_to_xyz(m.raf, m.deg, ib)
      psi(d) == lagrange_polynomial(m.deg[d], b.ix[d],
                  Quotient(xref[d] * m.raf[d] - b.ic[d] * Unit, Unit \div 1000))
  IN  IF b.ic = is THEN (((psi(1) * psi(2)) % P) * psi(3)) % P ELSE 0
psi_ref(ib, xref) == psi_ref_subcell(SubcellOf(xref), ib, xref)

InterpField(ie, xref, iv) ==
  Sum(0, NbPg - 1, LAMBDA ib : psi_ref_subcell(SubcellOf(xref), ib, xref) * w[ie][iv][ib])
\* The integer that a residue stands for.
Integer(r) == IF r % P > P \div 2 THEN (r % P) - P ELSE r % P

(***************************************************************************)
(* InitSimulation and the two creations.                                   *)
(***************************************************************************)
InitPIC ==
  /\ pc = "done" /\ plasma.nbparts > 0 /\ w = << >>
  /\ w' = [ie \in Elems(m) |-> [iv \in Vars |-> [ib \in 0 .. NbPg - 1 |->
             Quotient(FieldAt(iv, PointOf(ie, ib)) % P, 4)]]]
  /\ UNCHANGED << vars, plasma, pic, pushed >>

\* The position of a particle in no element is not written, nor is it read.
Placed(x, v) ==
  LET cell == NumElemFromPoint(m, x)
  IN  [x |-> IF cell = None THEN << 0, 0, 0 >> ELSE schnaps_phy2ref(Frame(m, cell), x),
       v |-> v, cell_id |-> cell, old_cell_id |-> cell]
Missing == w # << >> /\ Len(pic) < plasma.nbparts
Created == w # << >> /\ Len(pic) = plasma.nbparts /\ pc = "done"

\* A point of the bounding box in no element is drawn again.
CreateParticles ==
  /\ Missing /\ ~ plasma.coil
  /\ \E s \in plasma.samples :
       LET x == Vec(LAMBDA d : m.xmin[d] + s.r[d] * ((m.xmax[d] - m.xmin[d]) \div 24))
           p == Placed(x, s.v)
       IN  pic' = IF p.cell_id # None THEN Append(pic, p) ELSE pic
  /\ UNCHANGED << vars, plasma, w, pushed >>

CreateCoil2DParticles ==
  /\ Missing /\ plasma.coil
  /\ \E s \in plasma.samples : pic' = Append(pic, Placed(s.x, s.v))
  /\ UNCHANGED << vars, plasma, w, pushed >>

(***************************************************************************)
(* Deposit and push.                                                       *)
(***************************************************************************)
Counted == {i \in DOMAIN pic : pic[i].old_cell_id >= 0}
Moving  == {i \in DOMAIN pic : pic[i].cell_id >= 0}

\* What a particle leaves on a point, of charge and of current.
Deposit(p, ie, iv, ib) ==
  LET q == IF iv = Charge THEN 1 ELSE p.v[iv - 3]
  IN  IF p.old_cell_id # ie THEN 0
      ELSE (q * Quotient(psi_ref(ib, p.x) * plasma.weight, Weight(ib))) % P

AccumulateParticles ==
  /\ Created
  /\ IF \A i \in Counted : InSubcells(pic[i].x)
     THEN /\ w' = [ie \in Elems(m) |-> [iv \in Vars |-> IF iv < 4 THEN w[ie][iv] ELSE
                    [ib \in 0 .. NbPg - 1 |->
                       Sum(1, Len(pic), LAMBDA i : Deposit(pic[i], ie, iv, ib))]]]
          /\ UNCHANGED pc
     ELSE pc' = "stopped" /\ UNCHANGED w
  /\ UNCHANGED << m, face, inter, plasma, pic, pushed >>

X_Transposed(f, v) == Rotate(f, v)
vref(f, v) == Vec(LAMBDA d : dot_product(f.e[d], v))

\* The second component is accelerated by what the first one has become.
Accelerated(p) ==
  LET a(iv) == Integer(InterpField(p.cell_id, p.x, iv))
      vx    == p.v[1] + dt * (a(0) + a(2) * p.v[2])
  IN  << vx, p.v[2] + dt * (a(1) - a(2) * vx), p.v[3] >>

\* A particle that leaves its element is looked for in the mesh; if it is in no
\* element it keeps its last one, and coordinates outside of it.
Moved(p) ==
  LET f == Frame(m, p.cell_id)
      v == Accelerated(p)
      x == Plus(p.x, Vec(LAMBDA d : dt * vref(f, v)[d]))
      is_out == \E d \in Dim : x[d] \notin 0 .. Unit
      xphy   == schnaps_ref2phy(f, x)
      cell   == NumElemFromPoint(m, xphy)
  IN  IF ~ is_out THEN [p EXCEPT !.x = x, !.v = v]
      ELSE IF cell = None THEN [p EXCEPT !.x = x, !.v = v, !.cell_id = None]
      ELSE [x |-> schnaps_phy2ref(Frame(m, cell), xphy), v |-> v,
            cell_id |-> cell, old_cell_id |-> cell]

PushParticles ==
  /\ Created /\ pushed < plasma.pushes
  /\ IF \A i \in Moving : InSubcells(pic[i].x)
     THEN /\ pic' = [i \in DOMAIN pic |-> IF i \in Moving THEN Moved(pic[i]) ELSE pic[i]]
          /\ pushed' = pushed + 1 /\ UNCHANGED pc
     ELSE pc' = "stopped" /\ UNCHANGED << pic, pushed >>
  /\ UNCHANGED << m, face, inter, plasma, w >>

PICNext ==
  \/ Next /\ UNCHANGED << plasma, pic, w, pushed >>
  \/ InitPIC \/ CreateParticles \/ CreateCoil2DParticles
  \/ AccumulateParticles \/ PushParticles
  \/ pc = "stopped" /\ UNCHANGED picvars
PICSpec == PICInit /\ [][PICNext]_picvars
(***************************************************************************)
(* Properties.                                                             *)
(***************************************************************************)
Position(p) == schnaps_ref2phy(Frame(m, p.old_cell_id), p.x)

\* AccumulateParticles leaves the charge and the current of the particles that are
\* counted, no more and no less, and the charge has their centre (wherever the
\* basis functions are linear), in elements of any orientation and refinement:
\* nothing remains of the last deposit, and no basis function is missed where
\* subcells meet.
ChargeOfTheParticles ==
  [][(w # << >> /\ w' # w) =>
       LET Over(F(_, _)) == Sum(0, Len(m.elem2node) - 1, LAMBDA ie :
                              Sum(0, NbPg - 1, LAMBDA ib : F(ie, ib) * Weight(ib)))
           OfAll(F(_)) == (plasma.weight * Sum(1, Len(pic), LAMBDA i :
                              IF i \in Counted THEN F(pic[i]) ELSE 0)) % P
       IN  /\ Over(LAMBDA ie, ib : w'[ie][Charge][ib]) = OfAll(LAMBDA p : 1)
           /\ \A c \in {1, 2} : Over(LAMBDA ie, ib : w'[ie][c + 3][ib]) = OfAll(LAMBDA p : p.v[c])
           /\ (\A d \in Dim : m.deg[d] > 0) =>
                \A d \in Dim : Over(LAMBDA ie, ib : (w'[ie][Charge][ib] * PointOf(ie, ib)[d]) % P)
                                 = OfAll(LAMBDA p : Position(p)[d])]_picvars

\* A push moves every particle that is in an element by dt times its new velocity,
\* in the space of the mesh and not of its element, whichever elements it leaves
\* and enters; it is accelerated by the field where it was; and it is then in the
\* element it says, or in none.  The others stay.
PushFollowsTheField ==
  [][(pushed' # pushed) =>
       \A i \in DOMAIN pic :
         LET p == pic[i]  q == pic'[i]  E(iv) == FieldAt(iv, Position(p))
         IN  IF i \notin Moving THEN q = p
             ELSE /\ Position(q) = Plus(Position(p), Vec(LAMBDA d : dt * q.v[d]))
                  /\ 4 * (q.v[1] - p.v[1]) = dt * (E(0) + E(2) * p.v[2])
                  /\ 4 * (q.v[2] - p.v[2]) = dt * (E(1) - E(2) * q.v[1])
                  /\ IF q.cell_id = None THEN NumElemFromPoint(m, Position(q)) = None
                     ELSE /\ q.cell_id = q.old_cell_id
                          /\ \A d \in Dim : q.x[d] \in 0 .. Unit]_picvars
=============================================================================
