-------------------------- MODULE ContinuousSolver --------------------------
(***************************************************************************)
(* The Poisson equation of the plasma models, as UpdateGyroPoisson solves  *)
(* it before each time derivative (gyro.c, quantities_vp.c,                *)
(* solvercontinuous.c, solverpoisson.c): the charge of the distribution    *)
(* function, the potential on the continuous finite elements that paste    *)
(* the coinciding points of the DG mesh, and the electric field.  The      *)
(* boundary condition is ExactDirichletContinuousMatrix.                   *)
(*                                                                         *)
(* The unknowns of a point are the values kd.mv of the distribution        *)
(* function, then the charge, the potential and the field.  cs.lsol is     *)
(* the variable implicit of ImplicitSchemes.  One action per pass; what    *)
(* the transport does to the distribution between two solves is not        *)
(* modelled: it becomes another one.                                       *)
(***************************************************************************)
EXTENDS ImplicitSchemes, TLC

VARIABLE cs   \* dg_to_fe_index, nb_fe_nodes, is_boundary_node of the ContinuousSolver,
              \* with the geometry of the points
plasmavars == << vars, cs >>

kd        == problem.kd
index_rho == kd.mv
index_phi == kd.mv + 1
index_e   == kd.mv + 2   \* ex, ey, ez

NbDgNodes  == sim.n * Npg(sim)
nnodes     == (sim.deg[1] + 1) * (sim.deg[2] + 1) * (sim.deg[3] + 1)
Var(v, ino, iv) == v[GenericVarindex(sim, ino, iv) + 1]
\* v with the unknown iv of every point replaced.
WithVar(v, iv, Value(_)) ==
  Tuple(Len(v), LAMBDA k : IF (k - 1) % sim.m = iv THEN Value((k - 1) \div sim.m) ELSE v[k])

(***************************************************************************)
(* The charge.                                                             *)
(***************************************************************************)
Computation_charge_density(v) ==
  LET Rho(ino) == Sum(0, kd.nb_elem_v - 1, LAMBDA ielv : Sum(0, kd.deg_v, LAMBDA iloc :
                    Product(Weight(kd.deg_v, iloc), kd.dv) * Var(v, ino, iloc + ielv * kd.deg_v)))
  IN  WithVar(v, index_rho, Rho)

\* Over the first element only; pts is cs.pts.
Computation_charge_average(v, pts) ==
  LET Over(Value(_)) == Sum(1, Len(pts), LAMBDA k : IF pts[k].ie = 0 THEN Value(k - 1) * pts[k].wpg ELSE 0)
  IN  Quotient(Over(LAMBDA ino : Var(v, ino, index_rho)), Over(LAMBDA ino : 1))
MeanCharge(v, pts) == IF kd.substract_mean_charge THEN Computation_charge_average(v, pts) ELSE 0

(***************************************************************************)
(* The finite element nodes.  Positions are compared as integer pixels,    *)
(* and the pixel of a point may be one less than that of a point at the    *)
(* same place: problem.below tells if rounding does this in every second   *)
(* subcell.  (int) of 0 / 0, in a flat mesh, is some constant.             *)
(***************************************************************************)
big_int == 256
slice_projection(x) == << x[3], x[1], x[2] >>
Near(i, j) == i - j \in -1 .. 1

X_Exact(a, b) ==
  IF a[1] # b[1] THEN a[1] - b[1] ELSE IF a[2] # b[2] THEN a[2] - b[2] ELSE a[3] - b[3]
CompareFatNode(a, b) ==
  IF ~Near(a[1], b[1]) THEN a[1] - b[1]
  ELSE IF ~Near(a[2], b[2]) THEN a[2] - b[2]
  ELSE IF ~Near(a[3], b[3]) THEN a[3] - b[3] ELSE 0

\* The points of the DG mesh, and the first one of the subcell of each.
PointsOf(first) ==
  Tuple(Len(first), LAMBDA k :
    LET ie == (k - 1) \div Npg(sim)  ipg == (k - 1) % Npg(sim)
    IN  [ie |-> ie, o |-> first[k], wpg |-> sim.wpg[ipg + 1], x |-> sim.x[ie + 1][ipg + 1]])

FatNodes(pts, n) ==
  LET x     == Tuple(Len(pts), LAMBDA k : slice_projection(pts[k].x))
      at(d) == {x[k][d] : k \in DOMAIN x}
      smin  == Vec(LAMBDA d : Min(at(d)))
      smax  == Vec(LAMBDA d : Max(at(d)))
      Below(k) == IF problem.below THEN (pts[k].o \div n) % 2 ELSE 0
      Pixel(k, d) == IF x[k][d] = smin[d] THEN 0
                     ELSE ((x[k][d] - smin[d]) * big_int) \div (smax[d] - smin[d]) - Below(k)
  IN  Tuple(Len(pts), LAMBDA k : [dg_index |-> k - 1, x_int |-> Vec(LAMBDA d : Pixel(k, d))])

\* The nodes in order, and the classes of those that are not told apart.
Pasted(list) ==
  Loop(<< 0 >>, 2, Len(list), LAMBDA fe, i :
       Append(fe, fe[i - 1] + IF CompareFatNode(list[i].x_int, list[i - 1].x_int) # 0 THEN 1 ELSE 0))
BuildFatNodeList(nodes) ==
  LET sorted == SortSeq(nodes, LAMBDA a, b : CompareFatNode(a.x_int, b.x_int) < 0)
  IN  [list |-> sorted, fe_index |-> Pasted(sorted)]

\* The number of nodes of the first slice, if the equation is solved slice by
\* slice; the last point of a class gives its pixels.
SliceSize(fn) ==
  LET LastOf(i) == i = Len(fn.list) \/ fn.fe_index[i + 1] # fn.fe_index[i]
  IN  IF kd.solve_quasineutrality
      THEN Cardinality({i \in DOMAIN fn.list : LastOf(i) /\ fn.list[i].x_int[1] \in -1 .. 1}) ELSE 0

\* What is asserted when there are slices: they are equal.
SlicesFit(fn) == SliceSize(fn) # 0 => (fn.fe_index[Len(fn.list)] + 1) % SliceSize(fn) = 0

\* The points of the faces without a neighbour.  (Those of a plane mesh have no
\* third direction, those of a line only the first one.)
BoundaryPoints ==
  UNION {{[ino |-> Offset(sim, f.L) + f.pts[k].L, x |-> f.pts[k].x] : k \in DOMAIN f.pts} :
         f \in {f \in Range(sim.inter) : f.R < 0}}

\* The gradient, at the point ipg, of the basis function ib of its subcell.
grad_psi_pg(ib, ipg) ==
  LET p == ipg_to_xyz(sim.raf, sim.deg, ipg)  b == ipg_to_xyz(sim.raf, sim.deg, ib)
      psi(d)  == IF p.ix[d] = b.ix[d] /\ p.ic[d] = b.ic[d] THEN 1 ELSE 0
      dpsi(d) == IF p.ic[d] = b.ic[d] THEN dlag(sim.deg[d], b.ix[d], p.ix[d]) * sim.raf[d] ELSE 0
      Others(d) == Tangents(d)
  IN  Vec(LAMBDA d : dpsi(d) * psi(Others(d)[1]) * psi(Others(d)[2]))

\* The points of its subcell that each point is coupled to.
Coupled(pts, n, dg_to_fe, slice) ==
  Tuple(Len(pts), LAMBDA k :
    SelectSeq(Tuple(n, LAMBDA q : pts[k].o + q - 1),
              LAMBDA j : slice # 0 => dg_to_fe[k] \div slice = dg_to_fe[j + 1] \div slice))

NewContinuousSolver(pts, n, fn, reference) ==
  LET rank == [ino \in 0 .. Len(pts) - 1 |-> CHOOSE i \in DOMAIN fn.list : fn.list[i].dg_index = ino]
      fe   == Tuple(Len(pts), LAMBDA k : fn.fe_index[rank[k - 1]])
  IN  [pts |-> pts, dg_to_fe_index |-> fe,
       nb_fe_nodes |-> fn.fe_index[Len(pts)] + 1,
       is_boundary_node |-> {fe[p.ino + 1] : p \in BoundaryPoints},
       coupled |-> Coupled(pts, n, fe, SliceSize(fn)),
       grad |-> Tuple(Len(pts), LAMBDA k : Tuple(n, LAMBDA p :
                  Rotate(sim.frame[pts[k].ie + 1], reference[(k - 1 - pts[k].o) + 1][p])))]

\* The state after Body(state, i, j) for each couple i, j of points.
OverPairs(c, state, Body(_, _, _)) ==
  Loop(state, 1, Len(c.coupled), LAMBDA s, i :
    Loop(s, 1, Len(c.coupled[i]), LAMBDA u, q : Body(u, i - 1, c.coupled[i][q])))

AllocateContinuousMatrix(lsol, c) ==
  AllocateLinearSolver(OverPairs(c, lsol, LAMBDA s, i, j :
    IsNonZero(s, c.dg_to_fe_index[i + 1], c.dg_to_fe_index[j + 1])))

(***************************************************************************)
(* The matrix, the right-hand side and the boundary.                       *)
(***************************************************************************)
\* ContinuousOperator_Poisson1D and 2D: the damping and the derivatives they keep.
Damping == IF kd.operator = "2D" THEN kd.qn_damping ELSE 0
InPlane(x, y) == x[1] * y[1] + IF kd.operator = "2D" THEN x[2] * y[2] ELSE 0

\* The term of two basis functions of a subcell.
LocalTerm(c, i, j) ==
  LET o == c.pts[i + 1].o
      gi == c.grad[i + 1]  gj == c.grad[j + 1]
      here == IF i = j THEN Damping * c.pts[i + 1].wpg ELSE 0
  IN  (here + Sum(1, Len(gi), LAMBDA p : c.pts[o + p].wpg * (InPlane(gi[p], gj[p]) % P))) % P

GenericOperator_Continuous(lsol, c) ==
  IF lsol.mat_is_assembly THEN lsol
  ELSE [OverPairs(c, lsol, LAMBDA s, i, j :
          AddLinearSolver(s, c.dg_to_fe_index[i + 1], c.dg_to_fe_index[j + 1], LocalTerm(c, i, j)))
        EXCEPT !.mat_is_assembly = TRUE]

RHSPoisson_Continuous(lsol, c, v) ==
  LET mean == MeanCharge(v, c.pts)
  IN  [lsol EXCEPT !.rhs = Loop(Zeros(lsol.neq), 1, Len(c.pts), LAMBDA r, k :
        [r EXCEPT ![c.dg_to_fe_index[k] + 1] =
           (@ + Product(Var(v, k - 1, index_rho) - mean, c.pts[k].wpg)) % P])]

\* Boundary rows become those of the identity, at each solve, in the matrix or
\* in its factors.
Cleared(lsol, c, i) ==
  SetLinearSolver(Loop(lsol, 0, c.nb_fe_nodes - 1, LAMBDA s, j : SetLinearSolver(s, i, j, 0)), i, i, 1)
ImposedPotential(x, t) == Affine(sim.model.data[index_phi + 1], x, t)
ExactDirichletContinuousMatrix(lsol, c, t) ==
  LET matrix == Loop(lsol, 0, c.nb_fe_nodes - 1, LAMBDA s, i :
                     IF i \in c.is_boundary_node THEN Cleared(s, c, i) ELSE s)
      Imposed(r, p) == [r EXCEPT ![c.dg_to_fe_index[p.ino + 1] + 1] = ImposedPotential(p.x, t)]
  IN  [matrix EXCEPT !.mat_is_assembly = TRUE, !.rhs = FoldSet(LAMBDA p, r : Imposed(r, p), @, BoundaryPoints)]

(***************************************************************************)
(* The potential at the points of the DG mesh, and the field.              *)
(***************************************************************************)
ContinuousToDiscontinuous_Copy(v, c, sol) ==
  WithVar(v, index_phi, LAMBDA ino : sol[c.dg_to_fe_index[ino + 1] + 1])

ComputeElectricField(v, c) ==
  LET E(k) == LET o == c.pts[k].o  phi == Tuple(Len(c.grad[k]), LAMBDA b : Var(v, o + b - 1, index_phi))
              IN  Vec(LAMBDA d : Sum(1, Len(phi), LAMBDA b : -phi[b] * c.grad[o + b][k - o][d]))
      field == Tuple(Len(c.pts), E)
      Put(u, d) == WithVar(u, index_e + d - 1, LAMBDA ino : field[ino + 1][d])
  IN  Put(Put(Put(v, 1), 2), 3)

(***************************************************************************)
(* UpdateGyroPoisson.                                                      *)
(***************************************************************************)
Unchanged == UNCHANGED << problem, tnow, ftnow, explicit, res, local, trace >>

ChargeDensity ==
  /\ pc \in {"init", "transported"} /\ problem.scheme = "Poisson"
  /\ w' = Computation_charge_density(w)
  /\ pc' = IF cs = None THEN "init_solver" ELSE "matrix"
  /\ Unchanged /\ UNCHANGED << tstep, implicit, cs >>

InitContinuousSolver ==
  /\ pc = "init_solver"
  /\ \E n \in {nnodes}, nb \in {NbDgNodes} :
     \E pts \in {PointsOf(Tuple(nb, LAMBDA k : (k - 1) - ((k - 1) % n)))},
        reference \in {Tuple(n, LAMBDA b : Tuple(n, LAMBDA p : grad_psi_pg(b - 1, p - 1)))} :
     \E fn \in {BuildFatNodeList(FatNodes(pts, n))} :
       /\ SlicesFit(fn)   \* or the program aborts
       /\ cs' = NewContinuousSolver(pts, n, fn, reference)
  /\ implicit' = AllocateContinuousMatrix(
                   InitLinearSolver(cs'.nb_fe_nodes, "SKYLINE", problem.solver_type), cs')
  /\ pc' = "matrix"
  /\ Unchanged /\ UNCHANGED << tstep, w >>

MatrixAssembly ==
  /\ pc = "matrix"
  /\ implicit' = GenericOperator_Continuous(implicit, cs)
  /\ pc' = "rhs"
  /\ Unchanged /\ UNCHANGED << tstep, w, cs >>

RhsAssembly ==
  /\ pc = "rhs"
  /\ implicit' = RHSPoisson_Continuous(implicit, cs, w)
  /\ pc' = "bc"
  /\ Unchanged /\ UNCHANGED << tstep, w, cs >>

BcAssembly ==
  /\ pc = "bc"
  /\ implicit' = ExactDirichletContinuousMatrix(implicit, cs, ftnow[1])
  /\ pc' = "poisson_solve"
  /\ Unchanged /\ UNCHANGED << tstep, w, cs >>

PoissonSolve ==
  /\ pc = "poisson_solve"
  /\ implicit' = Advanced_SolveLinearSolver(implicit)
  /\ pc' = "post"
  /\ Unchanged /\ UNCHANGED << tstep, w, cs >>

Computation_ElectricField_Poisson ==
  /\ pc = "post"
  /\ w' = ComputeElectricField(ContinuousToDiscontinuous_Copy(w, cs, implicit.sol), cs)
  /\ tstep' = tstep + 1
  /\ pc' = "solved"
  /\ Unchanged /\ UNCHANGED << implicit, cs >>

\* Another distribution function, and another time; two solves.
Transported ==
  /\ pc = "solved" /\ tstep < 2
  /\ w' = Tuple(Len(w), LAMBDA k :
            IF (k - 1) % sim.m < kd.mv THEN ((w[k] * w[k]) + k + 5) % P ELSE w[k])
  /\ tnow' = tnow + dt /\ ftnow' = AllAt(tnow')
  /\ pc' = "transported"
  /\ UNCHANGED << problem, explicit, res, local, trace, tstep, implicit, cs >>

ContinuousNext ==
  \/ ChargeDensity \/ InitContinuousSolver \/ MatrixAssembly \/ RhsAssembly \/ BcAssembly
  \/ PoissonSolve \/ Computation_ElectricField_Poisson \/ Transported

-----------------------------------------------------------------------------
\* The law of Gauss, told with positions and no finite element index.  After each
\* solve, also the second one whose matrix is factored and whose boundary rows
\* are written again: the points at one place have one potential; it is the
\* imposed one on the boundary; anywhere else the field that leaves the basis
\* functions of a place is the charge that they hold, less the mean if it is
\* subtracted, and less the damping.
Flows(k, mean) ==
  LET o == cs.pts[k].o
      Field(p) == Vec(LAMBDA d : Var(w, p - 1, index_e + d - 1))
      leaving == Sum(1, Len(cs.grad[k]), LAMBDA p :
                   cs.pts[o + p].wpg * ((-InPlane(Field(o + p), cs.grad[k][p])) % P))
      held    == Var(w, k - 1, index_rho) - mean - Damping * Var(w, k - 1, index_phi)
  IN  (leaving - Product(held, cs.pts[k].wpg)) % P
GaussLaw ==
  pc = "solved" =>
    \A mean \in {MeanCharge(w, cs.pts)}, x \in {p.x : p \in Range(cs.pts)} :
      LET here == {k \in DOMAIN cs.pts : cs.pts[k].x = x}
          imposed == {p \in BoundaryPoints : p.ino + 1 \in here}
          phi(k) == Var(w, k - 1, index_phi)
      IN  /\ \A k, l \in here : phi(k) = phi(l)
          /\ \A b \in imposed : \A k \in here : phi(k) = ImposedPotential(b.x, tnow)
          /\ imposed = {} => MapThenSumSet(LAMBDA k : Flows(k, mean), here) % P = 0
=============================================================================
