--------------------------- MODULE LatticeBoltzmann ---------------------------
(***************************************************************************)
(* The lattice Boltzmann schemes: LBMThetaTimeScheme (lbm_timeschemes.c)   *)
(* and LatticeThetaTimeScheme (lattice.c), added to those of               *)
(* ImplicitSchemes.  A time step relaxes the micro state towards the       *)
(* equilibrium of the macro state, transports the nodes one after the      *)
(* other with a theta scheme that has its own matrices for each node, and  *)
(* computes the macro state again.                                         *)
(*                                                                         *)
(* simu_advec is the simulation of ImplicitSchemes: w is the state of one  *)
(* node, current_node_index says which, tnow and ftnow are its times;      *)
(* implicit and explicit are tuples of solvers, one for each node.         *)
(***************************************************************************)
EXTENDS ImplicitSchemes, Lattice

VARIABLES node,   \* current_node_index
          wmic,   \* the micro state: for each node, its values at the points
          wmac,   \* the macro state: for each point, its moments
          ltnow   \* lbsimu->tnow
lbvars  == << node, wmic, wmac, ltnow >>
allvars == << vars, lbvars >>

Kinetic == problem.scheme \in {"LBM", "Lattice"}
lb      == problem.lb
Points  == sim.n * Npg(sim)
At(f, p) == Tuple(lb.q, LAMBDA i : f[i][p])

\* The transport of the node i as a simulation, with what its boundary fluxes
\* read: its equilibrium in the imposed state, and the opposite node as it is.
Advected(i, f) ==
  [sim EXCEPT !.model.v = lb.vi[i], !.model.imposed = feq_i(lb, i, problem.imposed),
              !.model.opposite = f[lb.iopposite[i]]]
LItermax == problem.tmax \div dt + 1

(***************************************************************************)
(* The hooks: pre_advec and post_advec, pre_dtfields and post_dtfields.    *)
(***************************************************************************)
Equilibrium(macro) == Tuple(lb.q, LAMBDA i : Tuple(Points, LAMBDA p : feq_i(lb, i, macro[p])))

Relaxed(f, rate, feq) ==
  Tuple(lb.q, LAMBDA i : Subtracted(f[i], Scaled(rate, Subtracted(f[i], feq[i]))))
\* The rate lbm.s[0] is chosen by the application.
LB_Relaxation_bgk_f == Relaxed(wmic, problem.rate, Equilibrium(wmac))
Compute_relaxation  == Relaxed(wmic, Quotient(dt, problem.tau + dt \div 2), Equilibrium(wmac))

LB_ComputeMacroFromMicro == Tuple(Points, LAMBDA p : f_to_macro(lb, At(wmic, p)))
Compute_moments ==
  Tuple(Points, LAMBDA p :
    LET f == At(wmic, p)
        rho == Sum(1, lb.q, LAMBDA i : f[i])
        j(d) == Sum(1, lb.q, LAMBDA i : f[i] * lb.vi[i][d])
    IN  << rho, Quotient(j(1), rho), Quotient(j(2), rho) >>)

(***************************************************************************)
(* The assembly for one node: that of implicit.c, except that it copies    *)
(* the micro state of each point of the boundary in wmic_buffer before it  *)
(* calls the boundary flux (what the flux reads of it is in advec).        *)
(***************************************************************************)
LBM_InterfaceAssembly(lsol, advec, t, coef) == InterfaceAssembly(lsol, advec, t, coef)
LBM_SourceAssembly(rhs, advec, t, coef)     == SourceAssembly(rhs, advec, t, coef)
LBM_AssemblyImplicitLinearSolver(lsol, advec, t, coef) ==
  LET matrix == IF lsol.mat_is_assembly THEN lsol
                ELSE LBM_InterfaceAssembly(FluxAssembly(InternalAssembly(
                       MassAssembly(lsol, advec), advec, coef), advec, coef), advec, t, coef)
  IN  IF lsol.rhs_is_assembly THEN matrix
      ELSE [matrix EXCEPT !.rhs = LBM_SourceAssembly(Zeros(lsol.neq), advec, t, coef)]

(***************************************************************************)
(* The steps.                                                              *)
(***************************************************************************)
InitLB ==
  /\ Init
  /\ node = 1 /\ ltnow = 0 /\ wmic = None
  /\ wmac = IF Kinetic THEN problem.macro ELSE None

\* The micro state starts at equilibrium.
InitLBMSimulation ==
  /\ pc = "init" /\ Kinetic
  /\ wmic' = Equilibrium(wmac)
  /\ pc' = "solvers"
  /\ UNCHANGED << problem, tnow, ftnow, tstep, w, implicit, explicit, res, local, trace >>
  /\ UNCHANGED << node, wmac, ltnow >>

LBMInit ==
  /\ pc = "solvers"
  /\ implicit' = Tuple(lb.q, LAMBDA i : InitImplicitLinearSolver(sim)) /\ explicit' = implicit'
  /\ res' = Zeros(Len(w))
  /\ ltnow' = 0 /\ tnow' = 0 /\ ftnow' = AllAt(0) /\ tstep' = 0
  /\ pc' = "relax"
  /\ UNCHANGED << problem, w, local, trace, node, wmic, wmac >>

LBMRelax ==
  /\ pc = "relax" /\ tstep < LItermax
  /\ wmic' = IF problem.scheme = "LBM" THEN LB_Relaxation_bgk_f ELSE Compute_relaxation
  /\ node' = 1
  /\ pc' = IF problem.scheme = "LBM" THEN "explicit" ELSE "nodes"
  /\ UNCHANGED << problem, tnow, ftnow, tstep, w, implicit, explicit, res, local, trace >>
  /\ UNCHANGED << wmac, ltnow >>

LBMExplicit ==
  /\ pc = "explicit" /\ problem.scheme = "LBM"
  /\ w' = wmic[node]
  /\ tnow' = ltnow /\ ftnow' = AllAt(tnow')
  /\ implicit' = [implicit EXCEPT ![node] = Flagged(@)]
  /\ \E advec \in {Advected(node, wmic)} :
       explicit' = [explicit EXCEPT ![node] =
         LBM_AssemblyImplicitLinearSolver(Flagged(@), advec, ftnow', ThetaDt - dt)]
  /\ pc' = "implicit"
  /\ UNCHANGED << problem, tstep, res, local, trace, lbvars >>

LBMImplicit ==
  /\ pc = "implicit" /\ problem.scheme = "LBM"
  /\ tnow' = ltnow + dt /\ ftnow' = AllAt(tnow')
  /\ \E advec \in {Advected(node, wmic)} :
       implicit' = [implicit EXCEPT ![node] =
         LBM_AssemblyImplicitLinearSolver(@, advec, ftnow', ThetaDt)]
  /\ pc' = "solve"
  /\ UNCHANGED << problem, tstep, w, explicit, res, local, trace, lbvars >>

LBMSolve ==
  /\ pc = "solve" /\ problem.scheme = "LBM"
  /\ res' = MatVect(explicit[node], w)
  /\ implicit' = [implicit EXCEPT ![node] = Advanced_SolveLinearSolver([@ EXCEPT
       !.rhs = Added(Subtracted(@, explicit[node].rhs), res'), !.solver_type = "LU"])]
  /\ w' = implicit'[node].sol
  /\ wmic' = [wmic EXCEPT ![node] = w']
  /\ node' = IF node < lb.q THEN node + 1 ELSE node
  /\ pc' = IF node < lb.q THEN "explicit" ELSE "moments"
  /\ UNCHANGED << problem, tnow, ftnow, tstep, explicit, local, trace, wmac, ltnow >>

X_NoMoments ==
  /\ pc = "moments"
  /\ ltnow' = ltnow + dt /\ tnow' = ltnow' /\ ftnow' = AllAt(ltnow')
  /\ tstep' = tstep + 1
  /\ pc' = "relax"
  /\ UNCHANGED << problem, w, implicit, explicit, res, local, trace, node, wmic, wmac >>
LBMMoments ==
  /\ pc = "moments"
  /\ wmac' = IF problem.scheme = "LBM" THEN LB_ComputeMacroFromMicro ELSE Compute_moments
  /\ ltnow' = ltnow + dt /\ tnow' = ltnow' /\ ftnow' = AllAt(ltnow')
  /\ tstep' = tstep + 1
  /\ pc' = "relax"
  /\ UNCHANGED << problem, w, implicit, explicit, res, local, trace, node, wmic >>

LBMReturn ==
  /\ pc = "relax" /\ tstep >= LItermax
  /\ pc' = "return"
  /\ UNCHANGED << problem, tnow, ftnow, tstep, w, implicit, explicit, res, local, trace, lbvars >>

(***************************************************************************)
(* LatticeThetaTimeScheme does the same with the assembly of implicit.c,   *)
(* where the boundary sees no other node.  One node in one step.           *)
(***************************************************************************)
LatticeThetaTimeScheme ==
  /\ pc = "nodes"
  /\ \E advec \in {Advected(node, wmic)} :
     \E exp \in {AssemblyImplicitLinearSolver(Flagged(explicit[node]), advec, AllAt(ltnow), ThetaDt - dt)},
        imp \in {AssemblyImplicitLinearSolver(Flagged(implicit[node]), advec, AllAt(ltnow + dt), ThetaDt)} :
       /\ explicit' = [explicit EXCEPT ![node] = exp]
       /\ res' = MatVect(exp, wmic[node])
       /\ implicit' = [implicit EXCEPT ![node] = Advanced_SolveLinearSolver([imp EXCEPT
            !.rhs = Added(Subtracted(@, exp.rhs), res')])]
  /\ w' = implicit'[node].sol
  /\ wmic' = [wmic EXCEPT ![node] = w']
  /\ node' = IF node < lb.q THEN node + 1 ELSE node
  /\ tnow' = ltnow + dt /\ ftnow' = AllAt(tnow')
  /\ pc' = IF node < lb.q THEN "nodes" ELSE "moments"
  /\ UNCHANGED << problem, tstep, local, trace, wmac, ltnow >>

LBMNext ==
  \/ InitLBMSimulation \/ LBMInit \/ LBMRelax \/ LBMExplicit \/ LBMImplicit \/ LBMSolve
  \/ LatticeThetaTimeScheme \/ LBMMoments \/ LBMReturn
-----------------------------------------------------------------------------
(***************************************************************************)
(* Properties.                                                             *)
(***************************************************************************)
\* The matrices have a place for every term that is added to them, also those
\* of the nodes, which are allocated before the node is known.
NothingStray ==
  IF ~Kinetic THEN SchemesNothingStray
  ELSE \A i \in DOMAIN implicit : ~implicit[i].stray /\ ~explicit[i].stray

\* A step of the global schemes, and of each node of the lattice in its turn,
\* solves the theta scheme, whether its matrix is assembled, factored and kept
\* from step to step, or never formed.  The members of the equation are those
\* of NonlinearThetaVector_assembly.  At a wall the opposite node is the one the
\* sequence of the nodes has reached.
ThetaEquation ==
  [][(pc \in {"solve", "nodes"}) =>
       IF Kinetic THEN \A advec \in {Advected(node, wmic)} :
                         SolvesTheta(advec, wmic[node], wmic'[node], ltnow + dt)
       ELSE SolvesTheta(sim, w, w', tnow)]_allvars

\* A collision changes no moment at any point: the macro state it relaxes to is
\* the one of the micro state it starts from, transported since then.
CollisionsConserve ==
  [][pc = "relax" /\ tstep < LItermax /\ Kinetic =>
       \A p \in 1 .. Points : Moments(lb, At(wmic', p)) = Moments(lb, At(wmic, p))]_allvars

\* Without a boundary nor a source the global schemes keep the integral of
\* every component, and the lattice that of every moment: what leaves a point
\* enters another one.
Total(f) ==
  LET integral == Tuple(lb.q, LAMBDA i : Sum(1, Points, LAMBDA p :
                          f[i][p] * sim.wpg[((p - 1) % Npg(sim)) + 1]))
  IN  Moments(lb, integral)
Conserves ==
  IF ~Kinetic THEN SchemesConserve
  ELSE problem.closed /\ wmic # None => Total(wmic) = Total(Equilibrium(problem.macro))
=============================================================================
