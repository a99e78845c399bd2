--------------------------- MODULE ImplicitSchemes ---------------------------
(***************************************************************************)
(* The serial implicit schemes of implicit.c: ThetaTimeScheme (one matrix  *)
(* for the mesh), LocalThetaTimeScheme (one per element, the neighbours    *)
(* are explicit) and ThetaTimeScheme_WithJF (no matrix).                   *)
(*                                                                         *)
(* One action per pass over the mesh.  The time step is 2 and theta 1/2    *)
(* (both are fixed in the code), so that theta * dt and the times are      *)
(* integers.  LU always uses the skyline, as the code sets it.             *)
(***************************************************************************)
EXTENDS DGAssembly

CONSTANT Problems   \* [scheme, sim, w0, tmax, uniform, closed], see MCImplicitSchemes

VARIABLES problem,    \* what is simulated, and by which scheme
          pc,         \* the pass that comes next
          tnow,       \* simu->tnow, in halves of time steps
          ftnow,      \* fd[ie].tnow
          tstep,      \* iterations done
          w,          \* simu->w
          implicit,   \* solver_implicit
          explicit,   \* solver_explicit
          res,        \* ... and its product with w
          local,      \* fd[ie].solver and fd[ie].rmat
          trace       \* wL and wR of each interface
vars == << problem, pc, tnow, ftnow, tstep, w, implicit, explicit, res, local, trace >>

sim     == problem.sim
dt      == 2
ThetaDt == 1
Itermax == problem.tmax \div dt
None    == << >>
AllAt(t) == Tuple(sim.n, LAMBDA e : t)

Init ==
  /\ problem \in Problems
  /\ pc = "init" /\ tnow = 0 /\ ftnow = AllAt(0) /\ tstep = 0
  /\ w = problem.w0
  /\ implicit = None /\ explicit = None /\ res = None /\ local = None /\ trace = None

(***************************************************************************)
(* ThetaTimeScheme.                                                        *)
(***************************************************************************)
InitImplicitLinearSolver(s) ==
  AllocateLinearSolver(InterfaceCoupling(FluxCoupling(InternalCoupling(
    InitLinearSolver(s.n * Wsize(s), "SKYLINE", "LU"), s), s), s))

AssemblyImplicitLinearSolver(lsol, s, t, coef) ==
  LET matrix == IF lsol.mat_is_assembly THEN lsol
                ELSE InterfaceAssembly(FluxAssembly(InternalAssembly(
                       MassAssembly(lsol, s), s, coef), s, coef), s, t, coef)
  IN  IF lsol.rhs_is_assembly THEN matrix
      ELSE [matrix EXCEPT !.rhs = SourceAssembly(Zeros(lsol.neq), s, t, coef)]

ThetaInit ==
  /\ pc = "init" /\ problem.scheme = "Theta"
  /\ implicit' = InitImplicitLinearSolver(sim) /\ explicit' = implicit'
  /\ res' = Zeros(Len(w))
  /\ tnow' = 0 /\ ftnow' = AllAt(0) /\ tstep' = 0
  /\ pc' = "explicit"
  /\ UNCHANGED << problem, w, local, trace >>

Flagged(lsol) == [lsol EXCEPT !.mat_is_assembly = (tstep # 0), !.rhs_is_assembly = FALSE]

ThetaExplicit ==
  /\ pc = "explicit" /\ problem.scheme = "Theta" /\ tstep < Itermax
  /\ implicit' = Flagged(implicit)
  /\ explicit' = AssemblyImplicitLinearSolver(Flagged(explicit), sim, ftnow, ThetaDt - dt)
  /\ tnow' = tnow + dt /\ ftnow' = AllAt(tnow')
  /\ pc' = "implicit"
  /\ UNCHANGED << problem, tstep, w, res, local, trace >>

ThetaImplicit ==
  /\ pc = "implicit" /\ problem.scheme = "Theta"
  /\ implicit' = AssemblyImplicitLinearSolver(implicit, sim, ftnow, ThetaDt)
  /\ pc' = "solve"
  /\ UNCHANGED << problem, tnow, ftnow, tstep, w, explicit, res, local, trace >>

ThetaSolve ==
  /\ pc = "solve" /\ problem.scheme = "Theta"
  /\ res' = MatVect(explicit, w)
  /\ implicit' = Advanced_SolveLinearSolver([implicit EXCEPT
                   !.rhs = Added(Subtracted(@, explicit.rhs), res'), !.solver_type = "LU"])
  /\ w' = implicit'.sol
  /\ tstep' = tstep + 1
  /\ pc' = "explicit"
  /\ UNCHANGED << problem, tnow, ftnow, explicit, local, trace >>

(***************************************************************************)
(* LocalThetaTimeScheme.                                                   *)
(***************************************************************************)
InitFieldImplicitSolver(ie) ==
  LET empty  == InitLinearSolver(Wsize(sim), "SKYLINE", "LU")
      solver == AllocateLinearSolver(FluxLocalCoupling(InternalLocalCoupling(empty, sim, 0), sim, 0))
  IN  [solver |-> solver, rmat |-> solver]

AssemblyFieldImplicitSolver(fd, ie) ==
  LET done == FluxLocalAssembly(InternalLocalAssembly(MassLocalAssembly(fd, sim),
                sim, ie, ThetaDt, ThetaDt - dt), sim, ie, ThetaDt, ThetaDt - dt)
  IN  IF fd.solver.mat_is_assembly THEN fd
      ELSE [done EXCEPT !.solver.mat_is_assembly = TRUE, !.rmat.mat_is_assembly = TRUE,
                        !.solver.rhs = Zeros(Wsize(sim))]

LocalInit ==
  LET volume == Tuple(sim.n, LAMBDA e :
                  AssemblyFieldImplicitSolver(InitFieldImplicitSolver(e - 1), e - 1))
  IN  /\ pc = "init" /\ problem.scheme = "Local"
      /\ local' = Loop(volume, 1, Len(sim.inter), LAMBDA fd, i :
                    InterfaceLocalAssembly(fd, sim, sim.inter[i],
                      ftnow[sim.inter[i].L + 1], ThetaDt, ThetaDt - dt))
      /\ trace' = Tuple(Len(sim.inter), LAMBDA i : << None, None >>)
      /\ tnow' = 0 /\ pc' = "product"
      /\ UNCHANGED << problem, ftnow, tstep, w, implicit, explicit, res >>

\* The loop tests the time, not the number of steps.
LocalProduct ==
  /\ pc = "product" /\ tnow < problem.tmax
  /\ ftnow' = AllAt(tnow)
  /\ local' = Tuple(sim.n, LAMBDA e :
       [local[e] EXCEPT !.solver.rhs = MatVect(local[e].rmat, InElement(sim, w, e - 1))])
  /\ pc' = "source"
  /\ UNCHANGED << problem, tnow, tstep, w, implicit, explicit, res, trace >>

LocalSource ==
  /\ pc = "source"
  /\ tnow' = tnow + ThetaDt /\ ftnow' = AllAt(tnow')
  /\ local' = Tuple(sim.n, LAMBDA e :
       [local[e] EXCEPT !.solver.rhs = SourceLocalAssembly(@, sim, e - 1, 0, ftnow'[e], dt)])
  /\ pc' = "faces"
  /\ UNCHANGED << problem, tstep, w, implicit, explicit, res, trace >>

\* What one side of a face receives from the state of the other one.
Receive(fd, i, side) ==
  LET f    == sim.inter[i]
      ie   == IF side = 0 THEN f.L ELSE f.R
      fext == IF side = 0 THEN f.R ELSE f.L
      wext == IF fext < 0 THEN None ELSE InElement(sim, w, fext)
  IN  IF ie < 0 THEN fd
      ELSE [fd EXCEPT ![ie + 1].solver.rhs =
              InterfaceExplicitFlux(@, sim, f, side, wext, ftnow[ie + 1], dt)]

LocalFaces ==
  /\ pc = "faces"
  /\ trace' = ExtractInterfaces(sim, w, trace)
  /\ local' = Loop(local, 1, Len(sim.inter), LAMBDA fd, i : Receive(Receive(fd, i, 0), i, 1))
  /\ pc' = "local_solve"
  /\ UNCHANGED << problem, tnow, ftnow, tstep, w, implicit, explicit, res >>

LocalSolve ==
  /\ pc = "local_solve"
  /\ tnow' = tnow + dt - ThetaDt /\ ftnow' = AllAt(tnow')
  /\ local' = Tuple(sim.n, LAMBDA e : [local[e] EXCEPT !.solver = SolveLinearSolver(@)])
  /\ w' = FlattenSeq(Tuple(sim.n, LAMBDA e : local'[e].solver.sol))
  /\ tstep' = tstep + 1
  /\ pc' = "product"
  /\ UNCHANGED << problem, implicit, explicit, res, trace >>

(***************************************************************************)
(* ThetaTimeScheme_WithJF.  Here implicit has only a right-hand side and a *)
(* solution; the vector it is linearised at is simu->w itself.             *)
(***************************************************************************)
Nonlinear(v, t, coef) == NonlinearThetaVector_assembly(sim, v, t, coef)
eps == 3
MatVecJacobianFree(soln, U, x) ==
  LET Up == Nonlinear(Added(soln, Scaled(eps, x)), ftnow, ThetaDt)
  IN  Scaled(Quotient(1, eps), Subtracted(Up, U))

JFInit ==
  /\ pc = "init" /\ problem.scheme = "JF"
  /\ implicit' = [rhs |-> Zeros(Len(w)), sol |-> Zeros(Len(w))]
  /\ tnow' = 0 /\ ftnow' = AllAt(0) /\ tstep' = 0
  /\ pc' = "assemble"
  /\ UNCHANGED << problem, w, explicit, res, local, trace >>

AssemblyImplicitJFLinearSolver ==
  /\ pc = "assemble" /\ tstep < Itermax
  /\ tnow' = tnow + dt /\ ftnow' = AllAt(tnow')
  /\ implicit' = [implicit EXCEPT !.rhs =
       Subtracted(Nonlinear(w, ftnow, ThetaDt - dt), Nonlinear(w, ftnow', ThetaDt))]
  /\ res' = DtFields(sim, w, ftnow'[1])   \* DtFields_old
  /\ pc' = "solve"
  /\ UNCHANGED << problem, tstep, w, explicit, local, trace >>

SolveJFLinearSolver ==
  /\ pc = "solve" /\ problem.scheme = "JF"
  /\ LET U == Nonlinear(w, ftnow, ThetaDt)   \* the same for all products
     IN  implicit' = [implicit EXCEPT
           !.sol = drive_dgmres(Len(w), LAMBDA x : MatVecJacobianFree(w, U, x), implicit.rhs)]
  /\ w' = Added(w, implicit'.sol)
  /\ tstep' = tstep + 1
  /\ pc' = "assemble"
  /\ UNCHANGED << problem, tnow, ftnow, explicit, res, local, trace >>

(***************************************************************************)
(* The end of the three loops.                                             *)
(***************************************************************************)
Return ==
  /\ \/ pc = "explicit" /\ problem.scheme = "Theta" /\ tstep >= Itermax
     \/ pc = "assemble" /\ tstep >= Itermax
     \/ pc = "product" /\ tnow >= problem.tmax
  /\ pc' = "return"
  /\ UNCHANGED << problem, tnow, ftnow, tstep, w, implicit, explicit, res, local, trace >>

Next ==
  \/ ThetaInit \/ ThetaExplicit \/ ThetaImplicit \/ ThetaSolve
  \/ LocalInit \/ LocalProduct \/ LocalSource \/ LocalFaces \/ LocalSolve
  \/ JFInit \/ AssemblyImplicitJFLinearSolver \/ SolveJFLinearSolver
  \/ Return

-----------------------------------------------------------------------------
(***************************************************************************)
(* Properties of these three schemes; LatticeBoltzmann adds its own.       *)
(***************************************************************************)
\* What InternalCoupling, FluxCoupling and InterfaceCoupling, or
\* AllocateContinuousMatrix, switch on covers what the loops of the assembly add.
SchemesNothingStray ==
  /\ problem.scheme = "Theta" /\ implicit # None => ~implicit.stray /\ ~explicit.stray
  /\ problem.scheme = "Poisson" /\ implicit # None => ~implicit.stray
  /\ \A e \in DOMAIN local : ~local[e].solver.stray /\ ~local[e].rmat.stray

\* A step from v to new, ending at the time t, solves the theta scheme:
\*   M new + theta dt F(new, t) = M v - (1 - theta) dt F(v, t - dt).
SolvesTheta(s, v, new, t) ==
  NonlinearThetaVector_assembly(s, new, AllAt(t), ThetaDt)
    = NonlinearThetaVector_assembly(s, v, AllAt(t - dt), ThetaDt - dt)

\* A step of the local scheme, in each element e: with v = (w + w') / 2 in e and
\* the old state in its neighbours, M (w' - w) + dt F(v, t + dt / 2) = 0 in e.
\* (The matrices, the fluxes received and the source add up to the residual of
\* the global schemes.)
Middle(e) ==
  LET here(k) == (k - 1) \div Wsize(sim) = e
  IN  Tuple(Len(w), LAMBDA k : IF here(k) THEN Quotient(w[k] + w'[k], 2) ELSE w[k])
Mass(e, x) ==
  Tuple(Len(x), LAMBDA k : sim.wpg[((k - 1) \div sim.m) + 1] * x[k] % P)
LocalEquation ==
  [][pc = "local_solve" => \A e \in 0 .. sim.n - 1 :
       InElement(sim, Nonlinear(Middle(e), AllAt(tnow), dt), e)
         = Mass(e, Subtracted(InElement(sim, Middle(e), e),
             Subtracted(InElement(sim, w', e), InElement(sim, w, e))))]_vars

\* A uniform state that the boundary imposes does not change: the fluxes of the
\* points cancel, inside the elements and on all faces.
UniformStaysUniform == problem.uniform => w = problem.w0

\* Without a boundary nor a source the global schemes keep the integral of
\* every component: what leaves a point enters another one.
Integral(x) ==
  Tuple(sim.m, LAMBDA iv : Sum(0, sim.n * Npg(sim) - 1, LAMBDA p :
    x[GenericVarindex(sim, p, iv)] * sim.wpg[(p % Npg(sim)) + 1]))
SchemesConserve ==
  problem.closed => problem.scheme = "Local" \/ Integral(w) = Integral(problem.w0)

-----------------------------------------------------------------------------
(* The serial explicit scheme RK1 of simulation.c on the same simulations,   *)
(* and the single evaluation of DtFields_bis.  (RK2, RK3 and RK4 are in      *)
(* RKSchemes, as functions of the time derivative.)  simu->dtw is res.       *)

ExplicitInit ==
  /\ pc = "init" /\ problem.scheme \in {"RK1", "bis"}
  /\ res' = Zeros(Len(w))
  /\ trace' = Tuple(Len(sim.inter), LAMBDA i : << None, None >>)
  /\ tnow' = 0 /\ pc' = "dtfields"
  /\ UNCHANGED << problem, ftnow, tstep, w, implicit, explicit, local >>

DtFieldsRK1 ==
  /\ pc = "dtfields" /\ problem.scheme = "RK1" /\ tnow < problem.tmax
  /\ ftnow' = AllAt(tnow)
  /\ res' = DtFields(sim, w, tnow)
  /\ pc' = "rk_out"
  /\ UNCHANGED << problem, tnow, tstep, w, implicit, explicit, local, trace >>

RK_out ==
  /\ pc = "rk_out"
  /\ w' = Added(w, Scaled(dt, res))
  /\ tnow' = tnow + dt /\ tstep' = tstep + 1
  /\ pc' = "dtfields"
  /\ UNCHANGED << problem, ftnow, implicit, explicit, res, local, trace >>

DtFieldsBis ==
  /\ pc = "dtfields" /\ problem.scheme = "bis"
  /\ ftnow' = AllAt(tnow)
  /\ trace' = ExtractInterfaces(sim, w, trace)
  /\ res' = DtFields_bis(sim, w, tnow, trace')
  /\ pc' = "evaluated"
  /\ UNCHANGED << problem, tnow, tstep, w, implicit, explicit, local >>

ExplicitReturn ==
  /\ \/ pc = "dtfields" /\ problem.scheme = "RK1" /\ tnow >= problem.tmax
     \/ pc = "evaluated"
  /\ pc' = "return"
  /\ UNCHANGED << problem, tnow, ftnow, tstep, w, implicit, explicit, res, local, trace >>

ExplicitNext == ExplicitInit \/ DtFieldsRK1 \/ RK_out \/ DtFieldsBis \/ ExplicitReturn

-----------------------------------------------------------------------------
\* The time derivative is the one of the implicit schemes, M dtw + F(w, t) = 0,
\* whether it is computed face by face or from both sides of each face, and for
\* the elements of the scheme without matrix too.  (Nonlinear(v, t, c) is
\* M v + c F(v, t).)
DerivativeIsResidual ==
  [][(pc \in {"dtfields", "assemble"} /\ pc' # "return") =>
       Nonlinear(res', ftnow', 0)
         = Subtracted(Nonlinear(w, ftnow', -1), Nonlinear(w, ftnow', 0))]_vars
=============================================================================
