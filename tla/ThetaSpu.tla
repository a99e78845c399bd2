------------------------------ MODULE ThetaSpu ------------------------------
(***************************************************************************)
(* What the two task-based implicit theta schemes (implicit.c) share.      *)
(* theta is 1/2; the matrices have been factorised and the handles         *)
(* registered before the first time step.                                  *)
(***************************************************************************)
EXTENDS SpuHost

ASSUME ThetaAssumption == HasSolver

VARIABLE ftnow   \* f->tnow, the time packed into the tasks of a field

StartKernel(i)  == Start(i) /\ UNCHANGED << pc, k, tnow, ftnow >>
FinishKernel(i) == Finish(i) /\ UNCHANGED << pc, k, tnow, ftnow >>

Workers ==
  \/ \E i \in DOMAIN queue \ done : StartKernel(i)
  \/ \E i \in Running : FinishKernel(i)

-----------------------------------------------------------------------------
\* The time step a task on element e belongs to: its MatVect opens it.
StepOf(i, e) ==
  Cardinality({j \in 1..i : queue[j].cl = "MatVectSkyline" /\ queue[j].buf[2] = rhs_handle(e)})

\* How many time steps element e has taken: its finished solves.
level ==
  [e \in Elem |-> Cardinality({i \in done : /\ queue[i].cl = "SolveSkyline"
                                            /\ queue[i].buf[1] = sol_handle(e)})]

\* A running solve of element e started on a right-hand side of its own time
\* step that is complete: the product with the old state, the source, and a
\* flux for each of the sides of faces the scheme takes into account.
SolveIsComplete(sides(_)) ==
  \A i \in Running : queue[i].cl = "SolveSkyline" =>
    LET e     == queue[i].buf[1][2]
        rhs   == view[i][rhs_handle(e)]
        Of(c) == {j \in rhs : queue[j].cl = c}
    IN  /\ \A j \in rhs : StepOf(j, e) = StepOf(i, e)
        /\ Cardinality(Of("MatVectSkyline")) = 1
        /\ Cardinality(Of("SourceLocalAssembly")) = IF HasSource THEN 1 ELSE 0
        /\ Cardinality(Of("InterfaceBoundaryFlux") \cup Of("InterfaceExplicitFlux")) =
             Cardinality(sides(e))

\* A running flux reads what its neighbour put into the face in the same time
\* step: not still that of the last step, not already that of the next.
FluxSeesThisStep ==
  \A i \in Running : queue[i].cl = "InterfaceExplicitFlux" =>
    LET e     == queue[i].buf[2][2]
        wface == queue[i].buf[1]
        f     == wface[2]
        u     == IF fL[f] = e THEN fR[f] ELSE fL[f]
    IN  \E j \in 1..(i - 1) :
          /\ view[i][wface] = {j}
          /\ queue[j].cl = "ExtractInterface" /\ queue[j].buf[2] = sol_handle(u)
          /\ StepOf(j, u) = StepOf(i, e)

\* A running extraction copies the state its element reached `lag` time steps
\* before; the initial state if there is none.
ExtractLags(lag) ==
  \A i \in Running : queue[i].cl = "ExtractInterface" =>
    LET u == queue[i].buf[2][2]
        s == StepOf(i, u) - lag
    IN  IF s = 0 THEN view[i][sol_handle(u)] = {}
        ELSE \E j \in 1..(i - 1) : /\ view[i][sol_handle(u)] = {j}
                                   /\ queue[j].cl = "SolveSkyline" /\ StepOf(j, u) = s
=============================================================================
