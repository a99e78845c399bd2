--------------------------- MODULE LocalThetaSpu ---------------------------
(***************************************************************************)
(* LocalThetaTimeScheme_SPU (implicit.c): every macro-element is solved    *)
(* for itself, with the state its neighbours had at the end of the last    *)
(* time step.  Four loops submit the tasks of a time step; there is no     *)
(* wait before the end of the last one.                                    *)
(***************************************************************************)
EXTENDS ThetaSpu

vars == << rtVars, pc, k, tnow, ftnow >>

Init ==
  /\ RTInit
  /\ pc = "while" /\ k = 0 /\ tnow = 0 /\ ftnow = 0

-----------------------------------------------------------------------------
(* The host thread.                                                        *)

WhileLoop ==
  /\ While("matvect", "wait")
  /\ UNCHANGED << tnow, ftnow >>

\* The loops set f->tnow and simu->tnow moves on by theta * dt, or by
\* (1 - theta) * dt, at their end.
MatVects ==
  /\ Turn("matvect", MatVect_SPU(k), nbelems, "source")
  /\ tnow' = IF pc' = "source" THEN tnow + 1 ELSE tnow
  /\ ftnow' = tnow

Sources ==
  /\ Turn("source", SourceLocalAssembly_SPU(k, tnow), nbelems, "faces")
  /\ ftnow' = tnow
  /\ UNCHANGED tnow

\* Mutated form: the right side is not extracted.
FaceTasks_LeftOnly(f) ==
  ExtractInterface_SPU(f, 0)
    \o (IF fR[f] # Null
        THEN InterfaceExplicitFlux_SPU(f, 0) \o InterfaceExplicitFlux_SPU(f, 1)
        ELSE InterfaceBoundaryFlux_SPU(f, ftnow))

FaceTasks(f) ==
  ExtractInterface_SPU(f, 0) \o ExtractInterface_SPU(f, 1)
    \o (IF fR[f] # Null
        THEN InterfaceExplicitFlux_SPU(f, 0) \o InterfaceExplicitFlux_SPU(f, 1)
        ELSE InterfaceBoundaryFlux_SPU(f, ftnow))

Faces ==
  /\ Turn("faces", FaceTasks(k), nbfaces, "solve")
  /\ tnow' = IF pc' = "solve" THEN tnow + 1 ELSE tnow
  /\ UNCHANGED ftnow

\* Mutated form: the last element is left out.
Solves_AllButLast ==
  /\ Turn("solve", SolveLinearSolver(k), nbelems - 1, "while")
  /\ ftnow' = tnow
  /\ UNCHANGED tnow

Solves ==
  /\ Turn("solve", SolveLinearSolver(k), nbelems, "while")
  /\ ftnow' = tnow
  /\ UNCHANGED tnow

FinalWait ==
  /\ WaitForAll("wait", "return")
  /\ UNCHANGED << tnow, ftnow >>

Host == WhileLoop \/ MatVects \/ Sources \/ Faces \/ Solves \/ FinalWait

-----------------------------------------------------------------------------
Returned == pc = "return" /\ UNCHANGED vars

Next == Host \/ Workers \/ Returned

Spec == Init /\ [][Next]_vars

\* Some thread runs as long as one can: see RK2Spu.
FairSpec == Spec /\ WF_vars(Host \/ Workers)

-----------------------------------------------------------------------------
(* Properties.                                                             *)

\* The sides of faces that element e lies on.
SidesOf(e) == {s \in Face \X {0, 1} : (IF s[2] = 0 THEN fL ELSE fR)[s[1]] = e}

\* Every side of a face contributes once, and only once, to each of the systems
\* of the element that lies on it.
SolveSeesItsStep == SolveIsComplete(SidesOf)

\* The neighbours enter the system of a time step with the state they had at
\* its beginning, although they may have finished the step, or not started it.
NeighboursAtTheOldStep == FluxSeesThisStep /\ ExtractLags(1)

\* LocalThetaTimeScheme_SPU implements ElementClock with a time step for a level:
\* neighbours are never more than one time step apart.
Clock == INSTANCE ElementClock WITH Vertex <- Elem, Ahead <- 0, Lead <- 1,
           Arc <- {<< fL[f], fR[f] >> : f \in {g \in Face : fR[g] # Null}}
ElementsFollowTheClock == Clock!Spec

\* In the end the host has returned, at tmax or after it, and every element has
\* been solved at the host's time: four loops submit a step, which no barrier
\* closes, and none of them left an element behind.
AllAtTmax == pc = "return" /\ tmax <= tnow /\ (\A e \in Elem : 2 * level[e] = tnow)
Terminates == <>AllAtTmax
=============================================================================
