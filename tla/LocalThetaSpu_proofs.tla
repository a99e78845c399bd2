------------------------ MODULE LocalThetaSpu_proofs ------------------------
(***************************************************************************)
(* LocalThetaTimeScheme_SPU on every mesh.  The scheme is a program of the *)
(* runtime (Inv); the queue the host builds is in order (OrderInv), which  *)
(* gives the clock of the elements; every task of the queue, wherever it   *)
(* stands, finds in its buffers the state or the right-hand side of its    *)
(* own time step (ViewInv).  The last two invariants are about the queue   *)
(* and the host alone: the workers enter through Inv only.                 *)
(***************************************************************************)
EXTENDS LocalThetaSpu, SpuHost_proofs

-----------------------------------------------------------------------------
(* The host thread and the runtime.                                        *)

\* The host's loops and its counters.
HostLoop == {"while", "matvect", "source", "faces", "solve", "wait", "return"}
HostTypeOK ==
  /\ pc \in HostLoop
  /\ k \in Nat
  /\ pc \in {"matvect", "source", "solve"} => k \in Elem
  /\ pc = "faces" => k \in Face
  /\ pc \notin {"matvect", "source", "solve", "faces"} => k = 0
  /\ tnow \in Nat /\ ftnow \in Nat

\* The invariant of the runtime and the type of the host's variables.
Inv == RTInv /\ HostTypeOK

\* It holds at the start.
LEMMA InitInv == Init => Inv
<1>1. Init => RTInv
  BY RTInitInv DEF Init
<1>2. Init => HostTypeOK
  BY DEF Init, HostTypeOK, HostLoop
<1> QED
  BY <1>1, <1>2 DEF Inv

\* The tasks of a face are tasks,
LEMMA FaceTasksAreTasks ==
  ASSUME NEW f \in Face, ftnow \in Nat
  PROVE  FaceTasks(f) \in Seq(Task)
<1>1. 0 \in {0, 1} /\ 1 \in {0, 1} /\ ftnow \in Int
  OBVIOUS
<1>2. /\ ExtractInterface_SPU(f, 0) \in Seq(Task)
      /\ ExtractInterface_SPU(f, 1) \in Seq(Task)
      /\ InterfaceExplicitFlux_SPU(f, 0) \in Seq(Task)
      /\ InterfaceExplicitFlux_SPU(f, 1) \in Seq(Task)
      /\ InterfaceBoundaryFlux_SPU(f, ftnow) \in Seq(Task)
  BY <1>1, InterfaceTasks
<1> QED
  BY <1>2, ConcatProperties DEF FaceTasks

\* so that the host does nothing but submit tasks and wait,
LEMMA HostSteps == Inv /\ Host => [RTNext]_rtVars
<1> SUFFICES ASSUME Inv, Host PROVE [RTNext]_rtVars
  OBVIOUS
<1>1. RTTypeOK /\ HostTypeOK /\ HasSolver /\ tnow \in Int
  BY ThetaAssumption DEF Inv, RTInv, HostTypeOK
<1>2. CASE WhileLoop
  BY <1>2 DEF WhileLoop, While
<1>3. CASE MatVects
  <2>1. MatVect_SPU(k) \in Seq(Task)
    BY <1>1, <1>3, ImplicitTasks DEF HostTypeOK, MatVects, Turn
  <2> QED
    BY <1>1, <1>3, <2>1, HostStep DEF MatVects
<1>4. CASE Sources
  <2>1. SourceLocalAssembly_SPU(k, tnow) \in Seq(Task)
    BY <1>1, <1>4, ImplicitTasks DEF HostTypeOK, Sources, Turn
  <2> QED
    BY <1>1, <1>4, <2>1, HostStep DEF Sources
<1>5. CASE Faces
  <2>1. FaceTasks(k) \in Seq(Task)
    BY <1>1, <1>5, FaceTasksAreTasks DEF HostTypeOK, Faces, Turn
  <2> QED
    BY <1>1, <1>5, <2>1, HostStep DEF Faces
<1>6. CASE Solves
  <2>1. SolveLinearSolver(k) \in Seq(Task)
    BY <1>1, <1>6, ImplicitTasks DEF HostTypeOK, Solves, Turn
  <2> QED
    BY <1>1, <1>6, <2>1, HostStep DEF Solves
<1>7. CASE FinalWait
  BY <1>7 DEF FinalWait, WaitForAll
<1> QED
  BY <1>2, <1>3, <1>4, <1>5, <1>6, <1>7 DEF Host

\* the workers run them,
LEMMA WorkersSteps == Inv /\ Workers => [RTNext]_rtVars
<1> SUFFICES ASSUME Inv, Workers PROVE RTNext
  OBVIOUS
<1>1. RTTypeOK
  BY DEF Inv, RTInv
<1>2. CASE \E i \in DOMAIN queue \ done : StartKernel(i)
  BY <1>1, <1>2, WorkerAction DEF StartKernel
<1>3. CASE \E i \in Running : FinishKernel(i)
  BY <1>1, <1>3, WorkerAction DEF FinishKernel
<1> QED
  BY <1>2, <1>3 DEF Workers

\* and every step of the scheme is one of the runtime.
LEMMA StepsAreRTSteps == Inv /\ [Next]_vars => [RTNext]_rtVars
<1>1. UNCHANGED vars => UNCHANGED rtVars
  BY DEF vars
<1> QED
  BY <1>1, HostSteps, WorkersSteps DEF Next, Returned

\* What each loop of the host does to its counters: the products,
LEMMA MatVectsTurn ==
  ASSUME HostTypeOK, MatVects
  PROVE  /\ pc = "matvect" /\ k \in Elem /\ Submit(MatVect_SPU(k)) /\ ftnow' = tnow
         /\ \/ pc' = "matvect" /\ k' = k + 1 /\ k' \in Elem /\ tnow' = tnow
            \/ pc' = "source" /\ k' = 0 /\ k = nbelems - 1 /\ tnow' = tnow + 1
BY AfterTurn, Loops DEF HostTypeOK, MatVects, Turn

\* the sources,
LEMMA SourcesTurn ==
  ASSUME HostTypeOK, Sources
  PROVE  /\ pc = "source" /\ k \in Elem /\ Submit(SourceLocalAssembly_SPU(k, tnow))
         /\ ftnow' = tnow /\ tnow' = tnow
         /\ \/ pc' = "source" /\ k' = k + 1 /\ k' \in Elem
            \/ pc' = "faces" /\ k' = 0 /\ k = nbelems - 1
BY AfterTurn, Loops DEF HostTypeOK, Sources, Turn

\* the faces,
LEMMA FacesTurn ==
  ASSUME HostTypeOK, Faces
  PROVE  /\ pc = "faces" /\ k \in Face /\ Submit(FaceTasks(k)) /\ ftnow' = ftnow
         /\ \/ pc' = "faces" /\ k' = k + 1 /\ k' \in Face /\ tnow' = tnow
            \/ pc' = "solve" /\ k' = 0 /\ k = nbfaces - 1 /\ tnow' = tnow + 1
BY AfterTurn, Loops DEF HostTypeOK, Faces, Turn

\* the solves.
LEMMA SolvesTurn ==
  ASSUME HostTypeOK, Solves
  PROVE  /\ pc = "solve" /\ k \in Elem /\ Submit(SolveLinearSolver(k))
         /\ ftnow' = tnow /\ tnow' = tnow
         /\ \/ pc' = "solve" /\ k' = k + 1 /\ k' \in Elem
            \/ pc' = "while" /\ k' = 0 /\ k = nbelems - 1
BY AfterTurn, Loops DEF HostTypeOK, Solves, Turn

\* The host's variables keep their type.
LEMMA HostTypeStep == Inv /\ [Next]_vars => HostTypeOK'
<1> SUFFICES ASSUME Inv, [Next]_vars PROVE HostTypeOK'
  OBVIOUS
<1>1. HostTypeOK
  BY DEF Inv
<1>2. CASE MatVects \/ Sources \/ Faces \/ Solves
  BY <1>1, <1>2, MatVectsTurn, SourcesTurn, FacesTurn, SolvesTurn, Loops DEF HostTypeOK, HostLoop
<1>3. CASE WhileLoop
  BY <1>1, <1>3, Loops DEF WhileLoop, While, HostTypeOK, HostLoop
<1>4. CASE FinalWait
  BY <1>1, <1>4 DEF FinalWait, WaitForAll, HostTypeOK, HostLoop
<1>5. CASE Workers \/ UNCHANGED vars
  BY <1>1, <1>5 DEF Workers, StartKernel, FinishKernel, vars, HostTypeOK
<1> QED
  BY <1>2, <1>3, <1>4, <1>5 DEF Next, Host, Returned

\* The invariant of the runtime holds of the scheme, whose host submits well-formed tasks only.
THEOREM LocalThetaInvariant == Spec => []Inv
<1>1. Inv /\ [Next]_vars => RTInv'
  BY StepsAreRTSteps, RTStep DEF Inv
<1>2. Inv /\ [Next]_vars => Inv'
  BY <1>1, HostTypeStep DEF Inv
<1> QED
  BY InitInv, <1>2, PTL DEF Spec

\* LocalThetaTimeScheme_SPU is a program of the runtime: what SpuHost_proofs proves of all
\* programs holds of it.
THEOREM LocalThetaImplementsRuntime == Spec => RTSpec
<1>1. Init => RTInit
  BY DEF Init
<1> QED
  BY <1>1, StepsAreRTSteps, LocalThetaInvariant, PTL DEF Spec, RTSpec

\* Two running tasks of the scheme never conflict,
THEOREM LocalThetaRaceFree == Spec => []NoDataRace
BY LocalThetaImplementsRuntime, RaceFree, PTL

\* and its tasks see what a run of the program in order would give them.
THEOREM LocalThetaSequentialView == Spec => []SequentialView
BY LocalThetaImplementsRuntime, SequentialSemantics, PTL

-----------------------------------------------------------------------------
(* What the tasks of the scheme do.                                        *)

\* With a solver the interfaces work on sol and rhs.
LEMMA StateIsSol ==
  \A e : state_handle(e) = sol_handle(e) /\ flux_handle(e) = rhs_handle(e)
BY ThetaAssumption, SolverState

-----------------------------------------------------------------------------
(* What a turn of each loop submits.                                       *)

\* On a face: if it lies between two elements, the extractions first, then the
\* flux of each side from the state of the other.
LEMMA FaceTasksShape ==
  ASSUME NEW f \in Face, ftnow \in Nat
  PROVE  /\ FaceTasks(f) \in Seq(RhsTask)
         /\ fR[f] # Null =>
              LET ts == FaceTasks(f)
              IN  /\ Len(ts) = 4
                  /\ ReadOnly(ts[1], sol_handle(fL[f])) /\ ReadOnly(ts[2], sol_handle(fR[f]))
                  /\ Writes(ts[3], rhs_handle(fL[f])) /\ Writes(ts[4], rhs_handle(fR[f]))
                  /\ Ordered(ts[2], ts[3]) /\ Ordered(ts[1], ts[4])
<1>1. ftnow \in Int /\ 0 \in {0, 1} /\ 1 \in {0, 1} /\ fL[f] \in Elem /\ fL[f] # Null
      /\ (fR[f] # Null => fR[f] \in Elem) /\ << >> \in Seq(RhsTask)
  BY Sides
<1>2. /\ \A side \in {0, 1} : /\ ExtractInterface_SPU(f, side) \in Seq(Task)
                              /\ InterfaceExplicitFlux_SPU(f, side) \in Seq(Task)
      /\ InterfaceBoundaryFlux_SPU(f, ftnow) \in Seq(Task)
  BY <1>1, InterfaceTasks
<1>3. ASSUME NEW e \in Elem, NEW x
      PROVE  /\ \A h \in {wL_handle(f), wR_handle(f)} :
                  /\ IsRhsTask([cl |-> "ExtractInterface", buf |-> << h, sol_handle(e) >>, arg |-> x])
                  /\ IsRhsTask([cl |-> "InterfaceExplicitFlux", buf |-> << h, rhs_handle(e) >>, arg |-> x])
             /\ IsRhsTask([cl |-> "InterfaceBoundaryFlux", buf |-> << rhs_handle(e) >>, arg |-> x])
  BY DEF IsRhsTask
<1>4. ExtractInterface_SPU(f, 0) \in Seq(RhsTask)
  BY <1>1, <1>2, <1>3, OneRhsTask, StateIsSol DEF ExtractInterface_SPU
<1>5. ExtractInterface_SPU(f, 1) \in Seq(RhsTask)
  BY <1>1, <1>2, <1>3, OneRhsTask, StateIsSol DEF ExtractInterface_SPU
<1>6. InterfaceExplicitFlux_SPU(f, 0) \in Seq(RhsTask)
  BY <1>1, <1>2, <1>3, OneRhsTask, StateIsSol DEF InterfaceExplicitFlux_SPU
<1>7. InterfaceExplicitFlux_SPU(f, 1) \in Seq(RhsTask)
  BY <1>1, <1>2, <1>3, OneRhsTask, StateIsSol DEF InterfaceExplicitFlux_SPU
<1>8. InterfaceBoundaryFlux_SPU(f, ftnow) \in Seq(RhsTask)
  BY <1>1, <1>2, <1>3, OneRhsTask, StateIsSol DEF InterfaceBoundaryFlux_SPU
<1>9. FaceTasks(f) \in Seq(RhsTask)
  BY <1>4, <1>5, <1>6, <1>7, <1>8, ConcatProperties DEF FaceTasks
<1>10. ASSUME fR[f] # Null
       PROVE  LET ts == FaceTasks(f)
              IN  /\ Len(ts) = 4
                  /\ ReadOnly(ts[1], sol_handle(fL[f])) /\ ReadOnly(ts[2], sol_handle(fR[f]))
                  /\ Writes(ts[3], rhs_handle(fL[f])) /\ Writes(ts[4], rhs_handle(fR[f]))
                  /\ Ordered(ts[2], ts[3]) /\ Ordered(ts[1], ts[4])
  <2> DEFINE a == [cl |-> "ExtractInterface", buf |-> << wL_handle(f), sol_handle(fL[f]) >>, arg |-> 0]
             b == [cl |-> "ExtractInterface", buf |-> << wR_handle(f), sol_handle(fR[f]) >>, arg |-> 0]
             c == [cl |-> "InterfaceExplicitFlux",
                   buf |-> << wR_handle(f), rhs_handle(fL[f]) >>, arg |-> 1]
             d == [cl |-> "InterfaceExplicitFlux",
                   buf |-> << wL_handle(f), rhs_handle(fR[f]) >>, arg |-> -1]
  <2>1. /\ ExtractInterface_SPU(f, 0) = << a >> /\ ExtractInterface_SPU(f, 1) = << b >>
        /\ InterfaceExplicitFlux_SPU(f, 0) = << c >> /\ InterfaceExplicitFlux_SPU(f, 1) = << d >>
    BY <1>1, <1>10, StateIsSol DEF ExtractInterface_SPU, InterfaceExplicitFlux_SPU
  <2>2. /\ ReadOnly(a, sol_handle(fL[f])) /\ ReadOnly(b, sol_handle(fR[f]))
        /\ Writes(c, rhs_handle(fL[f])) /\ Writes(d, rhs_handle(fR[f]))
        /\ Writes(b, wR_handle(f)) /\ ReadOnly(c, wR_handle(f))
        /\ Writes(a, wL_handle(f)) /\ ReadOnly(d, wL_handle(f))
    BY OneOrMoreBuffers, ImplicitCodelets DEF ReadOnly, Writes
  <2>3. a \in Task /\ b \in Task /\ c \in Task /\ d \in Task
    BY <2>1, <1>2, OneInSequence
  <2>4. Ordered(b, c) /\ Ordered(a, d)
    BY <2>2, <2>3, ReaderAfterWriter
  <2> HIDE DEF a, b, c, d
  <2> DEFINE ab == << a >> \o << b >>  cd == << c >> \o << d >>
  <2>5. /\ ab \in Seq(Task) /\ Len(ab) = 2 /\ ab[1] = a /\ ab[2] = b
        /\ cd \in Seq(Task) /\ Len(cd) = 2 /\ cd[1] = c /\ cd[2] = d
    BY <2>3, TwoTasks
  <2>6. FaceTasks(f) = ab \o cd
    BY <1>10, <2>1 DEF FaceTasks
  <2> HIDE DEF ab, cd
  <2> QED
    BY <2>2, <2>4, <2>5, <2>6, FourTasks
<1> QED
  BY <1>9, <1>10

-----------------------------------------------------------------------------
(* The order of submission.  After n time steps, the queue is in order when *)
(* each element has ended n of them (the loop over the solves being under   *)
(* way); when the right-hand sides opened and the faces gone through so far *)
(* have taken the states of this step; and when the solves waited for these.*)

\* The time after n steps: each step adds theta * dt and then (1 - theta) * dt.
TimeIs(n) ==
  tnow = 2 * n + (IF pc \in {"source", "faces"} THEN 1 ELSE IF pc = "solve" THEN 2 ELSE 0)

\* Each element has as many solves in the queue as the host has gone through.
SolvesCounted(n) ==
  \A e \in Elem : Cardinality(Ends(queue, e)) = n + (IF pc = "solve" /\ e < k THEN 1 ELSE 0)

\* The right-hand sides opened so far took the state of their element.
Opened(e) == (pc = "matvect" /\ e < k) \/ pc \in {"source", "faces", "solve"}
OpenedFed(n) == \A e \in Elem : Opened(e) => Fed(queue, e, e, n, Len(queue) + 1)

\* The faces done so far made each side take the state of the other.
FaceDone(f) == (pc = "faces" /\ f < k) \/ pc = "solve"
FluxesFed(n) ==
  \A f \in Face : fR[f] # Null /\ FaceDone(f) =>
    /\ Fed(queue, fL[f], fR[f], n, Len(queue) + 1)
    /\ Fed(queue, fR[f], fL[f], n, Len(queue) + 1)

\* The invariant.  It is about the queue and the host alone.
AfterSteps(n) == TimeIs(n) /\ SolvesCounted(n) /\ OpenedFed(n) /\ FluxesFed(n)
OrderInv ==
  /\ queue \in Seq(ThetaTask) /\ EndsAreFed(queue)
  /\ \E n \in Nat : AfterSteps(n)

\* A turn that submits tasks of right-hand sides leaves all as it is.
LEMMA RhsTurn ==
  ASSUME OrderInv, NEW ts \in Seq(RhsTask), Submit(ts)
  PROVE  /\ queue' \in Seq(ThetaTask) /\ Prefix(queue, queue')
         /\ queue \in Seq(Task) /\ ts \in Seq(Task) /\ queue' = queue \o ts /\ queue' \in Seq(Task)
         /\ \A e \in Elem : Ends(queue', e) = Ends(queue, e)
         /\ EndsAreFed(queue)'
         /\ \A e, u, n : Fed(queue, e, u, n, Len(queue) + 1) => Fed(queue', e, u, n, Len(queue') + 1)
<1> DEFINE q == queue  r == queue'
<1>1. /\ q \in Seq(ThetaTask) /\ ts \in Seq(ThetaTask) /\ q \in Seq(Task)
      /\ ts \in Seq(Task) /\ r = q \o ts /\ EndsAreFed(q)
  BY ThetaTasks DEF OrderInv, Submit
<1> HIDE DEF q, r
<1>2. r \in Seq(ThetaTask) /\ r \in Seq(Task)
  BY <1>1, ThetaTasks, ConcatProperties
<1>3. /\ Prefix(q, r)
      /\ \A i \in Len(q) + 1 .. Len(r) : i - Len(q) \in 1..Len(ts) /\ r[i] = ts[i - Len(q)]
  BY <1>1, AppendedTasks
<1>4. ASSUME NEW i \in DOMAIN r, i > Len(q) PROVE r[i] \in RhsTask
  <2>1. i \in Len(q) + 1 .. Len(r)
    BY <1>1, <1>2, <1>4, LenProperties
  <2> QED
    BY <1>3, <2>1, ElementOfSequence
<1>5. \A e \in Elem : Ends(r, e) = Ends(q, e)
  BY <1>1, <1>2, <1>3, <1>4, RhsTasksDo, StateIsSol, SameEnds
<1>6. /\ EndsAreFed(r)
      /\ \A e, u, n : Fed(q, e, u, n, Len(q) + 1) => Fed(r, e, u, n, Len(r) + 1)
  BY <1>1, <1>2, <1>3, <1>5, StillFed
<1> QED
  BY <1>1, <1>2, <1>3, <1>5, <1>6 DEF q, r

\* The loops of a time step one by one: the products,
LEMMA MatVectsOrder == Inv /\ OrderInv /\ MatVects => OrderInv'
<1> SUFFICES ASSUME Inv, OrderInv, MatVects PROVE OrderInv'
  OBVIOUS
<1> DEFINE ts == MatVect_SPU(k)  m == Len(queue)
<1>1. /\ pc = "matvect" /\ k \in Elem /\ Submit(ts) /\ tnow \in Nat
      /\ \/ pc' = "matvect" /\ k' = k + 1 /\ k' \in Elem /\ tnow' = tnow
         \/ pc' = "source" /\ k' = 0 /\ k = nbelems - 1 /\ tnow' = tnow + 1
  BY MatVectsTurn DEF Inv, HostTypeOK
<1>2. PICK n \in Nat : AfterSteps(n)
  BY DEF OrderInv
<1>3. /\ ts \in Seq(RhsTask) /\ Len(ts) = 1
      /\ ReadOnly(ts[1], sol_handle(k)) /\ Writes(ts[1], rhs_handle(k))
  BY <1>1, TasksOfElement, ThetaAssumption
<1> HIDE DEF ts
<1>4. /\ queue' \in Seq(ThetaTask) /\ Prefix(queue, queue')
      /\ queue \in Seq(Task) /\ ts \in Seq(Task) /\ queue' = queue \o ts /\ queue' \in Seq(Task)
      /\ \A e \in Elem : Ends(queue', e) = Ends(queue, e)
      /\ EndsAreFed(queue)'
      /\ \A e, u, l : Fed(queue, e, u, l, Len(queue) + 1) => Fed(queue', e, u, l, Len(queue') + 1)
  BY <1>1, <1>3, RhsTurn
<1>5. \A e \in Elem : Cardinality(Ends(queue, e)) = n
  BY <1>1, <1>2 DEF AfterSteps, SolvesCounted
<1>6. Fed(queue', k, k, n, Len(queue') + 1)
  <2>1. Len(queue') = m + 1 /\ queue'[m + 1] = ts[1] /\ m \in Nat
    <3>1. /\ Len(queue') = m + Len(ts) /\ m \in Nat
          /\ \A i \in 1..Len(ts) : queue'[m + i] = ts[i]
      BY <1>4, AppendedTasks, LenProperties
    <3> QED
      BY <1>3, <3>1
  <2> HIDE DEF m
  <2>2. m + 1 \in DOMAIN queue' /\ m + 1 < Len(queue') + 1 /\ m + 1 \in Nat /\ m + 1 > m
    BY <1>4, <2>1, LenProperties
  <2>3. Cardinality(EndsBefore(queue', k, m + 1)) = n
    BY <1>1, <1>4, <1>5, <2>2, EndsBeforeNew DEF m
  <2> QED
    BY <1>3, <2>1, <2>2, <2>3, StateIsSol DEF Fed, Link
<1>7. TimeIs(n)'
  BY <1>1, <1>2 DEF AfterSteps, TimeIs
<1>8. SolvesCounted(n)'
  BY <1>1, <1>4, <1>5 DEF SolvesCounted
<1>9. OpenedFed(n)'
  <2> SUFFICES ASSUME NEW e \in Elem, Opened(e)' PROVE Fed(queue', e, e, n, Len(queue') + 1)
    BY DEF OpenedFed
  <2>1. e = k \/ e < k
    BY <1>1, Loops DEF Opened
  <2>2. e < k => Fed(queue, e, e, n, Len(queue) + 1)
    BY <1>1, <1>2 DEF AfterSteps, OpenedFed, Opened
  <2> QED
    BY <1>4, <1>6, <2>1, <2>2
<1>10. FluxesFed(n)'
  BY <1>1, Loops DEF FluxesFed, FaceDone
<1> QED
  BY <1>4, <1>7, <1>8, <1>9, <1>10 DEF OrderInv, AfterSteps

\* the sources,
LEMMA SourcesOrder == Inv /\ OrderInv /\ Sources => OrderInv'
<1> SUFFICES ASSUME Inv, OrderInv, Sources PROVE OrderInv'
  OBVIOUS
<1>1. /\ pc = "source" /\ k \in Elem /\ tnow \in Int /\ Submit(SourceLocalAssembly_SPU(k, tnow))
      /\ tnow' = tnow
      /\ \/ pc' = "source" /\ k' = k + 1 /\ k' \in Elem
         \/ pc' = "faces" /\ k' = 0 /\ k = nbelems - 1
  BY SourcesTurn DEF Inv, HostTypeOK
<1>2. PICK n \in Nat : AfterSteps(n)
  BY DEF OrderInv
<1>3. SourceLocalAssembly_SPU(k, tnow) \in Seq(RhsTask)
  BY <1>1, TasksOfElement, ThetaAssumption
<1>4. /\ queue' \in Seq(ThetaTask)
      /\ \A e \in Elem : Ends(queue', e) = Ends(queue, e)
      /\ EndsAreFed(queue)'
      /\ \A e, u, l : Fed(queue, e, u, l, Len(queue) + 1) => Fed(queue', e, u, l, Len(queue') + 1)
  BY <1>1, <1>3, RhsTurn
<1>5. TimeIs(n)' /\ SolvesCounted(n)' /\ FluxesFed(n)'
  <2>1. TimeIs(n)'
    BY <1>1, <1>2 DEF AfterSteps, TimeIs
  <2>2. SolvesCounted(n)'
    BY <1>1, <1>2, <1>4 DEF AfterSteps, SolvesCounted
  <2>3. FluxesFed(n)'
    BY <1>1, Loops DEF FluxesFed, FaceDone
  <2> QED
    BY <2>1, <2>2, <2>3
<1>6. OpenedFed(n)'
  BY <1>1, <1>2, <1>4 DEF AfterSteps, OpenedFed, Opened
<1> QED
  BY <1>4, <1>5, <1>6 DEF OrderInv, AfterSteps

\* the faces,
LEMMA FacesOrder == Inv /\ OrderInv /\ Faces => OrderInv'
<1> SUFFICES ASSUME Inv, OrderInv, Faces PROVE OrderInv'
  OBVIOUS
<1> DEFINE ts == FaceTasks(k)
<1>1. /\ pc = "faces" /\ k \in Face /\ Submit(ts) /\ tnow \in Nat /\ ftnow \in Nat
      /\ \/ pc' = "faces" /\ k' = k + 1 /\ k' \in Face /\ tnow' = tnow
         \/ pc' = "solve" /\ k' = 0 /\ k = nbfaces - 1 /\ tnow' = tnow + 1
  BY FacesTurn DEF Inv, HostTypeOK
<1>2. PICK n \in Nat : AfterSteps(n)
  BY DEF OrderInv
<1>3. /\ ts \in Seq(RhsTask)
      /\ fR[k] # Null =>
           /\ Len(ts) = 4
           /\ ReadOnly(ts[1], sol_handle(fL[k])) /\ ReadOnly(ts[2], sol_handle(fR[k]))
           /\ Writes(ts[3], rhs_handle(fL[k])) /\ Writes(ts[4], rhs_handle(fR[k]))
           /\ Ordered(ts[2], ts[3]) /\ Ordered(ts[1], ts[4])
  BY <1>1, FaceTasksShape
<1> HIDE DEF ts
<1>4. /\ queue' \in Seq(ThetaTask)
      /\ queue \in Seq(Task) /\ ts \in Seq(Task) /\ queue' = queue \o ts
      /\ \A e \in Elem : Ends(queue', e) = Ends(queue, e)
      /\ EndsAreFed(queue)'
      /\ \A e, u, l : Fed(queue, e, u, l, Len(queue) + 1) => Fed(queue', e, u, l, Len(queue') + 1)
  BY <1>1, <1>3, RhsTurn
<1>5. \A e \in Elem : Cardinality(Ends(queue, e)) = n
  BY <1>1, <1>2 DEF AfterSteps, SolvesCounted
<1>6. ASSUME fR[k] # Null
      PROVE  /\ Fed(queue', fL[k], fR[k], n, Len(queue') + 1)
             /\ Fed(queue', fR[k], fL[k], n, Len(queue') + 1)
  <2>1. fL[k] \in Elem /\ fR[k] \in Elem
    BY <1>1, <1>6, Sides
  <2> QED
    BY <1>3, <1>4, <1>5, <1>6, <2>1, StateIsSol, FaceFeeds
<1>7. TimeIs(n)'
  BY <1>1, <1>2 DEF AfterSteps, TimeIs
<1>8. SolvesCounted(n)'
  BY <1>1, <1>4, <1>5, Loops DEF SolvesCounted
<1>9. OpenedFed(n)'
  BY <1>1, <1>2, <1>4 DEF AfterSteps, OpenedFed, Opened
<1>10. FluxesFed(n)'
  <2> SUFFICES ASSUME NEW f \in Face, fR[f] # Null, FaceDone(f)'
               PROVE  /\ Fed(queue', fL[f], fR[f], n, Len(queue') + 1)
                      /\ Fed(queue', fR[f], fL[f], n, Len(queue') + 1)
    BY DEF FluxesFed
  <2>1. f = k \/ f < k
    BY <1>1, Loops DEF FaceDone
  <2>2. f < k => /\ Fed(queue, fL[f], fR[f], n, Len(queue) + 1)
                 /\ Fed(queue, fR[f], fL[f], n, Len(queue) + 1)
    BY <1>1, <1>2 DEF AfterSteps, FluxesFed, FaceDone
  <2> QED
    BY <1>4, <1>6, <2>1, <2>2
<1> QED
  BY <1>4, <1>7, <1>8, <1>9, <1>10 DEF OrderInv, AfterSteps

\* after which all the states near an element have been taken,
LEMMA NearFed ==
  ASSUME pc = "solve", NEW n, AfterSteps(n), NEW e \in Elem
  PROVE  FedAll(queue, e, n, Len(queue) + 1)
<1>1. ASSUME NEW u \in Near(e), u # e
      PROVE  Fed(queue, e, u, n, Len(queue) + 1)
  <2>1. PICK f \in Face : {fL[f], fR[f]} = {e, u}
    BY <1>1 DEF Near
  <2>2. u \in Elem
    BY DEF Near
  <2>3. fR[f] # Null
    BY <2>1, <2>2, Sides
  <2>4. /\ Fed(queue, fL[f], fR[f], n, Len(queue) + 1)
        /\ Fed(queue, fR[f], fL[f], n, Len(queue) + 1)
    BY <2>3 DEF AfterSteps, FluxesFed, FaceDone
  <2>5. (fL[f] = e /\ fR[f] = u) \/ (fL[f] = u /\ fR[f] = e)
    BY <2>1
  <2> QED
    BY <2>4, <2>5
<1>2. Fed(queue, e, e, n, Len(queue) + 1)
  BY DEF AfterSteps, OpenedFed, Opened
<1> QED
  BY <1>1, <1>2 DEF FedAll

\* and the solves.
LEMMA SolvesOrder == Inv /\ OrderInv /\ Solves => OrderInv'
<1> SUFFICES ASSUME Inv, OrderInv, Solves PROVE OrderInv'
  OBVIOUS
<1> DEFINE ts == SolveLinearSolver(k)  q == queue  r == queue'  m == Len(q)
<1>1. /\ pc = "solve" /\ k \in Elem /\ r = q \o ts /\ tnow \in Nat /\ tnow' = tnow
      /\ \/ pc' = "solve" /\ k' = k + 1 /\ k' \in Elem
         \/ pc' = "while" /\ k' = 0 /\ k = nbelems - 1
  BY SolvesTurn DEF Submit, Inv, HostTypeOK
<1>2. PICK n \in Nat : AfterSteps(n)
  BY DEF OrderInv
<1>3. ts \in Seq(SolveTask(k)) /\ Len(ts) = 1
  BY <1>1, TasksOfElement, ThetaAssumption
<1>4. /\ q \in Seq(ThetaTask) /\ q \in Seq(Task)
      /\ ts \in Seq(ThetaTask) /\ ts \in Seq(Task)
      /\ 1 \in DOMAIN ts /\ 1 \in 1..Len(ts)
  BY <1>1, <1>3, ThetaTasks DEF OrderInv
<1> HIDE DEF ts, q
<1>5. ts[1] \in SolveTask(k)
  BY <1>3, <1>4, ElementOfSequence
<1>6. /\ r \in Seq(ThetaTask) /\ r \in Seq(Task) /\ Prefix(q, r)
      /\ Len(r) = m + Len(ts) /\ r[m + 1] = ts[1]
  BY <1>1, <1>4, ThetaTasks, AppendedTasks, ConcatProperties
<1> HIDE DEF r, m
<1> DEFINE a == m + 1
<1>7. /\ DOMAIN q = 1..m /\ DOMAIN r = 1..a /\ m \in Nat /\ a \in Nat /\ m < a
      /\ Len(r) = a /\ r[a] \in SolveTask(k)
  BY <1>3, <1>4, <1>5, <1>6, LenProperties DEF m
<1>8. /\ a \in DOMAIN r /\ a \notin DOMAIN q
      /\ \A i \in DOMAIN r : i = a \/ (i \in DOMAIN q /\ r[i] = q[i])
      /\ \A i \in DOMAIN q : i \in DOMAIN r /\ r[i] = q[i] /\ i < a /\ i \in Nat
  BY <1>6, <1>7 DEF Prefix, m
<1>9. FedAll(q, k, n, a)
  BY <1>1, <1>2, NearFed DEF q, m
<1>10. \A f \in Face : fR[f] # Null =>
         Fed(q, fL[f], fR[f], n, a) /\ Fed(q, fR[f], fL[f], n, a)
  BY <1>1, <1>2 DEF AfterSteps, FluxesFed, FaceDone, q, m
<1>11. \A e \in Elem : Fed(q, e, e, n, a)
  BY <1>1, <1>2 DEF AfterSteps, OpenedFed, Opened, q, m
<1> HIDE DEF a
<1>12. \A e \in Elem : Ends(r, e) = IF e = k THEN Ends(q, e) \cup {a} ELSE Ends(q, e)
  <2>1. \A e \in Elem : Writes(r[a], state_handle(e)) <=> e = k
    BY <1>7, SolveTasksDo, StateIsSol
  <2> QED
    BY <1>1, <1>8, <2>1 DEF Ends
<1>13. \A e \in Elem : Cardinality(Ends(q, e)) = IF e < k THEN n + 1 ELSE n
  BY <1>1, <1>2 DEF AfterSteps, SolvesCounted, q
<1>14. \A e \in Elem : Cardinality(Ends(r, e)) = IF e <= k THEN n + 1 ELSE n
  <2> SUFFICES ASSUME NEW e \in Elem
               PROVE  Cardinality(Ends(r, e)) = IF e <= k THEN n + 1 ELSE n
    OBVIOUS
  <2>1. IsFiniteSet(Ends(q, e)) /\ a \notin Ends(q, e)
    BY <1>4, <1>8, EndsFinite DEF Ends
  <2>2. e = k => Cardinality(Ends(r, e)) = Cardinality(Ends(q, e)) + 1
    BY <1>12, <2>1, FS_AddElement
  <2>3. e # k => Cardinality(Ends(r, e)) = Cardinality(Ends(q, e))
    BY <1>12
  <2> QED
    BY <1>1, <1>13, <2>2, <2>3, Loops
<1>15. EndsAreFed(r)
  <2> SUFFICES ASSUME NEW e \in Elem, NEW b \in Ends(r, e)
               PROVE  \E z \in DOMAIN r :
                        /\ Link(r, z, b) /\ ReadOnly(r[z], flux_handle(e))
                        /\ FedAll(r, e, Cardinality(EndsBefore(r, e, b)), z)
    BY DEF EndsAreFed
  <2>1. CASE b \in DOMAIN q
    <3>1. b <= Len(q)
      BY <1>7, <2>1 DEF m
    <3> QED
      BY <1>4, <1>6, <3>1, EndsAreStillFed DEF OrderInv, q
  <2>2. CASE b = a
    <3>1. e = k
      BY <1>8, <1>12, <2>2 DEF Ends
    <3>2. ReadOnly(r[a], flux_handle(k))
      BY <1>7, SolveTasksDo, StateIsSol
    <3>3. Cardinality(EndsBefore(r, k, a)) = n
      <4>1. EndsBefore(r, k, a) = Ends(q, k)
        BY <1>1, <1>7, <1>8, <1>12 DEF EndsBefore, Ends
      <4> QED
        BY <1>1, <1>13, <4>1, Loops
    <3>4. FedAll(r, k, n, a)
      BY <1>4, <1>6, <1>7, <1>9, FedKept DEF FedAll
    <3> QED
      BY <1>8, <2>2, <3>1, <3>2, <3>3, <3>4 DEF Link
  <2> QED
    BY <1>8, <2>1, <2>2 DEF Ends
\* The loop goes on,
<1>16. CASE pc' = "solve"
  <2>1. k' = k + 1
    BY <1>1, <1>16
  <2>2. TimeIs(n)'
    BY <1>1, <1>2, <1>16 DEF AfterSteps, TimeIs
  <2>3. SolvesCounted(n)'
    BY <1>1, <1>14, <1>16, <2>1, Loops DEF SolvesCounted, r
  <2>4. ASSUME NEW e, NEW u, Fed(q, e, u, n, a)
        PROVE  Fed(r, e, u, n, Len(r) + 1)
    <3> DEFINE later == Len(r) + 1
    <3>1. later \in Nat /\ a <= later /\ a \in Nat
      BY <1>7
    <3> HIDE DEF later
    <3>2. Fed(r, e, u, n, later)
      BY <1>4, <1>6, <2>4, <3>1, FedKept
    <3> QED
      BY <3>2 DEF later
  <2>5. OpenedFed(n)'
    BY <1>11, <2>4 DEF OpenedFed, r
  <2>6. FluxesFed(n)'
    BY <1>10, <2>4 DEF FluxesFed, r
  <2> QED
    BY <1>2, <1>6, <1>15, <2>2, <2>3, <2>5, <2>6 DEF OrderInv, AfterSteps, r
\* or ends the time step.
<1>17. CASE pc' = "while"
  <2>1. TimeIs(n + 1)'
    BY <1>1, <1>2, <1>17 DEF AfterSteps, TimeIs
  <2>2. SolvesCounted(n + 1)'
    <3>1. \A e \in Elem : e <= k
      BY <1>1, <1>17, Loops
    <3>2. \A e \in Elem : Cardinality(Ends(queue', e)) = n + 1
      BY <1>14, <3>1 DEF r
    <3> QED
      BY <1>17, <3>2 DEF SolvesCounted
  <2>3. OpenedFed(n + 1)' /\ FluxesFed(n + 1)'
    BY <1>17 DEF OpenedFed, Opened, FluxesFed, FaceDone
  <2>4. n + 1 \in Nat /\ AfterSteps(n + 1)'
    BY <1>2, <2>1, <2>2, <2>3 DEF AfterSteps
  <2>5. \E l \in Nat : AfterSteps(l)'
    BY <2>4
  <2> QED
    BY <1>6, <1>15, <2>5 DEF OrderInv, r
<1> QED
  BY <1>1, <1>16, <1>17

\* Nothing else touches the queue.
LEMMA OtherOrder ==
  ASSUME Inv, OrderInv,
         WhileLoop \/ FinalWait \/ Workers \/ UNCHANGED vars
  PROVE  OrderInv'
<1>1. queue' = queue /\ tnow' = tnow
  BY DEF WhileLoop, FinalWait, Workers, While, WaitForAll, StartKernel, FinishKernel, Start, Finish,
         vars, rtVars
<1>2. \/ pc' = pc /\ k' = k
      \/ pc \in {"while", "wait"} /\ pc' \in {"wait", "matvect", "return"} /\ k' = 0
  BY DEF WhileLoop, FinalWait, Workers, While, WaitForAll, StartKernel, FinishKernel, vars, Inv, HostTypeOK
<1>3. ASSUME NEW n \in Nat, AfterSteps(n)
      PROVE  AfterSteps(n)'
  <2>1. TimeIs(n)' /\ SolvesCounted(n)'
    BY <1>1, <1>2, <1>3 DEF AfterSteps, TimeIs, SolvesCounted
  <2>2. OpenedFed(n)'
    BY <1>1, <1>2, <1>3, Loops DEF AfterSteps, OpenedFed, Opened
  <2>3. FluxesFed(n)'
    BY <1>1, <1>2, <1>3 DEF AfterSteps, FluxesFed, FaceDone
  <2> QED
    BY <2>1, <2>2, <2>3 DEF AfterSteps
<1> QED
  BY <1>1, <1>3 DEF OrderInv

\* An empty queue is in order.
LEMMA OrderInit == Init => OrderInv
<1> SUFFICES ASSUME Init PROVE OrderInv
  OBVIOUS
<1>1. queue = << >> /\ pc = "while" /\ tnow = 0 /\ k = 0
  BY DEF Init, RTInit
<1>2. \A e : Ends(queue, e) = {}
  BY <1>1 DEF Ends
<1>3. SolvesCounted(0)
  <2>1. Cardinality({}) = 0
    BY FS_EmptySet
  <2>2. \A e \in Elem : Cardinality(Ends(queue, e)) = 0
    BY <1>2, <2>1
  <2>3. pc # "solve"
    BY <1>1
  <2> QED
    BY <2>2, <2>3 DEF SolvesCounted
<1>4. queue \in Seq(ThetaTask) /\ EndsAreFed(queue)
  BY <1>1, <1>2 DEF EndsAreFed
<1>5. AfterSteps(0)
  BY <1>1, <1>3 DEF AfterSteps, TimeIs, OpenedFed, Opened, FluxesFed, FaceDone
<1> QED
  BY <1>4, <1>5 DEF OrderInv

\* LocalThetaTimeScheme_SPU submits its tasks in order, on every mesh: the invariant of
\* the queue that the next theorems rest on.
THEOREM LocalThetaOrder == Spec => []OrderInv
<1>1. Inv /\ OrderInv /\ [Next]_vars => OrderInv'
  BY MatVectsOrder, SourcesOrder, FacesOrder, SolvesOrder, OtherOrder DEF Next, Host, Returned
<1> QED
  BY <1>1, OrderInit, LocalThetaInvariant, PTL DEF Spec

-----------------------------------------------------------------------------
(* The clock of the elements.                                              *)

\* The level of an element is the number of its time steps that are done.
LEMMA LevelIsDoneEnds ==
  ASSUME RTInv, queue \in Seq(ThetaTask)
  PROVE  level = [e \in Elem |-> Cardinality(DoneEnds(e))]
<1>1. ASSUME NEW e \in Elem
      PROVE  DoneEnds(e) = {i \in done : /\ queue[i].cl = "SolveSkyline"
                                         /\ queue[i].buf[1] = sol_handle(e)}
  <2>1. \A i \in done : i \in DOMAIN queue /\ queue[i] \in ThetaTask
    BY Submitted, ElementOfSequence DEF RTInv
  <2> QED
    BY <2>1, SolveTaskIs, ThetaAssumption DEF DoneEnds, Ends
<1> QED
  BY <1>1 DEF level

\* The arcs of the clock join neighbours.
ClockArc == {<< fL[f], fR[f] >> : f \in {g \in Face : fR[g] # Null}}

LEMMA ClockNeighbours ==
  ASSUME NEW v \in Elem, NEW u \in Elem, << u, v >> \in ClockArc \/ << v, u >> \in ClockArc
  PROVE  u \in Near(v)
<1>1. \E f \in Face : << u, v >> = << fL[f], fR[f] >> \/ << v, u >> = << fL[f], fR[f] >>
  BY DEF ClockArc
<1>2. \E f \in Face : {fL[f], fR[f]} = {v, u}
  BY <1>1
<1> QED
  BY <1>2 DEF Near

\* A step of the runtime is a step of the clock or changes no level.
LEMMA ClockStep ==
  ASSUME RTInv, OrderInv, OrderInv', RTInv', [RTNext]_rtVars
  PROVE  [Clock!Next]_level
<1>1. /\ queue \in Seq(ThetaTask) /\ EndsAreFed(queue)
      /\ level = [e \in Elem |-> Cardinality(DoneEnds(e))]
  BY LevelIsDoneEnds DEF OrderInv
<1>2. level' = [e \in Elem |-> Cardinality(DoneEnds(e)')]
  <2>1. queue' \in Seq(ThetaTask)
    BY DEF OrderInv
  <2>2. \A i \in done' : i \in DOMAIN queue' /\ queue'[i] \in ThetaTask
    BY <2>1, ElementOfSequence DEF RTInv, RTTypeOK
  <2>3. \A e \in Elem : {i \in done' : /\ queue'[i].cl = "SolveSkyline"
                                       /\ queue'[i].buf[1] = sol_handle(e)} = DoneEnds(e)'
    BY <2>2, SolveTaskIs, ThetaAssumption DEF DoneEnds, Ends
  <2> QED
    BY <2>3 DEF level
<1>3. ASSUME NEW i \in DOMAIN queue, NEW e \in Elem, NEW x \in Elem,
             i \in Ends(queue, e), i \in Ends(queue, x)
      PROVE  e = x
  <2>1. queue[i] \in ThetaTask
    BY <1>1, ElementOfSequence
  <2> QED
    BY <1>3, <2>1, SolveTaskIs, ThetaAssumption, SameElement DEF Ends
<1>4. CASE \A e \in Elem : DoneEnds(e)' = DoneEnds(e)
  BY <1>1, <1>2, <1>4
<1>5. ASSUME NEW e \in Elem,
             \A x \in Elem \ {e} : DoneEnds(x)' = DoneEnds(x),
             Cardinality(DoneEnds(e)') = Cardinality(DoneEnds(e)) + 1,
             \A u \in Near(e) : /\ Cardinality(DoneEnds(u)) \in Nat
                                /\ Cardinality(DoneEnds(e)) <= Cardinality(DoneEnds(u))
      PROVE  Clock!Advance(e)
  <2>1. level' = [level EXCEPT ![e] = @ + 1]
    BY <1>1, <1>2, <1>5
  <2>2. ASSUME NEW u \in Elem, << u, e >> \in ClockArc \/ << e, u >> \in ClockArc
        PROVE  level[e] + 0 <= level[u] /\ level[e] < level[u] + 1
    <3>1. u \in Near(e) /\ e \in Near(e)
      BY <2>2, ClockNeighbours DEF Near
    <3> QED
      BY <1>1, <1>5, <3>1
  <2>3. /\ \A u \in Elem : << u, e >> \in ClockArc => level[e] + 0 <= level[u]
        /\ \A u \in Elem : << e, u >> \in ClockArc => level[e] < level[u] + 1
    BY <2>2
  <2> QED
    BY <2>1, <2>3 DEF Clock!Advance, ClockArc
<1>6. \/ \A e \in Elem : DoneEnds(e)' = DoneEnds(e)
      \/ \E e \in Elem :
           /\ \A x \in Elem \ {e} : DoneEnds(x)' = DoneEnds(x)
           /\ Cardinality(DoneEnds(e)') = Cardinality(DoneEnds(e)) + 1
           /\ \A u \in Near(e) : /\ Cardinality(DoneEnds(u)) \in Nat
                                 /\ Cardinality(DoneEnds(e)) <= Cardinality(DoneEnds(u))
  BY <1>1, <1>3, StagesAdvance
<1> QED
  BY <1>4, <1>5, <1>6 DEF Clock!Next

\* LocalThetaTimeScheme_SPU implements ElementClock with a time step for a level, on every
\* mesh: an element ends a step only when all its neighbours have ended the one before.
THEOREM LocalThetaFollowsTheClock == Spec => ElementsFollowTheClock
<1>1. Init => Clock!Init
  <2> SUFFICES ASSUME Init PROVE Clock!Init
    OBVIOUS
  <2>1. done = {}
    BY DEF Init, RTInit
  <2>2. Cardinality({}) = 0
    BY FS_EmptySet
  <2>3. \A e \in Elem : {i \in done : /\ queue[i].cl = "SolveSkyline"
                                      /\ queue[i].buf[1] = sol_handle(e)} = {}
    BY <2>1
  <2> QED
    BY <2>2, <2>3 DEF Clock!Init, level
<1>2. Inv /\ Inv' /\ OrderInv /\ OrderInv' /\ [Next]_vars => [Clock!Next]_level
  BY StepsAreRTSteps, ClockStep DEF Inv
<1> QED
  BY <1>1, <1>2, LocalThetaInvariant, LocalThetaOrder, PTL
     DEF Spec, ElementsFollowTheClock, Clock!Spec

\* Hence neighbours are never more than one time step apart, without any barrier.
THEOREM LocalThetaLag == Spec => []Clock!LevelsAlongArcs
<1>1. Clock!Spec => [](Clock!TypeOK /\ Clock!LevelsAlongArcs)
  BY Clock!Levels
<1> QED
  BY <1>1, LocalThetaFollowsTheClock, PTL DEF ElementsFollowTheClock

-----------------------------------------------------------------------------
(* The end of the scheme.                                                  *)

\* The loop ends at tmax, and the scheme when all its tasks have run.
EndInv ==
  /\ pc \in {"wait", "return"} => tmax <= tnow
  /\ pc = "return" => AllDone

\* Action by action.
LEMMA EndStep == Inv /\ EndInv /\ [Next]_vars => EndInv'
<1> SUFFICES ASSUME Inv, EndInv, [Next]_vars PROVE EndInv'
  OBVIOUS
<1>1. HostTypeOK /\ RTTypeOK /\ tnow \in Nat /\ tmax \in Nat
  BY HostAssumption DEF Inv, RTInv, HostTypeOK
<1> USE DEF EndInv, AllDone
<1>2. CASE UNCHANGED vars
  BY <1>2 DEF vars, rtVars
<1>3. CASE WhileLoop
  BY <1>1, <1>3 DEF WhileLoop, While
<1>4. CASE MatVects \/ Sources \/ Faces \/ Solves
  BY <1>1, <1>4, MatVectsTurn, SourcesTurn, FacesTurn, SolvesTurn
<1>5. CASE FinalWait
  BY <1>1, <1>5 DEF FinalWait, WaitForAll, rtVars
<1>6. CASE Workers
  <2>1. UNCHANGED << pc, tnow >> /\ queue' = queue
    BY <1>6 DEF Workers, StartKernel, FinishKernel, Start, Finish
  <2>2. ASSUME AllDone PROVE FALSE
    <3>1. DOMAIN queue \ done = {} /\ Running = {}
      BY <1>1, <2>2 DEF RTTypeOK
    <3> QED
      BY <1>6, <3>1 DEF Workers
  <2> QED
    BY <1>1, <2>1, <2>2
<1> QED
  BY <1>2, <1>3, <1>4, <1>5, <1>6 DEF Next, Host, Returned

\* When the host returns, each element has done all the steps the time tells.
LEMMA EndOfTheScheme == Inv /\ OrderInv /\ EndInv => (pc = "return" => AllAtTmax)
<1> SUFFICES ASSUME Inv, OrderInv, EndInv, pc = "return"
             PROVE  tmax <= tnow /\ \A e \in Elem : 2 * level[e] = tnow
  BY DEF AllAtTmax
<1>1. AllDone /\ tmax <= tnow /\ tmax \in Nat /\ RTInv
  BY HostAssumption DEF EndInv, Inv
<1>2. PICK n \in Nat : AfterSteps(n)
  BY DEF OrderInv
<1>3. tnow = 2 * n
  BY <1>2 DEF AfterSteps, TimeIs
<1>4. \A e \in Elem : level[e] = n
  <2>1. \A e \in Elem : level[e] = Cardinality(DoneEnds(e))
    BY <1>1, LevelIsDoneEnds DEF OrderInv
  <2>2. \A e \in Elem : DoneEnds(e) = Ends(queue, e)
    BY <1>1 DEF AllDone, DoneEnds, Ends
  <2> QED
    BY <1>2, <2>1, <2>2 DEF AfterSteps, SolvesCounted
<1> QED
  BY <1>1, <1>3, <1>4

\* The scheme never returns before tmax, nor with an element behind the host's time: the
\* safety half of Terminates.
THEOREM LocalThetaReturnsAtTmax == Spec => [](pc = "return" => AllAtTmax)
<1>1. Init => EndInv
  BY DEF Init, EndInv
<1> QED
  BY <1>1, EndStep, EndOfTheScheme, LocalThetaInvariant, LocalThetaOrder, PTL DEF Spec

-----------------------------------------------------------------------------
(* What the tasks see.                                                     *)

\* An extraction copies the state its element had at the end of the step before, and a
\* solve has a flux for each side of a face.
Sees(q, i) ==
  /\ ExtractSees(q, i, 1) /\ FluxSees(q, i)
  /\ SolveSees(q, i, Cardinality(SidesOf(q[i].buf[1][2])))

\* Longer queues keep that.
LEMMA SeesKept ==
  ASSUME NEW q, NEW r, Prefix(q, r), Len(q) \in Nat, NEW i \in 1..Len(q), Sees(q, i)
  PROVE  Sees(r, i)
<1>1. r[i] = q[i]
  BY DEF Prefix
<1> DEFINE n == Cardinality(SidesOf(q[i].buf[1][2]))
<1>2. ExtractSees(q, i, 1) /\ FluxSees(q, i) /\ SolveSees(q, i, n)
  BY DEF Sees
<1> HIDE DEF n
<1>3. ExtractSees(r, i, 1) /\ FluxSees(r, i) /\ SolveSees(r, i, n)
  BY <1>2, SightKept
<1> QED
  BY <1>1, <1>3 DEF Sees, n

-----------------------------------------------------------------------------
(* The invariant: what every task of the queue must see, and what the next  *)
(* ones will find.                                                         *)

SourcesIn(e) ==
  IF HasSource /\ (pc \in {"faces", "solve"} \/ (pc = "source" /\ e < k)) THEN 1 ELSE 0
FluxesIn(e) == Cardinality({s \in SidesOf(e) : FaceDone(s[1])})

ViewsAfter(n) ==
  \A e \in Elem :
    /\ StepIn(queue, Len(queue), e) = n + (IF Opened(e) THEN 1 ELSE 0)
    /\ StateIs(queue, Len(queue) + 1, e, n + (IF pc = "solve" /\ e < k THEN 1 ELSE 0))
    /\ Opened(e) => RhsIs(queue, Len(queue) + 1, e, n + 1, SourcesIn(e), FluxesIn(e))
ViewInv ==
  /\ \A i \in DOMAIN queue : Sees(queue, i)
  /\ \E n \in Nat : ViewsAfter(n)

\* The sides of faces are finitely many.
LEMMA SidesFinite ==
  ASSUME NEW e
  PROVE  /\ IsFiniteSet(SidesOf(e))
         /\ \A S \in SUBSET SidesOf(e) : IsFiniteSet(S) /\ Cardinality(S) \in Nat
<1>1. IsFiniteSet(Face) /\ IsFiniteSet({0, 1})
  <2>1. 0 \in Int /\ nbfaces - 1 \in Int
    BY MeshAssumption
  <2>2. IsFiniteSet(Face)
    BY <2>1, FS_Interval DEF Face
  <2>3. {0, 1} = 0..1 /\ 0 \in Int /\ 1 \in Int
    OBVIOUS
  <2>4. IsFiniteSet({0, 1})
    BY <2>3, FS_Interval
  <2> QED
    BY <2>2, <2>4
<1>2. IsFiniteSet(Face \X {0, 1})
  BY <1>1, FS_Product
<1>3. SidesOf(e) \in SUBSET (Face \X {0, 1})
  BY DEF SidesOf
<1>4. IsFiniteSet(SidesOf(e))
  BY <1>2, <1>3, FS_Subset
<1> QED
  BY <1>4, FS_Subset, FS_CardinalityType

-----------------------------------------------------------------------------
(* What each turn adds to the queue.                                       *)

\* The tasks of a turn over the faces: between two elements,
LEMMA InnerFaceTurn ==
  ASSUME NEW f \in Face, fR[f] # Null
  PROVE  \E a \in ExtractTask(wL_handle(f), fL[f]), b \in ExtractTask(wR_handle(f), fR[f]),
            c \in RhsFluxTask(fL[f]), d \in RhsFluxTask(fR[f]) :
           /\ FaceTasks(f) = (<< a >> \o << b >>) \o (<< c >> \o << d >>)
           /\ c.buf = << wR_handle(f), rhs_handle(fL[f]) >> /\ c.cl = "InterfaceExplicitFlux"
           /\ d.buf = << wL_handle(f), rhs_handle(fR[f]) >> /\ d.cl = "InterfaceExplicitFlux"
<1> DEFINE a == [cl |-> "ExtractInterface", buf |-> << wL_handle(f), sol_handle(fL[f]) >>, arg |-> 0]
           b == [cl |-> "ExtractInterface", buf |-> << wR_handle(f), sol_handle(fR[f]) >>, arg |-> 0]
           c == [cl |-> "InterfaceExplicitFlux",
                 buf |-> << wR_handle(f), rhs_handle(fL[f]) >>, arg |-> 1]
           d == [cl |-> "InterfaceExplicitFlux",
                 buf |-> << wL_handle(f), rhs_handle(fR[f]) >>, arg |-> -1]
<1>1. fL[f] # Null /\ 0 \in {0, 1} /\ 1 \in {0, 1} /\ 0 \in Int
  BY Sides
<1>2. /\ ExtractInterface_SPU(f, 0) = << a >> /\ ExtractInterface_SPU(f, 1) = << b >>
      /\ InterfaceExplicitFlux_SPU(f, 0) = << c >> /\ InterfaceExplicitFlux_SPU(f, 1) = << d >>
  BY <1>1, StateIsSol DEF ExtractInterface_SPU, InterfaceExplicitFlux_SPU
<1>3. FaceTasks(f) = (<< a >> \o << b >>) \o (<< c >> \o << d >>)
  BY <1>2 DEF FaceTasks
<1>4. a \in Task /\ b \in Task /\ c \in Task /\ d \in Task
  BY <1>1, <1>2, InterfaceTasks, OneInSequence
<1>5. /\ a \in ExtractTask(wL_handle(f), fL[f]) /\ b \in ExtractTask(wR_handle(f), fR[f])
      /\ c \in RhsFluxTask(fL[f]) /\ d \in RhsFluxTask(fR[f])
  BY <1>4 DEF ExtractTask, RhsFluxTask
<1>6. /\ c.buf = << wR_handle(f), rhs_handle(fL[f]) >> /\ c.cl = "InterfaceExplicitFlux"
      /\ d.buf = << wL_handle(f), rhs_handle(fR[f]) >> /\ d.cl = "InterfaceExplicitFlux"
  OBVIOUS
<1> HIDE DEF a, b, c, d
<1> QED
  BY <1>3, <1>5, <1>6

\* and on the boundary.
LEMMA BoundaryFaceTurn ==
  ASSUME NEW f \in Face, fR[f] = Null, ftnow \in Int
  PROVE  \E a \in ExtractTask(wL_handle(f), fL[f]), c \in RhsFluxTask(fL[f]) :
           /\ FaceTasks(f) = << a >> \o << c >>
           /\ c.cl = "InterfaceBoundaryFlux"
<1> DEFINE a == [cl |-> "ExtractInterface", buf |-> << wL_handle(f), sol_handle(fL[f]) >>, arg |-> 0]
           c == [cl |-> "InterfaceBoundaryFlux", buf |-> << rhs_handle(fL[f]) >>, arg |-> ftnow]
<1>1. fL[f] # Null /\ 0 \in {0, 1}
  BY Sides
<1>2. /\ ExtractInterface_SPU(f, 0) = << a >> /\ ExtractInterface_SPU(f, 1) = << >>
      /\ InterfaceBoundaryFlux_SPU(f, ftnow) = << c >>
  BY <1>1, StateIsSol DEF ExtractInterface_SPU, InterfaceBoundaryFlux_SPU
<1>3. FaceTasks(f) = (<< a >> \o << >>) \o << c >>
  BY <1>2 DEF FaceTasks
<1>4. << a >> \o << >> = << a >>
  OBVIOUS
<1>5. a \in Task /\ c \in Task
  BY <1>1, <1>2, InterfaceTasks, OneInSequence
<1>6. a \in ExtractTask(wL_handle(f), fL[f]) /\ c \in RhsFluxTask(fL[f]) /\ c.cl = "InterfaceBoundaryFlux"
  BY <1>5 DEF ExtractTask, RhsFluxTask
<1> HIDE DEF a, c
<1> QED
  BY <1>3, <1>4, <1>6

\* The tasks of a longer queue see what they must when the new ones do.
LEMMA AllSee ==
  ASSUME NEW q \in Seq(Task), NEW r \in Seq(Task), Prefix(q, r),
         \A i \in DOMAIN q : Sees(q, i),
         \A i \in DOMAIN r : i > Len(q) => Sees(r, i)
  PROVE  \A i \in DOMAIN r : Sees(r, i)
<1>1. Len(q) \in Nat /\ Len(r) \in Nat /\ DOMAIN q = 1..Len(q) /\ DOMAIN r = 1..Len(r)
  BY LenProperties
<1>2. \A i \in 1..Len(r) : i \in 1..Len(q) \/ i > Len(q)
  BY <1>1
<1> QED
  BY <1>1, <1>2, SeesKept

-----------------------------------------------------------------------------
(* Loop by loop.                                                           *)

\* The products,
LEMMA MatVectsViews == Inv /\ OrderInv /\ ViewInv /\ MatVects => ViewInv'
<1> SUFFICES ASSUME Inv, OrderInv, ViewInv, MatVects PROVE ViewInv'
  OBVIOUS
<1> DEFINE q == queue  r == queue'  m == Len(q)  i == m + 1
<1>1. /\ pc = "matvect" /\ k \in Elem /\ Submit(MatVect_SPU(k))
      /\ \/ pc' = "matvect" /\ k' = k + 1 /\ k' \in Elem
         \/ pc' = "source" /\ k' = 0 /\ k = nbelems - 1
  BY MatVectsTurn DEF Inv, HostTypeOK
<1>2. PICK n \in Nat : ViewsAfter(n)
  BY DEF ViewInv
<1>3. PICK t \in MatVectTask(k) : MatVect_SPU(k) = << t >>
  BY <1>1, ElementTurns, ThetaAssumption
<1>4. q \in Seq(Task) /\ t \in Task /\ r = q \o << t >>
  BY <1>1, <1>3, ThetaTasks DEF OrderInv, Submit, MatVectTask
<1>5. \A e \in Elem : /\ StepIn(q, m, e) = n + (IF Opened(e) THEN 1 ELSE 0)
                      /\ StateIs(q, i, e, n)
                      /\ Opened(e) => RhsIs(q, i, e, n + 1, SourcesIn(e), FluxesIn(e))
  BY <1>1, <1>2 DEF ViewsAfter
<1>6. \A j \in DOMAIN q : Sees(q, j)
  BY DEF ViewInv
<1> HIDE DEF q, r
<1>7. r \in Seq(Task) /\ m \in Nat /\ Len(r) = i /\ r[i] = t /\ Prefix(q, r)
  BY <1>4, OneMore
<1>8. /\ i \in Nat \ {0} /\ i - 1 = m /\ m <= Len(q) /\ i <= Len(q) + 1
      /\ i \in Nat /\ m \in Nat /\ Len(q) \in Nat
  BY <1>7
<1> HIDE DEF i, m
<1>9. \A e \in Elem : /\ Opened(e) <=> e < k
                      /\ Opened(e)' <=> e <= k
                      /\ SourcesIn(e) = 0 /\ SourcesIn(e)' = 0
  BY <1>1, Loops DEF Opened, SourcesIn
<1>10. \A e \in Elem : FluxesIn(e) = 0 /\ FluxesIn(e)' = 0
  <2>1. pc \notin {"faces", "solve"} /\ pc' \notin {"faces", "solve"}
    BY <1>1
  <2>2. \A e : /\ {s \in SidesOf(e) : FaceDone(s[1])} = {}
               /\ {s \in SidesOf(e) : FaceDone(s[1])'} = {}
    BY <2>1 DEF FaceDone
  <2>3. Cardinality({}) = 0
    BY FS_EmptySet
  <2> QED
    BY <2>2, <2>3 DEF FluxesIn, SidesOf
<1>11. ASSUME NEW e \in Elem
       PROVE  /\ StepIn(r, i, e) = n + (IF e <= k THEN 1 ELSE 0)
              /\ StateIs(r, i + 1, e, n)
              /\ e <= k => RhsIs(r, i + 1, e, n + 1, 0, 0)
  <2>1. /\ StepIn(r, i - 1, e) = n + (IF e < k THEN 1 ELSE 0)
        /\ StateIs(r, i, e, n)
        /\ e < k => RhsIs(r, i, e, n + 1, 0, 0)
    <3>1. StepIn(r, m, e) = StepIn(q, m, e)
      BY <1>7, <1>8, StepKept
    <3>2. StateIs(r, i, e, n)
      BY <1>5, <1>7, <1>8, StateKept
    <3>3. e < k => RhsIs(r, i, e, n + 1, 0, 0)
      BY <1>5, <1>7, <1>8, <1>9, <1>10, RhsKept
    <3> QED
      BY <1>5, <1>8, <1>9, <3>1, <3>2, <3>3
  <2>2. r[i] \in MatVectTask(k) /\ n + 1 \in Nat
    BY <1>3, <1>7
  <2>3. /\ StateIs(r, i + 1, e, n)
        /\ e # k => /\ StepIn(r, i, e) = StepIn(r, i - 1, e)
                    /\ RhsIs(r, i, e, n + 1, 0, 0) => RhsIs(r, i + 1, e, n + 1, 0, 0)
        /\ e = k => /\ StepIn(r, i, e) = StepIn(r, i - 1, e) + 1
                    /\ RhsIs(r, i + 1, e, StepIn(r, i, e), 0, 0)
    <3> DEFINE l == n + 1
    <3>0. i \in Nat \ {0}
      BY <1>8
    <3>1. l \in Nat
      OBVIOUS
    <3> HIDE DEF l
    <3>2. StateIs(r, i, e, n)
      BY <2>1
    <3>3. /\ StateIs(r, i + 1, e, n)
          /\ e # k => (RhsIs(r, i, e, l, 0, 0) => RhsIs(r, i + 1, e, l, 0, 0))
          /\ e = k => /\ StepIn(r, i, e) = StepIn(r, i - 1, e) + 1
                      /\ RhsIs(r, i + 1, e, StepIn(r, i, e), 0, 0)
      BY <3>0, <2>2, <3>1, <3>2, ProductNext
    <3>4. e # k => StepIn(r, i, e) = StepIn(r, i - 1, e)
      <4>1. e # k => ~ Opens(r[i], e)
        BY <2>2, SameElement DEF Opens, MatVectTask
      <4>2. /\ StepIn(r, i - 1, e) \in Nat
            /\ StepIn(r, i, e) = StepIn(r, i - 1, e) + (IF Opens(r[i], e) THEN 1 ELSE 0)
        BY <3>0, StepNext
      <4> QED
        BY <4>1, <4>2
    <3> QED
      BY <3>3, <3>4 DEF l
  <2>4. CASE e = k
    <3>1. StepIn(r, i, e) = n + 1
      BY <1>1, <2>1, <2>3, <2>4, Loops
    <3> QED
      BY <1>1, <2>3, <2>4, <3>1, Loops
  <2>5. CASE e < k
    BY <1>1, <2>1, <2>3, <2>5, Loops
  <2>6. CASE e > k
    BY <1>1, <2>1, <2>3, <2>6, Loops
  <2> QED
    BY <1>1, <2>4, <2>5, <2>6, Loops
<1>12. ViewsAfter(n)'
  <2>1. pc' # "solve" /\ n + 0 = n
    BY <1>1
  <2> QED
    BY <1>7, <1>9, <1>10, <1>11, <2>1 DEF ViewsAfter, r
<1>13. \A j \in DOMAIN r : Sees(r, j)
  <2>1. Sees(r, i)
    BY <1>3, <1>7 DEF Sees, ExtractSees, FluxSees, SolveSees, MatVectTask
  <2>2. \A j \in DOMAIN r : j > Len(q) => j = i
    BY <1>7, LenProperties DEF i, m
  <2> QED
    BY <1>4, <1>6, <1>7, <2>1, <2>2, AllSee
<1> QED
  BY <1>2, <1>12, <1>13 DEF ViewInv, r

\* After the products all the right-hand sides are open.
LEMMA AllOpen ==
  ASSUME Len(queue) \in Nat, NEW n \in Nat, pc \in {"source", "faces", "solve"}, ViewsAfter(n)
  PROVE  \A e \in Elem : ElemAt(queue, Len(queue) + 1, e, n + 1,
                                n + (IF pc = "solve" /\ e < k THEN 1 ELSE 0),
                                SourcesIn(e), FluxesIn(e))
<1>1. Len(queue) + 1 - 1 = Len(queue)
  OBVIOUS
<1>2. \A e \in Elem : n + (IF Opened(e) THEN 1 ELSE 0) = n + 1 /\ Opened(e)
  BY DEF Opened
<1> QED
  BY <1>1, <1>2 DEF ViewsAfter, ElemAt

\* The sources,
LEMMA SourcesViews == Inv /\ OrderInv /\ ViewInv /\ Sources => ViewInv'
<1> SUFFICES ASSUME Inv, OrderInv, ViewInv, Sources PROVE ViewInv'
  OBVIOUS
<1> DEFINE q == queue  r == queue'
<1>1. /\ pc = "source" /\ k \in Elem /\ tnow \in Int /\ r = q \o SourceLocalAssembly_SPU(k, tnow)
      /\ \/ pc' = "source" /\ k' = k + 1 /\ k' \in Elem
         \/ pc' = "faces" /\ k' = 0 /\ k = nbelems - 1
  BY SourcesTurn DEF Inv, HostTypeOK, Submit
<1>2. PICK n \in Nat : ViewsAfter(n)
  BY DEF ViewInv
<1>3. q \in Seq(Task) /\ Len(q) \in Nat
  BY ThetaTasks, LenProperties DEF OrderInv
<1>4. \A e \in Elem : /\ SourcesIn(e) = IF HasSource /\ e < k THEN 1 ELSE 0
                      /\ SourcesIn(e)' = IF HasSource /\ e <= k THEN 1 ELSE 0
  BY <1>1, Loops DEF SourcesIn
<1>5. \A e \in Elem : FluxesIn(e) = 0 /\ FluxesIn(e)' = 0
  <2>1. ASSUME NEW e
        PROVE  /\ {s \in SidesOf(e) : FaceDone(s[1])} = {}
               /\ {s \in SidesOf(e) : FaceDone(s[1])'} = {}
    <3>1. \A s \in SidesOf(e) : s[1] \in Face
      BY DEF SidesOf
    <3> QED
      BY <1>1, <3>1, Loops DEF FaceDone
  <2>2. Cardinality({}) = 0
    BY FS_EmptySet
  <2> QED
    BY <2>1, <2>2 DEF FluxesIn, SidesOf
<1>6. \A e \in Elem : ElemAt(q, Len(q) + 1, e, n + 1, n, IF HasSource /\ e < k THEN 1 ELSE 0, 0)
  <2>1. \A e \in Elem : ElemAt(q, Len(q) + 1, e, n + 1,
                               n + (IF pc = "solve" /\ e < k THEN 1 ELSE 0),
                               SourcesIn(e), FluxesIn(e))
    BY <1>1, <1>2, <1>3, AllOpen
  <2>2. \A e \in Elem : n + (IF pc = "solve" /\ e < k THEN 1 ELSE 0) = n
    BY <1>1
  <2> QED
    BY <1>4, <1>5, <2>1, <2>2
<1>7. \A j \in DOMAIN q : Sees(q, j)
  BY DEF ViewInv
<1> HIDE DEF q, r
<1>8. /\ Len(r) \in Nat
      /\ \A j \in DOMAIN r : Sees(r, j)
      /\ \A e \in Elem : ElemAt(r, Len(r) + 1, e, n + 1, n, IF HasSource /\ e <= k THEN 1 ELSE 0, 0)
  <2>1. CASE HasSource
    <3>1. PICK t \in SourceTask(k) : r = q \o << t >>
      BY <1>1, <2>1, ElementTurns, ThetaAssumption
    <3> DEFINE m == Len(q)  i == m + 1
    <3>2. r \in Seq(Task) /\ m \in Nat /\ Len(r) = i /\ r[i] = t /\ Prefix(q, r) /\ i \in Nat \ {0}
      <4>1. t \in Task
        BY DEF SourceTask
      <4> QED
        BY <1>3, <3>1, <4>1, OneMore
    <3>3. ASSUME NEW e \in Elem
          PROVE  ElemAt(r, i + 1, e, n + 1, n, IF e <= k THEN 1 ELSE 0, 0)
      <4> DEFINE a == IF e < k THEN 1 ELSE 0  l == n + 1
      <4>1. ElemAt(r, i, e, l, n, a, 0)
        BY <1>6, <2>1, <3>2, ElemKept
      <4>2. a \in Nat /\ l \in Nat \ {0} /\ a + (IF e = k THEN 1 ELSE 0) = IF e <= k THEN 1 ELSE 0
        BY <1>1, Loops
      <4> HIDE DEF a, l, i
      <4>3. ElemAt(r, i + 1, e, l, n, a + (IF e = k THEN 1 ELSE 0), 0)
        <5>1. r[i] \in SourceTask(k) /\ i \in Nat \ {0} /\ 0 \in Nat
          BY <3>1, <3>2
        <5> QED
          BY <4>1, <4>2, <5>1, ElemSource
      <4> QED
        BY <4>2, <4>3 DEF l
    <3>4. \A j \in DOMAIN r : Sees(r, j)
      <4>1. Sees(r, i)
        BY <3>1, <3>2 DEF Sees, ExtractSees, FluxSees, SolveSees, SourceTask
      <4>2. \A j \in DOMAIN r : j > Len(q) => j = i
        BY <3>2, LenProperties
      <4> QED
        BY <1>3, <1>7, <3>2, <4>1, <4>2, AllSee
    <3> QED
      BY <2>1, <3>2, <3>3, <3>4
  <2>2. CASE ~ HasSource
    <3>1. SourceLocalAssembly_SPU(k, tnow) = << >>
      BY <1>1, <2>2, ElementTurns, ThetaAssumption
    <3>2. r = q
      BY <1>1, <1>3, <3>1
    <3> QED
      BY <1>3, <1>6, <1>7, <2>2, <3>2
  <2> QED
    BY <2>1, <2>2
<1>9. ViewsAfter(n)'
  <2>1. /\ \A e \in Elem : n + (IF Opened(e)' THEN 1 ELSE 0) = n + 1
        /\ \A e \in Elem : n + (IF pc' = "solve" /\ e < k' THEN 1 ELSE 0) = n
        /\ Len(r) + 1 - 1 = Len(r)
    BY <1>1, <1>8 DEF Opened
  <2> QED
    BY <1>4, <1>5, <1>8, <2>1 DEF ViewsAfter, ElemAt, r
<1> QED
  BY <1>2, <1>8, <1>9 DEF ViewInv, r

\* the solves,
LEMMA SolvesViews == Inv /\ OrderInv /\ ViewInv /\ Solves => ViewInv'
<1> SUFFICES ASSUME Inv, OrderInv, ViewInv, Solves PROVE ViewInv'
  OBVIOUS
<1> DEFINE q == queue  r == queue'
<1>1. /\ pc = "solve" /\ k \in Elem /\ r = q \o SolveLinearSolver(k)
      /\ \/ pc' = "solve" /\ k' = k + 1 /\ k' \in Elem
         \/ pc' = "while" /\ k' = 0 /\ k = nbelems - 1
  BY SolvesTurn DEF Inv, HostTypeOK, Submit
<1>2. PICK n \in Nat : ViewsAfter(n)
  BY DEF ViewInv
<1>3. q \in Seq(Task) /\ Len(q) \in Nat
  BY ThetaTasks, LenProperties DEF OrderInv
<1>4. \A e \in Elem : SourcesIn(e) = IF HasSource THEN 1 ELSE 0
  BY <1>1 DEF SourcesIn
<1>5. \A e \in Elem : FluxesIn(e) = Cardinality(SidesOf(e))
  <2>1. \A e \in Elem : {s \in SidesOf(e) : FaceDone(s[1])} = SidesOf(e)
    BY <1>1 DEF FaceDone
  <2> QED
    BY <2>1 DEF FluxesIn
<1> DEFINE sources == IF HasSource THEN 1 ELSE 0  l == n + 1
<1>6. \A e \in Elem : ElemAt(q, Len(q) + 1, e, l, IF e < k THEN l ELSE n, sources, Cardinality(SidesOf(e)))
  <2>1. \A e \in Elem : ElemAt(q, Len(q) + 1, e, n + 1,
                               n + (IF pc = "solve" /\ e < k THEN 1 ELSE 0),
                               SourcesIn(e), FluxesIn(e))
    BY <1>1, <1>2, <1>3, AllOpen
  <2>2. \A e \in Elem : n + (IF pc = "solve" /\ e < k THEN 1 ELSE 0) = IF e < k THEN l ELSE n
    BY <1>1
  <2> QED
    BY <1>4, <1>5, <2>1, <2>2
<1>7. \A j \in DOMAIN q : Sees(q, j)
  BY DEF ViewInv
<1>8. sources \in Nat /\ l \in Nat \ {0} /\ \A e : Cardinality(SidesOf(e)) \in Nat
  BY SidesFinite
<1> HIDE DEF q, r, sources, l
<1>9. PICK t \in SolveTask(k) : r = q \o << t >>
  <2>1. 0 \in Int
    OBVIOUS
  <2> QED
    BY <1>1, <2>1, ElementTurns, ThetaAssumption
<1> DEFINE m == Len(q)  i == m + 1
<1>10. r \in Seq(Task) /\ m \in Nat /\ Len(r) = i /\ r[i] = t /\ Prefix(q, r) /\ i \in Nat \ {0}
  <2>1. t \in Task
    BY DEF SolveTask
  <2> QED
    BY <1>3, <1>9, <2>1, OneMore
<1>11. \A e \in Elem : ElemAt(r, i, e, l, IF e < k THEN l ELSE n, sources, Cardinality(SidesOf(e)))
  BY <1>3, <1>6, <1>10, ElemKept
<1>12. ASSUME NEW e \in Elem
       PROVE  ElemAt(r, i + 1, e, l, IF e <= k THEN l ELSE n, sources, Cardinality(SidesOf(e)))
  <2> DEFINE s == IF e < k THEN l ELSE n  c == Cardinality(SidesOf(e))
  <2>1. ElemAt(r, i, e, l, s, sources, c) /\ c \in Nat
    BY <1>8, <1>11
  <2>2. (IF e = k THEN l ELSE s) = IF e <= k THEN l ELSE n
    BY <1>1, Loops
  <2> HIDE DEF s, c, i
  <2>3. ElemAt(r, i + 1, e, l, IF e = k THEN l ELSE s, sources, c)
    BY <1>8, <1>9, <1>10, <2>1, ElemSolve
  <2> QED
    BY <2>2, <2>3 DEF c
\* The solve sees a complete right-hand side.
<1>13. \A j \in DOMAIN r : Sees(r, j)
  <2>1. SolveSees(r, i, Cardinality(SidesOf(r[i].buf[1][2])))
    <3>1. r[i].buf[1][2] = k
      BY <1>9, <1>10 DEF SolveTask, sol_handle
    <3>2. RhsIs(r, i, k, l, sources, Cardinality(SidesOf(k)))
      BY <1>1, <1>11 DEF ElemAt
    <3>3. StepIn(r, i, k) = l
      <4>1. ElemAt(r, i + 1, k, l, IF k <= k THEN l ELSE n, sources, Cardinality(SidesOf(k)))
        BY <1>1, <1>12
      <4>2. i + 1 - 1 = i
        BY <1>10
      <4> QED
        BY <4>1, <4>2 DEF ElemAt
    <3> QED
      BY <3>1, <3>2, <3>3 DEF SolveSees, sources
  <2>2. Sees(r, i)
    BY <1>9, <1>10, <2>1 DEF Sees, ExtractSees, FluxSees, SolveTask
  <2>3. \A j \in DOMAIN r : j > Len(q) => j = i
    BY <1>10, LenProperties
  <2> QED
    BY <1>3, <1>7, <1>10, <2>2, <2>3, AllSee
<1>14. \A e \in Elem : /\ StepIn(r, Len(r), e) = l
                       /\ StateIs(r, Len(r) + 1, e, IF e <= k THEN l ELSE n)
                       /\ RhsIs(r, Len(r) + 1, e, l, sources, Cardinality(SidesOf(e)))
  <2>1. i + 1 - 1 = i
    BY <1>10
  <2> QED
    BY <1>10, <1>12, <2>1 DEF ElemAt
\* The loop goes on,
<1>15. CASE pc' = "solve"
  <2>1. \A e \in Elem : /\ Opened(e)' /\ SourcesIn(e)' = sources
                        /\ FluxesIn(e)' = Cardinality(SidesOf(e))
    <3>1. \A e \in Elem : {s \in SidesOf(e) : FaceDone(s[1])'} = SidesOf(e)
      BY <1>15 DEF FaceDone
    <3> QED
      BY <1>15, <3>1 DEF Opened, SourcesIn, FluxesIn, SidesOf, sources
  <2>2. \A e \in Elem : /\ n + (IF Opened(e)' THEN 1 ELSE 0) = l
                        /\ n + (IF pc' = "solve" /\ e < k' THEN 1 ELSE 0) = IF e <= k THEN l ELSE n
    BY <1>1, <1>15, <2>1, Loops DEF l
  <2>3. ViewsAfter(n)'
    BY <1>14, <2>1, <2>2 DEF ViewsAfter, r, l
  <2> QED
    BY <1>2, <1>13, <2>3 DEF ViewInv, r
\* or ends the time step.
<1>16. CASE pc' = "while"
  <2>1. \A e \in Elem : e <= k /\ ~ Opened(e)'
    BY <1>1, <1>16, Loops DEF Opened
  <2>2. \A e \in Elem : /\ l + (IF Opened(e)' THEN 1 ELSE 0) = l
                        /\ l + (IF pc' = "solve" /\ e < k' THEN 1 ELSE 0) = l
    BY <1>8, <1>16, <2>1
  <2>3. ViewsAfter(l)'
    BY <1>14, <2>1, <2>2 DEF ViewsAfter, r
  <2> QED
    BY <1>8, <1>13, <2>3 DEF ViewInv, r
<1> QED
  BY <1>1, <1>15, <1>16

\* In the tasks of a face between two elements, each flux reads what the other side
\* extracted.
LEMMA InnerFace ==
  ASSUME NEW r, NEW i \in Nat \ {0}, NEW f \in Face, fR[f] # Null,
         NEW n \in Nat, NEW src \in Nat, NEW F \in [Elem -> Nat],
         \A e \in Elem : ElemAt(r, i, e, n + 1, n, src, F[e]),
         r[i] \in ExtractTask(wL_handle(f), fL[f]), r[i + 1] \in ExtractTask(wR_handle(f), fR[f]),
         r[i + 2] \in RhsFluxTask(fL[f]), r[i + 3] \in RhsFluxTask(fR[f]),
         r[i + 2].buf = << wR_handle(f), rhs_handle(fL[f]) >>,
         r[i + 3].buf = << wL_handle(f), rhs_handle(fR[f]) >>
  PROVE  /\ Sees(r, i) /\ Sees(r, i + 1) /\ Sees(r, i + 2) /\ Sees(r, i + 3)
         /\ \A e \in Elem :
              ElemAt(r, i + 4, e, n + 1, n, src,
                     F[e] + (IF e = fL[f] THEN 1 ELSE 0) + (IF e = fR[f] THEN 1 ELSE 0))
<1> DEFINE l == n + 1  i1 == i + 1  i2 == i + 2  i3 == i + 3
           wL == wL_handle(f)  wR == wR_handle(f)
<1>1. /\ i1 \in Nat \ {0} /\ i2 \in Nat \ {0} /\ i3 \in Nat \ {0}
      /\ i1 = i + 1 /\ i2 = i1 + 1 /\ i3 = i2 + 1 /\ i + 4 = i3 + 1
      /\ i \in 1..(i1 - 1) /\ i1 \in 1..(i2 - 1) /\ i \in 1..(i2 - 1) /\ i1 \in 1..(i3 - 1)
      /\ i \in 1..(i3 - 1)
      /\ l - 1 = n /\ l \in Nat \ {0}
  OBVIOUS
<1>2. fL[f] \in Elem /\ fR[f] \in Elem
  BY Sides
<1>3. wL \in FaceHandle /\ wR \in FaceHandle
  BY DEF FaceHandle
<1>4. /\ r[i] \in ExtractTask(wL, fL[f]) /\ r[i1] \in ExtractTask(wR, fR[f])
      /\ r[i2] \in RhsFluxTask(fL[f]) /\ r[i3] \in RhsFluxTask(fR[f])
      /\ r[i2].buf = << wR, rhs_handle(fL[f]) >> /\ r[i3].buf = << wL, rhs_handle(fR[f]) >>
      /\ \A e \in Elem : ElemAt(r, i, e, l, n, src, F[e])
  OBVIOUS
<1> HIDE DEF l, i1, i2, i3
\* Task after task,
<1>5. \A e \in Elem : ElemAt(r, i1, e, l, n, src, F[e])
  BY <1>1, <1>3, <1>4, ElemExtract
<1>6. \A e \in Elem : ElemAt(r, i2, e, l, n, src, F[e])
  BY <1>1, <1>3, <1>4, <1>5, ElemExtract
<1>7. \A e \in Elem : ElemAt(r, i3, e, l, n, src, F[e] + (IF e = fL[f] THEN 1 ELSE 0))
  BY <1>1, <1>4, <1>6, ElemFlux
<1>8. ASSUME NEW e \in Elem
      PROVE  ElemAt(r, i + 4, e, l, n, src,
                    F[e] + (IF e = fL[f] THEN 1 ELSE 0) + (IF e = fR[f] THEN 1 ELSE 0))
  <2> DEFINE b == F[e] + (IF e = fL[f] THEN 1 ELSE 0)
  <2>1. b \in Nat /\ ElemAt(r, i3, e, l, n, src, b)
    BY <1>7
  <2> HIDE DEF b
  <2>2. ElemAt(r, i3 + 1, e, l, n, src, b + (IF e = fR[f] THEN 1 ELSE 0))
    BY <1>1, <1>4, <2>1, ElemFlux
  <2> QED
    BY <1>1, <2>2 DEF b
\* all in the same step,
<1>9. \A e \in Elem : /\ StepIn(r, i, e) = l /\ StepIn(r, i1, e) = l
                      /\ StepIn(r, i2, e) = l /\ StepIn(r, i3, e) = l
                      /\ StateIs(r, i, e, n) /\ StateIs(r, i1, e, n)
  <2>1. /\ r[i].cl # "MatVectSkyline" /\ r[i1].cl # "MatVectSkyline"
        /\ r[i2].cl # "MatVectSkyline" /\ r[i3].cl # "MatVectSkyline"
    BY <1>4 DEF ExtractTask, RhsFluxTask
  <2> QED
    BY <1>1, <1>4, <1>5, <1>6, <1>7, <2>1, SameStep
\* the extractions from the state before it,
<1>10. Sees(r, i)
  <2>1. r[i].buf[2][2] = fL[f] /\ r[i].cl = "ExtractInterface"
    BY <1>4 DEF ExtractTask, sol_handle
  <2> QED
    BY <1>1, <1>2, <1>9, <2>1 DEF Sees, ExtractSees, FluxSees, SolveSees
<1>11. Sees(r, i1)
  <2>1. r[i1].buf[2][2] = fR[f] /\ r[i1].cl = "ExtractInterface"
    BY <1>4 DEF ExtractTask, sol_handle
  <2> QED
    BY <1>1, <1>2, <1>9, <2>1 DEF Sees, ExtractSees, FluxSees, SolveSees
\* and the fluxes from the extractions.
<1>12. Held(r, i2, wR) = {i1} /\ Held(r, i3, wL) = {i}
  <2>1. Sets(r[i1], wR) /\ Sets(r[i], wL)
    BY <1>4, ImplicitTasksWrite
  <2>2. ~ Writes(r[i1], wL) /\ ~ Writes(r[i2], wL)
    <3>1. wL # wR /\ wL # rhs_handle(fL[f])
      BY ImplicitHandles
    <3>2. /\ Writes(r[i1], wL) <=> wL = wR
          /\ Writes(r[i2], wL) <=> wL = rhs_handle(fL[f])
      BY <1>4, ImplicitTasksWrite
    <3> QED
      BY <3>1, <3>2
  <2>3. Held(r, i1 + 1, wR) = {i1} /\ Held(r, i + 1, wL) = {i}
    BY <1>1, <2>1, HeldNext
  <2>4. Held(r, i1 + 1, wL) = Held(r, i1, wL) /\ Held(r, i2 + 1, wL) = Held(r, i2, wL)
    BY <1>1, <2>2, HeldNext, SetIsWrite
  <2> QED
    BY <1>1, <2>3, <2>4
<1>13. Sees(r, i2)
  <2>1. Into(r[i2]) = fL[f] /\ Across(r[i2]) = fR[f]
    BY <1>4 DEF Into, Across, rhs_handle, wR_handle
  <2>2. /\ r[i2].buf[1] = wR /\ r[i1].cl = "ExtractInterface" /\ r[i1].buf[2] = sol_handle(fR[f])
        /\ r[i2].cl # "SolveSkyline" /\ r[i2].cl # "ExtractInterface"
    BY <1>4 DEF ExtractTask, RhsFluxTask
  <2>3. FluxSees(r, i2)
    BY <1>1, <1>2, <1>9, <1>12, <2>1, <2>2 DEF FluxSees
  <2> QED
    BY <2>2, <2>3 DEF Sees, ExtractSees, SolveSees
<1>14. Sees(r, i3)
  <2>1. Into(r[i3]) = fR[f] /\ Across(r[i3]) = fL[f]
    BY <1>4 DEF Into, Across, rhs_handle, wL_handle
  <2>2. /\ r[i3].buf[1] = wL /\ r[i].cl = "ExtractInterface" /\ r[i].buf[2] = sol_handle(fL[f])
        /\ r[i3].cl # "SolveSkyline" /\ r[i3].cl # "ExtractInterface"
    BY <1>4 DEF ExtractTask, RhsFluxTask
  <2>3. FluxSees(r, i3)
    BY <1>1, <1>2, <1>9, <1>12, <2>1, <2>2 DEF FluxSees
  <2> QED
    BY <2>2, <2>3 DEF Sees, ExtractSees, SolveSees
<1> QED
  BY <1>8, <1>10, <1>11, <1>13, <1>14 DEF l, i1, i2, i3

\* On the boundary there is one side only.
LEMMA BoundaryFace ==
  ASSUME NEW r, NEW i \in Nat \ {0}, NEW f \in Face,
         NEW n \in Nat, NEW src \in Nat, NEW F \in [Elem -> Nat],
         \A e \in Elem : ElemAt(r, i, e, n + 1, n, src, F[e]),
         r[i] \in ExtractTask(wL_handle(f), fL[f]),
         r[i + 1] \in RhsFluxTask(fL[f]), r[i + 1].cl = "InterfaceBoundaryFlux"
  PROVE  /\ Sees(r, i) /\ Sees(r, i + 1)
         /\ \A e \in Elem : ElemAt(r, i + 2, e, n + 1, n, src, F[e] + (IF e = fL[f] THEN 1 ELSE 0))
<1> DEFINE l == n + 1  i1 == i + 1
<1>1. /\ i1 \in Nat \ {0} /\ i1 = i + 1 /\ i + 2 = i1 + 1 /\ l - 1 = n
      /\ fL[f] \in Elem /\ wL_handle(f) \in FaceHandle
  BY Sides DEF FaceHandle
<1>2. /\ r[i1] \in RhsFluxTask(fL[f]) /\ r[i1].cl = "InterfaceBoundaryFlux"
      /\ \A e \in Elem : ElemAt(r, i, e, l, n, src, F[e])
  OBVIOUS
<1> HIDE DEF l, i1
<1>3. \A e \in Elem : ElemAt(r, i1, e, l, n, src, F[e])
  BY <1>1, <1>2, ElemExtract
<1>4. \A e \in Elem : ElemAt(r, i1 + 1, e, l, n, src, F[e] + (IF e = fL[f] THEN 1 ELSE 0))
  BY <1>1, <1>2, <1>3, ElemFlux
<1>5. Sees(r, i)
  <2>1. r[i].buf[2][2] = fL[f] /\ r[i].cl = "ExtractInterface"
    BY DEF ExtractTask, sol_handle
  <2>2. StepIn(r, i, fL[f]) = l /\ StateIs(r, i, fL[f], n)
    <3>1. r[i].cl # "MatVectSkyline"
      BY <2>1
    <3> QED
      BY <1>1, <1>2, <3>1, SameStep
  <2> QED
    BY <1>1, <2>1, <2>2 DEF Sees, ExtractSees, FluxSees, SolveSees
<1>6. Sees(r, i1)
  BY <1>2 DEF Sees, ExtractSees, FluxSees, SolveSees
<1> QED
  BY <1>1, <1>4, <1>5, <1>6 DEF l, i1

\* A face done gives a flux to each of its sides.
LEMMA FluxesCounted ==
  ASSUME pc = "faces", k \in Face, NEW e \in Elem,
         \/ pc' = "faces" /\ k' = k + 1
         \/ pc' = "solve" /\ k = nbfaces - 1
  PROVE  FluxesIn(e)' = FluxesIn(e) + (IF e = fL[k] THEN 1 ELSE 0) + (IF e = fR[k] THEN 1 ELSE 0)
<1> DEFINE D == {s \in SidesOf(e) : s[1] < k}
           L == IF e = fL[k] THEN D \cup {<< k, 0 >>} ELSE D
           R == IF e = fR[k] THEN L \cup {<< k, 1 >>} ELSE L
<1>1. \A s \in SidesOf(e) : s \in Face \X {0, 1} /\ s[1] \in Face /\ s = << s[1], s[2] >>
  BY DEF SidesOf
<1>2. {s \in SidesOf(e) : FaceDone(s[1])} = D
  BY <1>1 DEF FaceDone
<1>3. {s \in SidesOf(e) : FaceDone(s[1])'} = {s \in SidesOf(e) : s[1] < k \/ s[1] = k}
  BY <1>1, Loops DEF FaceDone
<1>4. \A s \in SidesOf(e) : s[1] = k => s = << k, 0 >> \/ s = << k, 1 >>
  BY <1>1
<1>5. /\ << k, 0 >> \in SidesOf(e) <=> e = fL[k]
      /\ << k, 1 >> \in SidesOf(e) <=> e = fR[k]
  BY DEF SidesOf
<1>6. {s \in SidesOf(e) : s[1] < k \/ s[1] = k} = R
  BY <1>1, <1>4, <1>5
<1>7. D \in SUBSET SidesOf(e) /\ << k, 0 >> \notin D /\ << k, 1 >> \notin D /\ << k, 1 >> # << k, 0 >>
  BY Loops
<1> HIDE DEF D
<1>8. IsFiniteSet(D) /\ Cardinality(D) \in Nat
  BY <1>7, SidesFinite
<1>9. IsFiniteSet(L) /\ << k, 1 >> \notin L /\ Cardinality(L) = Cardinality(D) + (IF e = fL[k] THEN 1 ELSE 0)
  <2>1. e = fL[k] => IsFiniteSet(D \cup {<< k, 0 >>}) /\ Cardinality(D \cup {<< k, 0 >>}) = Cardinality(D) + 1
    BY <1>7, <1>8, FS_AddElement
  <2> QED
    BY <1>7, <1>8, <2>1
<1> HIDE DEF L
<1>10. Cardinality(R) = Cardinality(L) + (IF e = fR[k] THEN 1 ELSE 0)
  <2>1. Cardinality(L) \in Nat
    BY <1>9, FS_CardinalityType
  <2>2. e = fR[k] => Cardinality(L \cup {<< k, 1 >>}) = Cardinality(L) + 1
    BY <1>9, FS_AddElement
  <2> QED
    BY <2>1, <2>2
<1> HIDE DEF R
<1>11. FluxesIn(e) = Cardinality(D) /\ FluxesIn(e)' = Cardinality(R)
  BY <1>2, <1>3, <1>6 DEF FluxesIn, SidesOf
<1> QED
  BY <1>8, <1>9, <1>10, <1>11

\* The faces between two elements
LEMMA InnerFaceViews ==
  ASSUME NEW q \in Seq(Task), NEW r, NEW f \in Face, fR[f] # Null, r = q \o FaceTasks(f),
         NEW n \in Nat, NEW src \in Nat, NEW F \in [Elem -> Nat],
         \A j \in DOMAIN q : Sees(q, j),
         \A e \in Elem : ElemAt(q, Len(q) + 1, e, n + 1, n, src, F[e])
  PROVE  /\ Len(r) \in Nat
         /\ \A j \in DOMAIN r : Sees(r, j)
         /\ \A e \in Elem : ElemAt(r, Len(r) + 1, e, n + 1, n, src,
                                   F[e] + (IF e = fL[f] THEN 1 ELSE 0) + (IF e = fR[f] THEN 1 ELSE 0))
<1>1. PICK a \in ExtractTask(wL_handle(f), fL[f]), b \in ExtractTask(wR_handle(f), fR[f]),
           c \in RhsFluxTask(fL[f]), d \in RhsFluxTask(fR[f]) :
        /\ FaceTasks(f) = (<< a >> \o << b >>) \o (<< c >> \o << d >>)
        /\ c.buf = << wR_handle(f), rhs_handle(fL[f]) >> /\ c.cl = "InterfaceExplicitFlux"
        /\ d.buf = << wL_handle(f), rhs_handle(fR[f]) >> /\ d.cl = "InterfaceExplicitFlux"
  BY InnerFaceTurn
<1>2. a \in Task /\ b \in Task /\ c \in Task /\ d \in Task
  BY DEF ExtractTask, RhsFluxTask
<1> DEFINE s == << a >> \o << b >>  t == << c >> \o << d >>  ts == s \o t
<1>3. /\ s \in Seq(Task) /\ Len(s) = 2 /\ s[1] = a /\ s[2] = b
      /\ t \in Seq(Task) /\ Len(t) = 2 /\ t[1] = c /\ t[2] = d
      /\ FaceTasks(f) = ts
  <2>1. s \in Seq(Task) /\ Len(s) = 2 /\ s[1] = a /\ s[2] = b
    BY <1>2, TwoTasks
  <2>2. t \in Seq(Task) /\ Len(t) = 2 /\ t[1] = c /\ t[2] = d
    BY <1>2, TwoTasks
  <2> QED
    BY <1>1, <2>1, <2>2
<1> HIDE DEF s, t
<1>4. /\ ts \in Seq(Task) /\ Len(ts) = 4
      /\ ts[1] = a /\ ts[2] = b /\ ts[3] = c /\ ts[4] = d
  BY <1>3, FourTasks, AppendedTasks
<1> HIDE DEF ts
<1> DEFINE m == Len(q)  i == m + 1
<1>5. /\ r \in Seq(Task) /\ Len(r) = m + 4 /\ Prefix(q, r)
      /\ r[m + 1] = a /\ r[m + 2] = b /\ r[m + 3] = c /\ r[m + 4] = d
  <2>1. 1 \in 1..4 /\ 2 \in 1..4 /\ 3 \in 1..4 /\ 4 \in 1..4
    OBVIOUS
  <2>2. /\ r = q \o ts /\ r \in Seq(Task) /\ Len(r) = m + Len(ts) /\ Prefix(q, r)
        /\ \A j \in 1..Len(ts) : r[m + j] = ts[j]
    <3>1. r = q \o ts
      BY <1>3
    <3>2. ts \in Seq(Task)
      BY <1>4
    <3> QED
      BY <3>1, <3>2, AppendedTasks
  <2> QED
    BY <1>4, <2>1, <2>2
<1>6. m \in Nat /\ i \in Nat \ {0} /\ i + 1 = m + 2 /\ i + 2 = m + 3 /\ i + 3 = m + 4 /\ i + 4 = Len(r) + 1
  <2>1. m \in Nat
    BY LenProperties
  <2> QED
    BY <1>5, <2>1
<1>7. \A e \in Elem : ElemAt(r, i, e, n + 1, n, src, F[e])
  BY <1>5, <1>6, ElemKept
<1>8. r[i] = a /\ r[i + 1] = b /\ r[i + 2] = c /\ r[i + 3] = d
  BY <1>5, <1>6
<1> HIDE DEF i, m
<1>9. /\ Sees(r, i) /\ Sees(r, i + 1) /\ Sees(r, i + 2) /\ Sees(r, i + 3)
      /\ \A e \in Elem :
           ElemAt(r, i + 4, e, n + 1, n, src,
                  F[e] + (IF e = fL[f] THEN 1 ELSE 0) + (IF e = fR[f] THEN 1 ELSE 0))
  <2>1. /\ r[i] \in ExtractTask(wL_handle(f), fL[f]) /\ r[i + 1] \in ExtractTask(wR_handle(f), fR[f])
        /\ r[i + 2] \in RhsFluxTask(fL[f]) /\ r[i + 3] \in RhsFluxTask(fR[f])
        /\ r[i + 2].buf = << wR_handle(f), rhs_handle(fL[f]) >>
        /\ r[i + 3].buf = << wL_handle(f), rhs_handle(fR[f]) >>
    BY <1>1, <1>8
  <2> QED
    BY <1>6, <1>7, <2>1, InnerFace
<1>10. \A j \in DOMAIN r : Sees(r, j)
  <2>1. \A j \in DOMAIN r : j > Len(q) => j \in {i, i + 1, i + 2, i + 3}
    <3>1. DOMAIN r = 1..(m + 4) /\ i = m + 1 /\ m = Len(q)
      BY <1>5, LenProperties DEF i, m
    <3>2. \A j \in 1..(m + 4) : j > m => j = m + 1 \/ j = m + 2 \/ j = m + 3 \/ j = m + 4
      BY <1>6
    <3> QED
      BY <1>6, <3>1, <3>2
  <2> QED
    BY <1>5, <1>9, <2>1, AllSee
<1> QED
  BY <1>5, <1>6, <1>9, <1>10

\* and those of the boundary.
LEMMA BoundaryFaceViews ==
  ASSUME NEW q \in Seq(Task), NEW r, NEW f \in Face, fR[f] = Null, ftnow \in Int,
         r = q \o FaceTasks(f),
         NEW n \in Nat, NEW src \in Nat, NEW F \in [Elem -> Nat],
         \A j \in DOMAIN q : Sees(q, j),
         \A e \in Elem : ElemAt(q, Len(q) + 1, e, n + 1, n, src, F[e])
  PROVE  /\ Len(r) \in Nat
         /\ \A j \in DOMAIN r : Sees(r, j)
         /\ \A e \in Elem : ElemAt(r, Len(r) + 1, e, n + 1, n, src,
                                   F[e] + (IF e = fL[f] THEN 1 ELSE 0))
<1>1. PICK a \in ExtractTask(wL_handle(f), fL[f]), c \in RhsFluxTask(fL[f]) :
        FaceTasks(f) = << a >> \o << c >> /\ c.cl = "InterfaceBoundaryFlux"
  BY BoundaryFaceTurn
<1>2. a \in Task /\ c \in Task
  BY DEF ExtractTask, RhsFluxTask
<1> DEFINE ts == << a >> \o << c >>
<1>3. ts \in Seq(Task) /\ Len(ts) = 2 /\ ts[1] = a /\ ts[2] = c /\ FaceTasks(f) = ts
  BY <1>1, <1>2, TwoTasks
<1> HIDE DEF ts
<1> DEFINE m == Len(q)  i == m + 1
<1>4. r \in Seq(Task) /\ Len(r) = m + 2 /\ Prefix(q, r) /\ r[m + 1] = a /\ r[m + 2] = c
  <2>1. 1 \in 1..2 /\ 2 \in 1..2
    OBVIOUS
  <2>2. /\ r = q \o ts /\ r \in Seq(Task) /\ Len(r) = m + Len(ts) /\ Prefix(q, r)
        /\ \A j \in 1..Len(ts) : r[m + j] = ts[j]
    BY <1>3, AppendedTasks
  <2> QED
    BY <1>3, <2>1, <2>2
<1>5. m \in Nat /\ i \in Nat \ {0} /\ i + 1 = m + 2 /\ i + 2 = Len(r) + 1
  <2>1. m \in Nat
    BY LenProperties
  <2> QED
    BY <1>4, <2>1
<1>6. \A e \in Elem : ElemAt(r, i, e, n + 1, n, src, F[e])
  BY <1>4, <1>5, ElemKept
<1>7. r[i] = a /\ r[i + 1] = c
  BY <1>4, <1>5
<1> HIDE DEF i, m
<1>8. /\ Sees(r, i) /\ Sees(r, i + 1)
      /\ \A e \in Elem : ElemAt(r, i + 2, e, n + 1, n, src, F[e] + (IF e = fL[f] THEN 1 ELSE 0))
  BY <1>1, <1>5, <1>6, <1>7, BoundaryFace
<1>9. \A j \in DOMAIN r : Sees(r, j)
  <2>1. \A j \in DOMAIN r : j > Len(q) => j \in {i, i + 1}
    BY <1>4, <1>5, LenProperties DEF i, m
  <2> QED
    BY <1>4, <1>8, <2>1, AllSee
<1> QED
  BY <1>4, <1>5, <1>8, <1>9

\* make the loop over the faces.
LEMMA FacesViews == Inv /\ OrderInv /\ ViewInv /\ Faces => ViewInv'
<1> SUFFICES ASSUME Inv, OrderInv, ViewInv, Faces PROVE ViewInv'
  OBVIOUS
<1> DEFINE q == queue  r == queue'
<1>1. /\ pc = "faces" /\ k \in Face /\ r = q \o FaceTasks(k) /\ ftnow \in Int
      /\ \/ pc' = "faces" /\ k' = k + 1 /\ k' \in Face
         \/ pc' = "solve" /\ k' = 0 /\ k = nbfaces - 1
  BY FacesTurn DEF Inv, HostTypeOK, Submit
<1>2. PICK n \in Nat : ViewsAfter(n)
  BY DEF ViewInv
<1>3. q \in Seq(Task) /\ Len(q) \in Nat
  BY ThetaTasks, LenProperties DEF OrderInv
<1> DEFINE src == IF HasSource THEN 1 ELSE 0
           F == [e \in Elem |-> FluxesIn(e)]
           G(e) == F[e] + (IF e = fL[k] THEN 1 ELSE 0) + (IF e = fR[k] THEN 1 ELSE 0)
<1>4. \A e \in Elem : SourcesIn(e) = src /\ SourcesIn(e)' = src
  BY <1>1 DEF SourcesIn
<1>5. src \in Nat /\ F \in [Elem -> Nat]
  <2>1. \A e \in Elem : FluxesIn(e) \in Nat
    BY SidesFinite DEF FluxesIn
  <2> QED
    BY <2>1
<1>6. \A e \in Elem : ElemAt(q, Len(q) + 1, e, n + 1, n, src, F[e])
  <2>1. \A e \in Elem : ElemAt(q, Len(q) + 1, e, n + 1,
                               n + (IF pc = "solve" /\ e < k THEN 1 ELSE 0),
                               SourcesIn(e), FluxesIn(e))
    BY <1>1, <1>2, <1>3, AllOpen
  <2>2. \A e \in Elem : n + (IF pc = "solve" /\ e < k THEN 1 ELSE 0) = n
    BY <1>1
  <2> QED
    BY <1>4, <2>1, <2>2
<1>7. \A j \in DOMAIN q : Sees(q, j)
  BY DEF ViewInv
<1>8. \A e \in Elem : FluxesIn(e)' = G(e)
  BY <1>1, FluxesCounted
<1> HIDE DEF q, r, src, F
<1>9. /\ Len(r) \in Nat
      /\ \A j \in DOMAIN r : Sees(r, j)
      /\ \A e \in Elem : ElemAt(r, Len(r) + 1, e, n + 1, n, src, G(e))
  <2>1. CASE fR[k] # Null
    BY <1>1, <1>3, <1>5, <1>6, <1>7, <2>1, InnerFaceViews
  <2>2. CASE fR[k] = Null
    <3>1. /\ Len(r) \in Nat
          /\ \A j \in DOMAIN r : Sees(r, j)
          /\ \A e \in Elem : ElemAt(r, Len(r) + 1, e, n + 1, n, src,
                                    F[e] + (IF e = fL[k] THEN 1 ELSE 0))
      BY <1>1, <1>3, <1>5, <1>6, <1>7, <2>2, BoundaryFaceViews
    <3>2. ASSUME NEW e \in Elem
          PROVE  G(e) = F[e] + (IF e = fL[k] THEN 1 ELSE 0)
      <4>1. e # fR[k]
        BY <2>2, Loops DEF Null
      <4>2. F[e] \in Nat
        BY <1>5
      <4> QED
        BY <4>1, <4>2
    <3> QED
      BY <3>1, <3>2
  <2> QED
    BY <2>1, <2>2
<1> HIDE DEF G
<1>10. ViewsAfter(n)'
  <2>1. /\ \A e \in Elem : n + (IF Opened(e)' THEN 1 ELSE 0) = n + 1
        /\ \A e \in Elem : n + (IF pc' = "solve" /\ e < k' THEN 1 ELSE 0) = n
        /\ Len(r) + 1 - 1 = Len(r)
    BY <1>1, <1>9, Loops DEF Opened
  <2> QED
    BY <1>4, <1>8, <1>9, <2>1 DEF ViewsAfter, ElemAt, r
<1> QED
  BY <1>2, <1>9, <1>10 DEF ViewInv, r

\* Nothing else touches the queue.
LEMMA OtherViews ==
  ASSUME Inv, ViewInv,
         WhileLoop \/ FinalWait \/ Workers \/ UNCHANGED vars
  PROVE  ViewInv'
<1>1. queue' = queue
  BY DEF WhileLoop, FinalWait, Workers, While, WaitForAll, StartKernel, FinishKernel, Start, Finish,
         vars, rtVars
<1>2. \/ pc' = pc /\ k' = k
      \/ pc \in {"while", "wait"} /\ pc' \in {"wait", "matvect", "return"} /\ k' = 0
  BY DEF WhileLoop, FinalWait, Workers, While, WaitForAll, StartKernel, FinishKernel, vars, Inv, HostTypeOK
<1>3. CASE pc' = pc /\ k' = k
  <2>1. ASSUME NEW n \in Nat PROVE ViewsAfter(n)' <=> ViewsAfter(n)
    BY <1>1, <1>3 DEF ViewsAfter, Opened, SourcesIn, FluxesIn, FaceDone, SidesOf
  <2> QED
    BY <1>1, <2>1 DEF ViewInv
\* Between two time steps no right-hand side is open.
<1>4. CASE pc \in {"while", "wait"} /\ pc' \in {"wait", "matvect", "return"} /\ k' = 0
  <2>1. \A e \in Elem : ~ Opened(e) /\ ~ Opened(e)'
    BY <1>4, Loops DEF Opened
  <2>2. ASSUME NEW n \in Nat, ViewsAfter(n)
        PROVE  ViewsAfter(n)'
    BY <1>1, <1>4, <2>1, <2>2 DEF ViewsAfter
  <2> QED
    BY <1>1, <2>2 DEF ViewInv
<1> QED
  BY <1>2, <1>3, <1>4

\* In an empty queue nothing is seen.
LEMMA ViewInit == Init => ViewInv
<1> SUFFICES ASSUME Init PROVE ViewInv
  OBVIOUS
<1>1. queue = << >> /\ pc = "while" /\ DOMAIN queue = {} /\ Len(queue) = 0
  BY DEF Init, RTInit
<1>2. \A e : StepIn(queue, 0, e) = 0
  <2>1. Cardinality({}) = 0 /\ 1..0 = {}
    BY FS_EmptySet
  <2> QED
    BY <2>1 DEF StepIn
<1>3. \A e : StateIs(queue, 1, e, 0)
  <2>1. 1..(1 - 1) = {}
    OBVIOUS
  <2> QED
    BY <2>1 DEF StateIs, Held
<1>4. \A e \in Elem : ~ Opened(e)
  BY <1>1 DEF Opened
<1>5. ViewsAfter(0)
  <2>1. \A e \in Elem : /\ 0 + (IF Opened(e) THEN 1 ELSE 0) = 0
                        /\ 0 + (IF pc = "solve" /\ e < k THEN 1 ELSE 0) = 0
    BY <1>1, <1>4
  <2>2. 0 + 1 = 1
    OBVIOUS
  <2> QED
    BY <1>1, <1>2, <1>3, <1>4, <2>1, <2>2 DEF ViewsAfter
<1> QED
  BY <1>1, <1>5 DEF ViewInv

\* Every task LocalThetaTimeScheme_SPU submits will see what it must, on every mesh: the
\* invariant of the queue that the next two theorems rest on.
THEOREM LocalThetaViews == Spec => []ViewInv
<1>1. Inv /\ OrderInv /\ ViewInv /\ [Next]_vars => ViewInv'
  BY MatVectsViews, SourcesViews, FacesViews, SolvesViews, OtherViews DEF Next, Host, Returned
<1> QED
  BY <1>1, ViewInit, LocalThetaInvariant, LocalThetaOrder, PTL DEF Spec

-----------------------------------------------------------------------------
(* What running tasks see.                                                 *)

\* StepOf is StepIn of the queue.
LEMMA StepOfIsStepIn == \A i, e : StepOf(i, e) = StepIn(queue, i, e)
BY DEF StepOf, StepIn, Opens

\* Across a face.
LEMMA FluxesSee == Inv /\ OrderInv /\ ViewInv => FluxSeesThisStep
<1> SUFFICES ASSUME Inv, OrderInv, ViewInv, NEW i \in Running,
                    queue[i].cl = "InterfaceExplicitFlux"
             PROVE  \E j \in 1..(i - 1) :
                      /\ view[i][queue[i].buf[1]] = {j}
                      /\ queue[j].cl = "ExtractInterface"
                      /\ queue[j].buf[2] = sol_handle(Across(queue[i]))
                      /\ StepOf(j, Across(queue[i])) = StepOf(i, Into(queue[i]))
  BY DEF FluxSeesThisStep, Across, Into
<1>1. FluxSees(queue, i)
  BY RunningViews DEF Inv, OrderInv, ViewInv, Sees
<1> QED
  BY <1>1, RunningFlux, StepOfIsStepIn DEF Inv, OrderInv

\* In the element itself.
LEMMA ExtractionsSee == Inv /\ OrderInv /\ ViewInv => ExtractLags(1)
<1> SUFFICES ASSUME Inv, OrderInv, ViewInv, NEW i \in Running,
                    queue[i].cl = "ExtractInterface"
             PROVE  IF StepOf(i, queue[i].buf[2][2]) - 1 = 0
                    THEN view[i][sol_handle(queue[i].buf[2][2])] = {}
                    ELSE \E j \in 1..(i - 1) :
                           /\ view[i][sol_handle(queue[i].buf[2][2])] = {j}
                           /\ queue[j].cl = "SolveSkyline"
                           /\ StepOf(j, queue[i].buf[2][2]) = StepOf(i, queue[i].buf[2][2]) - 1
  BY DEF ExtractLags
<1> DEFINE u == queue[i].buf[2][2]  s == StepOf(i, u) - 1
<1>1. u = queue[i].buf[2][2] /\ s = StepIn(queue, i, u) - 1
  BY StepOfIsStepIn
<1> HIDE DEF u, s
<1>2. ExtractSees(queue, i, 1)
  BY RunningViews DEF Inv, OrderInv, ViewInv, Sees
<1>3. StateInView(i, u, s)
  BY <1>1, <1>2, RunningExtract DEF Inv, OrderInv
<1>4. IF s = 0 THEN view[i][sol_handle(u)] = {}
      ELSE \E j \in 1..(i - 1) : /\ view[i][sol_handle(u)] = {j}
                                 /\ queue[j].cl = "SolveSkyline" /\ StepOf(j, u) = s
  BY <1>3, StepOfIsStepIn DEF StateInView
<1> QED
  BY <1>4 DEF s, u

\* LocalThetaTimeScheme_SPU takes the neighbours with the state they had at the beginning
\* of the time step, on every mesh and however the runtime orders the tasks, although it
\* never waits between the loops: no flux reads a face that still holds, or already holds,
\* the state of another step.
THEOREM LocalThetaNeighboursAtTheOldStep == Spec => []NeighboursAtTheOldStep
<1>1. Inv /\ OrderInv /\ ViewInv => NeighboursAtTheOldStep
  BY FluxesSee, ExtractionsSee DEF NeighboursAtTheOldStep
<1> QED
  BY <1>1, LocalThetaInvariant, LocalThetaOrder, LocalThetaViews, PTL

\* The systems it solves are complete: a solve starts on the product with the old state,
\* the source if there is one, and one flux for each side of a face its element lies on,
\* all of the same time step, none missing and none twice.
THEOREM LocalThetaSolveSeesItsStep == Spec => []SolveSeesItsStep
<1>1. ASSUME Inv, OrderInv, ViewInv, NEW i \in Running,
             queue[i].cl = "SolveSkyline", NEW e, e = queue[i].buf[1][2],
             NEW rhs, rhs = view[i][rhs_handle(e)]
      PROVE  /\ \A j \in rhs : StepOf(j, e) = StepOf(i, e)
             /\ Cardinality(OfCodelet(rhs, "MatVectSkyline")) = 1
             /\ Cardinality(OfCodelet(rhs, "SourceLocalAssembly")) =
                  IF HasSource THEN 1 ELSE 0
             /\ Cardinality(OfCodelet(rhs, "InterfaceBoundaryFlux")
                              \cup OfCodelet(rhs, "InterfaceExplicitFlux")) =
                  Cardinality(SidesOf(e))
  <2> DEFINE n == Cardinality(SidesOf(e))
  <2>1. SolveSees(queue, i, n)
    BY <1>1, RunningViews DEF Inv, OrderInv, ViewInv, Sees
  <2> HIDE DEF n
  <2>2. RhsInView(i, e, rhs, n)
    BY <1>1, <2>1, RunningSolve DEF Inv, OrderInv
  <2> QED
    BY <2>2, StepOfIsStepIn DEF RhsInView, n
<1>2. ASSUME Inv, OrderInv, ViewInv
      PROVE  SolveSeesItsStep
  <2> SUFFICES ASSUME NEW i \in Running, queue[i].cl = "SolveSkyline",
                      NEW e, e = queue[i].buf[1][2], NEW rhs, rhs = view[i][rhs_handle(e)]
               PROVE  /\ \A j \in rhs : StepOf(j, e) = StepOf(i, e)
                      /\ Cardinality(OfCodelet(rhs, "MatVectSkyline")) = 1
                      /\ Cardinality(OfCodelet(rhs, "SourceLocalAssembly")) =
                           IF HasSource THEN 1 ELSE 0
                      /\ Cardinality(OfCodelet(rhs, "InterfaceBoundaryFlux")
                                       \cup OfCodelet(rhs, "InterfaceExplicitFlux")) =
                           Cardinality(SidesOf(e))
    BY Zenon DEF SolveSeesItsStep, SolveIsComplete, OfCodelet
  <2> QED
    BY <1>2, <1>1
<1> QED
  BY <1>2, LocalThetaInvariant, LocalThetaOrder, LocalThetaViews, PTL
=============================================================================
