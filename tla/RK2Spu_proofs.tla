--------------------------- MODULE RK2Spu_proofs ---------------------------
(***************************************************************************)
(* RK2_SPU is a program of the runtime of StarPU.tla: on every mesh, for   *)
(* every number of workers, every final time and every limit on the tasks  *)
(* in flight, its kernels never race, and each sees the writes it would    *)
(* see in a sequential execution.                                          *)
(***************************************************************************)
EXTENDS RK2Spu, SpuHost_proofs, ResidueTheorems

\* Where the host is, and that the counter of the loop it is in indexes the
\* mesh: it is what makes each turn submit well-formed tasks.
HostTypeOK ==
  /\ pc \in HostLoop
  /\ k \in Nat
  /\ pc \in {"zeroDtw", "zeroRes", "elems", "add"} => k \in Elem
  /\ pc = "faces" => k \in Face
  /\ pc \notin {"zeroDtw", "zeroRes", "elems", "add", "faces"} => k = 0
  /\ stage \in {1, 2}
  /\ iter \in Nat /\ tnow \in Nat /\ ftnow \in Nat

Inv == RTInv /\ HostTypeOK

\* RK2_SPU is called with nothing submitted and its counters at 0.
LEMMA InitInv == Init => Inv
<1>1. Init => RTInv
  BY RTInitInv DEF Init
<1>2. Init => HostTypeOK
  BY DEF Init, HostTypeOK, HostLoop
<1> QED
  BY <1>1, <1>2 DEF Inv

-----------------------------------------------------------------------------
(* The tasks of one turn of a loop.                                        *)

\* Those of DtFields_SPU on a face.
LEMMA FaceTasksAreTasks ==
  ASSUME NEW f \in Face, ftnow \in Nat
  PROVE  FaceTasks(f) \in Seq(Task)
<1>1. ~ HasSolver /\ 0 \in {0, 1} /\ 1 \in {0, 1} /\ ftnow \in Int
  BY RK2Assumption
<1>2. /\ ExtractInterface_SPU(f, 0) \in Seq(Task)
      /\ ExtractInterface_SPU(f, 1) \in Seq(Task)
  BY <1>1, InterfaceTasks
<1>3. /\ DGMacroCellInterface_SPU(f, 0) \in Seq(Task)
      /\ DGMacroCellInterface_SPU(f, 1) \in Seq(Task)
      /\ DGMacroCellBoundaryFlux_SPU(f, ftnow) \in Seq(Task)
  BY <1>1, ExplicitFaceTasks
<1> QED
  BY <1>2, <1>3, ConcatProperties DEF FaceTasks

\* Those of DtFields_SPU on an element.
LEMMA ElemTasksAreTasks ==
  ASSUME NEW e \in Elem, ftnow \in Nat
  PROVE  ElemTasks(e) \in Seq(Task)
<1>1. ~ HasSolver /\ ftnow \in Int
  BY RK2Assumption
<1>2. /\ DGSubCellInterface_SPU(e) \in Seq(Task)
      /\ DGVolume_SPU(e) \in Seq(Task)
      /\ DGSource_SPU(e, ftnow) \in Seq(Task)
      /\ DGMass_SPU(e) \in Seq(Task)
  BY <1>1, ExplicitElementTasks
<1> QED
  BY <1>2, ConcatProperties DEF ElemTasks

-----------------------------------------------------------------------------
(* Every step is a step of the runtime.                                    *)

\* The host submits tasks or leaves the runtime alone.
LEMMA HostSteps == Inv /\ Host => [RTNext]_rtVars
<1> SUFFICES ASSUME Inv, Host PROVE [RTNext]_rtVars
  OBVIOUS
<1>1. RTTypeOK /\ HostTypeOK
  BY DEF Inv, RTInv
<1>2. CASE WhileLoop
  BY <1>2 DEF WhileLoop, While
<1>3. CASE ZeroDtw
  <2>1. ZeroBuffer_SPU(dtwn_handle(k)) \in Seq(Task)
    BY <1>1, <1>3, RK2Assumption, ExplicitElementTasks DEF HostTypeOK, ZeroDtw, Turn
  <2> QED
    BY <1>1, <1>3, <2>1, HostStep DEF ZeroDtw
<1>4. CASE ZeroRes
  <2>1. ZeroBuffer_SPU(res_handle(k)) \in Seq(Task)
    BY <1>1, <1>4, RK2Assumption, ExplicitElementTasks DEF HostTypeOK, ZeroRes, Turn
  <2> QED
    BY <1>1, <1>4, <2>1, HostStep DEF ZeroRes
<1>5. CASE Faces
  <2>1. FaceTasks(k) \in Seq(Task)
    BY <1>1, <1>5, FaceTasksAreTasks DEF HostTypeOK, Faces, Turn
  <2> QED
    BY <1>1, <1>5, <2>1, HostStep DEF Faces
<1>6. CASE Elems
  <2>1. ElemTasks(k) \in Seq(Task)
    BY <1>1, <1>6, ElemTasksAreTasks DEF HostTypeOK, Elems, Turn
  <2> QED
    BY <1>1, <1>6, <2>1, HostStep DEF Elems
<1>7. CASE AddBuffers
  <2>1. Weight \in Int
    BY <1>1 DEF HostTypeOK, Weight
  <2>2. AddBuffer_SPU(Weight, dtwn_handle(k), wn_handle(k)) \in Seq(Task)
    BY <1>1, <1>7, <2>1, RK2Assumption, ExplicitElementTasks DEF HostTypeOK, AddBuffers, Turn
  <2> QED
    BY <1>1, <1>7, <2>2, HostStep DEF AddBuffers
<1>8. CASE FinalWait
  BY <1>8 DEF FinalWait, WaitForAll
<1> QED
  BY <1>2, <1>3, <1>4, <1>5, <1>6, <1>7, <1>8 DEF Host

\* The workers run tasks that have been submitted.
LEMMA WorkersSteps == Inv /\ Workers => [RTNext]_rtVars
<1> SUFFICES ASSUME Inv, Workers PROVE RTNext
  OBVIOUS
<1>1. RTTypeOK
  BY DEF Inv, RTInv
<1>2. CASE \E i \in DOMAIN queue \ done : StartKernel(i)
  BY <1>1, <1>2, WorkerAction DEF StartKernel
<1>3. CASE \E i \in Running : FinishKernel(i)
  BY <1>1, <1>3, WorkerAction DEF FinishKernel
<1> QED
  BY <1>2, <1>3 DEF Workers

\* The whole next-state relation, stuttering included.
LEMMA StepsAreRTSteps == Inv /\ [Next]_vars => [RTNext]_rtVars
<1>1. UNCHANGED vars => UNCHANGED rtVars
  BY DEF vars
<1> QED
  BY <1>1, HostSteps, WorkersSteps DEF Next, Returned

-----------------------------------------------------------------------------
(* The host stays where HostTypeOK says.                                   *)

\* A turn of a loop over n things, for a thing it has, leads to the next thing
\* or to the loop `after` with its counter at 0.
LEMMA TurnOfLoop ==
  ASSUME NEW here, NEW after, NEW ts, NEW n \in Nat, k \in 0..(n - 1),
         Turn(here, ts, n, after)
  PROVE  \/ pc' = here /\ k' \in 0..(n - 1)
         \/ pc' = after /\ k' = 0
BY DEF Turn

\* Loop by loop.
LEMMA HostTypeStep == Inv /\ [Next]_vars => HostTypeOK'
<1> SUFFICES ASSUME Inv, [Next]_vars PROVE HostTypeOK'
  OBVIOUS
<1>1. HostTypeOK
  BY DEF Inv
<1>2. /\ nbelems \in Nat \ {0} /\ nbfaces \in Nat \ {0}
      /\ 0 \in Elem /\ 0 \in Face /\ Elem \subseteq Nat /\ Face \subseteq Nat
  BY MeshAssumption DEF Elem, Face
<1> USE DEF HostTypeOK, HostLoop
<1>3. CASE UNCHANGED vars
  BY <1>1, <1>3 DEF vars, hostVars
<1>4. CASE WhileLoop
  BY <1>1, <1>2, <1>4 DEF WhileLoop, While
<1>5. CASE ZeroDtw
  <2>1. k \in Elem /\ UNCHANGED << stage, iter, tnow, ftnow >>
    BY <1>1, <1>5 DEF ZeroDtw, Turn
  <2>2. (pc' = "zeroDtw" /\ k' \in Elem) \/ (pc' = "zeroRes" /\ k' = 0)
    BY <1>2, <1>5, <2>1, TurnOfLoop DEF ZeroDtw, Elem
  <2> QED
    BY <1>1, <1>2, <2>1, <2>2
<1>6. CASE ZeroRes
  <2>1. k \in Elem /\ UNCHANGED << stage, iter, tnow >> /\ ftnow' \in Nat
    BY <1>1, <1>6 DEF ZeroRes, Turn
  <2>2. (pc' = "zeroRes" /\ k' \in Elem) \/ (pc' = "faces" /\ k' = 0)
    BY <1>2, <1>6, <2>1, TurnOfLoop DEF ZeroRes, Elem
  <2> QED
    BY <1>1, <1>2, <2>1, <2>2
<1>7. CASE Faces
  <2>1. k \in Face /\ UNCHANGED << stage, iter, tnow, ftnow >>
    BY <1>1, <1>7 DEF Faces, Turn
  <2>2. (pc' = "faces" /\ k' \in Face) \/ (pc' = "elems" /\ k' = 0)
    BY <1>2, <1>7, <2>1, TurnOfLoop DEF Faces, Face
  <2> QED
    BY <1>1, <1>2, <2>1, <2>2
<1>8. CASE Elems
  <2>1. k \in Elem /\ UNCHANGED << stage, iter, tnow, ftnow >>
    BY <1>1, <1>8 DEF Elems, Turn
  <2>2. (pc' = "elems" /\ k' \in Elem) \/ (pc' = "add" /\ k' = 0)
    BY <1>2, <1>8, <2>1, TurnOfLoop DEF Elems, Elem
  <2> QED
    BY <1>1, <1>2, <2>1, <2>2
<1>9. CASE AddBuffers
  <2>1. /\ k \in Elem
        /\ stage' \in {1, 2} /\ iter' \in Nat /\ tnow' \in Nat /\ ftnow' \in Nat
    BY <1>1, <1>9 DEF AddBuffers, Turn
  <2>2. \/ pc' = "add" /\ k' \in Elem
        \/ pc' \in {"zeroRes", "while"} /\ k' = 0
    BY <1>2, <1>9, <2>1, TurnOfLoop DEF AddBuffers, Elem
  <2> QED
    BY <1>1, <1>2, <2>1, <2>2
<1>10. CASE FinalWait
  BY <1>1, <1>10 DEF FinalWait, WaitForAll
<1>11. CASE Workers
  BY <1>1, <1>11 DEF Workers, StartKernel, FinishKernel, hostVars
<1> QED
  BY <1>3, <1>4, <1>5, <1>6, <1>7, <1>8, <1>9, <1>10, <1>11 DEF Next, Host, Returned

-----------------------------------------------------------------------------
(* The theorems.                                                           *)

\* The inductive invariant of the runtime and of the host together.
THEOREM RK2Invariant == Spec => []Inv
<1>1. Inv /\ [Next]_vars => RTInv'
  BY StepsAreRTSteps, RTStep DEF Inv
<1>2. Inv /\ [Next]_vars => Inv'
  BY <1>1, HostTypeStep DEF Inv
<1> QED
  BY InitInv, <1>2, PTL DEF Spec

\* RK2_SPU implements "a host program that submits well-formed tasks and waits
\* for nothing but their end" of StarPU.tla.
THEOREM RK2ImplementsRuntime == Spec => RTSpec
<1>1. Init => RTInit
  BY DEF Init
<1> QED
  BY <1>1, StepsAreRTSteps, RK2Invariant, PTL DEF Spec, RTSpec

\* Two kernels of RK2_SPU are never in a buffer together unless both only read
\* it.
THEOREM RK2RaceFree == Spec => []NoDataRace
BY RK2ImplementsRuntime, RaceFree, PTL

\* A kernel of RK2_SPU sees in its buffers what it would see if the tasks ran
\* one after the other in the order of submission, up to the additions of its
\* commuting group.
THEOREM RK2SequentialView == Spec => []SequentialView
BY RK2ImplementsRuntime, SequentialSemantics, PTL

-----------------------------------------------------------------------------
(* What the tasks of the scheme do.                                        *)

\* What the codelets of the explicit scheme declare and do.
LEMMA ExplicitCodelets ==
  /\ Codelet["ZeroBuffer"] = << [mode |-> "RW", eff |-> "set"] >>
  /\ Codelet["AddBuffer"] = << [mode |-> "R", eff |-> "read"], [mode |-> "RWC", eff |-> "add"] >>
  /\ Codelet["DGSubCellInterface"] = << [mode |-> "R", eff |-> "read"], [mode |-> "RWC", eff |-> "add"] >>
  /\ Codelet["DGVolume"] = << [mode |-> "R", eff |-> "read"], [mode |-> "RW", eff |-> "add"] >>
  /\ Codelet["DGSource"] = << [mode |-> "R", eff |-> "read"], [mode |-> "RWC", eff |-> "add"] >>
  /\ Codelet["DGMass"] = << [mode |-> "R", eff |-> "read"], [mode |-> "RWC", eff |-> "upd"] >>
  /\ Codelet["DGMacroCellInterface"] =
       << [mode |-> "R", eff |-> "read"], [mode |-> "R", eff |-> "read"], [mode |-> "RW", eff |-> "add"] >>
  /\ Codelet["DGMacroCellBoundaryFlux"] = << [mode |-> "R", eff |-> "read"], [mode |-> "RW", eff |-> "add"] >>
  /\ Codelet["ExtractInterface"] = << [mode |-> "W", eff |-> "set"], [mode |-> "R", eff |-> "read"] >>
BY DEF Codelet, Buf, ZeroBuffer_codelet, AddBuffer_codelet, DGSubCellInterface_codelet,
  DGVolume_codelet, DGSource_codelet, DGMass_codelet, DGMacroCellInterface_codelet,
  DGMacroCellBoundaryFlux_codelet, ExtractInterface_codelet

\* The tasks that gather the fluxes of a stage: all but the last two of an element.
IsFluxTask(t) ==
  \/ t.cl = "ZeroBuffer" /\ \E e \in Elem : t.buf = << dtwn_handle(e) >> \/ t.buf = << res_handle(e) >>
  \/ /\ t.cl \in {"DGSubCellInterface", "DGVolume", "DGSource"}
     /\ \E e \in Elem : t.buf = << wn_handle(e), res_handle(e) >>
  \/ /\ t.cl = "ExtractInterface"
     /\ \E f \in Face, e \in Elem : \/ t.buf = << wL_handle(f), wn_handle(e) >>
                                    \/ t.buf = << wR_handle(f), wn_handle(e) >>
  \/ /\ t.cl = "DGMacroCellInterface"
     /\ \E f \in Face, e \in Elem : \/ t.buf = << wL_handle(f), wR_handle(f), res_handle(e) >>
                                    \/ t.buf = << wR_handle(f), wL_handle(f), res_handle(e) >>
  \/ /\ t.cl = "DGMacroCellBoundaryFlux"
     /\ \E f \in Face, e \in Elem : t.buf = << wL_handle(f), res_handle(e) >>
FluxTask == {t \in Task : IsFluxTask(t)}

\* DGMass and AddBuffer on element e, and all the tasks of the scheme.
MassTask(e) == {t \in Task : t.cl = "DGMass" /\ t.buf = << res_handle(e), dtwn_handle(e) >>}
AddTask(e)  == {t \in Task : t.cl = "AddBuffer" /\ t.buf = << dtwn_handle(e), wn_handle(e) >>}
RK2Task == FluxTask \cup UNION {MassTask(e) \cup AddTask(e) : e \in Elem}

\* Sequences of some of these tasks are sequences of tasks.
LEMMA RK2Tasks ==
  /\ RK2Task \subseteq Task /\ FluxTask \subseteq RK2Task
  /\ \A e \in Elem : MassTask(e) \subseteq RK2Task /\ AddTask(e) \subseteq RK2Task
  /\ Seq(RK2Task) \subseteq Seq(Task) /\ Seq(FluxTask) \subseteq Seq(RK2Task)
BY DEF RK2Task, FluxTask, MassTask, AddTask

\* Handles of different kinds are different.
LEMMA ExplicitHandles ==
  \A x, y :
    /\ wn_handle(x) # dtwn_handle(y) /\ wn_handle(x) # res_handle(y) /\ dtwn_handle(x) # res_handle(y)
    /\ wn_handle(x) # wL_handle(y) /\ wn_handle(x) # wR_handle(y)
    /\ dtwn_handle(x) # wL_handle(y) /\ dtwn_handle(x) # wR_handle(y)
    /\ res_handle(x) # wL_handle(y) /\ res_handle(x) # wR_handle(y)
    /\ wL_handle(x) # wR_handle(y)
BY DEF wn_handle, dtwn_handle, res_handle, wL_handle, wR_handle

\* Without a solver the interfaces work on wn and res.
LEMMA StateIsWn ==
  \A e : state_handle(e) = wn_handle(e) /\ flux_handle(e) = res_handle(e)
BY RK2Assumption DEF state_handle, flux_handle

\* A flux task changes no state, and leaves the time derivatives alone or zeroes them.
LEMMA FluxTasksDo ==
  ASSUME NEW t \in FluxTask, NEW e
  PROVE  /\ ~ Writes(t, wn_handle(e)) /\ ~ Commutes(t, dtwn_handle(e))
         /\ \A h : ~ Does(t, h, {"upd"})
<1>1. t \in Task
  BY DEF FluxTask
<1> USE OneOrMoreBuffers, ExplicitCodelets, ExplicitHandles DEF Writes, Commutes
<1>2. CASE t.cl = "ZeroBuffer"
  BY <1>2 DEF FluxTask, IsFluxTask
<1>3. CASE t.cl \in {"DGSubCellInterface", "DGVolume", "DGSource"}
  BY <1>3 DEF FluxTask, IsFluxTask
<1>4. CASE t.cl = "ExtractInterface"
  BY <1>4 DEF FluxTask, IsFluxTask
<1>5. CASE t.cl = "DGMacroCellInterface"
  BY <1>5 DEF FluxTask, IsFluxTask
<1>6. CASE t.cl = "DGMacroCellBoundaryFlux"
  BY <1>6 DEF FluxTask, IsFluxTask
<1> QED
  BY <1>2, <1>3, <1>4, <1>5, <1>6 DEF FluxTask, IsFluxTask

\* A mass task updates the time derivative of its element from its residual,
LEMMA MassTasksDo ==
  ASSUME NEW x, NEW t \in MassTask(x), NEW e
  PROVE  /\ ~ Writes(t, wn_handle(e)) 
         /\ Commutes(t, dtwn_handle(e)) <=> e = x
         /\ ReadOnly(t, res_handle(x))
         /\ \A h : Does(t, h, {"upd"}) => h = dtwn_handle(x)
BY OneOrMoreBuffers, ExplicitCodelets, ExplicitHandles, SameElement
   DEF MassTask, Writes, Commutes, ReadOnly

\* which an AddBuffer adds to the state of its element.
LEMMA AddTasksDo ==
  ASSUME NEW x, NEW t \in AddTask(x), NEW e
  PROVE  /\ Writes(t, wn_handle(e)) <=> e = x
         /\ ~ Commutes(t, dtwn_handle(e))
         /\ ReadOnly(t, dtwn_handle(x))
         /\ \A h : ~ Does(t, h, {"upd"})
BY OneOrMoreBuffers, ExplicitCodelets, ExplicitHandles, SameElement
   DEF AddTask, Writes, Commutes, ReadOnly

-----------------------------------------------------------------------------
(* What a turn of each loop submits.                                       *)

\* ZeroBuffer, to dtwn or to res.
LEMMA ZeroBufferTasks ==
  ASSUME NEW e \in Elem
  PROVE  /\ ZeroBuffer_SPU(dtwn_handle(e)) \in Seq(FluxTask)
         /\ ZeroBuffer_SPU(res_handle(e)) \in Seq(FluxTask)
<1>1. /\ ZeroBuffer_SPU(dtwn_handle(e)) \in Seq(Task)
      /\ ZeroBuffer_SPU(res_handle(e)) \in Seq(Task)
  BY RK2Assumption, ExplicitElementTasks
<1> QED
  BY <1>1 DEF ZeroBuffer_SPU, FluxTask, IsFluxTask

\* AddBuffer, of dtwn to wn.
LEMMA AddBufferTasks ==
  ASSUME NEW e \in Elem, NEW alpha \in Int
  PROVE  /\ Len(AddBuffer_SPU(alpha, dtwn_handle(e), wn_handle(e))) = 1
         /\ AddBuffer_SPU(alpha, dtwn_handle(e), wn_handle(e)) \in Seq(AddTask(e))
<1>1. AddBuffer_SPU(alpha, dtwn_handle(e), wn_handle(e)) \in Seq(Task)
  BY RK2Assumption, ExplicitElementTasks
<1> QED
  BY <1>1 DEF AddBuffer_SPU, AddTask

\* One flux task.
LEMMA OneFluxTask ==
  ASSUME NEW t, << t >> \in Seq(Task), IsFluxTask(t)
  PROVE  << t >> \in Seq(FluxTask)
<1>1. t \in FluxTask
  BY OneInSequence DEF FluxTask
<1> QED
  BY <1>1

\* The tasks of DtFields_SPU on an element, function by function,
LEMMA FluxTasksOfElement ==
  ASSUME NEW e \in Elem, NEW t \in Int
  PROVE  /\ DGSubCellInterface_SPU(e) \in Seq(FluxTask)
         /\ DGVolume_SPU(e) \in Seq(FluxTask) /\ Len(DGVolume_SPU(e)) = 1
         /\ ReadOnly(DGVolume_SPU(e)[1], wn_handle(e)) /\ Writes(DGVolume_SPU(e)[1], res_handle(e))
         /\ DGSource_SPU(e, t) \in Seq(FluxTask)
         /\ DGMass_SPU(e) \in Seq(MassTask(e)) /\ Len(DGMass_SPU(e)) = 1
<1>1. /\ DGSubCellInterface_SPU(e) \in Seq(Task) /\ DGVolume_SPU(e) \in Seq(Task)
      /\ DGSource_SPU(e, t) \in Seq(Task) /\ DGMass_SPU(e) \in Seq(Task)
      /\ << >> \in Seq(FluxTask)
  BY RK2Assumption, ExplicitElementTasks
<1>2. \A x : \A c \in {"DGSubCellInterface", "DGVolume", "DGSource"} :
        IsFluxTask([cl |-> c, buf |-> << wn_handle(e), res_handle(e) >>, arg |-> x])
  BY DEF IsFluxTask
<1>3. DGSubCellInterface_SPU(e) \in Seq(FluxTask)
  BY <1>1, <1>2, OneFluxTask DEF DGSubCellInterface_SPU
<1>4. DGVolume_SPU(e) \in Seq(FluxTask) /\ Len(DGVolume_SPU(e)) = 1
  BY <1>1, <1>2, OneFluxTask DEF DGVolume_SPU
<1>5. DGSource_SPU(e, t) \in Seq(FluxTask)
  BY <1>1, <1>2, OneFluxTask DEF DGSource_SPU
<1>6. DGMass_SPU(e) \in Seq(MassTask(e)) /\ Len(DGMass_SPU(e)) = 1
  BY <1>1 DEF DGMass_SPU, MassTask
<1>7. ReadOnly(DGVolume_SPU(e)[1], wn_handle(e)) /\ Writes(DGVolume_SPU(e)[1], res_handle(e))
  BY OneOrMoreBuffers, ExplicitCodelets DEF ReadOnly, Writes, DGVolume_SPU
<1> QED
  BY <1>3, <1>4, <1>5, <1>6, <1>7

\* and in their order: a task that reads the state and writes the residual, then
\* others, and the mass task last.
LEMMA ElemTasksShape ==
  ASSUME NEW e \in Elem, ftnow \in Nat
  PROVE  LET ts == ElemTasks(e)
         IN  \E v, z \in DOMAIN ts :
               /\ v < z /\ z = Len(ts)
               /\ ReadOnly(ts[v], wn_handle(e)) /\ Writes(ts[v], res_handle(e))
               /\ ts[z] \in MassTask(e)
               /\ \A n \in DOMAIN ts : n < z => ts[n] \in FluxTask
<1>1. ftnow \in Int
  OBVIOUS
<1> DEFINE a == DGSubCellInterface_SPU(e)  b == DGVolume_SPU(e)
           c == DGSource_SPU(e, ftnow)     d == DGMass_SPU(e)
           m == Len(a) + Len(b) + Len(c)
<1>2. /\ a \in Seq(FluxTask) /\ b \in Seq(FluxTask) /\ c \in Seq(FluxTask)
      /\ d \in Seq(MassTask(e)) /\ Len(b) = 1 /\ Len(d) = 1
      /\ ReadOnly(b[1], wn_handle(e)) /\ Writes(b[1], res_handle(e))
  BY <1>1, FluxTasksOfElement
<1>3. /\ FluxTask \subseteq Task /\ MassTask(e) \subseteq Task
  BY DEF FluxTask, MassTask
<1>4. a \in Seq(Task) /\ b \in Seq(Task) /\ c \in Seq(Task) /\ d \in Seq(Task)
  BY <1>2, <1>3
<1> HIDE DEF a, b, c, d
<1> DEFINE ab == a \o b  abc == ab \o c  abcd == abc \o d
<1>5. Len(a) \in Nat /\ Len(c) \in Nat /\ 1 \in 1..Len(b) /\ 1 \in 1..Len(d)
  BY <1>2, LenProperties
<1>6. /\ ab \in Seq(Task) /\ Len(ab) = Len(a) + Len(b)
      /\ \A i \in 1..Len(b) : ab[Len(a) + i] = b[i]
  BY <1>4, AppendedTasks
<1>7. ab \in Seq(FluxTask)
  BY <1>2, ConcatProperties
<1> HIDE DEF ab
<1>8. /\ abc \in Seq(Task) /\ Len(abc) = Len(ab) + Len(c)
      /\ \A i \in 1..Len(ab) : abc[i] = ab[i]
  BY <1>4, <1>6, AppendedTasks DEF Prefix
<1>9. abc \in Seq(FluxTask)
  BY <1>2, <1>7, ConcatProperties
<1> HIDE DEF abc
<1>10. /\ abcd \in Seq(Task) /\ Len(abcd) = Len(abc) + Len(d)
       /\ \A i \in 1..Len(abc) : abcd[i] = abc[i]
       /\ \A i \in 1..Len(d) : abcd[Len(abc) + i] = d[i]
  BY <1>4, <1>8, AppendedTasks DEF Prefix
<1> HIDE DEF abcd
<1>11. /\ Len(abc) = m /\ m \in Nat /\ Len(a) + 1 \in 1..m /\ Len(a) + 1 \in 1..Len(ab)
       /\ Len(abcd) = m + 1
  BY <1>2, <1>5, <1>6, <1>8, <1>10
<1> HIDE DEF m
<1>12. abcd[Len(a) + 1] = b[1]
  <2>1. ab[Len(a) + 1] = b[1]
    BY <1>5, <1>6
  <2>2. abc[Len(a) + 1] = ab[Len(a) + 1]
    BY <1>8, <1>11
  <2>3. abcd[Len(a) + 1] = abc[Len(a) + 1]
    BY <1>10, <1>11
  <2> QED
    BY <2>1, <2>2, <2>3
<1>13. abcd[m + 1] = d[1] /\ d[1] \in MassTask(e)
  <2>1. abcd[m + 1] = d[1]
    BY <1>5, <1>10, <1>11
  <2>2. 1 \in DOMAIN d
    BY <1>2, <1>5, LenProperties
  <2> QED
    BY <1>2, <2>1, <2>2, ElementOfSequence
<1>14. ASSUME NEW i \in 1..m
       PROVE  abcd[i] \in FluxTask
  <2>1. i \in DOMAIN abc
    BY <1>9, <1>11, LenProperties
  <2>2. abc[i] \in FluxTask
    BY <1>9, <2>1, ElementOfSequence
  <2> QED
    BY <1>10, <1>11, <2>2
<1>15. DOMAIN abcd = 1..(m + 1)
  BY <1>10, <1>11, LenProperties
<1>16. ElemTasks(e) = abcd
  BY DEF ElemTasks, a, b, c, d, ab, abc, abcd
<1>17. /\ Len(a) + 1 \in 1..(m + 1) /\ m + 1 \in 1..(m + 1) /\ Len(a) + 1 < m + 1
       /\ \A i \in 1..(m + 1) : i < m + 1 => i \in 1..m
  BY <1>5, <1>11
<1> QED
  BY <1>2, <1>11, <1>12, <1>13, <1>14, <1>15, <1>16, <1>17

\* The tasks of DtFields_SPU on a face: between two elements, both states are
\* extracted before either side is used.
LEMMA FaceTasksShape ==
  ASSUME NEW f \in Face, ftnow \in Nat
  PROVE  /\ FaceTasks(f) \in Seq(FluxTask)
         /\ fR[f] # Null =>
              LET ts == FaceTasks(f)
              IN  /\ Len(ts) = 4
                  /\ ReadOnly(ts[1], wn_handle(fL[f])) /\ ReadOnly(ts[2], wn_handle(fR[f]))
                  /\ Writes(ts[3], res_handle(fL[f])) /\ Writes(ts[4], res_handle(fR[f]))
                  /\ Ordered(ts[2], ts[3]) /\ Ordered(ts[1], ts[4])
<1>1. ftnow \in Int /\ 0 \in {0, 1} /\ 1 \in {0, 1} /\ fL[f] \in Elem /\ fL[f] # Null
      /\ (fR[f] # Null => fR[f] \in Elem) /\ << >> \in Seq(FluxTask)
  BY Sides
<1>2. /\ \A side \in {0, 1} : /\ ExtractInterface_SPU(f, side) \in Seq(Task)
                              /\ DGMacroCellInterface_SPU(f, side) \in Seq(Task)
      /\ DGMacroCellBoundaryFlux_SPU(f, ftnow) \in Seq(Task)
  BY <1>1, RK2Assumption, InterfaceTasks, ExplicitFaceTasks
<1>3. ASSUME NEW e \in Elem, NEW x
      PROVE  /\ \A h \in {wL_handle(f), wR_handle(f)} :
                  IsFluxTask([cl |-> "ExtractInterface", buf |-> << h, wn_handle(e) >>, arg |-> x])
             /\ IsFluxTask([cl |-> "DGMacroCellInterface",
                            buf |-> << wL_handle(f), wR_handle(f), res_handle(e) >>, arg |-> x])
             /\ IsFluxTask([cl |-> "DGMacroCellInterface",
                            buf |-> << wR_handle(f), wL_handle(f), res_handle(e) >>, arg |-> x])
             /\ IsFluxTask([cl |-> "DGMacroCellBoundaryFlux",
                            buf |-> << wL_handle(f), res_handle(e) >>, arg |-> x])
  BY DEF IsFluxTask
<1>4. ExtractInterface_SPU(f, 0) \in Seq(FluxTask)
  BY <1>1, <1>2, <1>3, OneFluxTask, StateIsWn DEF ExtractInterface_SPU
<1>5. ExtractInterface_SPU(f, 1) \in Seq(FluxTask)
  BY <1>1, <1>2, <1>3, OneFluxTask, StateIsWn DEF ExtractInterface_SPU
<1>6. DGMacroCellInterface_SPU(f, 0) \in Seq(FluxTask)
  BY <1>1, <1>2, <1>3, OneFluxTask DEF DGMacroCellInterface_SPU
<1>7. DGMacroCellInterface_SPU(f, 1) \in Seq(FluxTask)
  BY <1>1, <1>2, <1>3, OneFluxTask DEF DGMacroCellInterface_SPU
<1>8. DGMacroCellBoundaryFlux_SPU(f, ftnow) \in Seq(FluxTask)
  BY <1>1, <1>2, <1>3, OneFluxTask DEF DGMacroCellBoundaryFlux_SPU
<1>9. FaceTasks(f) \in Seq(FluxTask)
  BY <1>4, <1>5, <1>6, <1>7, <1>8, ConcatProperties DEF FaceTasks
<1>10. ASSUME fR[f] # Null
       PROVE  LET ts == FaceTasks(f)
              IN  /\ Len(ts) = 4
                  /\ ReadOnly(ts[1], wn_handle(fL[f])) /\ ReadOnly(ts[2], wn_handle(fR[f]))
                  /\ Writes(ts[3], res_handle(fL[f])) /\ Writes(ts[4], res_handle(fR[f]))
                  /\ Ordered(ts[2], ts[3]) /\ Ordered(ts[1], ts[4])
  <2> DEFINE a == [cl |-> "ExtractInterface", buf |-> << wL_handle(f), wn_handle(fL[f]) >>, arg |-> 0]
             b == [cl |-> "ExtractInterface", buf |-> << wR_handle(f), wn_handle(fR[f]) >>, arg |-> 0]
             c == [cl |-> "DGMacroCellInterface",
                   buf |-> << wL_handle(f), wR_handle(f), res_handle(fL[f]) >>, arg |-> 1]
             d == [cl |-> "DGMacroCellInterface",
                   buf |-> << wR_handle(f), wL_handle(f), res_handle(fR[f]) >>, arg |-> -1]
  <2>1. /\ ExtractInterface_SPU(f, 0) = << a >> /\ ExtractInterface_SPU(f, 1) = << b >>
        /\ DGMacroCellInterface_SPU(f, 0) = << c >> /\ DGMacroCellInterface_SPU(f, 1) = << d >>
    BY <1>1, <1>10, StateIsWn DEF ExtractInterface_SPU, DGMacroCellInterface_SPU
  <2>2. /\ ReadOnly(a, wn_handle(fL[f])) /\ ReadOnly(b, wn_handle(fR[f]))
        /\ Writes(c, res_handle(fL[f])) /\ Writes(d, res_handle(fR[f]))
        /\ Writes(b, wR_handle(f)) /\ ReadOnly(c, wR_handle(f))
        /\ Writes(a, wL_handle(f)) /\ ReadOnly(d, wL_handle(f))
    BY OneOrMoreBuffers, ExplicitCodelets DEF ReadOnly, Writes
  <2>3. a \in Task /\ b \in Task /\ c \in Task /\ d \in Task
    BY <2>1, <1>2, OneInSequence
  <2>4. Ordered(b, c) /\ Ordered(a, d)
    BY <2>2, <2>3, ReaderAfterWriter
  <2> HIDE DEF a, b, c, d
  <2> DEFINE ab == << a >> \o << b >>  cd == << c >> \o << d >>
  <2>5. /\ ab \in Seq(Task) /\ Len(ab) = 2 /\ ab[1] = a /\ ab[2] = b
        /\ cd \in Seq(Task) /\ Len(cd) = 2 /\ cd[1] = c /\ cd[2] = d
    BY <2>3, TwoTasks
  <2>6. FaceTasks(f) = ab \o cd
    BY <1>10, <2>1 DEF FaceTasks
  <2> HIDE DEF ab, cd
  <2> QED
    BY <2>2, <2>4, <2>5, <2>6, FourTasks
<1> QED
  BY <1>9, <1>10

-----------------------------------------------------------------------------
(* The order of submission.  The queue is in order when each element has    *)
(* ended tnow stages (the loop over AddBuffers being under way); when what  *)
(* remains to be submitted of a stage comes after the fluxes that took the  *)
(* states of this stage; when the ends of stages waited for these; and when *)
(* the updates of a time derivative are separated by a reader.              *)

\* Each element has as many stages in the queue as the host has gone through.
EndsCounted ==
  \A e \in Elem : Cardinality(Ends(queue, e)) = tnow + (IF pc = "add" /\ e < k THEN 1 ELSE 0)

\* The faces done so far made each side take the state of the other.
FluxesFed ==
  pc \in {"faces", "elems", "add"} =>
    \A f \in Face : fR[f] # Null /\ (pc = "faces" => f < k) =>
      /\ Fed(queue, fL[f], fR[f], tnow, Len(queue) + 1)
      /\ Fed(queue, fR[f], fL[f], tnow, Len(queue) + 1)

\* The mass task of e is in the queue, its AddBuffer not yet.
MassPending(e) == (pc = "elems" /\ e < k) \/ (pc = "add" /\ k <= e)

\* In q, e has a mass task whose fluxes took all the states they needed after n stages.
MassFed(q, e, n) ==
  \E z \in DOMAIN q : /\ ReadOnly(q[z], flux_handle(e)) /\ Commutes(q[z], dtwn_handle(e))
                      /\ FedAll(q, e, n, z)
MassesFed == \A e \in Elem : MassPending(e) => MassFed(queue, e, tnow)

\* Between two mass tasks of an element, an AddBuffer reads what the first left,
\* and the last one has been read or will be.
MassesApart(q) ==
  \A i, j \in DOMAIN q, e \in Elem :
    i < j /\ Commutes(q[i], dtwn_handle(e)) /\ Commutes(q[j], dtwn_handle(e)) =>
      \E m \in DOMAIN q : i < m /\ m < j /\ ReadOnly(q[m], dtwn_handle(e))
MassRead(q, i, e) == \E m \in DOMAIN q : i < m /\ ReadOnly(q[m], dtwn_handle(e))
MassesRead ==
  \A i \in DOMAIN queue, e \in Elem :
    Commutes(queue[i], dtwn_handle(e)) => MassPending(e) \/ MassRead(queue, i, e)

\* The invariant.  It is about the queue and the host alone.
OrderInv ==
  /\ queue \in Seq(RK2Task)
  /\ EndsCounted /\ FluxesFed /\ MassesFed /\ EndsAreFed(queue)
  /\ MassesApart(queue) /\ MassesRead

\* Longer queues keep the mass tasks where they are,
LEMMA MassFedKept ==
  ASSUME NEW q \in Seq(Task), NEW r \in Seq(Task), Prefix(q, r), NEW e \in Elem, NEW n,
         MassFed(q, e, n)
  PROVE  MassFed(r, e, n)
<1>1. PICK z \in DOMAIN q : /\ ReadOnly(q[z], flux_handle(e)) /\ Commutes(q[z], dtwn_handle(e))
                            /\ FedAll(q, e, n, z)
  BY DEF MassFed
<1>2. Len(q) \in Nat /\ Len(r) \in Nat /\ DOMAIN q = 1..Len(q) /\ DOMAIN r = 1..Len(r)
  BY LenProperties
<1>3. z \in DOMAIN r /\ r[z] = q[z] /\ z \in Nat
  BY <1>2 DEF Prefix
<1>4. FedAll(r, e, n, z)
  BY <1>1, <1>3, FedKept DEF FedAll
<1> QED
  BY <1>1, <1>3, <1>4 DEF MassFed

\* with their readers,
LEMMA MassReadKept ==
  ASSUME NEW q \in Seq(Task), NEW r \in Seq(Task), Prefix(q, r), NEW i, NEW e, MassRead(q, i, e)
  PROVE  MassRead(r, i, e)
<1>1. Len(q) \in Nat /\ Len(r) \in Nat /\ DOMAIN q = 1..Len(q) /\ DOMAIN r = 1..Len(r)
  BY LenProperties
<1> QED
  BY <1>1 DEF MassRead, Prefix

\* in between too.
LEMMA MassesStillApart ==
  ASSUME NEW q \in Seq(Task), NEW r \in Seq(Task), Prefix(q, r), MassesApart(q),
         NEW e \in Elem, NEW i \in DOMAIN q, NEW j \in DOMAIN q, i < j,
         Commutes(r[i], dtwn_handle(e)), Commutes(r[j], dtwn_handle(e))
  PROVE  \E m \in DOMAIN r : i < m /\ m < j /\ ReadOnly(r[m], dtwn_handle(e))
<1>1. /\ Len(q) \in Nat /\ Len(r) \in Nat /\ DOMAIN q = 1..Len(q) /\ DOMAIN r = 1..Len(r)
      /\ r[i] = q[i] /\ r[j] = q[j]
  BY LenProperties DEF Prefix
<1>2. PICK m \in DOMAIN q : i < m /\ m < j /\ ReadOnly(q[m], dtwn_handle(e))
  BY <1>1 DEF MassesApart
<1> QED
  BY <1>1, <1>2 DEF Prefix

\* A turn that submits flux tasks alone leaves all as it is, but the faces.
LEMMA FluxTurn ==
  ASSUME OrderInv, NEW ts \in Seq(FluxTask), Submit(ts), tnow \in Nat, tnow' = tnow,
         pc # "add", pc' # "add", \A e \in Elem : MassPending(e)' <=> MassPending(e)
  PROVE  /\ queue' \in Seq(RK2Task) /\ Prefix(queue, queue')
         /\ \A e \in Elem : Ends(queue', e) = Ends(queue, e)
         /\ EndsCounted' /\ MassesFed' /\ EndsAreFed(queue)'
         /\ MassesApart(queue)' /\ MassesRead'
         /\ \A e, u, n : Fed(queue, e, u, n, Len(queue) + 1) => Fed(queue', e, u, n, Len(queue') + 1)
<1> DEFINE q == queue  r == queue'
<1>1. /\ q \in Seq(RK2Task) /\ q \in Seq(Task) /\ ts \in Seq(RK2Task) /\ ts \in Seq(Task)
      /\ r = q \o ts
  BY RK2Tasks DEF OrderInv, Submit
<1>2. /\ r \in Seq(RK2Task) /\ r \in Seq(Task)
  BY <1>1, RK2Tasks, ConcatProperties
<1>3. /\ Prefix(q, r) /\ Len(r) = Len(q) + Len(ts)
      /\ \A i \in Len(q) + 1 .. Len(r) : i - Len(q) \in 1..Len(ts) /\ r[i] = ts[i - Len(q)]
  BY <1>1, AppendedTasks
<1>4. /\ Len(q) \in Nat /\ Len(r) \in Nat /\ DOMAIN q = 1..Len(q) /\ DOMAIN r = 1..Len(r)
  BY <1>1, <1>2, LenProperties
<1>5. ASSUME NEW i \in DOMAIN r, i > Len(q)
      PROVE  r[i] \in FluxTask
  <2>1. i \in Len(q) + 1 .. Len(r)
    BY <1>4, <1>5
  <2>2. i - Len(q) \in DOMAIN ts
    BY <1>3, <2>1, LenProperties
  <2> QED
    BY <1>3, <2>1, <2>2, ElementOfSequence
<1>6. \A e \in Elem : Ends(r, e) = Ends(q, e)
  <2>1. \A i \in DOMAIN r : i > Len(q) => \A e : ~ Writes(r[i], state_handle(e))
    BY <1>5, FluxTasksDo, StateIsWn
  <2> QED
    BY <1>1, <1>2, <1>3, <2>1, SameEnds
<1>7. \A i \in DOMAIN r, e \in Elem : Commutes(r[i], dtwn_handle(e)) => i \in DOMAIN q /\ r[i] = q[i]
  <2>1. \A i \in DOMAIN r, e \in Elem : Commutes(r[i], dtwn_handle(e)) => ~ (i > Len(q))
    BY <1>5, FluxTasksDo
  <2> QED
    BY <1>3, <1>4, <2>1 DEF Prefix
<1> HIDE DEF q, r
<1>8. /\ EndsAreFed(r)
      /\ \A e, u, n : Fed(q, e, u, n, Len(q) + 1) => Fed(r, e, u, n, Len(r) + 1)
  BY <1>1, <1>2, <1>3, <1>6, StillFed DEF OrderInv, q
<1>9. EndsCounted'
  BY <1>6 DEF OrderInv, EndsCounted, q, r
<1>10. MassesFed'
  BY <1>1, <1>2, <1>3, MassFedKept DEF OrderInv, MassesFed, q, r
<1>11. MassesApart(r)
  <2> SUFFICES ASSUME NEW i \in DOMAIN r, NEW j \in DOMAIN r, NEW e \in Elem, i < j,
                      Commutes(r[i], dtwn_handle(e)), Commutes(r[j], dtwn_handle(e))
               PROVE  \E m \in DOMAIN r : i < m /\ m < j /\ ReadOnly(r[m], dtwn_handle(e))
    BY DEF MassesApart
  <2> QED
    BY <1>1, <1>2, <1>3, <1>7, MassesStillApart DEF OrderInv, q
<1>12. MassesRead'
  <2> SUFFICES ASSUME NEW i \in DOMAIN r, NEW e \in Elem, Commutes(r[i], dtwn_handle(e))
               PROVE  MassPending(e)' \/ MassRead(r, i, e)
    BY DEF MassesRead, r
  <2>1. i \in DOMAIN q /\ r[i] = q[i]
    BY <1>7
  <2>2. MassPending(e) \/ MassRead(q, i, e)
    BY <2>1 DEF OrderInv, MassesRead, q
  <2> QED
    BY <1>1, <1>2, <1>3, <2>2, MassReadKept
<1> QED
  BY <1>2, <1>3, <1>6, <1>8, <1>9, <1>10, <1>11, <1>12 DEF q, r

\* Loop by loop: dtwn is zeroed,
LEMMA ZeroDtwOrder == Inv /\ OrderInv /\ ZeroDtw => OrderInv'
<1> SUFFICES ASSUME Inv, OrderInv, ZeroDtw PROVE OrderInv'
  OBVIOUS
<1>1. pc = "zeroDtw" /\ pc' \in {"zeroDtw", "zeroRes"} /\ tnow' = tnow /\ tnow \in Nat
      /\ k \in Elem /\ Submit(ZeroBuffer_SPU(dtwn_handle(k)))
  BY DEF ZeroDtw, Turn, Inv, HostTypeOK
<1>2. ZeroBuffer_SPU(dtwn_handle(k)) \in Seq(FluxTask)
  BY <1>1, ZeroBufferTasks
<1>3. \A e \in Elem : MassPending(e)' <=> MassPending(e)
  BY <1>1 DEF MassPending
<1>4. FluxesFed'
  BY <1>1 DEF FluxesFed
<1> QED
  BY <1>1, <1>2, <1>3, <1>4, FluxTurn DEF OrderInv

\* res is zeroed,
LEMMA ZeroResOrder == Inv /\ OrderInv /\ ZeroRes => OrderInv'
<1> SUFFICES ASSUME Inv, OrderInv, ZeroRes PROVE OrderInv'
  OBVIOUS
<1>1. /\ pc = "zeroRes" /\ tnow' = tnow /\ tnow \in Nat
      /\ k \in Elem /\ Submit(ZeroBuffer_SPU(res_handle(k)))
      /\ pc' = "zeroRes" \/ (pc' = "faces" /\ k' = 0)
  BY DEF ZeroRes, Turn, Inv, HostTypeOK
<1>2. ZeroBuffer_SPU(res_handle(k)) \in Seq(FluxTask)
  BY <1>1, ZeroBufferTasks
<1>3. \A e \in Elem : MassPending(e)' <=> MassPending(e)
  BY <1>1 DEF MassPending
<1>4. FluxesFed'
  BY <1>1 DEF FluxesFed, Face
<1> QED
  BY <1>1, <1>2, <1>3, <1>4, FluxTurn DEF OrderInv

\* the faces are gone through,
LEMMA FacesOrder == Inv /\ OrderInv /\ Faces => OrderInv'
<1> SUFFICES ASSUME Inv, OrderInv, Faces PROVE OrderInv'
  OBVIOUS
<1>1. /\ pc = "faces" /\ tnow' = tnow /\ tnow \in Nat /\ ftnow \in Nat
      /\ k \in Face /\ Submit(FaceTasks(k))
      /\ (pc' = "faces" /\ k' = k + 1) \/ (pc' = "elems" /\ k' = 0 /\ k = nbfaces - 1)
  BY MeshAssumption DEF Faces, Turn, Inv, HostTypeOK, Face
<1>2. FaceTasks(k) \in Seq(FluxTask)
  BY <1>1, FaceTasksShape
<1>3. \A e \in Elem : MassPending(e)' <=> MassPending(e)
  BY <1>1 DEF MassPending, Elem
<1>4. /\ queue' \in Seq(RK2Task) /\ Prefix(queue, queue')
      /\ \A e \in Elem : Ends(queue', e) = Ends(queue, e)
      /\ EndsCounted' /\ MassesFed' /\ EndsAreFed(queue)'
      /\ MassesApart(queue)' /\ MassesRead'
      /\ \A e, u, n : Fed(queue, e, u, n, Len(queue) + 1) => Fed(queue', e, u, n, Len(queue') + 1)
  BY <1>1, <1>2, <1>3, FluxTurn
<1>5. ASSUME fR[k] # Null
      PROVE  /\ Fed(queue', fL[k], fR[k], tnow, Len(queue') + 1)
             /\ Fed(queue', fR[k], fL[k], tnow, Len(queue') + 1)
  <2> DEFINE ts == FaceTasks(k)
  <2>1. /\ queue \in Seq(Task) /\ ts \in Seq(Task) /\ queue' = queue \o ts
    BY <1>1, <1>2, RK2Tasks DEF OrderInv, Submit
  <2>2. /\ Len(ts) = 4
        /\ ReadOnly(ts[1], state_handle(fL[k])) /\ ReadOnly(ts[2], state_handle(fR[k]))
        /\ Writes(ts[3], flux_handle(fL[k])) /\ Writes(ts[4], flux_handle(fR[k]))
        /\ Ordered(ts[2], ts[3]) /\ Ordered(ts[1], ts[4])
    BY <1>1, <1>5, FaceTasksShape, StateIsWn
  <2>3. fL[k] \in Elem /\ fR[k] \in Elem
    BY <1>1, <1>5, Sides
  <2>4. \A e \in Elem : Cardinality(Ends(queue, e)) = tnow
    BY <1>1 DEF OrderInv, EndsCounted
  <2> HIDE DEF ts
  <2> QED
    BY <1>4, <2>1, <2>2, <2>3, <2>4, FaceFeeds
<1>6. FluxesFed'
  <2> SUFFICES ASSUME NEW f \in Face, fR[f] # Null, pc' = "faces" => f < k'
               PROVE  /\ Fed(queue', fL[f], fR[f], tnow, Len(queue') + 1)
                      /\ Fed(queue', fR[f], fL[f], tnow, Len(queue') + 1)
    BY <1>1 DEF FluxesFed
  <2>1. f = k \/ f < k
    BY <1>1, MeshAssumption DEF Face
  <2>2. f < k => /\ Fed(queue, fL[f], fR[f], tnow, Len(queue) + 1)
                 /\ Fed(queue, fR[f], fL[f], tnow, Len(queue) + 1)
    BY <1>1 DEF OrderInv, FluxesFed
  <2> QED
    BY <1>4, <1>5, <2>1, <2>2
<1> QED
  BY <1>4, <1>6 DEF OrderInv

\* after which all the states near an element have been taken,
LEMMA NearFed ==
  ASSUME OrderInv, pc \in {"elems", "add"}, NEW e \in Elem, NEW u \in Near(e), u # e
  PROVE  Fed(queue, e, u, tnow, Len(queue) + 1)
<1>1. PICK f \in Face : {fL[f], fR[f]} = {e, u}
  BY DEF Near
<1>2. u \in Elem
  BY DEF Near
<1>3. fR[f] # Null
  BY <1>1, <1>2, Sides
<1>4. /\ Fed(queue, fL[f], fR[f], tnow, Len(queue) + 1)
      /\ Fed(queue, fR[f], fL[f], tnow, Len(queue) + 1)
  BY <1>3 DEF OrderInv, FluxesFed
<1>5. (fL[f] = e /\ fR[f] = u) \/ (fL[f] = u /\ fR[f] = e)
  BY <1>1
<1> QED
  BY <1>4, <1>5

\* the elements are gone through,
LEMMA ElemsOrder == Inv /\ OrderInv /\ Elems => OrderInv'
<1> SUFFICES ASSUME Inv, OrderInv, Elems PROVE OrderInv'
  OBVIOUS
<1> DEFINE ts == ElemTasks(k)  q == queue  r == queue'  m == Len(q)
<1>1. /\ pc = "elems" /\ tnow' = tnow /\ tnow \in Nat /\ ftnow \in Nat
      /\ k \in Elem /\ r = q \o ts
      /\ (pc' = "elems" /\ k' = k + 1) \/ (pc' = "add" /\ k' = 0 /\ k = nbelems - 1)
  BY MeshAssumption DEF Elems, Turn, Submit, Inv, HostTypeOK, Elem
<1>2. PICK v \in DOMAIN ts, z \in DOMAIN ts :
        /\ v < z /\ z = Len(ts)
        /\ ReadOnly(ts[v], wn_handle(k)) /\ Writes(ts[v], res_handle(k))
        /\ ts[z] \in MassTask(k)
        /\ \A n \in DOMAIN ts : n < z => ts[n] \in FluxTask
  BY <1>1, ElemTasksShape
<1>3. q \in Seq(RK2Task) /\ q \in Seq(Task) /\ ts \in Seq(Task)
  BY <1>1, ElemTasksAreTasks, RK2Tasks DEF OrderInv
<1> HIDE DEF ts, q
<1>4. DOMAIN ts = 1..Len(ts) /\ Len(ts) \in Nat /\ DOMAIN q = 1..m /\ m \in Nat
  BY <1>3, LenProperties
<1>5. ts \in Seq(RK2Task)
  <2>1. \A n \in DOMAIN ts : n < z \/ n = z
    BY <1>2, <1>4
  <2>2. \A n \in DOMAIN ts : ts[n] \in RK2Task
    BY <1>1, <1>2, <2>1, RK2Tasks
  <2> QED
    BY <1>3, <2>2, RestrictSeq
<1>6. /\ r \in Seq(RK2Task) /\ r \in Seq(Task) /\ Prefix(q, r)
      /\ Len(r) = m + Len(ts)
      /\ \A n \in 1..Len(ts) : r[m + n] = ts[n]
      /\ \A i \in m + 1 .. Len(r) : i - m \in 1..Len(ts) /\ r[i] = ts[i - m]
  BY <1>1, <1>3, <1>5, RK2Tasks, AppendedTasks, ConcatProperties
<1> HIDE DEF r, m
<1> DEFINE x == m + v  y == Len(r)
<1>7. /\ DOMAIN r = 1..Len(r) /\ Len(r) \in Nat /\ m <= Len(r)
      /\ x \in DOMAIN r /\ y \in DOMAIN r /\ m < x /\ x < y /\ x \in Nat /\ m < y /\ m + z = y
  BY <1>2, <1>4, <1>6, LenProperties
<1>8. /\ ReadOnly(r[x], wn_handle(k)) /\ Writes(r[x], res_handle(k)) /\ r[y] \in MassTask(k)
  <2>1. r[m + v] = ts[v] /\ r[m + z] = ts[z]
    BY <1>2, <1>4, <1>6
  <2> QED
    BY <1>2, <1>7, <2>1
<1> HIDE DEF x, y
<1>9. ASSUME NEW i \in DOMAIN r, i > m, i # y
      PROVE  r[i] \in FluxTask
  <2> m \in Nat /\ z \in Nat /\ m + z = Len(r) /\ i \in 1..Len(r) /\ i # Len(r)
    BY <1>2, <1>4, <1>7, <1>9 DEF y
  <2>1. i \in m + 1 .. Len(r) /\ i - m < z
    BY <1>9
  <2>2. i - m \in DOMAIN ts /\ r[i] = ts[i - m]
    BY <1>4, <1>6, <2>1
  <2> QED
    BY <1>2, <2>1, <2>2
<1>10. \A e \in Elem : Ends(r, e) = Ends(q, e)
  <2>1. \A i \in DOMAIN r, e \in Elem : i > m => ~ Writes(r[i], state_handle(e))
    BY <1>8, <1>9, FluxTasksDo, MassTasksDo, StateIsWn
  <2> QED
    BY <1>3, <1>6, <2>1, SameEnds DEF m
<1>11. \A i \in DOMAIN r, e \in Elem : Commutes(r[i], dtwn_handle(e)) =>
         \/ i \in DOMAIN q /\ r[i] = q[i]
         \/ i = y /\ e = k
  <2>1. \A i \in DOMAIN r, e \in Elem : Commutes(r[i], dtwn_handle(e)) /\ i > m => i = y /\ e = k
    BY <1>8, <1>9, FluxTasksDo, MassTasksDo
  <2>2. \A i \in DOMAIN r : ~ (i > m) => i \in DOMAIN q /\ r[i] = q[i]
    BY <1>4, <1>6, <1>7 DEF Prefix, m
  <2> QED
    BY <2>1, <2>2
<1>12. ASSUME NEW e, NEW u, NEW n, Fed(q, e, u, n, m + 1)
       PROVE  Fed(r, e, u, n, Len(r) + 1) /\ Fed(r, e, u, n, y)
  <2> DEFINE a == m + 1  b == Len(r) + 1
  <2>1. a \in Nat /\ b \in Nat /\ a <= b /\ y \in Nat /\ a <= y /\ Fed(q, e, u, n, a)
    BY <1>4, <1>7, <1>12 DEF y
  <2> HIDE DEF a, b
  <2>2. Fed(r, e, u, n, b) /\ Fed(r, e, u, n, y)
    BY <1>3, <1>6, <2>1, FedKept
  <2> QED
    BY <2>2 DEF b
<1>13. \A e \in Elem : Cardinality(Ends(q, e)) = tnow
  BY <1>1 DEF OrderInv, EndsCounted, q
<1>14. EndsCounted'
  BY <1>1, <1>10, <1>13 DEF EndsCounted, r, Elem
<1>15. FluxesFed'
  <2> SUFFICES ASSUME NEW f \in Face, fR[f] # Null
               PROVE  /\ Fed(r, fL[f], fR[f], tnow, Len(r) + 1)
                      /\ Fed(r, fR[f], fL[f], tnow, Len(r) + 1)
    BY <1>1 DEF FluxesFed, r
  <2>1. /\ Fed(q, fL[f], fR[f], tnow, m + 1)
        /\ Fed(q, fR[f], fL[f], tnow, m + 1)
    BY <1>1 DEF OrderInv, FluxesFed, q, m
  <2> QED
    BY <1>12, <2>1
<1>16. MassFed(r, k, tnow)
  <2>1. ReadOnly(r[y], flux_handle(k)) /\ Commutes(r[y], dtwn_handle(k))
    BY <1>1, <1>8, MassTasksDo, StateIsWn
  <2>2. Fed(r, k, k, tnow, y)
    <3>1. EndsBefore(r, k, x) = Ends(q, k)
      BY <1>1, <1>3, <1>7, <1>10, EndsBeforeNew DEF m
    <3> QED
      BY <1>1, <1>7, <1>8, <1>13, <3>1, StateIsWn DEF Fed, Link
  <2>3. ASSUME NEW u \in Near(k), u # k
        PROVE  Fed(r, k, u, tnow, y)
    <3>1. Fed(q, k, u, tnow, m + 1)
      BY <1>1, <2>3, NearFed DEF q, m
    <3> QED
      BY <1>12, <3>1
  <2> QED
    BY <1>7, <2>1, <2>2, <2>3 DEF MassFed, FedAll
<1>17. ASSUME NEW e \in Elem
       PROVE  MassPending(e)' <=> MassPending(e) \/ e = k
  BY <1>1 DEF MassPending, Elem
<1>18. MassesFed'
  <2> SUFFICES ASSUME NEW e \in Elem, MassPending(e)'
               PROVE  MassFed(r, e, tnow)
    BY <1>1 DEF MassesFed, r
  <2>1. MassPending(e) => MassFed(q, e, tnow)
    BY DEF OrderInv, MassesFed, q
  <2> QED
    BY <1>3, <1>6, <1>16, <1>17, <2>1, MassFedKept
<1>19. EndsAreFed(r)
  BY <1>3, <1>6, <1>10, StillFed DEF OrderInv, q
<1>20. MassesApart(r)
  <2> SUFFICES ASSUME NEW i \in DOMAIN r, NEW j \in DOMAIN r, NEW e \in Elem, i < j,
                      Commutes(r[i], dtwn_handle(e)), Commutes(r[j], dtwn_handle(e))
               PROVE  \E n \in DOMAIN r : i < n /\ n < j /\ ReadOnly(r[n], dtwn_handle(e))
    BY DEF MassesApart
  <2>1. i \in DOMAIN q /\ r[i] = q[i]
    <3>1. i # y
      BY <1>7 DEF y
    <3> QED
      BY <1>11, <3>1
  <2>2. CASE j \in DOMAIN q
    BY <1>3, <1>6, <2>1, <2>2, MassesStillApart DEF OrderInv, q
  <2>3. CASE j = y /\ e = k
    <3>1. ~ MassPending(k)
      BY <1>1 DEF MassPending, Elem
    <3>2. MassRead(q, i, e)
      BY <2>1, <2>3, <3>1 DEF OrderInv, MassesRead, q
    <3>3. PICK n \in DOMAIN q : i < n /\ ReadOnly(q[n], dtwn_handle(e))
      BY <3>2 DEF MassRead
    <3>4. n \in DOMAIN r /\ r[n] = q[n] /\ n < y
      BY <1>4, <1>6, <1>7 DEF Prefix, m, y
    <3> QED
      BY <2>3, <3>3, <3>4
  <2> QED
    BY <1>11, <2>2, <2>3
<1>21. MassesRead'
  <2> SUFFICES ASSUME NEW i \in DOMAIN r, NEW e \in Elem, Commutes(r[i], dtwn_handle(e))
               PROVE  MassPending(e)' \/ MassRead(r, i, e)
    BY DEF MassesRead, r
  <2>1. CASE i \in DOMAIN q /\ r[i] = q[i]
    <3>1. MassPending(e) \/ MassRead(q, i, e)
      BY <2>1 DEF OrderInv, MassesRead, q
    <3> QED
      BY <1>3, <1>6, <1>17, <3>1, MassReadKept
  <2> QED
    BY <1>11, <1>17, <2>1
<1> QED
  BY <1>6, <1>14, <1>15, <1>18, <1>19, <1>20, <1>21 DEF OrderInv, r

\* and the stage is ended.
LEMMA AddBuffersOrder == Inv /\ OrderInv /\ AddBuffers => OrderInv'
<1> SUFFICES ASSUME Inv, OrderInv, AddBuffers PROVE OrderInv'
  OBVIOUS
<1> DEFINE ts == AddBuffer_SPU(Weight, dtwn_handle(k), wn_handle(k))
           q == queue  r == queue'  m == Len(q)
<1>1. /\ pc = "add" /\ tnow \in Nat /\ k \in Elem /\ r = q \o ts
      /\ \/ pc' = "add" /\ k' = k + 1 /\ tnow' = tnow
         \/ pc' \in {"zeroRes", "while"} /\ k' = 0 /\ k = nbelems - 1 /\ tnow' = tnow + 1
  BY MeshAssumption DEF AddBuffers, Turn, Submit, Inv, HostTypeOK, Elem
<1>2. Weight \in Int
  BY DEF Weight
<1>3. ts \in Seq(AddTask(k)) /\ Len(ts) = 1
  BY <1>1, <1>2, AddBufferTasks
<1>4. /\ q \in Seq(RK2Task) /\ q \in Seq(Task) /\ ts \in Seq(RK2Task) /\ ts \in Seq(Task)
      /\ 1 \in DOMAIN ts /\ 1 \in 1..Len(ts)
  BY <1>1, <1>3, RK2Tasks DEF OrderInv
<1> HIDE DEF ts, q
<1>5. ts[1] \in AddTask(k)
  BY <1>3, <1>4, ElementOfSequence
<1>6. /\ r \in Seq(RK2Task) /\ r \in Seq(Task) /\ Prefix(q, r)
      /\ Len(r) = m + Len(ts) /\ r[m + 1] = ts[1]
  BY <1>1, <1>4, RK2Tasks, AppendedTasks, ConcatProperties
<1> HIDE DEF r, m
<1> DEFINE a == m + 1
<1>7. /\ DOMAIN q = 1..m /\ DOMAIN r = 1..a /\ m \in Nat /\ a \in Nat /\ m < a
      /\ Len(r) = a /\ r[a] \in AddTask(k)
  BY <1>3, <1>4, <1>5, <1>6, LenProperties DEF m
<1>8. /\ a \in DOMAIN r /\ a \notin DOMAIN q
      /\ \A i \in DOMAIN r : i = a \/ (i \in DOMAIN q /\ r[i] = q[i])
      /\ \A i \in DOMAIN q : i \in DOMAIN r /\ r[i] = q[i] /\ i < a /\ i \in Nat
  BY <1>6, <1>7 DEF Prefix, m
<1> HIDE DEF a
<1>9. \A e \in Elem : Ends(r, e) = IF e = k THEN Ends(q, e) \cup {a} ELSE Ends(q, e)
  <2>1. \A e \in Elem : Writes(r[a], state_handle(e)) <=> e = k
    BY <1>7, AddTasksDo, StateIsWn
  <2> QED
    BY <1>1, <1>8, <2>1 DEF Ends
<1>10. \A e \in Elem : Cardinality(Ends(q, e)) = IF e < k THEN tnow + 1 ELSE tnow
  BY <1>1 DEF OrderInv, EndsCounted, q
<1>11. EndsCounted'
  <2> SUFFICES ASSUME NEW e \in Elem
               PROVE  Cardinality(Ends(r, e)) =
                        tnow' + (IF pc' = "add" /\ e < k' THEN 1 ELSE 0)
    BY DEF EndsCounted, r
  <2>1. Cardinality(Ends(r, e)) = IF e <= k THEN tnow + 1 ELSE tnow
    <3>1. IsFiniteSet(Ends(q, e)) /\ a \notin Ends(q, e)
      BY <1>4, <1>8, EndsFinite DEF Ends
    <3>2. e = k => Cardinality(Ends(r, e)) = Cardinality(Ends(q, e)) + 1
      BY <1>9, <3>1, FS_AddElement
    <3>3. e # k => Cardinality(Ends(r, e)) = Cardinality(Ends(q, e))
      BY <1>9
    <3> QED
      BY <1>1, <1>10, <3>2, <3>3 DEF Elem
  <2> QED
    BY <1>1, <2>1, MeshAssumption DEF Elem
<1>12. ASSUME NEW e, NEW u, NEW n, Fed(q, e, u, n, m + 1)
       PROVE  Fed(r, e, u, n, Len(r) + 1)
  <2> DEFINE lim == m + 1  later == Len(r) + 1
  <2>1. lim \in Nat /\ later \in Nat /\ lim <= later /\ Fed(q, e, u, n, lim)
    BY <1>7, <1>12
  <2> HIDE DEF lim, later
  <2>2. Fed(r, e, u, n, later)
    BY <1>4, <1>6, <2>1, FedKept
  <2> QED
    BY <2>2 DEF later
<1>13. FluxesFed'
  <2> SUFFICES ASSUME pc' = "add", NEW f \in Face, fR[f] # Null
               PROVE  /\ Fed(r, fL[f], fR[f], tnow', Len(r) + 1)
                      /\ Fed(r, fR[f], fL[f], tnow', Len(r) + 1)
    BY <1>1 DEF FluxesFed, r
  <2>1. /\ Fed(q, fL[f], fR[f], tnow, m + 1)
        /\ Fed(q, fR[f], fL[f], tnow, m + 1)
    BY <1>1 DEF OrderInv, FluxesFed, q, m
  <2> QED
    BY <1>1, <1>12, <2>1
<1>14. ASSUME NEW e \in Elem
       PROVE  /\ MassPending(e) <=> k <= e
              /\ MassPending(e)' => MassPending(e) /\ e # k /\ tnow' = tnow
              /\ MassPending(e) => MassPending(e)' \/ e = k
  BY <1>1, MeshAssumption DEF MassPending, Elem
<1>15. MassesFed'
  <2> SUFFICES ASSUME NEW e \in Elem, MassPending(e)'
               PROVE  MassFed(r, e, tnow')
    BY DEF MassesFed, r
  <2>1. MassFed(q, e, tnow) /\ tnow' = tnow
    BY <1>14 DEF OrderInv, MassesFed, q
  <2> QED
    BY <1>4, <1>6, <2>1, MassFedKept
<1>16. MassFed(q, k, tnow)
  <2>1. MassPending(k)
    BY <1>1, <1>14 DEF Elem
  <2> QED
    BY <1>1, <2>1 DEF OrderInv, MassesFed, q
<1>17. EndsAreFed(r)
  <2> SUFFICES ASSUME NEW e \in Elem, NEW b \in Ends(r, e)
               PROVE  \E z \in DOMAIN r :
                        /\ Link(r, z, b) /\ ReadOnly(r[z], flux_handle(e))
                        /\ FedAll(r, e, Cardinality(EndsBefore(r, e, b)), z)
    BY DEF EndsAreFed
  <2>1. CASE b \in DOMAIN q
    <3>1. b <= Len(q)
      BY <1>7, <2>1 DEF m
    <3> QED
      BY <1>4, <1>6, <3>1, EndsAreStillFed DEF OrderInv, q
  <2>2. CASE b = a
    <3>1. e = k
      BY <1>8, <1>9, <2>2 DEF Ends
    <3>2. PICK z \in DOMAIN q : /\ ReadOnly(q[z], flux_handle(k)) /\ Commutes(q[z], dtwn_handle(k))
                                /\ FedAll(q, k, tnow, z)
      BY <1>16 DEF MassFed
    <3>3. z \in DOMAIN r /\ r[z] = q[z] /\ z < a /\ z \in Nat
      BY <1>8
    <3>4. Ordered(r[z], r[a])
      <4>1. r[z] \in Task /\ r[a] \in Task
        BY <1>6, <1>8, <3>3, ElementOfSequence
      <4>2. ReadOnly(r[a], dtwn_handle(k))
        BY <1>7, AddTasksDo
      <4> QED
        BY <3>2, <3>3, <4>1, <4>2, ReaderAfterWriter
    <3>5. Cardinality(EndsBefore(r, k, a)) = tnow
      <4>1. EndsBefore(r, k, a) = Ends(q, k)
        BY <1>1, <1>7, <1>8, <1>9 DEF EndsBefore, Ends
      <4> QED
        BY <1>1, <1>10, <4>1 DEF Elem
    <3>6. FedAll(r, k, tnow, z)
      BY <1>4, <1>6, <3>2, <3>3, FedKept DEF FedAll
    <3> QED
      BY <2>2, <3>1, <3>2, <3>3, <3>4, <3>5, <3>6 DEF Link
  <2> QED
    BY <1>8, <2>1, <2>2 DEF Ends
<1>18. \A i \in DOMAIN r, e \in Elem : Commutes(r[i], dtwn_handle(e)) => i \in DOMAIN q /\ r[i] = q[i]
  <2>1. \A e \in Elem : ~ Commutes(r[a], dtwn_handle(e))
    BY <1>7, AddTasksDo
  <2> QED
    BY <1>8, <2>1
<1>19. MassesApart(r)
  <2> SUFFICES ASSUME NEW i \in DOMAIN r, NEW j \in DOMAIN r, NEW e \in Elem, i < j,
                      Commutes(r[i], dtwn_handle(e)), Commutes(r[j], dtwn_handle(e))
               PROVE  \E n \in DOMAIN r : i < n /\ n < j /\ ReadOnly(r[n], dtwn_handle(e))
    BY DEF MassesApart
  <2> QED
    BY <1>4, <1>6, <1>18, MassesStillApart DEF OrderInv, q
<1>20. MassesRead'
  <2> SUFFICES ASSUME NEW i \in DOMAIN r, NEW e \in Elem, Commutes(r[i], dtwn_handle(e))
               PROVE  MassPending(e)' \/ MassRead(r, i, e)
    BY DEF MassesRead, r
  <2>1. i \in DOMAIN q /\ r[i] = q[i] /\ i < a
    BY <1>8, <1>18
  <2>2. MassPending(e) \/ MassRead(q, i, e)
    BY <2>1 DEF OrderInv, MassesRead, q
  <2>3. CASE MassRead(q, i, e)
    BY <1>4, <1>6, <2>3, MassReadKept
  <2>4. CASE e = k
    <3>1. ReadOnly(r[a], dtwn_handle(k))
      BY <1>7, AddTasksDo
    <3> QED
      BY <1>8, <2>1, <2>4, <3>1 DEF MassRead
  <2> QED
    BY <1>14, <2>2, <2>3, <2>4
<1> QED
  BY <1>6, <1>11, <1>13, <1>15, <1>17, <1>19, <1>20 DEF OrderInv, r

\* Nothing else touches the queue.
LEMMA OtherOrder ==
  ASSUME Inv, OrderInv,
         WhileLoop \/ FinalWait \/ Workers \/ UNCHANGED vars
  PROVE  OrderInv'
<1>1. queue' = queue /\ tnow' = tnow
  BY DEF WhileLoop, FinalWait, Workers, While, WaitForAll, StartKernel, FinishKernel, Start, Finish,
         vars, hostVars, rtVars
<1>2. \/ pc' = pc /\ k' = k
      \/ pc \in {"while", "wait"} /\ pc' \in {"wait", "zeroDtw", "return"}
  BY DEF WhileLoop, FinalWait, Workers, While, WaitForAll, StartKernel, FinishKernel,
         vars, hostVars
<1>3. \A e \in Elem : MassPending(e)' <=> MassPending(e)
  BY <1>2 DEF MassPending
<1> QED
  BY <1>1, <1>2, <1>3 DEF OrderInv, EndsCounted, FluxesFed, MassesFed, MassesRead

\* An empty queue is in order.
LEMMA OrderInit == Init => OrderInv
<1> SUFFICES ASSUME Init PROVE OrderInv
  OBVIOUS
<1>1. queue = << >> /\ pc = "while" /\ tnow = 0
  BY DEF Init, RTInit
<1>2. \A e : Ends(queue, e) = {}
  BY <1>1 DEF Ends
<1>20. Cardinality({}) = 0
  BY FS_EmptySet
<1>3. EndsCounted
  BY <1>1, <1>2, <1>20 DEF EndsCounted
<1>4. queue \in Seq(RK2Task) /\ DOMAIN queue = {}
  BY <1>1
<1> QED
  BY <1>1, <1>2, <1>3, <1>4 DEF OrderInv, FluxesFed, MassesFed, MassPending, EndsAreFed,
    MassesApart, MassesRead

\* RK2_SPU submits its tasks in order, on every mesh: the invariant of the queue
\* that the next theorems rest on.
THEOREM RK2Order == Spec => []OrderInv
<1>1. Inv /\ OrderInv /\ [Next]_vars => OrderInv'
  BY ZeroDtwOrder, ZeroResOrder, FacesOrder, ElemsOrder, AddBuffersOrder, OtherOrder
     DEF Next, Host, Returned
<1> QED
  BY <1>1, OrderInit, RK2Invariant, PTL DEF Spec

-----------------------------------------------------------------------------
(* Updates of the time derivatives.                                        *)

\* A mass task shares no commuting group with a writer of the same derivative.
LEMMA ApartKeepTheirPlace == RTInv /\ OrderInv => UpdatesKeepTheirPlace
<1> SUFFICES ASSUME RTInv, OrderInv,
                    NEW i \in Running, NEW h \in DOMAIN view[i], Does(queue[i], h, {"upd"}),
                    NEW j \in DOMAIN queue \ {i}, Writes(queue[j], h), SameGroup(i, j, h)
             PROVE  FALSE
  BY DEF UpdatesKeepTheirPlace
<1>1. /\ \A x \in DOMAIN queue : queue[x] \in Task /\ queue[x] \in RK2Task /\ x \in Nat
      /\ i \in DOMAIN queue /\ j \in DOMAIN queue /\ i # j
  <2>1. \A x \in DOMAIN queue : queue[x] \in RK2Task
    BY ElementOfSequence DEF OrderInv
  <2> QED
    BY <2>1, Submitted DEF RTInv
\* It is the mass task of an element.
<1>2. PICK e \in Elem : h = dtwn_handle(e) /\ Commutes(queue[i], h)
  <2>1. queue[i] \notin FluxTask /\ \A e \in Elem : queue[i] \notin AddTask(e)
    BY FluxTasksDo, AddTasksDo
  <2>2. PICK e \in Elem : queue[i] \in MassTask(e)
    BY <1>1, <2>1 DEF RK2Task
  <2> QED
    BY <2>2, MassTasksDo
<1>3. Commutes(queue[j], h)
  <2>1. Accesses(queue[j], h)
    BY <1>1, WriteIsAccess
  <2> QED
    BY <1>1, <2>1 DEF SameGroup
\* And so is j, but a reader comes between them.
<1>4. PICK m \in DOMAIN queue : /\ (i <= m /\ m <= j) \/ (j <= m /\ m <= i)
                                /\ ReadOnly(queue[m], h)
  <2>1. i < j \/ j < i
    BY <1>1
  <2> QED
    BY <1>1, <1>2, <1>3, <2>1 DEF OrderInv, MassesApart
<1>5. Accesses(queue[m], h) /\ ~ Commutes(queue[m], h)
  BY <1>1, <1>4, ReadersDoNotCommute
<1> QED
  BY <1>4, <1>5 DEF SameGroup

\* DGMass is declared STARPU_COMMUTE on dtw although it replaces it by a function of
\* what it holds: no other writer of dtw may run in its place.
THEOREM RK2UpdatesKeepTheirPlace == Spec => []UpdatesKeepTheirPlace
<1>1. Inv /\ OrderInv => UpdatesKeepTheirPlace
  BY ApartKeepTheirPlace DEF Inv
<1> QED
  BY <1>1, RK2Invariant, RK2Order, PTL

-----------------------------------------------------------------------------
(* The clock of the elements.                                              *)

\* The tasks `level` counts are those that end stages.
LEMMA AddTaskIs ==
  ASSUME NEW t \in RK2Task, NEW e \in Elem
  PROVE  Writes(t, state_handle(e)) <=> t.cl = "AddBuffer" /\ t.buf[2] = wn_handle(e)
<1>1. CASE t \in FluxTask
  BY <1>1, FluxTasksDo, StateIsWn DEF FluxTask, IsFluxTask
<1>2. CASE \E x \in Elem : t \in MassTask(x)
  BY <1>2, MassTasksDo, StateIsWn DEF MassTask
<1>3. CASE \E x \in Elem : t \in AddTask(x)
  BY <1>3, AddTasksDo, StateIsWn, SameElement DEF AddTask
<1> QED
  BY <1>1, <1>2, <1>3 DEF RK2Task

\* The level of an element is the number of its stages that are done.
LEMMA LevelIsDoneEnds ==
  ASSUME RTInv, queue \in Seq(RK2Task)
  PROVE  level = [e \in Elem |-> Cardinality(DoneEnds(e))]
<1>1. ASSUME NEW e \in Elem
      PROVE  DoneEnds(e) = {i \in done : /\ queue[i].cl = "AddBuffer"
                                         /\ queue[i].buf[2] = wn_handle(e)}
  <2>1. \A i \in done : i \in DOMAIN queue /\ queue[i] \in RK2Task
    BY Submitted, ElementOfSequence DEF RTInv
  <2> QED
    BY <2>1, AddTaskIs DEF DoneEnds, Ends
<1> QED
  BY <1>1 DEF level

\* The arcs of the clock join neighbours.
ClockArc == {<< fL[f], fR[f] >> : f \in {g \in Face : fR[g] # Null}}

LEMMA ClockNeighbours ==
  ASSUME NEW v \in Elem, NEW u \in Elem, << u, v >> \in ClockArc \/ << v, u >> \in ClockArc
  PROVE  u \in Near(v)
<1>1. \E f \in Face : << u, v >> = << fL[f], fR[f] >> \/ << v, u >> = << fL[f], fR[f] >>
  BY DEF ClockArc
<1>2. \E f \in Face : {fL[f], fR[f]} = {v, u}
  BY <1>1
<1> QED
  BY <1>2 DEF Near

\* A step of the runtime is a step of the clock or changes no level.
LEMMA ClockStep ==
  ASSUME RTInv, OrderInv, OrderInv', RTInv', [RTNext]_rtVars
  PROVE  [Clock!Next]_level
<1>1. /\ queue \in Seq(RK2Task) /\ EndsAreFed(queue)
      /\ level = [e \in Elem |-> Cardinality(DoneEnds(e))]
  BY LevelIsDoneEnds DEF OrderInv
<1>2. level' = [e \in Elem |-> Cardinality(DoneEnds(e)')]
  <2>1. queue' \in Seq(RK2Task)
    BY DEF OrderInv
  <2>2. \A i \in done' : i \in DOMAIN queue' /\ queue'[i] \in RK2Task
    BY <2>1, ElementOfSequence DEF RTInv, RTTypeOK
  <2>3. \A e \in Elem : {i \in done' : /\ queue'[i].cl = "AddBuffer"
                                       /\ queue'[i].buf[2] = wn_handle(e)} = DoneEnds(e)'
    BY <2>2, AddTaskIs DEF DoneEnds, Ends
  <2> QED
    BY <2>3 DEF level
<1>3. ASSUME NEW i \in DOMAIN queue, NEW e \in Elem, NEW x \in Elem,
             i \in Ends(queue, e), i \in Ends(queue, x)
      PROVE  e = x
  <2>1. queue[i] \in RK2Task
    BY <1>1, ElementOfSequence
  <2> QED
    BY <1>3, <2>1, AddTaskIs, SameElement DEF Ends
<1>4. CASE \A e \in Elem : DoneEnds(e)' = DoneEnds(e)
  BY <1>1, <1>2, <1>4
<1>5. ASSUME NEW e \in Elem,
             \A x \in Elem \ {e} : DoneEnds(x)' = DoneEnds(x),
             Cardinality(DoneEnds(e)') = Cardinality(DoneEnds(e)) + 1,
             \A u \in Near(e) : /\ Cardinality(DoneEnds(u)) \in Nat
                                /\ Cardinality(DoneEnds(e)) <= Cardinality(DoneEnds(u))
      PROVE  Clock!Advance(e)
  <2>1. level' = [level EXCEPT ![e] = @ + 1]
    BY <1>1, <1>2, <1>5
  <2>2. ASSUME NEW u \in Elem, << u, e >> \in ClockArc \/ << e, u >> \in ClockArc
        PROVE  level[e] + 0 <= level[u] /\ level[e] < level[u] + 1
    <3>1. u \in Near(e) /\ e \in Near(e)
      BY <2>2, ClockNeighbours DEF Near
    <3> QED
      BY <1>1, <1>5, <3>1
  <2>3. /\ \A u \in Elem : << u, e >> \in ClockArc => level[e] + 0 <= level[u]
        /\ \A u \in Elem : << e, u >> \in ClockArc => level[e] < level[u] + 1
    BY <2>2
  <2> QED
    BY <2>1, <2>3 DEF Clock!Advance, ClockArc
<1>6. \/ \A e \in Elem : DoneEnds(e)' = DoneEnds(e)
      \/ \E e \in Elem :
           /\ \A x \in Elem \ {e} : DoneEnds(x)' = DoneEnds(x)
           /\ Cardinality(DoneEnds(e)') = Cardinality(DoneEnds(e)) + 1
           /\ \A u \in Near(e) : /\ Cardinality(DoneEnds(u)) \in Nat
                                 /\ Cardinality(DoneEnds(e)) <= Cardinality(DoneEnds(u))
  BY <1>1, <1>3, StagesAdvance
<1> QED
  BY <1>4, <1>5, <1>6 DEF Clock!Next

\* RK2_SPU implements ElementClock, on every mesh: an element enters a stage only when
\* all its neighbours have reached the one before.
THEOREM RK2FollowsTheClock == Spec => ElementsFollowTheClock
<1>1. Init => Clock!Init
  <2> SUFFICES ASSUME Init PROVE Clock!Init
    OBVIOUS
  <2>1. done = {}
    BY DEF Init, RTInit
  <2>2. Cardinality({}) = 0
    BY FS_EmptySet
  <2>3. \A e \in Elem : {i \in done : /\ queue[i].cl = "AddBuffer"
                                      /\ queue[i].buf[2] = wn_handle(e)} = {}
    BY <2>1
  <2> QED
    BY <2>2, <2>3 DEF Clock!Init, level
<1>2. Inv /\ Inv' /\ OrderInv /\ OrderInv' /\ [Next]_vars => [Clock!Next]_level
  BY StepsAreRTSteps, ClockStep DEF Inv
<1> QED
  BY <1>1, <1>2, RK2Invariant, RK2Order, PTL DEF Spec, ElementsFollowTheClock, Clock!Spec

\* Hence neighbours are never more than one stage apart, without any barrier.
THEOREM RK2Lag == Spec => []Clock!LevelsAlongArcs
<1>1. Clock!Spec => [](Clock!TypeOK /\ Clock!LevelsAlongArcs)
  BY Clock!Levels
<1> QED
  BY <1>1, RK2FollowsTheClock, PTL DEF ElementsFollowTheClock

-----------------------------------------------------------------------------
(* The end of the scheme.                                                  *)

\* The time and the stages go together, and the loop ends at tmax.
TimeInv ==
  /\ stage = 1 => tnow = 2 * iter
  /\ stage = 2 => tnow = 2 * iter + 1
  /\ pc \in {"while", "zeroDtw", "wait", "return"} => stage = 1
  /\ 2 * iter < tmax + 2
  /\ pc \notin {"while", "wait", "return"} => 2 * iter < tmax
  /\ pc \in {"wait", "return"} => tmax <= tnow
  /\ pc = "return" => AllDone

\* Action by action.
LEMMA TimeStep == Inv /\ TimeInv /\ [Next]_vars => TimeInv'
<1> SUFFICES ASSUME Inv, TimeInv, [Next]_vars PROVE TimeInv'
  OBVIOUS
<1>1. HostTypeOK /\ RTTypeOK /\ iter \in Nat /\ tnow \in Nat /\ tmax \in Nat /\ stage \in {1, 2}
  BY HostAssumption DEF Inv, RTInv, HostTypeOK
<1> USE DEF TimeInv, AllDone
<1>2. CASE UNCHANGED vars
  BY <1>2 DEF vars, hostVars, rtVars
<1>3. CASE WhileLoop
  BY <1>1, <1>3 DEF WhileLoop, While
<1>4. CASE ZeroDtw
  BY <1>1, <1>4 DEF ZeroDtw, Turn
<1>5. CASE ZeroRes
  BY <1>1, <1>5 DEF ZeroRes, Turn
<1>6. CASE Faces
  BY <1>1, <1>6 DEF Faces, Turn
<1>7. CASE Elems
  BY <1>1, <1>7 DEF Elems, Turn
<1>8. CASE AddBuffers
  <2>1. pc = "add" /\ 2 * iter < tmax
    BY <1>8 DEF AddBuffers, Turn
  <2>2. CASE k + 1 < nbelems
    BY <1>1, <1>8, <2>1, <2>2 DEF AddBuffers, Turn
  <2>3. CASE ~ (k + 1 < nbelems)
    <3>1. /\ pc' = IF stage = 1 THEN "zeroRes" ELSE "while"
          /\ stage' = 3 - stage /\ tnow' = tnow + 1
          /\ iter' = IF stage = 2 THEN iter + 1 ELSE iter
      BY <1>8, <2>3 DEF AddBuffers, Turn
    <3> QED
      BY <1>1, <2>1, <3>1
  <2> QED
    BY <2>2, <2>3
<1>9. CASE FinalWait
  BY <1>1, <1>9 DEF FinalWait, WaitForAll, rtVars
<1>10. CASE Workers
  <2>1. UNCHANGED << pc, k, stage, iter, tnow >> /\ queue' = queue
    BY <1>10 DEF Workers, StartKernel, FinishKernel, hostVars, Start, Finish
  <2>2. ASSUME AllDone PROVE FALSE
    <3>1. DOMAIN queue \ done = {} /\ Running = {}
      BY <1>1, <2>2 DEF RTTypeOK
    <3> QED
      BY <1>10, <3>1 DEF Workers
  <2> QED
    BY <1>1, <2>1, <2>2
<1> QED
  BY <1>2, <1>3, <1>4, <1>5, <1>6, <1>7, <1>8, <1>9, <1>10 DEF Next, Host, Returned

\* When the host returns, the queue is done and each element has all its stages in it.
LEMMA EndOfTheScheme == Inv /\ OrderInv /\ TimeInv => ReturnsAtTmax
<1> SUFFICES ASSUME Inv, OrderInv, TimeInv, pc = "return"
             PROVE  /\ \A e \in Elem : level[e] = 2 * iter
                    /\ tnow = 2 * iter /\ tmax <= tnow /\ tnow < tmax + 2
                    /\ iter <= tmax \div 2 + 1
  BY DEF ReturnsAtTmax
<1>1. tnow = 2 * iter /\ tmax <= tnow /\ 2 * iter < tmax + 2 /\ AllDone
  BY DEF TimeInv
<1>2. iter \in Nat /\ tnow \in Nat /\ tmax \in Nat /\ RTInv
  BY HostAssumption DEF Inv, HostTypeOK
<1>3. \A e \in Elem : level[e] = tnow
  <2>1. \A e \in Elem : level[e] = Cardinality(DoneEnds(e))
    BY <1>2, LevelIsDoneEnds DEF OrderInv
  <2>2. \A e \in Elem : DoneEnds(e) = Ends(queue, e)
    BY <1>1 DEF AllDone, DoneEnds, Ends
  <2> QED
    BY <1>2, <2>1, <2>2 DEF OrderInv, EndsCounted
<1>4. iter <= tmax \div 2 + 1
  <2>1. \A a, b \in Nat : 2 * a < b + 2 => a <= b \div 2 + 1
    OBVIOUS
  <2> QED
    BY <1>1, <1>2, <2>1
<1> QED
  BY <1>1, <1>2, <1>3, <1>4

\* RK2_SPU returns with every element at the last stage of the time step that
\* reaches tmax, in no more steps than it announced.
THEOREM RK2ReturnsAtTmax == Spec => []ReturnsAtTmax
<1>1. Init => TimeInv
  BY HostAssumption DEF Init, TimeInv
<1> QED
  BY <1>1, TimeStep, EndOfTheScheme, RK2Invariant, RK2Order, PTL DEF Spec

-----------------------------------------------------------------------------
(* Types.                                                                  *)

\* The values buffers hold.
Value == 0..(P - 1)

\* Kernels compute modulo P,
LEMMA Residue ==
  ASSUME NEW x \in Int
  PROVE  x % P \in Value
<1>1. P \in Nat /\ P > 0
  BY PAssumption
<1> QED
  BY <1>1 DEF Value

\* on numbers,
LEMMA ValuesAreNumbers ==
  /\ Value \subseteq Int /\ 0 \in Value /\ (P + 1) \div 2 \in Int
BY PAssumption DEF Value

\* and so hold their results in it.
LEMMA KernelResults ==
  ASSUME NEW t \in RK2Task, NEW v \in [DOMAIN t.buf -> Value], NEW n \in DOMAIN t.buf
  PROVE  Kernel(t, v)[n] \in Value
<1>1. t.arg \in Int /\ (\A m \in DOMAIN t.buf : v[m] \in Value /\ v[m] \in Int)
      /\ 0 \in Value /\ (P + 1) \div 2 \in Int
  BY RK2Tasks, ValuesAreNumbers DEF Task
<1> USE DEF Kernel
<1>2. CASE t.cl = "ZeroBuffer" /\ \E x : t.buf = << x >>
  BY <1>1, <1>2 DEF ZeroBuffer_C
<1>3. ASSUME NEW x, NEW y, t.buf = << x, y >>, t.cl = "AddBuffer"
      PROVE  Kernel(t, v)[n] \in Value
  <2>1. (v[2] + t.arg * v[1]) \in Int
    BY <1>1, <1>3
  <2> QED
    BY <1>1, <1>3, <2>1, Residue DEF AddBuffer_C
<1>4. ASSUME NEW x, NEW y, t.buf = << x, y >>, t.cl = "DGSubCellInterface"
      PROVE  Kernel(t, v)[n] \in Value
  <2>1. (v[2] - SubCellFlux(v[1])) \in Int
    BY <1>1, <1>4 DEF SubCellFlux
  <2> QED
    BY <1>1, <1>4, <2>1, Residue DEF DGSubCellInterface_C
<1>5. ASSUME NEW x, NEW y, t.buf = << x, y >>, t.cl = "DGVolume"
      PROVE  Kernel(t, v)[n] \in Value
  <2>1. (v[2] + VolumeFlux(v[1])) \in Int
    BY <1>1, <1>5 DEF VolumeFlux
  <2> QED
    BY <1>1, <1>5, <2>1, Residue DEF DGVolume_C
<1>6. ASSUME NEW x, NEW y, t.buf = << x, y >>, t.cl = "DGSource"
      PROVE  Kernel(t, v)[n] \in Value
  <2>1. (v[2] + Source(t.arg, v[1])) \in Int
    BY <1>1, <1>6 DEF Source
  <2> QED
    BY <1>1, <1>6, <2>1, Residue DEF DGSource_C
<1>7. ASSUME NEW x, NEW y, t.buf = << x, y >>, t.cl = "DGMass"
      PROVE  Kernel(t, v)[n] \in Value
  <2> DEFINE inv == (P + 1) \div 2
  <2>0. v[2] \in Int /\ inv \in Int
    BY <1>1, <1>7
  <2> HIDE DEF inv
  <2>1. Half(v[2]) \in Int
    <3>1. v[2] * inv \in Int
      BY <2>0
    <3>2. Half(v[2]) = (v[2] * inv) % P
      BY DEF Half, inv
    <3> QED
      BY <3>1, <3>2, Residue, ValuesAreNumbers
  <2>2. v[1] * InverseMass - Half(v[2]) \in Int
    BY <1>1, <1>7, <2>1 DEF InverseMass
  <2> QED
    BY <1>1, <1>7, <2>2, Residue DEF DGMass_C
<1>8. ASSUME NEW x, NEW y, NEW z, t.buf = << x, y, z >>, t.cl = "DGMacroCellInterface"
      PROVE  Kernel(t, v)[n] \in Value
  <2>1. (v[3] - NumFlux(v[1], v[2], t.arg)) \in Int
    BY <1>1, <1>8 DEF NumFlux
  <2> QED
    BY <1>1, <1>8, <2>1, Residue DEF DGMacroCellInterface_C
<1>9. ASSUME NEW x, NEW y, t.buf = << x, y >>, t.cl = "DGMacroCellBoundaryFlux"
      PROVE  Kernel(t, v)[n] \in Value
  <2>1. (v[2] - BoundaryFlux(t.arg, v[1])) \in Int
    BY <1>1, <1>9 DEF BoundaryFlux
  <2> QED
    BY <1>1, <1>9, <2>1, Residue DEF DGMacroCellBoundaryFlux_C
<1>10. ASSUME NEW x, NEW y, t.buf = << x, y >>, t.cl = "ExtractInterface"
       PROVE  Kernel(t, v)[n] \in Value
  BY <1>1, <1>10 DEF ExtractInterface_C
<1> QED
  BY <1>2, <1>3, <1>4, <1>5, <1>6, <1>7, <1>8, <1>9, <1>10
     DEF RK2Task, FluxTask, IsFluxTask, MassTask, AddTask

\* The values of the buffers, and those that running tasks started with.
ArgsOK ==
  /\ mem \in [Handle -> Value]
  /\ DOMAIN args = Running
  /\ \A i \in Running : args[i] \in [DOMAIN queue[i].buf -> Value]

\* They are changed by the workers alone.
LEMMA ArgsStep == Inv /\ OrderInv /\ ArgsOK /\ [Next]_vars => ArgsOK'
<1> SUFFICES ASSUME Inv, OrderInv, ArgsOK, [Next]_vars PROVE ArgsOK'
  OBVIOUS
<1>1. /\ RTInv /\ RTTypeOK
      /\ \A i \in DOMAIN queue : queue[i] \in RK2Task /\ queue[i] \in Task
      /\ \A i \in Running : i \in DOMAIN queue
  BY Submitted, RK2Tasks, ElementOfSequence DEF Inv, RTInv, OrderInv
<1>2. CASE Host \/ UNCHANGED vars
  <2>1. mem' = mem /\ args' = args /\ view' = view
    BY <1>2 DEF Host, WhileLoop, ZeroDtw, ZeroRes, Faces, Elems, AddBuffers, FinalWait,
      While, Turn, WaitForAll, Submit, rtVars, vars
  <2>2. \A i \in DOMAIN queue : queue'[i] = queue[i]
    <3>1. [RTNext]_rtVars
      BY <1>2, HostSteps DEF vars
    <3> QED
      BY <1>1, <3>1 DEF RTNext, SubmitSome, Start, Finish, rtVars
  <2> QED
    BY <1>1, <2>1, <2>2 DEF ArgsOK, Running
<1>3. ASSUME NEW i \in DOMAIN queue \ done, StartKernel(i)
      PROVE  ArgsOK'
  <2>1. /\ mem' = mem /\ queue' = queue
        /\ Running' = Running \cup {i} /\ DOMAIN args' = Running \cup {i}
        /\ \A j \in Running \cup {i} :
             args'[j] = IF j = i THEN [n \in DOMAIN queue[i].buf |-> mem[queue[i].buf[n]]]
                        ELSE args[j]
    BY <1>3 DEF StartKernel, Start, Running
  <2>2. \A n \in DOMAIN queue[i].buf : queue[i].buf[n] \in Handle
    BY <1>1, ElementOfSequence DEF Task
  <2>3. [n \in DOMAIN queue[i].buf |-> mem[queue[i].buf[n]]] \in [DOMAIN queue[i].buf -> Value]
    BY <2>2 DEF ArgsOK
  <2> QED
    BY <2>1, <2>3 DEF ArgsOK
<1>4. ASSUME NEW i \in Running, FinishKernel(i)
      PROVE  ArgsOK'
  <2> DEFINE t == queue[i]
             wrote(h) == \E n \in DOMAIN t.buf : t.buf[n] = h /\ Codelet[t.cl][n].eff # "read"
  <2>1. /\ queue' = queue
        /\ Running' = Running \ {i} /\ args' = [j \in Running \ {i} |-> args[j]]
        /\ mem' = [h \in Handle |->
                     IF wrote(h)
                     THEN Kernel(t, args[i])[CHOOSE n \in DOMAIN t.buf : t.buf[n] = h]
                     ELSE mem[h]]
    BY <1>4 DEF FinishKernel, Finish, Running
  <2>2. ASSUME NEW h \in Handle, wrote(h)
        PROVE  Kernel(t, args[i])[CHOOSE n \in DOMAIN t.buf : t.buf[n] = h] \in Value
    <3>1. (CHOOSE n \in DOMAIN t.buf : t.buf[n] = h) \in DOMAIN t.buf
      BY <2>2
    <3>2. t \in RK2Task /\ args[i] \in [DOMAIN t.buf -> Value]
      BY <1>1, <1>4 DEF ArgsOK
    <3> QED
      BY <3>1, <3>2, KernelResults
  <2>3. mem' \in [Handle -> Value]
    BY <2>1, <2>2 DEF ArgsOK
  <2> QED
    BY <2>1, <2>3 DEF ArgsOK
<1> QED
  BY <1>2, <1>3, <1>4 DEF Next, Returned, Workers

\* Every task has the buffers of its codelet, every buffer a value, and the host is
\* in one of its loops.
THEOREM RK2TypeCorrect == Spec => []TypeOK
<1>1. Init => ArgsOK
  <2> SUFFICES ASSUME Init PROVE ArgsOK
    OBVIOUS
  <2>1. mem = [h \in Handle |-> IF h \in {wn_handle(e) : e \in Elem} THEN w0[h[2]] ELSE 0]
    BY DEF Init
  <2>2. ASSUME NEW h \in {wn_handle(e) : e \in Elem}
        PROVE  w0[h[2]] \in Value
    BY RK2Assumption DEF wn_handle, Value
  <2>3. mem \in [Handle -> Value]
    BY <2>1, <2>2, ValuesAreNumbers
  <2> QED
    BY <2>3 DEF Init, RTInit, ArgsOK, Running
<1>2. Inv /\ ArgsOK => TypeOK
  <2> SUFFICES ASSUME Inv, ArgsOK PROVE TypeOK
    OBVIOUS
  <2>1. k \in 0..(nbelems + nbfaces)
    BY MeshAssumption DEF Inv, HostTypeOK, HostLoop, Elem, Face
  <2> QED
    BY <2>1 DEF Inv, RTInv, HostTypeOK, ArgsOK, TypeOK, Value
<1> QED
  BY <1>1, <1>2, ArgsStep, RK2Invariant, RK2Order, PTL DEF Spec

-----------------------------------------------------------------------------
(* The serial scheme.                                                      *)

\* A value per element.
Fields == [Elem -> Value]

\* The flux of a face is a number.
LEMMA FluxIsNumber ==
  ASSUME NEW w \in Fields, NEW t \in Int, NEW f \in Face
  PROVE  FaceFlux(f, w, t) \in Int
<1>1. fL[f] \in Elem /\ (fR[f] # Null => fR[f] \in Elem)
  BY MeshAssumption
<1>2. \A e \in Elem : w[e] \in Int
  BY PAssumption DEF Fields, Value
<1>3. w[fL[f]] \in Int /\ (fR[f] # Null => w[fR[f]] \in Int)
  BY <1>1, <1>2
<1>4. \A a, b \in Int : NumFlux(a, b, 1) \in Int /\ BoundaryFlux(t, a) \in Int
  BY DEF NumFlux, BoundaryFlux
<1> QED
  BY <1>3, <1>4 DEF FaceFlux

\* The faces before the n-th that have e on a side.
LeftOf(e, n)  == {f \in 0..(n - 1) : fL[f] = e}
RightOf(e, n) == {f \in 0..(n - 1) : fR[f] = e}

\* The sum of the fluxes of some faces is a number, and grows face by face.
LEMMA FluxSums ==
  ASSUME NEW w \in Fields, NEW t \in Int
  PROVE  /\ FluxSum({}, w, t) = 0
         /\ \A S \in SUBSET Face : FluxSum(S, w, t) \in Int
         /\ \A S \in SUBSET Face : \A f \in Face \ S :
              FluxSum(S \cup {f}, w, t) = FluxSum(S, w, t) + FaceFlux(f, w, t)
<1> DEFINE F == [f \in Face |-> FaceFlux(f, w, t)]
<1>1. Summable(F, Face)
  BY FluxIsNumber, MeshAssumption DEF Face, Summable
<1>2. \A f \in Face : F[f] = FaceFlux(f, w, t)
  OBVIOUS
<1>3. \A S : FluxSum(S, w, t) = SumFunctionOnSet(F, S)
  BY DEF FluxSum
<1> HIDE DEF F
<1>4. /\ SumFunctionOnSet(F, {}) = 0
      /\ \A S \in SUBSET Face : SumFunctionOnSet(F, S) \in Int
  BY <1>1, SumIsNumber
<1>5. \A S \in SUBSET Face : \A f \in Face \ S :
        SumFunctionOnSet(F, S \cup {f}) = SumFunctionOnSet(F, S) + F[f]
  BY <1>1, SumGrows
<1> QED
  BY <1>2, <1>3, <1>4, <1>5

\* What the faces before the n-th bring to e.
FaceNet(e, n, w, t) == FluxSum(RightOf(e, n), w, t) - FluxSum(LeftOf(e, n), w, t)

\* It is a number, and grows face by face.
LEMMA FaceNets ==
  ASSUME NEW w \in Fields, NEW t \in Int, NEW e \in Elem
  PROVE  /\ FaceNet(e, 0, w, t) = 0
         /\ \A n \in 0..nbfaces : FaceNet(e, n, w, t) \in Int
         /\ \A n \in Face : FaceNet(e, n + 1, w, t) =
              FaceNet(e, n, w, t) - (IF fL[n] = e THEN FaceFlux(n, w, t) ELSE 0)
                + (IF fR[n] = e THEN FaceFlux(n, w, t) ELSE 0)
<1> USE MeshAssumption DEF Face
<1>1. LeftOf(e, 0) = {} /\ RightOf(e, 0) = {}
  BY DEF LeftOf, RightOf
<1>2. ASSUME NEW n \in 0..nbfaces
      PROVE  /\ LeftOf(e, n) \in SUBSET Face /\ RightOf(e, n) \in SUBSET Face
             /\ n \notin LeftOf(e, n) /\ n \notin RightOf(e, n)
  BY DEF LeftOf, RightOf
<1>3. ASSUME NEW n \in Face
      PROVE  /\ LeftOf(e, n + 1) = IF fL[n] = e THEN LeftOf(e, n) \cup {n} ELSE LeftOf(e, n)
             /\ RightOf(e, n + 1) = IF fR[n] = e THEN RightOf(e, n) \cup {n} ELSE RightOf(e, n)
  <2>1. \A i : i \in 0..((n + 1) - 1) <=> i = n \/ i \in 0..(n - 1)
    OBVIOUS
  <2> QED
    BY <2>1 DEF LeftOf, RightOf
<1>4. /\ FluxSum({}, w, t) = 0
      /\ \A S \in SUBSET Face : FluxSum(S, w, t) \in Int
      /\ \A S \in SUBSET Face : \A f \in Face \ S :
           FluxSum(S \cup {f}, w, t) = FluxSum(S, w, t) + FaceFlux(f, w, t)
  BY FluxSums
<1>5. ASSUME NEW n \in Face
      PROVE  FaceNet(e, n + 1, w, t) =
               FaceNet(e, n, w, t) - (IF fL[n] = e THEN FaceFlux(n, w, t) ELSE 0)
                 + (IF fR[n] = e THEN FaceFlux(n, w, t) ELSE 0)
  <2> DEFINE l == FluxSum(LeftOf(e, n), w, t)  r == FluxSum(RightOf(e, n), w, t)
             x == FaceFlux(n, w, t)
  <2>1. /\ n \in 0..nbfaces
        /\ LeftOf(e, n) \in SUBSET Face /\ n \in Face \ LeftOf(e, n)
        /\ RightOf(e, n) \in SUBSET Face /\ n \in Face \ RightOf(e, n)
    BY <1>2
  <2>2. l \in Int /\ r \in Int /\ x \in Int
    BY <1>2, <1>4, FluxIsNumber
  <2>3. FluxSum(LeftOf(e, n + 1), w, t) = IF fL[n] = e THEN l + x ELSE l
    <3>1. CASE fL[n] = e
      <4>1. LeftOf(e, n + 1) = LeftOf(e, n) \cup {n}
        BY <3>1, <1>3
      <4> HIDE DEF Face
      <4>2. FluxSum(LeftOf(e, n) \cup {n}, w, t) = l + x
        BY <2>1, <1>4
      <4> QED
        BY <3>1, <4>1, <4>2
    <3>2. CASE fL[n] # e
      BY <3>2, <1>3
    <3> QED
      BY <3>1, <3>2
  <2>4. FluxSum(RightOf(e, n + 1), w, t) = IF fR[n] = e THEN r + x ELSE r
    <3>1. CASE fR[n] = e
      <4>1. RightOf(e, n + 1) = RightOf(e, n) \cup {n}
        BY <3>1, <1>3
      <4> HIDE DEF Face
      <4>2. FluxSum(RightOf(e, n) \cup {n}, w, t) = r + x
        BY <2>1, <1>4
      <4> QED
        BY <3>1, <4>1, <4>2
    <3>2. CASE fR[n] # e
      BY <3>2, <1>3
    <3> QED
      BY <3>1, <3>2
  <2>5. FaceNet(e, n, w, t) = r - l
    BY DEF FaceNet
  <2> HIDE DEF l, r, x
  <2>6. (IF fR[n] = e THEN r + x ELSE r) - (IF fL[n] = e THEN l + x ELSE l)
          = (r - l) - (IF fL[n] = e THEN x ELSE 0) + (IF fR[n] = e THEN x ELSE 0)
    BY <2>2
  <2> QED
    BY <2>3, <2>4, <2>5, <2>6 DEF FaceNet, x
<1>6. FaceNet(e, 0, w, t) = 0
  <2>1. FaceNet(e, 0, w, t) = FluxSum({}, w, t) - FluxSum({}, w, t)
    BY <1>1 DEF FaceNet
  <2> QED
    BY <2>1, <1>4
<1>7. \A n \in 0..nbfaces : FaceNet(e, n, w, t) \in Int
  BY <1>2, <1>4 DEF FaceNet
<1> QED
  BY <1>5, <1>6, <1>7

\* What e brings to itself.
OwnTerms(e, w, t) ==
  VolumeFlux(w[e]) - (IF e \in Refined THEN SubCellFlux(w[e]) ELSE 0)
    + (IF HasSource THEN Source(t, w[e]) ELSE 0)

\* The time derivative is what the faces and the element itself bring, over its mass.
LEMMA DtFieldsIs ==
  ASSUME NEW w \in Fields, NEW t \in Int, NEW e \in Elem
  PROVE  /\ OwnTerms(e, w, t) \in Int /\ DtFields(w, t)[e] \in Value
         /\ DtFields(w, t)[e] =
              ((FaceNet(e, nbfaces, w, t) + OwnTerms(e, w, t)) * InverseMass) % P
<1> DEFINE sub == IF e \in Refined THEN SubCellFlux(w[e]) ELSE 0
           src == IF HasSource THEN Source(t, w[e]) ELSE 0
           vol == VolumeFlux(w[e])
           l == FluxSum(LeftOf(e, nbfaces), w, t)
           r == FluxSum(RightOf(e, nbfaces), w, t)
<1>1. w[e] \in Int
  BY PAssumption DEF Fields, Value
<1>2. sub \in Int /\ src \in Int /\ vol \in Int
  BY <1>1 DEF SubCellFlux, Source, VolumeFlux
<1>3. LeftOf(e, nbfaces) = {f \in Face : fL[f] = e} /\ RightOf(e, nbfaces) = {f \in Face : fR[f] = e}
  BY DEF LeftOf, RightOf, Face
<1>4. l \in Int /\ r \in Int
  BY <1>3, FluxSums
<1>5. DtFields(w, t)[e] = ((r - l - sub + vol + src) * InverseMass) % P
  BY <1>3 DEF DtFields
<1>6. OwnTerms(e, w, t) = vol - sub + src
  BY DEF OwnTerms
<1>7. FaceNet(e, nbfaces, w, t) = r - l
  BY DEF FaceNet
<1> HIDE DEF sub, src, vol, l, r
<1>8. r - l - sub + vol + src = (r - l) + (vol - sub + src) /\ vol - sub + src \in Int
      /\ (r - l - sub + vol + src) * InverseMass \in Int
  BY <1>2, <1>4 DEF InverseMass
<1> QED
  BY <1>5, <1>6, <1>7, <1>8, Residue DEF Value

\* A step of simulation.c, value by value.
LEMMA OutIs ==
  ASSUME NEW w, NEW dt, NEW d
  PROVE  /\ Serial!RK_out(w, dt, d) = [e \in Elem |-> (w[e] + dt * d[e]) % P]
         /\ Serial!RK_in(w, dt, d) = [e \in Elem |-> (w[e] + dt * d[e]) % P]
<1>1. \A f : Serial!Table(f) = f
  BY DEF Serial!Table
<1> QED
  BY <1>1 DEF Serial!RK_out, Serial!RK_in



\* The state after s stages, from those after s - 2 and s - 1.
Staged(u, v, s) ==
  IF s % 2 = 1 THEN [e \in Elem |-> (v[e] + 1 * DtFields(v, s - 1)[e]) % P]
  ELSE [e \in Elem |-> (u[e] + 2 * DtFields(v, s - 1)[e]) % P]

\* It is a state.
LEMMA StagedIsFields ==
  ASSUME NEW u \in Fields, NEW v \in Fields, NEW s \in Nat \ {0}
  PROVE  Staged(u, v, s) \in Fields
<1>1. ASSUME NEW e \in Elem
      PROVE  /\ (v[e] + 1 * DtFields(v, s - 1)[e]) % P \in Value
             /\ (u[e] + 2 * DtFields(v, s - 1)[e]) % P \in Value
  <2>1. u[e] \in Int /\ v[e] \in Int
    BY PAssumption DEF Fields, Value
  <2>2. DtFields(v, s - 1)[e] \in Int
    <3>1. s - 1 \in Int
      OBVIOUS
    <3>2. DtFields(v, s - 1)[e] \in Value
      BY <3>1, DtFieldsIs
    <3> QED
      BY <3>2, PAssumption DEF Value
  <2> QED
    BY <2>1, <2>2, Residue DEF Value
<1> QED
  BY <1>1 DEF Staged, Fields

\* RK2State is defined by recursion on the two states before: g is such a function,
Schedules(g) == g = [s \in Nat |-> IF s = 0 THEN w0 ELSE Staged(g[s - 2], g[s - 1], s)]

\* RK2State is one if there is one,
LEMMA RK2StateChosen == RK2State = CHOOSE g : Schedules(g)
BY OutIs DEF RK2State, Schedules, Staged

\* and there is one.
LEMMA ScheduleExists == \E g : Schedules(g)
<1> DEFINE Pairs == Fields \X Fields
           step == [x \in Nat \X Pairs |-> << x[2][2], Staged(x[2][1], x[2][2], x[1] + 2) >>]
           first == << w0, Staged(w0, w0, 1) >>
<1>1. w0 \in Fields
  BY RK2Assumption DEF Fields, Value
<1>2. first \in Pairs
  BY <1>1, StagedIsFields
<1>3. step \in [Nat \X Pairs -> Pairs]
  <2> SUFFICES ASSUME NEW n \in Nat, NEW u \in Fields, NEW v \in Fields
               PROVE  << v, Staged(u, v, n + 2) >> \in Pairs
    OBVIOUS
  <2>1. n + 2 \in Nat \ {0}
    OBVIOUS
  <2> QED
    BY <2>1, StagedIsFields
<1>4. PICK p : Recurs(p, Pairs, first, step)
  <2> HIDE DEF Pairs, step, first
  <2> QED
    BY <1>2, <1>3, Recursion
<1>5. p \in [Nat -> Pairs] /\ p[0] = first /\ \A n \in Nat : p[n + 1] = step[<< n, p[n] >>]
  <2> HIDE DEF Pairs, step, first
  <2> QED
    BY <1>4 DEF Recurs
<1> DEFINE g == [s \in Nat |-> p[s][1]]
<1>6. ASSUME NEW n \in Nat
      PROVE  p[n + 1] = << p[n][2], Staged(p[n][1], p[n][2], n + 2) >>
  <2>1. << n, p[n] >> \in Nat \X Pairs
    BY <1>5
  <2> HIDE DEF Pairs
  <2> QED
    BY <1>5, <2>1
<1>7. ASSUME NEW s \in Nat
      PROVE  g[s] = IF s = 0 THEN w0 ELSE Staged(g[s - 2], g[s - 1], s)
  <2>1. CASE s = 0
    BY <1>5, <2>1
  <2>2. CASE s = 1
    <3>1. g[1] = p[0][2] /\ g[0] = w0
      BY <1>5, <1>6
    <3>2. g[1] = Staged(w0, w0, 1)
      BY <3>1, <1>5
    <3>3. Staged(w0, w0, 1) = Staged(g[1 - 2], g[1 - 1], 1)
      BY <3>1 DEF Staged
    <3> HIDE DEF g
    <3> QED
      BY <2>2, <3>2, <3>3
  <2>3. CASE s # 0 /\ s # 1
    <3> DEFINE n == s - 2
    <3>1. n \in Nat /\ n + 1 \in Nat /\ n + 2 = s /\ n + 1 = s - 1 /\ (n + 1) + 1 = s
      BY <2>3
    <3> HIDE DEF n
    <3>2. p[(n + 1) + 1] = << p[n + 1][2], Staged(p[n + 1][1], p[n + 1][2], (n + 1) + 2) >>
      BY <1>6, <3>1
    <3>3. p[n + 1] = << p[n][2], Staged(p[n][1], p[n][2], n + 2) >>
      BY <1>6, <3>1
    <3>4. g[s] = p[n + 1][2] /\ g[s - 1] = p[n][2] /\ g[s - 2] = p[n][1]
      BY <3>1, <3>2, <3>3 DEF n
    <3>5. g[s] = Staged(p[n][1], p[n][2], s)
      BY <3>1, <3>3, <3>4
    <3> HIDE DEF g
    <3> QED
      BY <2>3, <3>4, <3>5
  <2> QED
    BY <2>1, <2>2, <2>3
<1>8. g = [s \in Nat |-> g[s]]
  OBVIOUS
<1> HIDE DEF g
<1>9. Schedules(g)
  BY <1>7, <1>8 DEF Schedules
<1> QED
  BY <1>9

\* The serial schedule, stage by stage.
LEMMA RK2States ==
  /\ \A s \in Nat : RK2State[s] \in Fields
  /\ RK2State[0] = w0
  /\ \A s \in Nat, e \in Elem :
       /\ s % 2 = 0 => RK2State[s + 1][e] = (RK2State[s][e] + DtFields(RK2State[s], s)[e]) % P
       /\ s % 2 = 1 => RK2State[s + 1][e]
                         = (RK2State[s - 1][e] + 2 * DtFields(RK2State[s], s)[e]) % P
<1> DEFINE g == RK2State
<1>1. Schedules(g)
  BY RK2StateChosen, ScheduleExists
<1> HIDE DEF g
<1>2. g[0] = w0
  BY <1>1 DEF Schedules
<1>3. ASSUME NEW s \in Nat
      PROVE  g[s + 1] = Staged(g[s - 1], g[s], s + 1)
  <2>1. s + 1 \in Nat /\ s + 1 # 0 /\ (s + 1) - 2 = s - 1 /\ (s + 1) - 1 = s
    OBVIOUS
  <2>2. \A x \in Nat : x # 0 => g[x] = Staged(g[x - 2], g[x - 1], x)
    BY <1>1 DEF Schedules
  <2> QED
    BY <2>1, <2>2
<1>4. Nat \subseteq {s \in Nat : g[s] \in Fields /\ (s > 0 => g[s - 1] \in Fields)}
  <2> DEFINE A == {s \in Nat : g[s] \in Fields /\ (s > 0 => g[s - 1] \in Fields)}
  <2>1. 0 \in A
    BY <1>2, RK2Assumption DEF Fields, Value
  <2>2. ASSUME NEW s \in Nat, s \in A PROVE s + 1 \in A
    <3>1. g[s] \in Fields /\ s + 1 \in Nat /\ (s + 1) - 1 = s
      BY <2>2
    <3>2. g[s + 1] \in Fields
      <4>1. CASE s > 0
        <5>1. g[s - 1] \in Fields /\ s + 1 \in Nat \ {0}
          BY <2>2, <4>1
        <5>2. Staged(g[s - 1], g[s], s + 1) \in Fields
          BY <3>1, <5>1, StagedIsFields
        <5> QED
          BY <5>2, <1>3
      <4>2. CASE s = 0
        <5>1. g[1] = Staged(g[0 - 1], g[0], 1)
          BY <4>2, <1>3
        <5>2. Staged(g[0 - 1], g[0], 1) = Staged(g[0], g[0], 1)
          BY DEF Staged
        <5>3. g[0] \in Fields
          BY <3>1, <4>2
        <5>4. Staged(g[0], g[0], 1) \in Fields
          BY <5>3, StagedIsFields
        <5> QED
          BY <4>2, <5>1, <5>2, <5>4
      <4> QED
        BY <4>1, <4>2
    <3> QED
      BY <3>1, <3>2
  <2> HIDE DEF A
  <2>3. Nat \subseteq A
    BY <2>1, <2>2, NaturalInduction
  <2> QED
    BY <2>3 DEF A
<1>5. \A s \in Nat : g[s] \in Fields
  BY <1>4
<1>6. ASSUME NEW s \in Nat, NEW e \in Elem
      PROVE  /\ s % 2 = 0 => g[s + 1][e] = (g[s][e] + DtFields(g[s], s)[e]) % P
             /\ s % 2 = 1 => g[s + 1][e] = (g[s - 1][e] + 2 * DtFields(g[s], s)[e]) % P
  <2>1. (s + 1) - 1 = s /\ (s % 2 = 0 => (s + 1) % 2 = 1) /\ (s % 2 = 1 => (s + 1) % 2 = 0)
    OBVIOUS
  <2>2. DtFields(g[s], s)[e] \in Int
    <3>1. DtFields(g[s], s)[e] \in Value
      BY <1>5, DtFieldsIs
    <3> QED
      BY <3>1, PAssumption DEF Value
  <2>3. 1 * DtFields(g[s], s)[e] = DtFields(g[s], s)[e]
    BY <2>2
  <2>4. CASE s % 2 = 0
    <3>1. g[s + 1] = [x \in Elem |-> (g[s][x] + 1 * DtFields(g[s], s)[x]) % P]
      BY <2>1, <2>4, <1>3 DEF Staged
    <3> QED
      BY <3>1, <2>3, <2>4
  <2>5. CASE s % 2 = 1
    <3>1. g[s + 1] = [x \in Elem |-> (g[s - 1][x] + 2 * DtFields(g[s], s)[x]) % P]
      <4>1. (s + 1) % 2 # 1
        BY <2>1, <2>5
      <4>2. g[s + 1] = Staged(g[s - 1], g[s], s + 1)
        BY <1>3
      <4> QED
        BY <2>1, <4>1, <4>2 DEF Staged
    <3> QED
      BY <3>1, <2>5
  <2> QED
    BY <2>4, <2>5
<1> QED
  BY <1>2, <1>5, <1>6 DEF g

-----------------------------------------------------------------------------
(* Arithmetic modulo the P of the kernels.                                 *)

LEMMA Positive == P \in Nat /\ P > 0
BY PAssumption

LEMMA Division ==
  ASSUME NEW a \in Int
  PROVE  a = P * (a \div P) + (a % P) /\ a % P \in 0..(P-1) /\ a \div P \in Int
BY Positive, DivisionBy, Zenon

LEMMA Unique ==
  ASSUME NEW q \in Int, NEW r \in 0..(P - 1), NEW a \in Int, a = P * q + r
  PROVE  a % P = r
BY Positive, UniqueRemainder, Zenon

LEMMA Shift ==
  ASSUME NEW a \in Int, NEW q \in Int
  PROVE  (a + P * q) % P = a % P
BY Positive, MultiplesDoNotCount, Zenon

LEMMA SumMod ==
  ASSUME NEW a \in Int, NEW b \in Int
  PROVE  ((a % P) + b) % P = (a + b) % P
BY Positive, SumOfRemainders, Zenon

LEMMA ProdMod ==
  ASSUME NEW a \in Int, NEW b \in Int
  PROVE  ((a % P) * b) % P = (a * b) % P
BY Positive, ProductOfRemainders, Zenon

\* Reducing the other term, or a doubled one.
LEMMA RightMod ==
  ASSUME NEW a \in Int, NEW b \in Int
  PROVE  /\ (a + (b % P)) % P = (a + b) % P
         /\ (a - (b % P)) % P = (a - b) % P
         /\ ((a % P) - b) % P = (a - b) % P
         /\ (a + 2 * (b % P)) % P = (a + 2 * b) % P
<1>1. b = P * (b \div P) + (b % P) /\ b % P \in 0..(P - 1) /\ b \div P \in Int
  BY Division
<1>2. a = P * (a \div P) + (a % P) /\ a % P \in 0..(P - 1) /\ a \div P \in Int
  BY Division
<1> DEFINE d == b \div P  r == b % P  x == a \div P  y == a % P
<1>3. d \in Int /\ r \in Int /\ b = P * d + r /\ x \in Int /\ y \in Int /\ a = P * x + y /\ P \in Int
  BY <1>1, <1>2, PAssumption
<1> HIDE DEF d, r, x, y
<1>4. (a + r) % P = (a + b) % P
  <2>1. a + b = (a + r) + P * d
    BY <1>3
  <2>2. (a + r) \in Int /\ d \in Int
    BY <1>3
  <2>3. ((a + r) + P * d) % P = (a + r) % P
    BY <2>2, Shift
  <2> QED
    BY <2>1, <2>3
<1>5. (a - r) % P = (a - b) % P
  <2>1. a - b = (a - r) + P * (-d) /\ -d \in Int
    BY <1>3
  <2>2. (a - r) \in Int /\ (-d) \in Int
    BY <1>3
  <2>3. ((a - r) + P * (-d)) % P = (a - r) % P
    BY <2>2, Shift
  <2> QED
    BY <2>1, <2>3
<1>6. (y - b) % P = (a - b) % P
  <2>1. a - b = (y - b) + P * x
    BY <1>3
  <2>2. (y - b) \in Int /\ x \in Int
    BY <1>3
  <2>3. ((y - b) + P * x) % P = (y - b) % P
    BY <2>2, Shift
  <2> QED
    BY <2>1, <2>3
<1>7. (a + 2 * r) % P = (a + 2 * b) % P
  <2>1. a + 2 * b = (a + 2 * r) + P * (2 * d) /\ 2 * d \in Int
    BY <1>3
  <2>2. (a + 2 * r) \in Int /\ (2 * d) \in Int
    BY <1>3
  <2>3. ((a + 2 * r) + P * (2 * d)) % P = (a + 2 * r) % P
    BY <2>2, Shift
  <2> QED
    BY <2>1, <2>3
<1> QED
  BY <1>4, <1>5, <1>6, <1>7 DEF r, y

\* A value is reduced.
LEMMA ValueMod ==
  ASSUME NEW x \in Value
  PROVE  x % P = x
<1>1. x = P * 0 + x /\ x \in Int
  BY PAssumption DEF Value
<1> QED
  BY <1>1, Unique DEF Value

\* Half is a half, since P is odd.
LEMMA Halves ==
  /\ Half(0) = 0
  /\ \A x \in Int : Half(x) \in Int /\ (2 * Half(x)) % P = x % P
<1> DEFINE h == (P + 1) \div 2
<1>1. h \in Int /\ 2 * h = P + 1 /\ P \in Int
  BY PAssumption
<1> HIDE DEF h
<1>2. Half(0) = 0
  <2>1. 0 * h = 0 /\ 0 \in Value
    BY <1>1, ValuesAreNumbers
  <2> QED
    BY <2>1, ValueMod DEF Half, h
<1>3. ASSUME NEW x \in Int
      PROVE  Half(x) \in Int /\ (2 * Half(x)) % P = x % P
  <2>1. Half(x) = (x * h) % P /\ x * h \in Int
    BY <1>1 DEF Half, h
  <2>2. (0 + 2 * ((x * h) % P)) % P = (0 + 2 * (x * h)) % P
    BY <2>1, RightMod
  <2>3. 0 + 2 * (x * h) = x + P * x
    <3>1. 2 * (x * h) = x * (2 * h)
      BY <1>1
    <3>2. x * (2 * h) = x * (P + 1)
      BY <1>1
    <3> QED
      BY <1>1, <3>1, <3>2
  <2>4. (x + P * x) % P = x % P
    BY Shift
  <2>5. (x * h) % P \in Int
    BY <2>1, Residue, ValuesAreNumbers
  <2>6. 0 + 2 * ((x * h) % P) = 2 * ((x * h) % P)
    BY <2>5
  <2> QED
    BY <2>1, <2>2, <2>3, <2>4, <2>5, <2>6
<1> QED
  BY <1>2, <1>3

\* DGMass, on a residual that has all its terms.
LEMMA MassValue ==
  ASSUME NEW x \in Int, NEW z \in Value
  PROVE  ((x % P) * InverseMass - Half(z)) % P = (((x * InverseMass) % P) - Half(z)) % P
<1>1. x % P \in Int /\ InverseMass \in Int /\ Half(z) \in Int /\ x * InverseMass \in Int
      /\ (x % P) * InverseMass \in Int /\ z \in Int
  <2>1. x % P \in Int /\ z \in Int
    BY Residue, ValuesAreNumbers
  <2> QED
    BY <2>1, Halves DEF InverseMass
<1>2. ((x % P) * InverseMass) % P = (x * InverseMass) % P
  BY <1>1, ProdMod
<1>3. ((x % P) * InverseMass - Half(z)) % P = ((((x % P) * InverseMass) % P) - Half(z)) % P
  BY <1>1, RightMod
<1> QED
  BY <1>2, <1>3

\* AddBuffer after the second stage undoes the half step of the first.
LEMMA FullStep ==
  ASSUME NEW w \in Value, NEW d \in Value, NEW dd \in Value
  PROVE  (((w + d) % P) + 2 * ((dd - Half(d)) % P)) % P = (w + 2 * dd) % P
<1> DEFINE h == Half(d)
<1>1. w \in Int /\ d \in Int /\ dd \in Int /\ h \in Int /\ (2 * h) % P = d % P
  BY ValuesAreNumbers, Halves
<1> HIDE DEF h
<1>2. (((w + d) % P) + 2 * ((dd - h) % P)) % P = ((w + d) + 2 * ((dd - h) % P)) % P
  <2>1. 2 * ((dd - h) % P) \in Int
    <3>1. dd - h \in Int
      BY <1>1
    <3>2. (dd - h) % P \in Int
      BY <3>1, Residue, ValuesAreNumbers
    <3> QED
      BY <3>2
  <2>2. w + d \in Int
    BY <1>1
  <2> QED
    BY <2>1, <2>2, SumMod
<1>3. ((w + d) + 2 * ((dd - h) % P)) % P = ((w + d) + 2 * (dd - h)) % P
  BY <1>1, RightMod
<1>4. (w + d) + 2 * (dd - h) = (w + d + 2 * dd) - 2 * h
  BY <1>1
<1>5. ((w + d + 2 * dd) - 2 * h) % P = ((w + d + 2 * dd) - ((2 * h) % P)) % P
  BY <1>1, RightMod
<1>6. ((w + d + 2 * dd) - (d % P)) % P = ((w + d + 2 * dd) - d) % P
  BY <1>1, RightMod
<1>7. (w + d + 2 * dd) - d = w + 2 * dd
  BY <1>1
<1> QED
  BY <1>1, <1>2, <1>3, <1>4, <1>5, <1>6, <1>7 DEF h

-----------------------------------------------------------------------------
(* The sequential execution of a queue.                                    *)

Memory == [Handle -> Value]

\* The kernel of t writes its m-th buffer.
WritesBuffer(t, m) == Codelet[t.cl][m].eff # "read"

\* The memory after the kernel of t ran alone on the memory v.
After(t, v) ==
  [h \in Handle |->
     IF \E m \in DOMAIN t.buf : t.buf[m] = h /\ WritesBuffer(t, m)
     THEN Kernel(t, [m \in DOMAIN t.buf |-> v[t.buf[m]]])[CHOOSE m \in DOMAIN t.buf : t.buf[m] = h]
     ELSE v[h]]

Initially == [h \in Handle |-> IF h \in {wn_handle(e) : e \in Elem} THEN w0[h[2]] ELSE 0]

\* The memories the tasks of q leave one after the other.
IsRun(R, q) ==
  /\ R \in [0..Len(q) -> Memory] /\ R[0] = Initially
  /\ \A i \in 1..Len(q) : R[i] = After(q[i], R[i - 1])

\* That run.
Run(q) == CHOOSE R : IsRun(R, q)

\* A kernel leaves numbers,
LEMMA AfterIsMemory ==
  ASSUME NEW t \in RK2Task, NEW v \in Memory
  PROVE  After(t, v) \in Memory
<1>1. \A m \in DOMAIN t.buf : t.buf[m] \in Handle
  BY RK2Tasks, ElementOfSequence DEF Task
<1>2. [m \in DOMAIN t.buf |-> v[t.buf[m]]] \in [DOMAIN t.buf -> Value]
  BY <1>1 DEF Memory
<1>3. ASSUME NEW h \in Handle, \E m \in DOMAIN t.buf : t.buf[m] = h /\ WritesBuffer(t, m)
      PROVE  Kernel(t, [m \in DOMAIN t.buf |-> v[t.buf[m]]])[CHOOSE m \in DOMAIN t.buf : t.buf[m] = h] \in Value
  <2>1. (CHOOSE m \in DOMAIN t.buf : t.buf[m] = h) \in DOMAIN t.buf
    BY <1>3
  <2> QED
    BY <1>2, <2>1, KernelResults
<1> QED
  BY <1>3 DEF After, Memory

\* and changes what it writes alone.
LEMMA AfterKeeps ==
  ASSUME NEW t \in RK2Task, NEW v \in Memory, NEW h \in Handle, ~ Writes(t, h)
  PROVE  After(t, v)[h] = v[h]
<1>1. ASSUME NEW m \in DOMAIN t.buf, t.buf[m] = h
      PROVE  ~ WritesBuffer(t, m)
  <2>1. Codelet[t.cl][m] \in Decl
    BY TaskBuffer, RK2Tasks
  <2> QED
    BY <1>1, <2>1 DEF Writes, Does, Decl, WritesBuffer
<1> QED
  BY <1>1 DEF After

\* The buffers hold values at first.
LEMMA InitiallyMemory == Initially \in Memory
<1>1. ASSUME NEW h \in {wn_handle(e) : e \in Elem}
      PROVE  w0[h[2]] \in Value
  BY RK2Assumption DEF wn_handle, Value
<1> QED
  BY <1>1, ValuesAreNumbers DEF Initially, Memory

\* Every queue has an execution.
LEMMA RunExists ==
  ASSUME NEW q \in Seq(RK2Task)
  PROVE  IsRun(Run(q), q)
<1> DEFINE go == [x \in Nat \X Memory |->
                    IF x[1] < Len(q) THEN After(q[x[1] + 1], x[2]) ELSE x[2]]
<1>1. Len(q) \in Nat /\ DOMAIN q = 1..Len(q)
  BY LenProperties
<1>2. ASSUME NEW n \in Nat, NEW v \in Memory, n < Len(q)
      PROVE  After(q[n + 1], v) \in Memory
  <2>1. n + 1 \in DOMAIN q
    BY <1>1, <1>2
  <2>2. q[n + 1] \in RK2Task
    BY <2>1, ElementOfSequence
  <2> QED
    BY <2>2, AfterIsMemory
<1>3. go \in [Nat \X Memory -> Memory]
  BY <1>2
<1>4. PICK f : Recurs(f, Memory, Initially, go)
  <2> HIDE DEF go
  <2> QED
    BY <1>3, InitiallyMemory, Recursion
<1>5. f \in [Nat -> Memory] /\ f[0] = Initially /\ \A n \in Nat : f[n + 1] = go[<< n, f[n] >>]
  BY <1>4 DEF Recurs
<1> DEFINE R == [i \in 0..Len(q) |-> f[i]]
<1>6. R \in [0..Len(q) -> Memory] /\ R[0] = Initially
  BY <1>1, <1>5
<1>7. ASSUME NEW i \in 1..Len(q)
      PROVE  R[i] = After(q[i], R[i - 1])
  <2>1. /\ i - 1 \in Nat /\ (i - 1) + 1 = i /\ i - 1 < Len(q) /\ i \in 0..Len(q) /\ i - 1 \in 0..Len(q)
        /\ f[i - 1] \in Memory
    BY <1>1, <1>5
  <2>2. f[(i - 1) + 1] = go[<< i - 1, f[i - 1] >>]
    <3> HIDE DEF go
    <3> QED
      BY <2>1, <1>5
  <2>3. go[<< i - 1, f[i - 1] >>] = After(q[(i - 1) + 1], f[i - 1])
    BY <2>1
  <2>4. f[i] = After(q[i], f[i - 1])
    <3> HIDE DEF go
    <3> QED
      BY <2>1, <2>2, <2>3
  <2>5. R[i] = f[i] /\ R[i - 1] = f[i - 1]
    BY <2>1
  <2> HIDE DEF go, R
  <2> QED
    BY <2>4, <2>5
<1> HIDE DEF R
<1>8. IsRun(R, q)
  BY <1>6, <1>7 DEF IsRun
<1> QED
  BY <1>8 DEF Run

\* Longer queues go on from it.
LEMMA RunKept ==
  ASSUME NEW q \in Seq(RK2Task), NEW r \in Seq(RK2Task), Prefix(q, r), NEW i \in 0..Len(q)
  PROVE  Run(r)[i] = Run(q)[i]
<1> DEFINE A == {n \in Nat : n <= Len(q) => Run(r)[n] = Run(q)[n]}
<1>1. Len(q) \in Nat /\ Len(r) \in Nat /\ Len(q) <= Len(r) /\ \A n \in 1..Len(q) : r[n] = q[n]
  BY LenProperties DEF Prefix
<1>2. IsRun(Run(q), q) /\ IsRun(Run(r), r)
  BY RunExists
<1>3. 0 \in A
  BY <1>2 DEF IsRun
<1>4. ASSUME NEW n \in Nat, n \in A PROVE n + 1 \in A
  <2> SUFFICES ASSUME n + 1 <= Len(q) PROVE Run(r)[n + 1] = Run(q)[n + 1]
    OBVIOUS
  <2>1. n + 1 \in 1..Len(q) /\ n + 1 \in 1..Len(r) /\ (n + 1) - 1 = n /\ r[n + 1] = q[n + 1]
    BY <1>1
  <2>2. Run(r)[n] = Run(q)[n]
    BY <1>1, <1>4
  <2>3. Run(q)[n + 1] = After(q[n + 1], Run(q)[n])
    BY <1>2, <2>1 DEF IsRun
  <2>4. Run(r)[n + 1] = After(r[n + 1], Run(r)[n])
    BY <1>2, <2>1 DEF IsRun
  <2> QED
    BY <2>1, <2>2, <2>3, <2>4
<1>5. Nat \subseteq A
  <2> HIDE DEF A
  <2> QED
    BY <1>3, <1>4, NaturalInduction
<1> QED
  BY <1>1, <1>5

\* A buffer keeps its value until a task that writes it.
LEMMA RunSteady ==
  ASSUME NEW q \in Seq(RK2Task), NEW h \in Handle, NEW c \in 0..Len(q), NEW d \in c..Len(q),
         \A i \in (c + 1)..d : ~ Writes(q[i], h)
  PROVE  Run(q)[d][h] = Run(q)[c][h]
<1> DEFINE A == {n \in Nat : c + n <= d => Run(q)[c + n][h] = Run(q)[c][h]}
<1>1. Len(q) \in Nat /\ DOMAIN q = 1..Len(q) /\ c \in Nat /\ d \in Nat
  BY LenProperties
<1>2. IsRun(Run(q), q)
  BY RunExists
<1>3. 0 \in A
  BY <1>1
<1>4. ASSUME NEW n \in Nat, n \in A PROVE n + 1 \in A
  <2> SUFFICES ASSUME c + (n + 1) <= d PROVE Run(q)[c + (n + 1)][h] = Run(q)[c][h]
    OBVIOUS
  <2> DEFINE m == c + n
  <2>1. m \in 0..Len(q) /\ m + 1 \in 1..Len(q) /\ m + 1 \in (c + 1)..d /\ (m + 1) - 1 = m
        /\ c + (n + 1) = m + 1 /\ m <= d
    BY <1>1
  <2>2. Run(q)[m][h] = Run(q)[c][h]
    BY <1>4, <2>1
  <2> HIDE DEF m
  <2>3. Run(q)[m + 1] = After(q[m + 1], Run(q)[m]) /\ Run(q)[m] \in Memory
    BY <1>2, <2>1 DEF IsRun
  <2>4. q[m + 1] \in RK2Task /\ ~ Writes(q[m + 1], h)
    BY <1>1, <2>1, ElementOfSequence
  <2>5. Run(q)[m + 1][h] = Run(q)[m][h]
    BY <2>3, <2>4, AfterKeeps
  <2> QED
    BY <2>1, <2>2, <2>5
<1>5. Nat \subseteq A
  <2> HIDE DEF A
  <2> QED
    BY <1>3, <1>4, NaturalInduction
<1>6. d - c \in Nat /\ c + (d - c) = d /\ c + (d - c) <= d
  BY <1>1
<1>7. d - c \in A
  <2> HIDE DEF A
  <2> QED
    BY <1>5, <1>6
<1> QED
  BY <1>6, <1>7

\* What the program has computed when all of q has run.
Result(q) == Run(q)[Len(q)]

\* One more task.
LEMMA ResultNext ==
  ASSUME NEW q \in Seq(RK2Task), NEW t \in RK2Task
  PROVE  /\ q \o << t >> \in Seq(RK2Task) /\ Prefix(q, q \o << t >>)
         /\ Len(q \o << t >>) = Len(q) + 1 /\ (q \o << t >>)[Len(q) + 1] = t
         /\ Result(q) \in Memory /\ Result(q \o << t >>) = After(t, Result(q))
<1> DEFINE r == q \o << t >>  s == << t >>
<1>1. s \in Seq(RK2Task) /\ Len(s) = 1 /\ s[1] = t /\ s \in Seq(Task) /\ q \in Seq(Task)
  BY RK2Tasks
<1>2. 1 \in 1..Len(s)
  BY <1>1
<1> HIDE DEF s
<1>3. q \o s \in Seq(RK2Task)
  BY <1>1, ConcatProperties
<1>4. Prefix(q, q \o s) /\ Len(q \o s) = Len(q) + 1 /\ (q \o s)[Len(q) + 1] = t
  BY <1>1, <1>2, AppendedTasks
<1>5. r \in Seq(RK2Task) /\ Prefix(q, r) /\ Len(r) = Len(q) + 1 /\ r[Len(q) + 1] = t
  BY <1>3, <1>4 DEF s
<1> HIDE DEF r
<1>6. Len(q) \in Nat
  BY LenProperties
<1>7. IsRun(Run(q), q) /\ IsRun(Run(r), r)
  BY <1>5, RunExists
<1>8. Result(q) \in Memory
  BY <1>6, <1>7 DEF Result, IsRun
<1>9. Run(r)[Len(q)] = Run(q)[Len(q)]
  BY <1>5, <1>6, RunKept
<1>10. Run(r)[Len(q) + 1] = After(r[Len(q) + 1], Run(r)[(Len(q) + 1) - 1])
  BY <1>5, <1>6, <1>7 DEF IsRun
<1>11. (Len(q) + 1) - 1 = Len(q)
  BY <1>6
<1>12. Result(r) = After(t, Result(q))
  BY <1>5, <1>9, <1>10, <1>11 DEF Result
<1> QED
  BY <1>5, <1>8, <1>12 DEF r

-----------------------------------------------------------------------------
(* The memory follows the sequential execution.                            *)

\* Between two tasks that commute on h comes one that uses h and does not.
ApartOn(q, h) ==
  \A i, j \in DOMAIN q : i < j /\ Commutes(q[i], h) /\ Commutes(q[j], h) =>
    \E m \in DOMAIN q : i < m /\ m < j /\ Accesses(q[m], h) /\ ~ Commutes(q[m], h)
AllApart(q) == \A h : ApartOn(q, h)

\* All the writers of h among the first c tasks are done, and none of the others.
Cut(c, h) ==
  /\ \A j \in done : Writes(queue[j], h) => j <= c
  /\ \A j \in 1..c : Writes(queue[j], h) => j \in done

\* Buffers hold, and running kernels have read, what the sequential execution says.
MemFollows ==
  \A h \in Handle : \A c \in 0..Len(queue) : Cut(c, h) => mem[h] = Run(queue)[c][h]
ArgsFollow ==
  \A i \in Running :
    args[i] = [n \in DOMAIN queue[i].buf |-> Run(queue)[i - 1][queue[i].buf[n]]]
Follows == MemFollows /\ ArgsFollow

\* If D holds all that its tasks and j wait for, it holds every task before j that
\* shares with j a buffer one of them writes.
LEMMA WaitsFor ==
  ASSUME NEW q \in Seq(Task), AllApart(q), NEW D, NEW i \in DOMAIN q, NEW j \in DOMAIN q, i < j,
         \A x \in DOMAIN q : x \in D \/ x = j =>
           \A y \in DOMAIN q : y < x /\ Ordered(q[y], q[x]) => y \in D,
         NEW h, Accesses(q[i], h), Accesses(q[j], h), Writes(q[i], h) \/ Writes(q[j], h)
  PROVE  i \in D
<1>1. \A x \in DOMAIN q : q[x] \in Task
  BY ElementOfSequence
<1>2. CASE ~ (Commutes(q[i], h) /\ Commutes(q[j], h))
  <2>1. Ordered(q[i], q[j])
    BY <1>1, <1>2, OrderedUnlessBothCommute
  <2> QED
    BY <2>1
<1>3. CASE Commutes(q[i], h) /\ Commutes(q[j], h)
  <2>1. PICK m \in DOMAIN q : i < m /\ m < j /\ Accesses(q[m], h) /\ ~ Commutes(q[m], h)
    BY <1>3 DEF AllApart, ApartOn
  <2>2. q[m] \in Task /\ q[i] \in Task /\ q[j] \in Task
    BY <1>1, <2>1
  <2>3. Ordered(q[m], q[j])
    BY <1>3, <2>1, <2>2, OrderedUnlessBothCommute
  <2>4. Ordered(q[i], q[m])
    BY <1>3, <2>1, <2>2, OrderedUnlessBothCommute
  <2>5. m \in D
    BY <2>1, <2>3
  <2> QED
    BY <2>1, <2>4, <2>5
<1> QED
  BY <1>2, <1>3

\* A writer and another user of a buffer run in the order they were submitted in.
LEMMA InOrder ==
  ASSUME RTInv, AllApart(queue), NEW i \in DOMAIN queue, NEW j \in Running \cup done, i < j,
         NEW h, Accesses(queue[i], h), Accesses(queue[j], h),
         Writes(queue[i], h) \/ Writes(queue[j], h)
  PROVE  i \in done
<1>1. /\ DOMAIN queue = 1..Len(queue) /\ Len(queue) \in Nat /\ j \in DOMAIN queue
      /\ queue \in Seq(Task) /\ PrefixClosed
  BY Submitted DEF RTInv, RTTypeOK
<1>2. \A x \in DOMAIN queue : x \in done \/ x = j =>
        \A y \in DOMAIN queue : y < x /\ Ordered(queue[y], queue[x]) => y \in done
  <2> SUFFICES ASSUME NEW x \in Running \cup done, NEW y \in DOMAIN queue,
                      y < x, Ordered(queue[y], queue[x])
               PROVE  y \in done
    OBVIOUS
  <2>1. x \in DOMAIN queue
    BY <1>1, Submitted DEF RTInv
  <2>2. y \in 1..(x - 1)
    BY <1>1, <2>1
  <2> QED
    BY <1>1, <2>2 DEF PrefixClosed
<1> QED
  BY <1>1, <1>2, WaitsFor

\* The host: new tasks are not done.
LEMMA FollowsSubmit ==
  ASSUME RTInv, queue \in Seq(RK2Task), queue' \in Seq(RK2Task), Prefix(queue, queue'),
         UNCHANGED << done, view, mem, args >>, Follows
  PROVE  Follows'
<1> DEFINE q == queue  r == queue'
<1>1. /\ Len(q) \in Nat /\ Len(r) \in Nat /\ DOMAIN q = 1..Len(q) /\ DOMAIN r = 1..Len(r)
      /\ Len(q) <= Len(r) /\ \A i \in 1..Len(q) : r[i] = q[i]
  BY LenProperties DEF Prefix
<1>2. \A i \in Running \cup done : i \in DOMAIN q
  BY Submitted DEF RTInv
<1>3. \A i \in 0..Len(q) : Run(r)[i] = Run(q)[i]
  BY RunKept
<1>4. ArgsFollow'
  <2>1. \A i \in Running : r[i] = q[i] /\ i - 1 \in 0..Len(q)
    BY <1>1, <1>2
  <2> QED
    BY <1>3, <2>1 DEF Follows, ArgsFollow, Running
<1>5. MemFollows'
  <2> SUFFICES ASSUME NEW h \in Handle, NEW c \in 0..Len(r), Cut(c, h)'
               PROVE  mem[h] = Run(r)[c][h]
    BY DEF MemFollows
  <2>1. /\ \A j \in done : Writes(r[j], h) => j <= c
        /\ \A j \in 1..c : Writes(r[j], h) => j \in done
    BY DEF Cut
  <2>2. CASE c <= Len(q)
    <3>1. c \in 0..Len(q) /\ \A j \in 1..c : r[j] = q[j]
      BY <1>1, <2>2
    <3>2. Cut(c, h)
      BY <1>1, <1>2, <2>1, <3>1 DEF Cut
    <3> QED
      BY <1>3, <3>1, <3>2 DEF Follows, MemFollows
  <2>3. CASE c > Len(q)
    <3> DEFINE d == Len(q)
    <3>1. d \in 0..Len(q) /\ d \in 0..Len(r) /\ c \in d..Len(r)
      BY <1>1, <2>3
    <3>2. \A j \in (d + 1)..c : ~ Writes(r[j], h)
      <4>1. \A j \in (d + 1)..c : j \in 1..c /\ j \notin DOMAIN q
        BY <1>1
      <4> QED
        BY <1>2, <2>1, <4>1
    <3>3. Run(r)[c][h] = Run(r)[d][h]
      BY <3>1, <3>2, RunSteady
    <3>4. Cut(d, h)
      <4>1. \A j \in done : j <= d
        BY <1>1, <1>2
      <4>2. \A j \in 1..d : j \in 1..c /\ r[j] = q[j]
        BY <1>1, <2>3
      <4> QED
        BY <2>1, <4>1, <4>2 DEF Cut
    <3> HIDE DEF d
    <3> QED
      BY <1>3, <3>1, <3>3, <3>4 DEF Follows, MemFollows
  <2> QED
    BY <1>1, <2>2, <2>3
<1> QED
  BY <1>4, <1>5 DEF Follows

\* A worker that starts reads what the tasks before left, and no other.
LEMMA FollowsStart ==
  ASSUME RTInv, RTInv', queue \in Seq(RK2Task), AllApart(queue), Follows,
         NEW i \in DOMAIN queue \ done, StartKernel(i)
  PROVE  Follows'
<1>1. /\ queue' = queue /\ done' = done /\ mem' = mem
      /\ Running' = Running \cup {i}
      /\ \A j \in Running \cup {i} :
           args'[j] = IF j = i THEN [n \in DOMAIN queue[i].buf |-> mem[queue[i].buf[n]]]
                      ELSE args[j]
      /\ i \notin Running
  BY DEF StartKernel, Start, Running, Ready
<1>2. /\ DOMAIN queue = 1..Len(queue) /\ Len(queue) \in Nat
      /\ \A x \in DOMAIN queue : queue[x] \in Task
      /\ \A x \in done : x \in DOMAIN queue
  BY Submitted DEF RTInv
<1>3. ASSUME NEW n \in DOMAIN queue[i].buf
      PROVE  Cut(i - 1, queue[i].buf[n]) /\ queue[i].buf[n] \in Handle
  <2> DEFINE h == queue[i].buf[n]
  <2>1. h \in Handle /\ Accesses(queue[i], h)
    <3>1. queue[i] \in Task
      BY <1>2
    <3>2. Codelet[queue[i].cl][n] \in Decl
      BY <3>1, TaskBuffer
    <3>3. h \in Handle
      BY <3>1, ElementOfSequence DEF Task
    <3> QED
      BY <3>2, <3>3 DEF Accesses, Uses, Decl
  <2> HIDE DEF h
  <2>2. ASSUME NEW j \in done, Writes(queue[j], h)
        PROVE  j <= i - 1
    <3> SUFFICES ASSUME i < j PROVE FALSE
      BY <1>2
    <3>1. Accesses(queue[j], h)
      BY <1>2, <2>2, WriteIsAccess
    <3>2. j \in Running \cup done
      OBVIOUS
    <3>3. i \in done
      BY <2>1, <2>2, <3>1, <3>2, InOrder
    <3> QED
      BY <3>3
  <2>3. ASSUME NEW j \in 1..(i - 1), Writes(queue[j], h)
        PROVE  j \in done
    <3>1. j \in DOMAIN queue /\ j < i
      BY <1>2
    <3>2. Accesses(queue[j], h)
      BY <1>2, <2>3, <3>1, WriteIsAccess
    <3>3. \A x \in DOMAIN queue : x \in done \/ x = i =>
            \A y \in DOMAIN queue : y < x /\ Ordered(queue[y], queue[x]) => y \in done
      <4>1. ASSUME NEW y \in DOMAIN queue, y < i, Ordered(queue[y], queue[i]) PROVE y \in done
        <5>1. y \in 1..(i - 1)
          BY <1>2, <4>1
        <5> QED
          BY <4>1, <5>1 DEF StartKernel, Start, Ready
      <4>2. ASSUME NEW x \in done, NEW y \in DOMAIN queue, y < x, Ordered(queue[y], queue[x])
            PROVE  y \in done
        <5>1. y \in 1..(x - 1)
          BY <1>2, <4>2
        <5> QED
          BY <4>2, <5>1 DEF RTInv, PrefixClosed
      <4> QED
        BY <4>1, <4>2
    <3> QED
      BY <1>2, <2>1, <2>3, <3>1, <3>2, <3>3, WaitsFor DEF RTInv, RTTypeOK
  <2>4. Cut(i - 1, h)
    BY <2>2, <2>3 DEF Cut
  <2> QED
    BY <2>1, <2>4 DEF h
<1>4. MemFollows'
  BY <1>1 DEF Follows, MemFollows, Cut
<1>5. ASSUME NEW j \in Running'
      PROVE  args'[j] = [n \in DOMAIN queue[j].buf |-> Run(queue)[j - 1][queue[j].buf[n]]]
  <2>1. CASE j = i
    <3>1. i - 1 \in 0..Len(queue)
      BY <1>2
    <3>2. \A n \in DOMAIN queue[i].buf : mem[queue[i].buf[n]] = Run(queue)[i - 1][queue[i].buf[n]]
      BY <1>3, <3>1 DEF Follows, MemFollows
    <3>3. args'[i] = [n \in DOMAIN queue[i].buf |-> mem[queue[i].buf[n]]]
      BY <1>1
    <3> QED
      BY <2>1, <3>2, <3>3
  <2>2. CASE j # i
    BY <1>1, <1>5, <2>2 DEF Follows, ArgsFollow
  <2> QED
    BY <2>1, <2>2
<1>6. ArgsFollow'
  <2>1. queue' = queue
    BY <1>1
  <2>2. \A j \in Running' :
          args'[j] = [n \in DOMAIN queue[j].buf |-> Run(queue)[j - 1][queue[j].buf[n]]]
    BY <1>5
  <2> QED
    BY <2>1, <2>2 DEF ArgsFollow
<1> QED
  BY <1>4, <1>6 DEF Follows

\* A worker that returns leaves in its buffers what the sequential execution leaves there,
\* and no later task has written them yet.
LEMMA FollowsFinish ==
  ASSUME RTInv, queue \in Seq(RK2Task), AllApart(queue), Follows, NEW i \in Running, FinishKernel(i)
  PROVE  Follows'
<1>1. /\ DOMAIN queue = 1..Len(queue) /\ Len(queue) \in Nat
      /\ \A x \in DOMAIN queue : queue[x] \in Task /\ queue[x] \in RK2Task
      /\ \A x \in Running \cup done : x \in DOMAIN queue
      /\ i \in 1..Len(queue) /\ i \in Nat /\ i - 1 \in 0..Len(queue) /\ i \in 0..Len(queue) /\ i \notin done
  <2>1. /\ DOMAIN queue = 1..Len(queue) /\ Len(queue) \in Nat
        /\ \A x \in DOMAIN queue : queue[x] \in Task
        /\ \A x \in Running \cup done : x \in DOMAIN queue
        /\ i \notin done
    BY Submitted DEF RTInv
  <2>2. \A x \in DOMAIN queue : queue[x] \in RK2Task
    BY ElementOfSequence
  <2> QED
    BY <2>1, <2>2
<1> DEFINE t == queue[i]  v == Run(queue)[i - 1]
           wrote(h) == \E n \in DOMAIN t.buf : t.buf[n] = h /\ WritesBuffer(t, n)
<1>2. /\ queue' = queue /\ done' = done \cup {i}
      /\ Running' = Running \ {i} /\ args' = [j \in Running \ {i} |-> args[j]]
      /\ mem' = [h \in Handle |->
                   IF wrote(h)
                   THEN Kernel(t, args[i])[CHOOSE n \in DOMAIN t.buf : t.buf[n] = h]
                   ELSE mem[h]]
  BY DEF FinishKernel, Finish, Running, WritesBuffer
<1>3. args[i] = [n \in DOMAIN t.buf |-> v[t.buf[n]]]
  BY DEF Follows, ArgsFollow
<1>4. Run(queue)[i] = After(t, v)
  <2>1. IsRun(Run(queue), queue)
    BY RunExists
  <2> QED
    BY <1>1, <2>1 DEF IsRun
<1>5. \A h : Writes(t, h) <=> wrote(h)
  <2>1. \A n \in DOMAIN t.buf : Codelet[t.cl][n] \in Decl
    BY <1>1, TaskBuffer
  <2> QED
    BY <2>1 DEF Writes, Does, Decl, WritesBuffer
<1>6. ASSUME NEW h \in Handle
      PROVE  mem'[h] = IF Writes(t, h) THEN Run(queue)[i][h] ELSE mem[h]
  <2>1. CASE wrote(h)
    <3>1. mem'[h] = Kernel(t, args[i])[CHOOSE n \in DOMAIN t.buf : t.buf[n] = h]
      BY <1>2, <2>1
    <3>2. After(t, v)[h] = Kernel(t, [n \in DOMAIN t.buf |-> v[t.buf[n]]])[CHOOSE n \in DOMAIN t.buf : t.buf[n] = h]
      BY <2>1 DEF After
    <3> QED
      BY <1>3, <1>4, <1>5, <2>1, <3>1, <3>2
  <2>2. CASE ~ wrote(h)
    <3>1. mem'[h] = mem[h]
      BY <1>2, <2>2
    <3> QED
      BY <1>5, <2>2, <3>1
  <2> QED
    BY <2>1, <2>2
<1>7. ASSUME NEW h \in Handle, NEW c \in 0..Len(queue), Cut(c, h)'
      PROVE  mem'[h] = Run(queue)[c][h]
  <2>1. /\ \A j \in done \cup {i} : Writes(queue[j], h) => j <= c
        /\ \A j \in 1..c : Writes(queue[j], h) => j \in done \cup {i}
    BY <1>2, <1>7 DEF Cut
  <2>2. CASE Writes(t, h)
    <3>1. i <= c /\ c \in i..Len(queue)
      BY <1>1, <2>1, <2>2
    <3>2. ASSUME NEW j \in (i + 1)..c, Writes(queue[j], h)
          PROVE  FALSE
      <4>1. j \in 1..c /\ i < j /\ j # i /\ j \in DOMAIN queue
        BY <1>1, <3>1
      <4>2. j \in done
        BY <2>1, <3>2, <4>1
      <4>3. Accesses(queue[j], h) /\ Accesses(t, h)
        BY <1>1, <2>2, <3>2, <4>1, WriteIsAccess
      <4>4. i \in DOMAIN queue /\ j \in Running \cup done
        BY <1>1, <4>2
      <4>5. i \in done
        BY <2>2, <4>1, <4>3, <4>4, InOrder
      <4> QED
        BY <1>1, <4>5
    <3>3. Run(queue)[c][h] = Run(queue)[i][h]
      BY <1>1, <3>1, <3>2, RunSteady
    <3> QED
      BY <1>6, <2>2, <3>3
  <2>3. CASE ~ Writes(t, h)
    <3>1. Cut(c, h)
      BY <2>1, <2>3 DEF Cut
    <3>2. mem[h] = Run(queue)[c][h]
      BY <3>1 DEF Follows, MemFollows
    <3> QED
      BY <1>6, <2>3, <3>2
  <2> QED
    BY <2>2, <2>3
<1>8. MemFollows'
  BY <1>2, <1>7 DEF MemFollows
<1>9. ArgsFollow'
  <2>1. \A j \in Running' : /\ args'[j] = args[j] /\ j \in Running
    BY <1>2
  <2>2. \A j \in Running' :
          args'[j] = [n \in DOMAIN queue[j].buf |-> Run(queue)[j - 1][queue[j].buf[n]]]
    BY <2>1 DEF Follows, ArgsFollow
  <2> QED
    BY <1>2, <2>2 DEF ArgsFollow
<1> QED
  BY <1>8, <1>9 DEF Follows

-----------------------------------------------------------------------------
(* What each task makes of the memory.                                     *)

\* The memory u is v with x in h.
Becomes(u, v, h, x) == \A g \in Handle : u[g] = IF g = h THEN x ELSE v[g]

\* A task that writes one of its buffers,
LEMMA OneWritten ==
  ASSUME NEW t \in Task, NEW v, NEW n \in DOMAIN t.buf, WritesBuffer(t, n),
         \A m \in DOMAIN t.buf : WritesBuffer(t, m) => m = n
  PROVE  Becomes(After(t, v), v, t.buf[n], Kernel(t, [m \in DOMAIN t.buf |-> v[t.buf[m]]])[n])
<1>1. ASSUME NEW m \in DOMAIN t.buf, t.buf[m] = t.buf[n]
      PROVE  m = n
  BY <1>1, OneBuffer
<1>2. (CHOOSE m \in DOMAIN t.buf : t.buf[m] = t.buf[n]) = n
  BY <1>1
<1>3. ASSUME NEW h \in Handle
      PROVE  After(t, v)[h] = IF h = t.buf[n] THEN Kernel(t, [m \in DOMAIN t.buf |-> v[t.buf[m]]])[n]
                              ELSE v[h]
  <2>1. CASE h = t.buf[n]
    <3>1. After(t, v)[h] = Kernel(t, [m \in DOMAIN t.buf |-> v[t.buf[m]]])[CHOOSE m \in DOMAIN t.buf : t.buf[m] = h]
      BY <2>1 DEF After
    <3> QED
      BY <1>2, <2>1, <3>1
  <2>2. CASE h # t.buf[n]
    BY <2>2 DEF After
  <2> QED
    BY <2>1, <2>2
<1> QED
  BY <1>3 DEF Becomes

\* codelet by codelet.
LEMMA TaskResults ==
  ASSUME NEW t \in Task, NEW v, NEW a, NEW b, NEW c
  PROVE  /\ t.buf = << a >> =>
              (t.cl = "ZeroBuffer" => Becomes(After(t, v), v, a, 0))
         /\ t.buf = << a, b >> =>
              /\ t.cl = "AddBuffer" => Becomes(After(t, v), v, b, (v[b] + t.arg * v[a]) % P)
              /\ t.cl = "DGSubCellInterface" => Becomes(After(t, v), v, b, (v[b] - SubCellFlux(v[a])) % P)
              /\ t.cl = "DGVolume" => Becomes(After(t, v), v, b, (v[b] + VolumeFlux(v[a])) % P)
              /\ t.cl = "DGSource" => Becomes(After(t, v), v, b, (v[b] + Source(t.arg, v[a])) % P)
              /\ t.cl = "DGMass" => Becomes(After(t, v), v, b, (v[a] * InverseMass - Half(v[b])) % P)
              /\ t.cl = "DGMacroCellBoundaryFlux" =>
                   Becomes(After(t, v), v, b, (v[b] - BoundaryFlux(t.arg, v[a])) % P)
              /\ t.cl = "ExtractInterface" => Becomes(After(t, v), v, a, v[b])
         /\ t.buf = << a, b, c >> =>
              (t.cl = "DGMacroCellInterface" =>
                 Becomes(After(t, v), v, c, (v[c] - NumFlux(v[a], v[b], t.arg)) % P))
<1> DEFINE u == [m \in DOMAIN t.buf |-> v[t.buf[m]]]
<1>1. CASE t.buf = << a >>
  <2>1. 1 \in DOMAIN t.buf /\ t.buf[1] = a /\ \A m \in DOMAIN t.buf : m = 1
    BY <1>1
  <2>2. t.cl = "ZeroBuffer" => WritesBuffer(t, 1) /\ Kernel(t, u)[1] = 0
    BY <2>1, ExplicitCodelets DEF WritesBuffer, Kernel, ZeroBuffer_C
  <2>3. t.cl = "ZeroBuffer" => Becomes(After(t, v), v, t.buf[1], Kernel(t, u)[1])
    BY <2>1, <2>2, OneWritten
  <2> HIDE DEF u
  <2> QED
    BY <1>1, <2>1, <2>2, <2>3
<1>2. CASE t.buf = << a, b >>
  <2>1. /\ 1 \in DOMAIN t.buf /\ 2 \in DOMAIN t.buf /\ t.buf[1] = a /\ t.buf[2] = b
        /\ \A m \in DOMAIN t.buf : m = 1 \/ m = 2
    BY <1>2
  <2>2. u[1] = v[a] /\ u[2] = v[b]
    BY <2>1
  <2>3. t.cl \in {"AddBuffer", "DGSubCellInterface", "DGVolume", "DGSource", "DGMass", "DGMacroCellBoundaryFlux"} =>
          WritesBuffer(t, 2) /\ ~ WritesBuffer(t, 1)
    BY ExplicitCodelets DEF WritesBuffer
  <2>4. t.cl = "ExtractInterface" => WritesBuffer(t, 1) /\ ~ WritesBuffer(t, 2)
    BY ExplicitCodelets DEF WritesBuffer
  <2>5. t.cl \in {"AddBuffer", "DGSubCellInterface", "DGVolume", "DGSource", "DGMass", "DGMacroCellBoundaryFlux"} =>
          Becomes(After(t, v), v, b, Kernel(t, u)[2])
    BY <2>1, <2>3, OneWritten
  <2>6. t.cl = "ExtractInterface" => Becomes(After(t, v), v, a, Kernel(t, u)[1])
    BY <2>1, <2>4, OneWritten
  <2> HIDE DEF u
  <2>7. /\ t.cl = "AddBuffer" => Kernel(t, u)[2] = (v[b] + t.arg * v[a]) % P
        /\ t.cl = "DGSubCellInterface" => Kernel(t, u)[2] = (v[b] - SubCellFlux(v[a])) % P
        /\ t.cl = "DGVolume" => Kernel(t, u)[2] = (v[b] + VolumeFlux(v[a])) % P
        /\ t.cl = "DGSource" => Kernel(t, u)[2] = (v[b] + Source(t.arg, v[a])) % P
        /\ t.cl = "DGMass" => Kernel(t, u)[2] = (v[a] * InverseMass - Half(v[b])) % P
        /\ t.cl = "DGMacroCellBoundaryFlux" => Kernel(t, u)[2] = (v[b] - BoundaryFlux(t.arg, v[a])) % P
        /\ t.cl = "ExtractInterface" => Kernel(t, u)[1] = v[b]
    BY <2>2 DEF Kernel, AddBuffer_C, DGSubCellInterface_C, DGVolume_C, DGSource_C, DGMass_C,
                DGMacroCellBoundaryFlux_C, ExtractInterface_C
  <2> QED
    BY <1>2, <2>5, <2>6, <2>7
<1>3. CASE t.buf = << a, b, c >>
  <2>1. /\ 3 \in DOMAIN t.buf /\ t.buf[1] = a /\ t.buf[2] = b /\ t.buf[3] = c
        /\ 1 \in DOMAIN t.buf /\ 2 \in DOMAIN t.buf
        /\ \A m \in DOMAIN t.buf : m = 1 \/ m = 2 \/ m = 3
    BY <1>3
  <2>2. u[1] = v[a] /\ u[2] = v[b] /\ u[3] = v[c]
    BY <2>1
  <2>3. t.cl = "DGMacroCellInterface" => WritesBuffer(t, 3) /\ ~ WritesBuffer(t, 1) /\ ~ WritesBuffer(t, 2)
    BY ExplicitCodelets DEF WritesBuffer
  <2>4. t.cl = "DGMacroCellInterface" => Becomes(After(t, v), v, c, Kernel(t, u)[3])
    BY <2>1, <2>3, OneWritten
  <2> HIDE DEF u
  <2>5. t.cl = "DGMacroCellInterface" => Kernel(t, u)[3] = (v[c] - NumFlux(v[a], v[b], t.arg)) % P
    BY <2>2 DEF Kernel, DGMacroCellInterface_C
  <2> QED
    BY <1>3, <2>4, <2>5
<1> QED
  BY <1>1, <1>2, <1>3

-----------------------------------------------------------------------------
(* One more task.                                                          *)

\* A task that commutes on h is in q, and none since uses h otherwise.
Open(q, h) ==
  \E i \in DOMAIN q : /\ Commutes(q[i], h)
                      /\ \A m \in DOMAIN q : i < m /\ Accesses(q[m], h) => Commutes(q[m], h)

\* The tasks of q that commute are apart, and no buffer but those of S is open.
Point(q, S) ==
  /\ q \in Seq(RK2Task) /\ AllApart(q)
  /\ \A h : Open(q, h) => h \in S

\* A task that commutes on no open buffer keeps them apart,
LEMMA PointNext ==
  ASSUME NEW q, NEW S, NEW T, Point(q, S), NEW t \in RK2Task,
         \A h : Commutes(t, h) => h \notin S /\ h \in T,
         \A h \in S : h \in T \/ (Accesses(t, h) /\ ~ Commutes(t, h))
  PROVE  /\ Point(q \o << t >>, T)
         /\ Result(q \o << t >>) = After(t, Result(q)) /\ Result(q) \in Memory
<1> DEFINE r == q \o << t >>  n == Len(q)
<1>1. /\ r \in Seq(RK2Task) /\ Prefix(q, r) /\ Len(r) = n + 1 /\ r[n + 1] = t
      /\ Result(q) \in Memory /\ Result(r) = After(t, Result(q))
  BY ResultNext DEF Point
<1>2. n \in Nat /\ DOMAIN q = 1..n
  BY LenProperties DEF Point
<1> HIDE DEF r, n
<1>3. /\ DOMAIN r = 1..(n + 1) /\ \A i \in DOMAIN q : r[i] = q[i]
      /\ \A i \in DOMAIN r : i \in DOMAIN q \/ i = n + 1
      /\ \A i \in DOMAIN q : i \in DOMAIN r /\ i < n + 1
  BY <1>1, <1>2, LenProperties DEF Prefix, n
<1>4. ASSUME NEW h, NEW i \in DOMAIN r, NEW j \in DOMAIN r, i < j,
             Commutes(r[i], h), Commutes(r[j], h)
      PROVE  \E m \in DOMAIN r : i < m /\ m < j /\ Accesses(r[m], h) /\ ~ Commutes(r[m], h)
  <2>1. i \in DOMAIN q
    BY <1>2, <1>3, <1>4
  <2>2. CASE j \in DOMAIN q
    <3>1. PICK m \in DOMAIN q : i < m /\ m < j /\ Accesses(q[m], h) /\ ~ Commutes(q[m], h)
      BY <1>3, <1>4, <2>1, <2>2 DEF Point, AllApart, ApartOn
    <3> QED
      BY <1>3, <3>1
  <2>3. CASE j = n + 1
    <3>1. Commutes(t, h)
      BY <1>1, <1>4, <2>3
    <3>2. ~ Open(q, h)
      BY <3>1 DEF Point
    <3>3. PICK m \in DOMAIN q : i < m /\ Accesses(q[m], h) /\ ~ Commutes(q[m], h)
      BY <1>3, <1>4, <2>1, <3>2 DEF Open
    <3> QED
      BY <1>3, <2>3, <3>3
  <2> QED
    BY <1>3, <2>2, <2>3
<1>5. AllApart(r)
  BY <1>4 DEF AllApart, ApartOn
<1>6. ASSUME NEW h, Open(r, h)
      PROVE  h \in T
  <2>1. PICK i \in DOMAIN r : /\ Commutes(r[i], h)
                              /\ \A m \in DOMAIN r : i < m /\ Accesses(r[m], h) => Commutes(r[m], h)
    BY <1>6 DEF Open
  <2>2. CASE i = n + 1
    BY <1>1, <2>1, <2>2
  <2>3. CASE i \in DOMAIN q
    <3>1. Open(q, h)
      BY <1>3, <2>1, <2>3 DEF Open
    <3>2. h \in S
      BY <3>1 DEF Point
    <3>3. n + 1 \in DOMAIN r /\ i < n + 1 /\ r[n + 1] = t
      BY <1>1, <1>2, <1>3, <2>3
    <3>4. ~ (Accesses(t, h) /\ ~ Commutes(t, h))
      BY <2>1, <3>3
    <3> QED
      BY <3>2, <3>4
  <2> QED
    BY <1>3, <2>2, <2>3
<1>7. Point(r, T)
  BY <1>1, <1>5, <1>6 DEF Point
<1> QED
  BY <1>1, <1>7 DEF r

\* and fewer open buffers are among more.
LEMMA PointWider ==
  ASSUME NEW q, NEW S, NEW T, Point(q, S), S \subseteq T
  PROVE  Point(q, T)
BY DEF Point

\* The result is a memory.
LEMMA ResultIsMemory ==
  ASSUME NEW q \in Seq(RK2Task)
  PROVE  Result(q) \in Memory
<1>1. IsRun(Run(q), q) /\ Len(q) \in Nat
  BY RunExists, LenProperties
<1> QED
  BY <1>1 DEF Result, IsRun

\* What tasks commute on and use.
LEMMA ExplicitUses ==
  ASSUME NEW t, NEW a, NEW b, NEW c, NEW h
  PROVE  /\ t.buf = << a >> /\ t.cl = "ZeroBuffer" => ~ Commutes(t, h)
         /\ t.buf = << a, b >> =>
              /\ t.cl \in {"AddBuffer", "DGSubCellInterface", "DGSource", "DGMass"} =>
                   /\ Commutes(t, h) <=> b = h
                   /\ Accesses(t, h) <=> (a = h \/ b = h)
              /\ t.cl = "DGVolume" => ~ Commutes(t, h) /\ (Accesses(t, h) <=> (a = h \/ b = h))
              /\ t.cl \in {"DGMacroCellBoundaryFlux", "ExtractInterface"} => ~ Commutes(t, h)
         /\ t.buf = << a, b, c >> /\ t.cl = "DGMacroCellInterface" => ~ Commutes(t, h)
BY OneOrMoreBuffers, ExplicitCodelets DEF Commutes, Accesses, Mode

-----------------------------------------------------------------------------
(* One more call of a submission function.                                 *)

\* r comes from q by tasks that leave T open and x in h.
Leads(q, r, T, h, x) == Point(r, T) /\ Becomes(Result(r), Result(q), h, x)

\* ZeroBuffer
LEMMA ZeroBufferNext ==
  ASSUME NEW q, NEW S, Point(q, S), NEW e \in Elem, NEW h \in {dtwn_handle(e), res_handle(e)}
  PROVE  Leads(q, q \o ZeroBuffer_SPU(h), S, h, 0)
<1> DEFINE t == [cl |-> "ZeroBuffer", buf |-> << h >>, arg |-> 0]
<1>1. ZeroBuffer_SPU(h) = << t >>
  BY DEF ZeroBuffer_SPU
<1>2. t \in RK2Task /\ t \in Task
  <2>1. << t >> \in Seq(FluxTask)
    BY <1>1, ZeroBufferTasks
  <2> QED
    BY <2>1, OneInSequence, RK2Tasks
<1>3. t.buf = << h >> /\ t.cl = "ZeroBuffer"
  OBVIOUS
<1> HIDE DEF t
<1>4. \A g : ~ Commutes(t, g)
  BY <1>3, ExplicitUses
<1>5. Point(q \o << t >>, S) /\ Result(q \o << t >>) = After(t, Result(q))
  BY <1>2, <1>4, PointNext
<1>6. Becomes(After(t, Result(q)), Result(q), h, 0)
  BY <1>2, <1>3, TaskResults
<1> QED
  BY <1>1, <1>5, <1>6 DEF Leads

\* AddBuffer
LEMMA AddBufferNext ==
  ASSUME NEW q, NEW S, Point(q, S), NEW e \in Elem, wn_handle(e) \notin S, NEW alpha \in Int
  PROVE  Leads(q, q \o AddBuffer_SPU(alpha, dtwn_handle(e), wn_handle(e)),
               (S \ {dtwn_handle(e)}) \cup {wn_handle(e)}, wn_handle(e),
               (Result(q)[wn_handle(e)] + alpha * Result(q)[dtwn_handle(e)]) % P)
<1> DEFINE a == dtwn_handle(e)  b == wn_handle(e)
           t == [cl |-> "AddBuffer", buf |-> << a, b >>, arg |-> alpha]
           T == (S \ {a}) \cup {b}
<1>1. AddBuffer_SPU(alpha, a, b) = << t >>
  BY DEF AddBuffer_SPU
<1>2. t \in RK2Task /\ t \in Task
  <2>1. << t >> \in Seq(AddTask(e))
    BY <1>1, AddBufferTasks
  <2> QED
    BY <2>1, OneInSequence, RK2Tasks
<1>3. t.buf = << a, b >> /\ t.cl = "AddBuffer" /\ t.arg = alpha
  OBVIOUS
<1> HIDE DEF t
<1>4. \A g : (Commutes(t, g) <=> b = g) /\ (Accesses(t, g) <=> (a = g \/ b = g))
  BY <1>3, ExplicitUses
<1>5. a # b
  BY ExplicitHandles
<1> HIDE DEF a, b
<1>6. Point(q \o << t >>, T) /\ Result(q \o << t >>) = After(t, Result(q))
  <2>1. b \notin S
    BY DEF b
  <2> QED
    BY <1>2, <1>4, <1>5, <2>1, PointNext
<1>7. Becomes(After(t, Result(q)), Result(q), b, (Result(q)[b] + alpha * Result(q)[a]) % P)
  <2>1. Becomes(After(t, Result(q)), Result(q), b, (Result(q)[b] + t.arg * Result(q)[a]) % P)
    BY <1>2, <1>3, TaskResults
  <2> QED
    BY <1>3, <2>1
<1> QED
  BY <1>1, <1>6, <1>7 DEF Leads, a, b

\* DGSubCellInterface
LEMMA SubCellNext ==
  ASSUME NEW q, NEW S, Point(q, S), NEW e \in Elem, res_handle(e) \notin S, e \in Refined
  PROVE  Leads(q, q \o DGSubCellInterface_SPU(e), S \cup {res_handle(e)}, res_handle(e),
               (Result(q)[res_handle(e)] - SubCellFlux(Result(q)[wn_handle(e)])) % P)
<1> DEFINE a == wn_handle(e)  b == res_handle(e)
           t == [cl |-> "DGSubCellInterface", buf |-> << a, b >>, arg |-> 0]
           T == S \cup {b}
<1>1. DGSubCellInterface_SPU(e) = << t >>
  BY DEF DGSubCellInterface_SPU
<1>2. t \in RK2Task /\ t \in Task
  <2>1. << t >> \in Seq(FluxTask)
    <3>1. 0 \in Int
      OBVIOUS
    <3> QED
      BY <1>1, <3>1, FluxTasksOfElement
  <2> QED
    BY <2>1, OneInSequence, RK2Tasks
<1>3. t.buf = << a, b >> /\ t.cl = "DGSubCellInterface"
  OBVIOUS
<1> HIDE DEF t
<1>4. \A g : (Commutes(t, g) <=> b = g) /\ (Accesses(t, g) <=> (a = g \/ b = g))
  BY <1>3, ExplicitUses
<1> HIDE DEF a, b
<1>6. Point(q \o << t >>, T) /\ Result(q \o << t >>) = After(t, Result(q))
  <2>1. b \notin S
    BY DEF b
  <2> QED
    BY <1>2, <1>4, <2>1, PointNext
<1>7. Becomes(After(t, Result(q)), Result(q), b, (Result(q)[b] - SubCellFlux(Result(q)[a])) % P)
  BY <1>2, <1>3, TaskResults
<1> QED
  BY <1>1, <1>6, <1>7 DEF Leads, a, b

\* DGVolume
LEMMA VolumeNext ==
  ASSUME NEW q, NEW S, Point(q, S), NEW e \in Elem
  PROVE  Leads(q, q \o DGVolume_SPU(e), S \ {wn_handle(e), res_handle(e)}, res_handle(e),
               (Result(q)[res_handle(e)] + VolumeFlux(Result(q)[wn_handle(e)])) % P)
<1> DEFINE a == wn_handle(e)  b == res_handle(e)
           t == [cl |-> "DGVolume", buf |-> << a, b >>, arg |-> 0]
           T == S \ {a, b}
<1>1. DGVolume_SPU(e) = << t >>
  BY DEF DGVolume_SPU
<1>2. t \in RK2Task /\ t \in Task
  <2>1. << t >> \in Seq(FluxTask)
    <3>1. 0 \in Int
      OBVIOUS
    <3> QED
      BY <1>1, <3>1, FluxTasksOfElement
  <2> QED
    BY <2>1, OneInSequence, RK2Tasks
<1>3. t.buf = << a, b >> /\ t.cl = "DGVolume"
  OBVIOUS
<1> HIDE DEF t
<1>4. \A g : ~ Commutes(t, g) /\ (Accesses(t, g) <=> (a = g \/ b = g))
  BY <1>3, ExplicitUses
<1> HIDE DEF a, b
<1>6. Point(q \o << t >>, T) /\ Result(q \o << t >>) = After(t, Result(q))
  BY <1>2, <1>4, PointNext
<1>7. Becomes(After(t, Result(q)), Result(q), b, (Result(q)[b] + VolumeFlux(Result(q)[a])) % P)
  BY <1>2, <1>3, TaskResults
<1> QED
  BY <1>1, <1>6, <1>7 DEF Leads, a, b

\* DGSource
LEMMA SourceNext ==
  ASSUME NEW q, NEW S, Point(q, S), NEW e \in Elem, res_handle(e) \notin S, HasSource, NEW s \in Int
  PROVE  Leads(q, q \o DGSource_SPU(e, s), S \cup {res_handle(e)}, res_handle(e),
               (Result(q)[res_handle(e)] + Source(s, Result(q)[wn_handle(e)])) % P)
<1> DEFINE a == wn_handle(e)  b == res_handle(e)
           t == [cl |-> "DGSource", buf |-> << a, b >>, arg |-> s]
           T == S \cup {b}
<1>1. DGSource_SPU(e, s) = << t >>
  BY DEF DGSource_SPU
<1>2. t \in RK2Task /\ t \in Task
  <2>1. << t >> \in Seq(FluxTask)
    BY <1>1, FluxTasksOfElement
  <2> QED
    BY <2>1, OneInSequence, RK2Tasks
<1>3. t.buf = << a, b >> /\ t.cl = "DGSource" /\ t.arg = s
  OBVIOUS
<1> HIDE DEF t
<1>4. \A g : (Commutes(t, g) <=> b = g) /\ (Accesses(t, g) <=> (a = g \/ b = g))
  BY <1>3, ExplicitUses
<1> HIDE DEF a, b
<1>6. Point(q \o << t >>, T) /\ Result(q \o << t >>) = After(t, Result(q))
  <2>1. b \notin S
    BY DEF b
  <2> QED
    BY <1>2, <1>4, <2>1, PointNext
<1>7. Becomes(After(t, Result(q)), Result(q), b, (Result(q)[b] + Source(s, Result(q)[a])) % P)
  <2>1. Becomes(After(t, Result(q)), Result(q), b, (Result(q)[b] + Source(t.arg, Result(q)[a])) % P)
    BY <1>2, <1>3, TaskResults
  <2> QED
    BY <1>3, <2>1
<1> QED
  BY <1>1, <1>6, <1>7 DEF Leads, a, b

\* DGMass
LEMMA MassNext ==
  ASSUME NEW q, NEW S, Point(q, S), NEW e \in Elem, dtwn_handle(e) \notin S
  PROVE  Leads(q, q \o DGMass_SPU(e), (S \ {res_handle(e)}) \cup {dtwn_handle(e)}, dtwn_handle(e),
               (Result(q)[res_handle(e)] * InverseMass - Half(Result(q)[dtwn_handle(e)])) % P)
<1> DEFINE a == res_handle(e)  b == dtwn_handle(e)
           t == [cl |-> "DGMass", buf |-> << a, b >>, arg |-> 0]
           T == (S \ {a}) \cup {b}
<1>1. DGMass_SPU(e) = << t >>
  BY DEF DGMass_SPU
<1>2. t \in RK2Task /\ t \in Task
  <2>1. << t >> \in Seq(MassTask(e))
    <3>1. 0 \in Int
      OBVIOUS
    <3> QED
      BY <1>1, <3>1, FluxTasksOfElement
  <2> QED
    BY <2>1, OneInSequence, RK2Tasks
<1>3. t.buf = << a, b >> /\ t.cl = "DGMass"
  OBVIOUS
<1> HIDE DEF t
<1>4. \A g : (Commutes(t, g) <=> b = g) /\ (Accesses(t, g) <=> (a = g \/ b = g))
  BY <1>3, ExplicitUses
<1>5. a # b
  BY ExplicitHandles
<1> HIDE DEF a, b
<1>6. Point(q \o << t >>, T) /\ Result(q \o << t >>) = After(t, Result(q))
  <2>1. b \notin S
    BY DEF b
  <2> QED
    BY <1>2, <1>4, <1>5, <2>1, PointNext
<1>7. Becomes(After(t, Result(q)), Result(q), b, (Result(q)[a] * InverseMass - Half(Result(q)[b])) % P)
  BY <1>2, <1>3, TaskResults
<1> QED
  BY <1>1, <1>6, <1>7 DEF Leads, a, b

\* The tasks of DtFields_SPU on a face are flux tasks.
LEMMA FluxTasksOfFace ==
  ASSUME NEW f \in Face, NEW s \in Int
  PROVE  /\ ExtractInterface_SPU(f, 0) \in Seq(FluxTask) /\ ExtractInterface_SPU(f, 1) \in Seq(FluxTask)
         /\ DGMacroCellInterface_SPU(f, 0) \in Seq(FluxTask)
         /\ DGMacroCellInterface_SPU(f, 1) \in Seq(FluxTask)
         /\ DGMacroCellBoundaryFlux_SPU(f, s) \in Seq(FluxTask)
<1>1. 0 \in {0, 1} /\ 1 \in {0, 1} /\ fL[f] \in Elem /\ fL[f] # Null
      /\ (fR[f] # Null => fR[f] \in Elem) /\ << >> \in Seq(FluxTask)
  BY Sides
<1>2. /\ \A side \in {0, 1} : /\ ExtractInterface_SPU(f, side) \in Seq(Task)
                              /\ DGMacroCellInterface_SPU(f, side) \in Seq(Task)
      /\ DGMacroCellBoundaryFlux_SPU(f, s) \in Seq(Task)
  BY <1>1, RK2Assumption, InterfaceTasks, ExplicitFaceTasks
<1>3. ASSUME NEW e \in Elem, NEW x
      PROVE  /\ \A h \in {wL_handle(f), wR_handle(f)} :
                  IsFluxTask([cl |-> "ExtractInterface", buf |-> << h, wn_handle(e) >>, arg |-> x])
             /\ IsFluxTask([cl |-> "DGMacroCellInterface",
                            buf |-> << wL_handle(f), wR_handle(f), res_handle(e) >>, arg |-> x])
             /\ IsFluxTask([cl |-> "DGMacroCellInterface",
                            buf |-> << wR_handle(f), wL_handle(f), res_handle(e) >>, arg |-> x])
             /\ IsFluxTask([cl |-> "DGMacroCellBoundaryFlux",
                            buf |-> << wL_handle(f), res_handle(e) >>, arg |-> x])
  BY DEF IsFluxTask
<1>4. ExtractInterface_SPU(f, 0) \in Seq(FluxTask)
  BY <1>1, <1>2, <1>3, OneFluxTask, StateIsWn DEF ExtractInterface_SPU
<1>5. ExtractInterface_SPU(f, 1) \in Seq(FluxTask)
  BY <1>1, <1>2, <1>3, OneFluxTask, StateIsWn DEF ExtractInterface_SPU
<1>6. DGMacroCellInterface_SPU(f, 0) \in Seq(FluxTask)
  BY <1>1, <1>2, <1>3, OneFluxTask DEF DGMacroCellInterface_SPU
<1>7. DGMacroCellInterface_SPU(f, 1) \in Seq(FluxTask)
  BY <1>1, <1>2, <1>3, OneFluxTask DEF DGMacroCellInterface_SPU
<1>8. DGMacroCellBoundaryFlux_SPU(f, s) \in Seq(FluxTask)
  BY <1>1, <1>2, <1>3, OneFluxTask DEF DGMacroCellBoundaryFlux_SPU
<1> QED
  BY <1>4, <1>5, <1>6, <1>7, <1>8

\* A task that commutes on nothing.
LEMMA PlainNext ==
  ASSUME NEW q, NEW S, Point(q, S), NEW t, << t >> \in Seq(FluxTask), \A g : ~ Commutes(t, g)
  PROVE  /\ t \in Task /\ Point(q \o << t >>, S) /\ Result(q \o << t >>) = After(t, Result(q))
<1>1. t \in RK2Task /\ t \in Task
  BY OneInSequence, RK2Tasks
<1> QED
  BY <1>1, PointNext

\* ExtractInterface, on either side;
LEMMA ExtractNext ==
  ASSUME NEW q, NEW S, Point(q, S), NEW f \in Face
  PROVE  /\ Leads(q, q \o ExtractInterface_SPU(f, 0), S, wL_handle(f), Result(q)[wn_handle(fL[f])])
         /\ fR[f] # Null =>
              Leads(q, q \o ExtractInterface_SPU(f, 1), S, wR_handle(f), Result(q)[wn_handle(fR[f])])
<1>1. fL[f] # Null
  BY Sides
<1>2. ASSUME NEW w, NEW b, NEW t, t = [cl |-> "ExtractInterface", buf |-> << w, b >>, arg |-> 0],
             << t >> \in Seq(FluxTask)
      PROVE  Leads(q, q \o << t >>, S, w, Result(q)[b])
  <2>1. t.buf = << w, b >> /\ t.cl = "ExtractInterface"
    BY <1>2
  <2>2. \A g : ~ Commutes(t, g)
    BY <2>1, ExplicitUses
  <2>3. t \in Task /\ Point(q \o << t >>, S) /\ Result(q \o << t >>) = After(t, Result(q))
    BY <1>2, <2>2, PlainNext
  <2>4. Becomes(After(t, Result(q)), Result(q), w, Result(q)[b])
    BY <2>1, <2>3, TaskResults
  <2> QED
    BY <2>3, <2>4 DEF Leads
<1>3. ExtractInterface_SPU(f, 0)
        = << [cl |-> "ExtractInterface", buf |-> << wL_handle(f), wn_handle(fL[f]) >>, arg |-> 0] >>
  BY <1>1, StateIsWn DEF ExtractInterface_SPU
<1>4. fR[f] # Null => ExtractInterface_SPU(f, 1)
        = << [cl |-> "ExtractInterface", buf |-> << wR_handle(f), wn_handle(fR[f]) >>, arg |-> 0] >>
  BY StateIsWn DEF ExtractInterface_SPU
<1>5. ExtractInterface_SPU(f, 0) \in Seq(FluxTask) /\ ExtractInterface_SPU(f, 1) \in Seq(FluxTask)
  <2>1. 0 \in Int
    OBVIOUS
  <2> QED
    BY <2>1, FluxTasksOfFace
<1> QED
  BY <1>2, <1>3, <1>4, <1>5

\* DGMacroCellInterface, on either side;
LEMMA InterfaceNext ==
  ASSUME NEW q, NEW S, Point(q, S), NEW f \in Face, fR[f] # Null
  PROVE  /\ Leads(q, q \o DGMacroCellInterface_SPU(f, 0), S, res_handle(fL[f]),
                  (Result(q)[res_handle(fL[f])]
                     - NumFlux(Result(q)[wL_handle(f)], Result(q)[wR_handle(f)], 1)) % P)
         /\ Leads(q, q \o DGMacroCellInterface_SPU(f, 1), S, res_handle(fR[f]),
                  (Result(q)[res_handle(fR[f])]
                     - NumFlux(Result(q)[wR_handle(f)], Result(q)[wL_handle(f)], -1)) % P)
<1>1. ASSUME NEW a, NEW b, NEW c, NEW s, NEW t,
             t = [cl |-> "DGMacroCellInterface", buf |-> << a, b, c >>, arg |-> s],
             << t >> \in Seq(FluxTask)
      PROVE  Leads(q, q \o << t >>, S, c, (Result(q)[c] - NumFlux(Result(q)[a], Result(q)[b], s)) % P)
  <2>1. t.buf = << a, b, c >> /\ t.cl = "DGMacroCellInterface" /\ t.arg = s
    BY <1>1
  <2>2. \A g : ~ Commutes(t, g)
    BY <2>1, ExplicitUses
  <2>3. t \in Task /\ Point(q \o << t >>, S) /\ Result(q \o << t >>) = After(t, Result(q))
    BY <1>1, <2>2, PlainNext
  <2>4. Becomes(After(t, Result(q)), Result(q), c, (Result(q)[c] - NumFlux(Result(q)[a], Result(q)[b], t.arg)) % P)
    BY <2>1, <2>3, TaskResults
  <2> QED
    BY <2>1, <2>3, <2>4 DEF Leads
<1>2. DGMacroCellInterface_SPU(f, 0)
        = << [cl |-> "DGMacroCellInterface", buf |-> << wL_handle(f), wR_handle(f), res_handle(fL[f]) >>, arg |-> 1] >>
  BY DEF DGMacroCellInterface_SPU
<1>3. DGMacroCellInterface_SPU(f, 1)
        = << [cl |-> "DGMacroCellInterface", buf |-> << wR_handle(f), wL_handle(f), res_handle(fR[f]) >>, arg |-> -1] >>
  BY DEF DGMacroCellInterface_SPU
<1>4. DGMacroCellInterface_SPU(f, 0) \in Seq(FluxTask) /\ DGMacroCellInterface_SPU(f, 1) \in Seq(FluxTask)
  <2>1. 0 \in Int
    OBVIOUS
  <2> QED
    BY <2>1, FluxTasksOfFace
<1> QED
  BY <1>1, <1>2, <1>3, <1>4

\* DGMacroCellBoundaryFlux.
LEMMA BoundaryNext ==
  ASSUME NEW q, NEW S, Point(q, S), NEW f \in Face, fR[f] = Null, NEW s \in Int
  PROVE  Leads(q, q \o DGMacroCellBoundaryFlux_SPU(f, s), S, res_handle(fL[f]),
               (Result(q)[res_handle(fL[f])] - BoundaryFlux(s, Result(q)[wL_handle(f)])) % P)
<1> DEFINE a == wL_handle(f)  b == res_handle(fL[f])
           t == [cl |-> "DGMacroCellBoundaryFlux", buf |-> << a, b >>, arg |-> s]
<1>1. DGMacroCellBoundaryFlux_SPU(f, s) = << t >>
  BY DEF DGMacroCellBoundaryFlux_SPU
<1>2. t.buf = << a, b >> /\ t.cl = "DGMacroCellBoundaryFlux" /\ t.arg = s
  OBVIOUS
<1> HIDE DEF t, a, b
<1>3. << t >> \in Seq(FluxTask)
  BY <1>1, FluxTasksOfFace
<1>4. \A g : ~ Commutes(t, g)
  BY <1>2, ExplicitUses
<1>5. t \in Task /\ Point(q \o << t >>, S) /\ Result(q \o << t >>) = After(t, Result(q))
  BY <1>3, <1>4, PlainNext
<1>6. Becomes(After(t, Result(q)), Result(q), b, (Result(q)[b] - BoundaryFlux(t.arg, Result(q)[a])) % P)
  BY <1>2, <1>5, TaskResults
<1> QED
  BY <1>1, <1>2, <1>5, <1>6 DEF Leads, a, b

-----------------------------------------------------------------------------
(* The turns of the loops.                                                 *)

\* What a face of the flux x takes from or brings to an element of residual y.
FaceBrings(e, f, x, y) ==
  (y - (IF fL[f] = e THEN x ELSE 0) + (IF fR[f] = e THEN x ELSE 0)) % P

\* The flux of a face, from the memory v.
FluxFrom(v, f, t) ==
  IF fR[f] # Null THEN NumFlux(v[wn_handle(fL[f])], v[wn_handle(fR[f])], 1)
  ELSE BoundaryFlux(t, v[wn_handle(fL[f])])

\* The tasks that led from q to r have brought the flux x of f to e, and changed no
\* other buffer of e.
FaceDone(q, r, S, f, x, e) ==
  /\ Point(r, S)
  /\ Result(r)[wn_handle(e)] = Result(q)[wn_handle(e)]
  /\ Result(r)[dtwn_handle(e)] = Result(q)[dtwn_handle(e)]
  /\ Result(r)[res_handle(e)] = FaceBrings(e, f, x, Result(q)[res_handle(e)])

\* The handles of an element.
LEMMA ElementHandles ==
  ASSUME NEW e \in Elem
  PROVE  wn_handle(e) \in Handle /\ dtwn_handle(e) \in Handle /\ res_handle(e) \in Handle
BY MeshHandles, RK2Assumption

\* A value of the memory is a number.
LEMMA MemoryValues ==
  ASSUME NEW v \in Memory, NEW h \in Handle
  PROVE  v[h] \in Value /\ v[h] \in Int
BY ValuesAreNumbers DEF Memory

\* On a face between two elements,
LEMMA InnerFaceTurn ==
  ASSUME NEW q, NEW S, Point(q, S), NEW f \in Face, fR[f] # Null,
         NEW r, r = q \o FaceTasks(f), NEW x, x = FluxFrom(Result(q), f, ftnow), NEW e \in Elem
  PROVE  FaceDone(q, r, S, f, x, e)
<1> DEFINE E0 == ExtractInterface_SPU(f, 0)  E1 == ExtractInterface_SPU(f, 1)
           I0 == DGMacroCellInterface_SPU(f, 0)  I1 == DGMacroCellInterface_SPU(f, 1)
           m0 == q \o E0  m1 == m0 \o E1  m2 == m1 \o I0  m3 == m2 \o I1
           a == fL[f]  b == fR[f]  wL == wL_handle(f)  wR == wR_handle(f)
           v == Result(q)  v0 == Result(m0)  v1 == Result(m1)  v2 == Result(m2)  v3 == Result(m3)
<1>1. a \in Elem /\ b \in Elem /\ wL \in Handle /\ wR \in Handle
  BY Sides, MeshHandles
<1>2. Leads(q, m0, S, wL, v[wn_handle(a)])
  BY ExtractNext
<1>3. Leads(m0, m1, S, wR, v0[wn_handle(b)])
  <2> HIDE DEF m0
  <2> QED
    BY <1>2, ExtractNext DEF Leads
<1>4. Leads(m1, m2, S, res_handle(a), (v1[res_handle(a)] - NumFlux(v1[wL], v1[wR], 1)) % P)
  <2> HIDE DEF m1
  <2> QED
    BY <1>3, InterfaceNext DEF Leads
<1>5. Leads(m2, m3, S, res_handle(b), (v2[res_handle(b)] - NumFlux(v2[wR], v2[wL], -1)) % P)
  <2> HIDE DEF m2
  <2> QED
    BY <1>4, InterfaceNext DEF Leads
<1>6. m3 = r
  <2>1. /\ q \in Seq(Task) /\ E0 \in Seq(Task) /\ E1 \in Seq(Task) /\ I0 \in Seq(Task) /\ I1 \in Seq(Task)
    <3>1. 0 \in Int
      OBVIOUS
    <3> QED
      BY <3>1, FluxTasksOfFace, RK2Tasks DEF Point
  <2>2. FaceTasks(f) = (E0 \o E1) \o (I0 \o I1)
    BY DEF FaceTasks
  <2> HIDE DEF E0, E1, I0, I1
  <2>3. Joined(q, Joined(Joined(E0, E1), Joined(I0, I1)))
          = Joined(Joined(Joined(Joined(q, E0), E1), I0), I1)
    BY <2>1, FourJoined
  <2> QED
    BY <2>2, <2>3 DEF Joined
<1> HIDE DEF E0, E1, I0, I1, m0, m1, m2, m3
<1>7. /\ Becomes(v0, v, wL, v[wn_handle(a)]) /\ Becomes(v1, v0, wR, v0[wn_handle(b)])
      /\ Becomes(v2, v1, res_handle(a), (v1[res_handle(a)] - NumFlux(v1[wL], v1[wR], 1)) % P)
      /\ Becomes(v3, v2, res_handle(b), (v2[res_handle(b)] - NumFlux(v2[wR], v2[wL], -1)) % P)
      /\ Point(m3, S)
  BY <1>2, <1>3, <1>4, <1>5 DEF Leads
<1>8. v \in Memory
  BY ResultIsMemory DEF Point
<1> HIDE DEF v, v0, v1, v2, v3
<1>9. \A u \in Elem : wn_handle(u) \in Handle /\ dtwn_handle(u) \in Handle /\ res_handle(u) \in Handle
  BY ElementHandles
<1>10. v1[wL] = v[wn_handle(a)] /\ v1[wR] = v[wn_handle(b)]
  <2>1. wL # wR /\ wn_handle(b) # wL
    BY ExplicitHandles DEF wL, wR
  <2> HIDE DEF wL, wR
  <2> QED
    BY <1>1, <1>7, <1>9, <2>1 DEF Becomes
<1>11. v2[wL] = v1[wL] /\ v2[wR] = v1[wR]
  <2>1. wL # res_handle(a) /\ wR # res_handle(a)
    BY ExplicitHandles DEF wL, wR
  <2> HIDE DEF wL, wR
  <2> QED
    BY <1>1, <1>7, <2>1 DEF Becomes
<1>12. /\ v3[wn_handle(e)] = v[wn_handle(e)] /\ v3[dtwn_handle(e)] = v[dtwn_handle(e)]
  <2>1. \A h \in {wn_handle(e), dtwn_handle(e)} :
          h \in Handle /\ h # wL /\ h # wR /\ h # res_handle(a) /\ h # res_handle(b)
    BY <1>9, ExplicitHandles DEF wL, wR
  <2> QED
    BY <1>7, <2>1 DEF Becomes
<1>13. \A u \in Elem : v1[res_handle(u)] = v[res_handle(u)]
  <2>1. \A u \in Elem : res_handle(u) \in Handle /\ res_handle(u) # wL /\ res_handle(u) # wR
    BY <1>9, ExplicitHandles DEF wL, wR
  <2> QED
    BY <1>7, <2>1 DEF Becomes
<1>14. x = NumFlux(v[wn_handle(a)], v[wn_handle(b)], 1)
  BY DEF FluxFrom, v
<1>15. /\ v[wn_handle(a)] \in Int /\ v[wn_handle(b)] \in Int /\ x \in Int
       /\ v[res_handle(e)] \in Int /\ v[res_handle(e)] \in Value
  <2>1. v[wn_handle(a)] \in Int /\ v[wn_handle(b)] \in Int /\ v[res_handle(e)] \in Int /\ v[res_handle(e)] \in Value
    BY <1>1, <1>8, <1>9, MemoryValues
  <2> QED
    BY <1>14, <2>1 DEF NumFlux
<1>16. NumFlux(v2[wR], v2[wL], -1) = -x
  BY <1>10, <1>11, <1>14, <1>15 DEF NumFlux
<1>17. \A u \in Elem : /\ v2[res_handle(u)] = IF u = a THEN (v[res_handle(u)] - x) % P ELSE v[res_handle(u)]
                       /\ v3[res_handle(u)] = IF u = b THEN (v2[res_handle(u)] - (-x)) % P ELSE v2[res_handle(u)]
  <2>1. \A u, y \in Elem : res_handle(u) \in Handle /\ (res_handle(u) = res_handle(y) <=> u = y)
    BY <1>9, SameElement
  <2>2. \A u \in Elem : v2[res_handle(u)] = IF u = a THEN (v[res_handle(u)] - x) % P ELSE v[res_handle(u)]
    BY <1>1, <1>7, <1>10, <1>13, <1>14, <2>1 DEF Becomes
  <2>3. \A u \in Elem : v3[res_handle(u)] = IF u = b THEN (v2[res_handle(u)] - (-x)) % P ELSE v2[res_handle(u)]
    BY <1>1, <1>7, <1>16, <2>1 DEF Becomes
  <2> QED
    BY <2>2, <2>3
<1> DEFINE y == v[res_handle(e)]
<1>18. /\ v2[res_handle(e)] = IF e = a THEN (y - x) % P ELSE y
       /\ v3[res_handle(e)] = IF e = b THEN (v2[res_handle(e)] - (-x)) % P ELSE v2[res_handle(e)]
       /\ y \in Int /\ y \in Value
  BY <1>15, <1>17
<1> HIDE DEF y, a, b
<1>19. v3[res_handle(e)] = FaceBrings(e, f, x, y)
  <2>1. FaceBrings(e, f, x, y) = (y - (IF a = e THEN x ELSE 0) + (IF b = e THEN x ELSE 0)) % P
    BY DEF FaceBrings, a, b
  <2>2. CASE e = a /\ e = b
    <3>1. v3[res_handle(e)] = (((y - x) % P) - (-x)) % P
      BY <1>18, <2>2
    <3>2. (((y - x) % P) - (-x)) % P = ((y - x) - (-x)) % P
      <4>1. y - x \in Int /\ -x \in Int
        BY <1>15, <1>18
      <4> QED
        BY <4>1, RightMod
    <3>3. (y - x) - (-x) = y - (IF a = e THEN x ELSE 0) + (IF b = e THEN x ELSE 0)
      BY <1>15, <1>18, <2>2
    <3> QED
      BY <2>1, <3>1, <3>2, <3>3
  <2>3. CASE e = a /\ e # b
    <3>1. y - x = y - (IF a = e THEN x ELSE 0) + (IF b = e THEN x ELSE 0)
      BY <1>15, <1>18, <2>3
    <3> QED
      BY <1>18, <2>1, <2>3, <3>1
  <2>4. CASE e # a /\ e = b
    <3>1. y - (-x) = y - (IF a = e THEN x ELSE 0) + (IF b = e THEN x ELSE 0)
      BY <1>15, <1>18, <2>4
    <3> QED
      BY <1>18, <2>1, <2>4, <3>1
  <2>5. CASE e # a /\ e # b
    <3>1. y = y - (IF a = e THEN x ELSE 0) + (IF b = e THEN x ELSE 0) /\ y % P = y
      BY <1>15, <1>18, <2>5, ValueMod
    <3> QED
      BY <1>18, <2>1, <2>5, <3>1
  <2> QED
    BY <2>2, <2>3, <2>4, <2>5
<1> QED
  BY <1>6, <1>7, <1>12, <1>19 DEF FaceDone, v, v3, y

\* on a face of the boundary,
LEMMA OuterFaceTurn ==
  ASSUME NEW q, NEW S, Point(q, S), NEW f \in Face, fR[f] = Null, ftnow \in Nat,
         NEW r, r = q \o FaceTasks(f), NEW x, x = FluxFrom(Result(q), f, ftnow), NEW e \in Elem
  PROVE  FaceDone(q, r, S, f, x, e)
<1> DEFINE E0 == ExtractInterface_SPU(f, 0)  E1 == ExtractInterface_SPU(f, 1)
           B == DGMacroCellBoundaryFlux_SPU(f, ftnow)
           m0 == q \o E0  m1 == m0 \o B
           a == fL[f]  wL == wL_handle(f)
           v == Result(q)  v0 == Result(m0)  v1 == Result(m1)
<1>1. a \in Elem /\ wL \in Handle /\ ftnow \in Int /\ Null \notin Elem
  BY Sides, MeshHandles
<1>2. Leads(q, m0, S, wL, v[wn_handle(a)])
  BY ExtractNext
<1>3. Leads(m0, m1, S, res_handle(a), (v0[res_handle(a)] - BoundaryFlux(ftnow, v0[wL])) % P)
  <2> HIDE DEF m0
  <2> QED
    BY <1>1, <1>2, BoundaryNext DEF Leads
<1>4. m1 = r
  <2>1. q \in Seq(Task) /\ E0 \in Seq(Task) /\ B \in Seq(Task)
    BY <1>1, FluxTasksOfFace, RK2Tasks DEF Point
  <2>2. E1 = << >>
    BY DEF ExtractInterface_SPU
  <2>3. FaceTasks(f) = (E0 \o << >>) \o B
    BY <2>2 DEF FaceTasks
  <2> HIDE DEF E0, E1, B
  <2>4. E0 \o << >> = E0
    BY <2>1, ConcatEmptySeq
  <2> QED
    BY <2>1, <2>3, <2>4, ConcatAssociative
<1> HIDE DEF E0, E1, B, m0, m1
<1>5. /\ Becomes(v0, v, wL, v[wn_handle(a)])
      /\ Becomes(v1, v0, res_handle(a), (v0[res_handle(a)] - BoundaryFlux(ftnow, v0[wL])) % P)
      /\ Point(m1, S)
  BY <1>2, <1>3 DEF Leads
<1>6. v \in Memory
  BY ResultIsMemory DEF Point
<1> HIDE DEF v, v0, v1
<1>7. \A u \in Elem : /\ wn_handle(u) \in Handle /\ dtwn_handle(u) \in Handle /\ res_handle(u) \in Handle
                      /\ wn_handle(u) # wL /\ dtwn_handle(u) # wL /\ res_handle(u) # wL
                      /\ wn_handle(u) # res_handle(a) /\ dtwn_handle(u) # res_handle(a)
                      /\ res_handle(u) = res_handle(a) <=> u = a
  BY ElementHandles, ExplicitHandles, SameElement DEF wL
<1>8. /\ v1[wn_handle(e)] = v[wn_handle(e)] /\ v1[dtwn_handle(e)] = v[dtwn_handle(e)]
      /\ v0[wL] = v[wn_handle(a)] /\ \A u \in Elem : v0[res_handle(u)] = v[res_handle(u)]
  <2> HIDE DEF wL
  <2> QED
    BY <1>1, <1>5, <1>7 DEF Becomes
<1>9. x = BoundaryFlux(ftnow, v[wn_handle(a)]) /\ x \in Int /\ v[res_handle(e)] \in Int /\ v[res_handle(e)] \in Value
  <2>1. v[wn_handle(a)] \in Int /\ v[res_handle(e)] \in Int /\ v[res_handle(e)] \in Value
    BY <1>1, <1>6, <1>7, MemoryValues
  <2>2. x = BoundaryFlux(ftnow, v[wn_handle(a)])
    BY DEF FluxFrom, v
  <2> QED
    BY <1>1, <2>1, <2>2 DEF BoundaryFlux
<1>10. v1[res_handle(e)] = IF e = a THEN (v[res_handle(e)] - x) % P ELSE v[res_handle(e)]
  <2>1. v1[res_handle(e)] = IF e = a THEN (v0[res_handle(a)] - BoundaryFlux(ftnow, v0[wL])) % P ELSE v0[res_handle(e)]
    BY <1>5, <1>7 DEF Becomes
  <2> QED
    BY <1>1, <1>8, <1>9, <2>1
<1>11. FaceBrings(e, f, x, v[res_handle(e)]) = IF e = a THEN (v[res_handle(e)] - x) % P ELSE v[res_handle(e)]
  <2> DEFINE y == v[res_handle(e)]
  <2>1. FaceBrings(e, f, x, y) = (y - (IF a = e THEN x ELSE 0) + 0) % P
    BY <1>1 DEF FaceBrings
  <2>2. y \in Int /\ y % P = y
    BY <1>9, ValueMod
  <2> HIDE DEF y
  <2>3. (IF e = a THEN y - x ELSE y) = y - (IF a = e THEN x ELSE 0) + 0
    BY <1>9, <2>2
  <2> QED
    BY <2>1, <2>2, <2>3 DEF y
<1> QED
  BY <1>4, <1>5, <1>8, <1>10, <1>11 DEF FaceDone, v, v1

\* The terms of an element, from the memory v.
OwnFrom(v, e, t) ==
  VolumeFlux(v[wn_handle(e)]) - (IF e \in Refined THEN SubCellFlux(v[wn_handle(e)]) ELSE 0)
    + (IF HasSource THEN Source(t, v[wn_handle(e)]) ELSE 0)

\* A call that submits nothing adds nothing.
LEMMA NothingAdded ==
  ASSUME NEW q, NEW S, Point(q, S), NEW e \in Elem
  PROVE  /\ q \o << >> = q
         /\ Becomes(Result(q), Result(q), res_handle(e), (Result(q)[res_handle(e)] + 0) % P)
         /\ Becomes(Result(q), Result(q), res_handle(e), (Result(q)[res_handle(e)] - 0) % P)
<1>1. q \o << >> = q
  BY ConcatEmptySeq DEF Point
<1>2. Result(q)[res_handle(e)] \in Int /\ Result(q)[res_handle(e)] % P = Result(q)[res_handle(e)]
  BY ResultIsMemory, ElementHandles, MemoryValues, ValueMod DEF Point
<1>3. Result(q)[res_handle(e)] + 0 = Result(q)[res_handle(e)] /\ Result(q)[res_handle(e)] - 0 = Result(q)[res_handle(e)]
  BY <1>2
<1> QED
  BY <1>1, <1>2, <1>3 DEF Becomes

\* The optional tasks of an element.
LEMMA SubCellTurn ==
  ASSUME NEW q, NEW S, Point(q, S), NEW e \in Elem, res_handle(e) \notin S
  PROVE  Leads(q, q \o DGSubCellInterface_SPU(e), S \cup {res_handle(e)}, res_handle(e),
               (Result(q)[res_handle(e)]
                  - (IF e \in Refined THEN SubCellFlux(Result(q)[wn_handle(e)]) ELSE 0)) % P)
<1>1. CASE e \in Refined
  BY <1>1, SubCellNext
<1>2. CASE e \notin Refined
  <2>1. DGSubCellInterface_SPU(e) = << >>
    BY <1>2 DEF DGSubCellInterface_SPU
  <2>2. Point(q, S \cup {res_handle(e)})
    BY PointWider
  <2> QED
    BY <1>2, <2>1, <2>2, NothingAdded DEF Leads
<1> QED
  BY <1>1, <1>2

\* and so does DGSource, with or without a source.
LEMMA SourceTurn ==
  ASSUME NEW q, NEW S, Point(q, S), NEW e \in Elem, res_handle(e) \notin S, NEW s \in Int
  PROVE  Leads(q, q \o DGSource_SPU(e, s), S \cup {res_handle(e)}, res_handle(e),
               (Result(q)[res_handle(e)]
                  + (IF HasSource THEN Source(s, Result(q)[wn_handle(e)]) ELSE 0)) % P)
<1>1. CASE HasSource
  BY <1>1, SourceNext
<1>2. CASE ~ HasSource
  <2>1. DGSource_SPU(e, s) = << >>
    BY <1>2 DEF DGSource_SPU
  <2>2. Point(q, S \cup {res_handle(e)})
    BY PointWider
  <2> QED
    BY <1>2, <2>1, <2>2, NothingAdded DEF Leads
<1> QED
  BY <1>1, <1>2

\* The tasks that led from q to r have made the time derivative of e at time t, and
\* changed no state and no other element.
ElemDone(q, r, S, e, t) ==
  /\ Point(r, (S \ {wn_handle(e)}) \cup {dtwn_handle(e)})
  /\ \A u \in Elem :
       /\ Result(r)[wn_handle(u)] = Result(q)[wn_handle(u)]
       /\ u # e => Result(r)[res_handle(u)] = Result(q)[res_handle(u)]
       /\ Result(r)[dtwn_handle(u)] =
            IF u = e
            THEN (((Result(q)[res_handle(e)] + OwnFrom(Result(q), e, t)) % P) * InverseMass
                    - Half(Result(q)[dtwn_handle(e)])) % P
            ELSE Result(q)[dtwn_handle(u)]

\* The four functions of an element.
LEMMA ElemTurn ==
  ASSUME NEW q, NEW S, Point(q, S), NEW e \in Elem, ftnow \in Nat,
         res_handle(e) \notin S, dtwn_handle(e) \notin S, NEW r, r = q \o ElemTasks(e)
  PROVE  ElemDone(q, r, S, e, ftnow)
<1> DEFINE A == DGSubCellInterface_SPU(e)  B == DGVolume_SPU(e)  C == DGSource_SPU(e, ftnow)
           D == DGMass_SPU(e)
           m0 == q \o A  m1 == m0 \o B  m2 == m1 \o C  m3 == m2 \o D
           wn == wn_handle(e)  res == res_handle(e)  dtwn == dtwn_handle(e)
           v == Result(q)  v0 == Result(m0)  v1 == Result(m1)  v2 == Result(m2)  v3 == Result(m3)
           S0 == S \cup {res}  S1 == S0 \ {wn, res}  S2 == S1 \cup {res}  S3 == (S2 \ {res}) \cup {dtwn}
           a(x) == IF e \in Refined THEN SubCellFlux(x) ELSE 0
           c(x) == IF HasSource THEN Source(ftnow, x) ELSE 0
<1>1. wn \in Handle /\ res \in Handle /\ dtwn \in Handle /\ ftnow \in Int
      /\ wn # res /\ wn # dtwn /\ dtwn # res
  BY ElementHandles, ExplicitHandles
<1>2. Leads(q, m0, S0, res, (v[res] - a(v[wn])) % P)
  BY SubCellTurn
<1>3. Leads(m0, m1, S1, res, (v0[res] + VolumeFlux(v0[wn])) % P)
  <2> HIDE DEF m0, S0
  <2> QED
    BY <1>2, VolumeNext DEF Leads
<1>4. Leads(m1, m2, S2, res, (v1[res] + c(v1[wn])) % P)
  <2>1. res \notin S1
    OBVIOUS
  <2> HIDE DEF m1, S1
  <2> QED
    BY <1>1, <1>3, <2>1, SourceTurn DEF Leads
<1>5. Leads(m2, m3, S3, dtwn, (v2[res] * InverseMass - Half(v2[dtwn])) % P)
  <2>1. dtwn \notin S2
    BY <1>1
  <2> HIDE DEF m2, S2
  <2> QED
    BY <1>4, <2>1, MassNext DEF Leads
<1>6. m3 = r
  <2>1. q \in Seq(Task) /\ A \in Seq(Task) /\ B \in Seq(Task) /\ C \in Seq(Task) /\ D \in Seq(Task)
    <3>1. MassTask(e) \subseteq Task
      BY RK2Tasks
    <3>2. D \in Seq(MassTask(e)) /\ A \in Seq(FluxTask) /\ B \in Seq(FluxTask) /\ C \in Seq(FluxTask)
      BY <1>1, FluxTasksOfElement
    <3> QED
      BY <3>1, <3>2, RK2Tasks DEF Point
  <2>2. ElemTasks(e) = ((A \o B) \o C) \o D
    BY DEF ElemTasks
  <2> HIDE DEF A, B, C, D
  <2>3. Joined(q, Joined(Joined(Joined(A, B), C), D)) = Joined(Joined(Joined(Joined(q, A), B), C), D)
    BY <2>1, FourJoined
  <2> QED
    BY <2>2, <2>3 DEF Joined
<1>7. Point(m3, (S \ {wn}) \cup {dtwn})
  <2>1. S3 \subseteq (S \ {wn}) \cup {dtwn} /\ Point(m3, S3)
    BY <1>5 DEF Leads
  <2> HIDE DEF S3, m3
  <2> QED
    BY <2>1, PointWider
<1> HIDE DEF A, B, C, D, m0, m1, m2, m3, S0, S1, S2, S3
<1>8. v \in Memory
  BY ResultIsMemory DEF Point
<1>9. /\ Becomes(v0, v, res, (v[res] - a(v[wn])) % P)
      /\ Becomes(v1, v0, res, (v0[res] + VolumeFlux(v0[wn])) % P)
      /\ Becomes(v2, v1, res, (v1[res] + c(v1[wn])) % P)
      /\ Becomes(v3, v2, dtwn, (v2[res] * InverseMass - Half(v2[dtwn])) % P)
  BY <1>2, <1>3, <1>4, <1>5 DEF Leads
<1> HIDE DEF v, v0, v1, v2, v3
<1>10. v[wn] \in Int /\ v[res] \in Int
  BY <1>1, <1>8, MemoryValues
<1>11. a(v[wn]) \in Int /\ c(v[wn]) \in Int /\ VolumeFlux(v[wn]) \in Int
  BY <1>1, <1>10 DEF SubCellFlux, Source, VolumeFlux
<1>12. OwnFrom(v, e, ftnow) = VolumeFlux(v[wn]) - a(v[wn]) + c(v[wn])
  BY DEF OwnFrom
<1> HIDE DEF wn, res, dtwn, a, c
<1>13. v0[wn] = v[wn] /\ v1[wn] = v[wn] /\ v2[dtwn] = v[dtwn]
  BY <1>1, <1>9 DEF Becomes
<1>14. v2[res] = (v[res] + OwnFrom(v, e, ftnow)) % P
  <2> DEFINE y == v[res]  p == a(v[wn])  s == VolumeFlux(v[wn])  t == c(v[wn])
  <2>1. y \in Int /\ p \in Int /\ s \in Int /\ t \in Int
    BY <1>10, <1>11
  <2>2. v2[res] = (((((y - p) % P) + s) % P) + t) % P
    BY <1>1, <1>9, <1>13 DEF Becomes
  <2>3. OwnFrom(v, e, ftnow) = s - p + t
    BY <1>12
  <2> HIDE DEF y, p, s, t
  <2>4. (((y - p) % P) + s) % P = ((y - p) + s) % P /\ (y - p) + s \in Int
    <3>1. y - p \in Int
      BY <2>1
    <3> QED
      BY <2>1, <3>1, SumMod
  <2>5. ((((y - p) + s) % P) + t) % P = (((y - p) + s) + t) % P
    BY <2>1, <2>4, SumMod
  <2>6. ((y - p) + s) + t = y + (s - p + t)
    BY <2>1
  <2> QED
    BY <2>2, <2>3, <2>4, <2>5, <2>6 DEF y
<1>15. v3[dtwn] = (((v[res] + OwnFrom(v, e, ftnow)) % P) * InverseMass - Half(v[dtwn])) % P
  BY <1>1, <1>9, <1>13, <1>14 DEF Becomes
<1>16. ASSUME NEW u \in Elem
       PROVE  /\ v3[wn_handle(u)] = v[wn_handle(u)]
              /\ u # e => v3[res_handle(u)] = v[res_handle(u)] /\ v3[dtwn_handle(u)] = v[dtwn_handle(u)]
  <2>1. /\ wn_handle(u) \in Handle /\ res_handle(u) \in Handle /\ dtwn_handle(u) \in Handle
        /\ wn_handle(u) # res /\ wn_handle(u) # dtwn
        /\ res_handle(u) # dtwn /\ dtwn_handle(u) # res
        /\ u # e => res_handle(u) # res /\ dtwn_handle(u) # dtwn
    BY ElementHandles, ExplicitHandles, SameElement DEF res, dtwn
  <2> QED
    BY <1>9, <2>1 DEF Becomes
<1> QED
  BY <1>6, <1>7, <1>15, <1>16 DEF ElemDone, v, v3, wn, res, dtwn

-----------------------------------------------------------------------------
(* What the buffers would hold if the tasks were executed in the order the  *)
(* host submitted them, when the host is in loop c at turn i, at stage s    *)
(* and time n.                                                              *)

\* The mass task of e is in the queue, its AddBuffer not yet.
Pending(c, i, e) == (c = "elems" /\ e < i) \/ (c = "add" /\ i <= e)

\* The buffers that the next task that commutes must leave alone.
OpenAt(c, i) ==
  {dtwn_handle(e) : e \in {u \in Elem : Pending(c, i, u)}}
    \cup {wn_handle(e) : e \in {u \in Elem : ~ Pending(c, i, u)}}

\* The time derivative at time n, what dtwn holds of the stage before, and what
\* DGMass makes of the two.
Slope(n, e) == DtFields(RK2State[n], n)[e]
Left(s, n, e) == IF s = 1 THEN 0 ELSE Slope(n - 1, e)
Made(s, n, e) == (Slope(n, e) - Half(Left(s, n, e))) % P

HoldsWn(v, c, i, n) ==
  \A e \in Elem : v[wn_handle(e)] = RK2State[n + (IF c = "add" /\ e < i THEN 1 ELSE 0)][e]
HoldsDtwn(v, c, i, s, n) ==
  \A e \in Elem :
    /\ c = "zeroDtw" /\ e < i => v[dtwn_handle(e)] = 0
    /\ c \in {"zeroRes", "faces"} \/ (c = "elems" /\ i <= e) => v[dtwn_handle(e)] = Left(s, n, e)
    /\ c = "add" \/ (c = "elems" /\ e < i) => v[dtwn_handle(e)] = Made(s, n, e)
HoldsRes(v, c, i, n) ==
  \A e \in Elem :
    /\ c = "zeroRes" /\ e < i => v[res_handle(e)] = 0
    /\ c = "faces" => v[res_handle(e)] = FaceNet(e, i, RK2State[n], n) % P
    /\ c = "elems" /\ i <= e => v[res_handle(e)] = FaceNet(e, nbfaces, RK2State[n], n) % P
Holds(v, c, i, s, n) == HoldsWn(v, c, i, n) /\ HoldsDtwn(v, c, i, s, n) /\ HoldsRes(v, c, i, n)

\* The queue, the buffers at its end, and the times packed into the tasks.
Submits == Point(queue, OpenAt(pc, k))
HostValues == Holds(Result(queue), pc, k, stage, tnow)
TimePacked == pc \in {"faces", "elems"} => ftnow = tnow

\* The slopes are values, and a stage makes the next state.
LEMMA Stages ==
  ASSUME NEW n \in Nat, NEW e \in Elem
  PROVE  /\ RK2State[n] \in Fields /\ RK2State[n][e] \in Value /\ Slope(n, e) \in Value
         /\ Made(1, n, e) = Slope(n, e) /\ Left(1, n, e) = 0 /\ Left(2, n + 1, e) = Slope(n, e)
         /\ Left(2, n + 1, e) = Made(1, n, e)
         /\ n % 2 = 0 => (RK2State[n][e] + 1 * Made(1, n, e)) % P = RK2State[n + 1][e]
         /\ n % 2 = 0 => (RK2State[n + 1][e] + 2 * Made(2, n + 1, e)) % P = RK2State[n + 2][e]
<1> DEFINE w == RK2State[n][e]  d == Slope(n, e)  dd == Slope(n + 1, e)
<1>1. RK2State[n] \in Fields /\ w \in Value /\ RK2State[n + 1] \in Fields
  BY RK2States DEF Fields
<1>2. d \in Value
  BY <1>1, DtFieldsIs DEF Slope
<1>3. dd \in Value
  <2>1. n + 1 \in Int
    OBVIOUS
  <2> QED
    BY <1>1, <2>1, DtFieldsIs DEF Slope
<1>4. Left(1, n, e) = 0 /\ Left(2, n + 1, e) = d
  <2>1. (n + 1) - 1 = n
    OBVIOUS
  <2> QED
    BY <2>1 DEF Left
<1>5. Made(1, n, e) = d
  <2> HIDE DEF d
  <2>1. Half(0) = 0
    BY Halves
  <2>2. d % P = d
    BY <1>2, ValueMod
  <2>3. d - 0 = d
    BY <1>2, ValuesAreNumbers
  <2> QED
    BY <1>4, <2>1, <2>2, <2>3 DEF Made, d
<1>6. ASSUME n % 2 = 0
      PROVE  (w + 1 * d) % P = RK2State[n + 1][e]
  <2>1. RK2State[n + 1][e] = (w + d) % P
    BY <1>6, RK2States DEF Slope
  <2>2. 1 * d = d
    <3> HIDE DEF d
    <3> QED
      BY <1>2, ValuesAreNumbers
  <2> QED
    BY <2>1, <2>2
<1>7. ASSUME n % 2 = 0
      PROVE  (RK2State[n + 1][e] + 2 * Made(2, n + 1, e)) % P = RK2State[n + 2][e]
  <2>1. (n + 1) % 2 = 1 /\ n + 1 \in Nat /\ (n + 1) + 1 = n + 2 /\ (n + 1) - 1 = n
    BY <1>7
  <2>2. RK2State[(n + 1) + 1][e] = (RK2State[(n + 1) - 1][e] + 2 * dd) % P
    BY <2>1, RK2States DEF Slope
  <2>3. RK2State[n + 1][e] = (w + d) % P
    BY <1>7, RK2States DEF Slope
  <2>4. Made(2, n + 1, e) = (dd - Half(d)) % P
    BY <1>4 DEF Made
  <2>5. (((w + d) % P) + 2 * ((dd - Half(d)) % P)) % P = (w + 2 * dd) % P
    BY <1>1, <1>2, <1>3, FullStep
  <2> QED
    BY <2>1, <2>2, <2>3, <2>4, <2>5
<1> QED
  BY <1>1, <1>2, <1>4, <1>5, <1>6, <1>7

\* Handles of elements.
LEMMA ElementBuffers ==
  ASSUME NEW e \in Elem, NEW u \in Elem
  PROVE  /\ wn_handle(e) # dtwn_handle(u) /\ dtwn_handle(e) # wn_handle(u)
         /\ res_handle(e) # wn_handle(u) /\ res_handle(e) # dtwn_handle(u)
         /\ dtwn_handle(e) # res_handle(u) /\ wn_handle(e) # res_handle(u)
         /\ wn_handle(e) = wn_handle(u) => e = u
         /\ dtwn_handle(e) = dtwn_handle(u) => e = u
         /\ res_handle(e) = res_handle(u) => e = u
BY ExplicitHandles, SameElement

\* A turn that zeroes dtwn,
LEMMA ZeroDtwTurn ==
  ASSUME Inv, TimeInv, Submits, HostValues, ZeroDtw
  PROVE  Submits' /\ HostValues'
<1> DEFINE q == queue  r == queue'  v == Result(q)  v1 == Result(r)
<1>1. /\ pc = "zeroDtw" /\ tnow' = tnow /\ tnow \in Nat /\ stage = 1 /\ stage' = 1
      /\ k \in Elem /\ k \in 0..(nbelems - 1) /\ r = q \o ZeroBuffer_SPU(dtwn_handle(k))
  BY DEF ZeroDtw, Turn, Submit, Inv, HostTypeOK, TimeInv, Elem
<1>2. \/ pc' = "zeroDtw" /\ k' = k + 1
      \/ pc' = "zeroRes" /\ k' = 0 /\ k = nbelems - 1
  BY <1>1, Loops, AfterTurn DEF ZeroDtw
<1>3. Leads(q, r, OpenAt(pc, k), dtwn_handle(k), 0)
  BY <1>1, ZeroBufferNext DEF Submits
<1>4. OpenAt(pc', k') = OpenAt(pc, k)
  BY <1>1, <1>2 DEF OpenAt, Pending
<1>5. Submits'
  BY <1>3, <1>4 DEF Submits, Leads
<1>6. \A e \in Elem : /\ v1[wn_handle(e)] = v[wn_handle(e)]
                      /\ v1[dtwn_handle(e)] = IF e = k THEN 0 ELSE v[dtwn_handle(e)]
  BY <1>1, <1>3, ElementHandles, ElementBuffers DEF Leads, Becomes
<1>7. Holds(v, pc, k, stage, tnow)
  BY DEF HostValues
<1> HIDE DEF v, v1
<1>8. HoldsWn(v1, pc', k', tnow)
  BY <1>1, <1>2, <1>6, <1>7 DEF Holds, HoldsWn
<1>9. HoldsDtwn(v1, pc', k', 1, tnow)
  <2>1. ASSUME NEW e \in Elem
        PROVE  /\ pc' = "zeroDtw" /\ e < k' => v1[dtwn_handle(e)] = 0
               /\ pc' = "zeroRes" => v1[dtwn_handle(e)] = 0
    <3>1. e \in 0..(nbelems - 1) /\ nbelems \in Nat
      BY Loops
    <3>2. e < k => v[dtwn_handle(e)] = 0
      BY <1>1, <1>7 DEF Holds, HoldsDtwn
    <3>3. (pc' = "zeroDtw" /\ e < k') \/ pc' = "zeroRes" => e = k \/ e < k
      BY <1>1, <1>2, <3>1
    <3> QED
      BY <1>6, <3>2, <3>3
  <2>2. \A e \in Elem : Left(1, tnow, e) = 0
    BY DEF Left
  <2> QED
    BY <1>2, <2>1, <2>2 DEF HoldsDtwn
<1>10. HoldsRes(v1, pc', k', tnow)
  BY <1>2, Loops DEF HoldsRes
<1>11. HostValues'
  BY <1>1, <1>8, <1>9, <1>10 DEF HostValues, Holds, v1
<1> QED
  BY <1>5, <1>11

\* a turn that zeroes res,
LEMMA ZeroResTurn ==
  ASSUME Inv, Submits, HostValues, ZeroRes
  PROVE  Submits' /\ HostValues' /\ TimePacked'
<1> DEFINE q == queue  r == queue'  v == Result(q)  v1 == Result(r)
<1>1. /\ pc = "zeroRes" /\ tnow' = tnow /\ tnow \in Nat /\ stage' = stage
      /\ k \in Elem /\ k \in 0..(nbelems - 1) /\ r = q \o ZeroBuffer_SPU(res_handle(k))
  BY DEF ZeroRes, Turn, Submit, Inv, HostTypeOK, Elem
<1>2. \/ pc' = "zeroRes" /\ k' = k + 1
      \/ pc' = "faces" /\ k' = 0 /\ k = nbelems - 1
  BY <1>1, Loops, AfterTurn DEF ZeroRes
<1>3. Leads(q, r, OpenAt(pc, k), res_handle(k), 0)
  BY <1>1, ZeroBufferNext DEF Submits
<1>4. OpenAt(pc', k') = OpenAt(pc, k)
  BY <1>1, <1>2 DEF OpenAt, Pending
<1>5. Submits'
  BY <1>3, <1>4 DEF Submits, Leads
<1>6. \A e \in Elem : /\ v1[wn_handle(e)] = v[wn_handle(e)] /\ v1[dtwn_handle(e)] = v[dtwn_handle(e)]
                      /\ v1[res_handle(e)] = IF e = k THEN 0 ELSE v[res_handle(e)]
  BY <1>1, <1>3, ElementHandles, ElementBuffers DEF Leads, Becomes
<1>7. Holds(v, pc, k, stage, tnow)
  BY DEF HostValues
<1> HIDE DEF v, v1
<1>8. HoldsWn(v1, pc', k', tnow) /\ HoldsDtwn(v1, pc', k', stage, tnow)
  BY <1>1, <1>2, <1>6, <1>7 DEF Holds, HoldsWn, HoldsDtwn
<1>9. ASSUME NEW e \in Elem
      PROVE  /\ pc' = "zeroRes" /\ e < k' => v1[res_handle(e)] = 0
             /\ pc' = "faces" => v1[res_handle(e)] = FaceNet(e, k', RK2State[tnow], tnow) % P
  <2>1. e \in 0..(nbelems - 1) /\ nbelems \in Nat
    BY Loops
  <2>2. e < k => v[res_handle(e)] = 0
    BY <1>1, <1>7 DEF Holds, HoldsRes
  <2>3. (pc' = "zeroRes" /\ e < k') \/ pc' = "faces" => e = k \/ e < k
    BY <1>1, <1>2, <2>1
  <2>4. FaceNet(e, 0, RK2State[tnow], tnow) = 0 /\ 0 % P = 0
    BY <1>1, RK2States, FaceNets, ValueMod, ValuesAreNumbers
  <2> QED
    BY <1>2, <1>6, <2>2, <2>3, <2>4
<1>10. HoldsRes(v1, pc', k', tnow)
  BY <1>2, <1>9 DEF HoldsRes
<1>11. HostValues'
  BY <1>1, <1>8, <1>10 DEF HostValues, Holds, v1
<1>12. TimePacked'
  BY <1>1, <1>2 DEF TimePacked, ZeroRes
<1> QED
  BY <1>5, <1>11, <1>12

-----------------------------------------------------------------------------
\* a turn on a face,
LEMMA FaceTurn ==
  ASSUME NEW q, NEW S, Point(q, S), NEW f \in Face, ftnow \in Nat,
         NEW r, r = q \o FaceTasks(f), NEW e \in Elem
  PROVE  FaceDone(q, r, S, f, FluxFrom(Result(q), f, ftnow), e)
<1>1. PICK x : x = FluxFrom(Result(q), f, ftnow)
  OBVIOUS
<1>2. FaceDone(q, r, S, f, x, e)
  <2>1. CASE fR[f] # Null
    BY <1>1, <2>1, InnerFaceTurn
  <2>2. CASE fR[f] = Null
    BY <1>1, <2>2, OuterFaceTurn
  <2> QED
    BY <2>1, <2>2
<1> QED
  BY <1>1, <1>2

\* What a face brings is the next term of the sum.
LEMMA FaceBringsTerm ==
  ASSUME NEW w \in Fields, NEW t \in Int, NEW e \in Elem, NEW f \in Face
  PROVE  FaceBrings(e, f, FaceFlux(f, w, t), FaceNet(e, f, w, t) % P) = FaceNet(e, f + 1, w, t) % P
<1> DEFINE x == FaceFlux(f, w, t)  y == FaceNet(e, f, w, t)
           a == IF fL[f] = e THEN x ELSE 0  b == IF fR[f] = e THEN x ELSE 0
<1>1. x \in Int
  BY FluxIsNumber
<1>2. FaceNet(e, f + 1, w, t) = y - a + b
  BY FaceNets
<1>3. f \in 0..nbfaces
  BY Loops
<1>4. y \in Int
  BY <1>3, FaceNets
<1>5. FaceBrings(e, f, x, y % P) = ((y % P) - a + b) % P
  BY DEF FaceBrings
<1> HIDE DEF x, y
<1>6. a \in Int /\ b \in Int
  BY <1>1
<1> HIDE DEF a, b
<1>7. y % P \in Int
  BY <1>4, Residue, ValuesAreNumbers
<1>8. (y % P) - a + b = (y % P) + (b - a) /\ y - a + b = y + (b - a) /\ b - a \in Int
  BY <1>4, <1>6, <1>7
<1>9. ((y % P) + (b - a)) % P = (y + (b - a)) % P
  BY <1>4, <1>8, SumMod
<1> QED
  BY <1>2, <1>5, <1>8, <1>9 DEF x, y

\* The flux of a face from buffers that hold a state of the serial scheme.
LEMMA FluxFromState ==
  ASSUME NEW v, NEW w, NEW t, NEW f \in Face, \A e \in Elem : v[wn_handle(e)] = w[e]
  PROVE  FluxFrom(v, f, t) = FaceFlux(f, w, t)
<1>1. fL[f] \in Elem /\ (fR[f] # Null => fR[f] \in Elem)
  BY Sides
<1> QED
  BY <1>1 DEF FluxFrom, FaceFlux

\* so that the faces gone through make up the sum.
LEMMA FacesTurn ==
  ASSUME Inv, Submits, HostValues, TimePacked, Faces
  PROVE  Submits' /\ HostValues' /\ TimePacked'
<1> DEFINE q == queue  r == queue'  v == Result(q)  v1 == Result(r)  w == RK2State[tnow]
<1>1. /\ pc = "faces" /\ tnow' = tnow /\ tnow \in Nat /\ stage' = stage /\ ftnow' = ftnow
      /\ ftnow = tnow /\ ftnow \in Nat
      /\ k \in Face /\ k \in 0..(nbfaces - 1) /\ r = q \o FaceTasks(k)
  BY DEF Faces, Turn, Submit, Inv, HostTypeOK, TimePacked, Face
<1>2. \/ pc' = "faces" /\ k' = k + 1
      \/ pc' = "elems" /\ k' = 0 /\ k = nbfaces - 1
  BY <1>1, Loops, AfterTurn DEF Faces
<1>3. pc' = "elems" => k + 1 = nbfaces
  BY <1>1, <1>2, Loops
<1>4. Point(q, OpenAt(pc, k))
  BY DEF Submits
<1>5. OpenAt(pc', k') = OpenAt(pc, k)
  <2>1. \A e \in Elem : ~ Pending(pc, k, e) /\ ~ Pending(pc', k', e)
    BY <1>1, <1>2, Loops DEF Pending
  <2> QED
    BY <2>1 DEF OpenAt
<1>6. Holds(v, pc, k, stage, tnow)
  BY DEF HostValues
<1>7. \A e \in Elem : v[wn_handle(e)] = w[e]
  BY <1>1, <1>6 DEF Holds, HoldsWn
<1>8. FluxFrom(v, k, ftnow) = FaceFlux(k, w, tnow)
  BY <1>1, <1>7, FluxFromState
<1>9. w \in Fields
  BY <1>1, RK2States
<1> HIDE DEF w
<1>10. ASSUME NEW e \in Elem
      PROVE  /\ v1[wn_handle(e)] = v[wn_handle(e)] /\ v1[dtwn_handle(e)] = v[dtwn_handle(e)]
             /\ v1[res_handle(e)] = FaceNet(e, k + 1, w, tnow) % P
             /\ Point(r, OpenAt(pc, k))
  <2>1. /\ v1[wn_handle(e)] = v[wn_handle(e)] /\ v1[dtwn_handle(e)] = v[dtwn_handle(e)]
        /\ v1[res_handle(e)] = FaceBrings(e, k, FaceFlux(k, w, tnow), v[res_handle(e)])
        /\ Point(r, OpenAt(pc, k))
    <3>1. FaceDone(q, r, OpenAt(pc, k), k, FluxFrom(v, k, ftnow), e)
      <4> HIDE DEF q, r
      <4> QED
        BY <1>1, <1>4, FaceTurn DEF v
    <3> QED
      BY <1>8, <3>1 DEF FaceDone
  <2>2. v[res_handle(e)] = FaceNet(e, k, w, tnow) % P
    BY <1>1, <1>6 DEF Holds, HoldsRes, w
  <2>3. FaceBrings(e, k, FaceFlux(k, w, tnow), FaceNet(e, k, w, tnow) % P)
          = FaceNet(e, k + 1, w, tnow) % P
    BY <1>1, <1>9, FaceBringsTerm
  <2> QED
    BY <2>1, <2>2, <2>3
<1> HIDE DEF v, v1
<1>11. Submits'
  <2>1. 0 \in Elem
    BY Loops
  <2> QED
    BY <1>5, <1>10, <2>1 DEF Submits
<1>12. HoldsWn(v1, pc', k', tnow)
  BY <1>1, <1>2, <1>6, <1>10 DEF Holds, HoldsWn
<1>13. HoldsDtwn(v1, pc', k', stage, tnow)
  <2>1. \A e \in Elem : v[dtwn_handle(e)] = Left(stage, tnow, e)
    BY <1>1, <1>6 DEF Holds, HoldsDtwn
  <2>2. \A e \in Elem : pc' = "elems" => ~ (e < k')
    BY <1>1, <1>2, Loops
  <2> QED
    BY <1>2, <1>10, <2>1, <2>2 DEF HoldsDtwn
<1>14. HoldsRes(v1, pc', k', tnow)
  BY <1>2, <1>3, <1>10 DEF HoldsRes, w
<1>15. HostValues'
  BY <1>1, <1>12, <1>13, <1>14 DEF HostValues, Holds, v1
<1>16. TimePacked'
  BY <1>1 DEF TimePacked
<1> QED
  BY <1>11, <1>15, <1>16

\* a turn on an element,
LEMMA ElemsTurn ==
  ASSUME Inv, TimeInv, Submits, HostValues, TimePacked, Elems
  PROVE  Submits' /\ HostValues' /\ TimePacked'
<1> DEFINE q == queue  r == queue'  v == Result(q)  v1 == Result(r)  w == RK2State[tnow]
           S == OpenAt(pc, k)
<1>1. /\ pc = "elems" /\ tnow' = tnow /\ tnow \in Nat /\ stage' = stage /\ ftnow' = ftnow
      /\ ftnow = tnow /\ ftnow \in Nat
      /\ k \in Elem /\ k \in 0..(nbelems - 1) /\ r = q \o ElemTasks(k)
  BY DEF Elems, Turn, Submit, Inv, HostTypeOK, TimePacked, Elem
<1>2. \/ pc' = "elems" /\ k' = k + 1
      \/ pc' = "add" /\ k' = 0 /\ k = nbelems - 1
  BY <1>1, Loops, AfterTurn DEF Elems
<1>3. Point(q, S)
  BY DEF Submits
<1>4. res_handle(k) \notin S /\ dtwn_handle(k) \notin S
  <2>1. ~ Pending(pc, k, k)
    BY <1>1 DEF Pending
  <2> QED
    BY <1>1, <2>1, ElementBuffers DEF OpenAt
<1>5. ASSUME NEW e \in Elem
      PROVE  Pending(pc', k', e) <=> (Pending(pc, k, e) \/ e = k)
  <2>1. e \in 0..(nbelems - 1) /\ nbelems \in Nat
    BY Loops
  <2> QED
    BY <1>1, <1>2, <2>1 DEF Pending
<1>6. (S \ {wn_handle(k)}) \cup {dtwn_handle(k)} \subseteq OpenAt(pc', k')
  BY <1>1, <1>5, ElementBuffers DEF OpenAt
<1> DEFINE y == FaceNet(k, nbfaces, w, tnow)  own == OwnTerms(k, w, tnow)  z == Left(stage, tnow, k)
<1>7. Holds(v, pc, k, stage, tnow)
  BY DEF HostValues
<1>8. /\ \A e \in Elem : v[wn_handle(e)] = w[e]
      /\ v[res_handle(k)] = y % P /\ v[dtwn_handle(k)] = z
  BY <1>1, <1>7 DEF Holds, HoldsWn, HoldsRes, HoldsDtwn
<1>9. OwnFrom(v, k, ftnow) = own
  BY <1>1, <1>8 DEF OwnFrom, OwnTerms
<1>10. w \in Fields /\ tnow \in Int /\ nbfaces \in 0..nbfaces
  BY <1>1, RK2States, Loops
<1>11. y \in Int /\ own \in Int /\ Slope(tnow, k) = ((y + own) * InverseMass) % P
  BY <1>1, <1>10, FaceNets, DtFieldsIs DEF Slope
<1>12. z \in Value
  <2>1. v \in Memory /\ dtwn_handle(k) \in Handle
    BY <1>1, <1>3, ResultIsMemory, ElementHandles DEF Point
  <2> QED
    BY <1>8, <2>1, MemoryValues
<1>13. /\ Point(r, (S \ {wn_handle(k)}) \cup {dtwn_handle(k)})
       /\ \A u \in Elem :
            /\ v1[wn_handle(u)] = v[wn_handle(u)]
            /\ u # k => v1[res_handle(u)] = v[res_handle(u)]
            /\ v1[dtwn_handle(u)] =
                 IF u = k
                 THEN (((v[res_handle(k)] + OwnFrom(v, k, ftnow)) % P) * InverseMass
                         - Half(v[dtwn_handle(k)])) % P
                 ELSE v[dtwn_handle(u)]
  <2> HIDE DEF S, r, q
  <2>1. ElemDone(q, r, S, k, ftnow)
    BY <1>1, <1>3, <1>4, ElemTurn
  <2> QED
    BY <2>1 DEF ElemDone
<1>14. Submits'
  <2>1. Point(r, OpenAt(pc', k'))
    BY <1>6, <1>13, PointWider
  <2> QED
    BY <2>1 DEF Submits
<1> HIDE DEF v, v1, w, y, own, z
<1>15. v1[dtwn_handle(k)] = Made(stage, tnow, k)
  <2>1. v1[dtwn_handle(k)] = ((((y % P) + own) % P) * InverseMass - Half(z)) % P
    BY <1>1, <1>8, <1>9, <1>13
  <2>2. ((y % P) + own) % P = (y + own) % P
    BY <1>11, SumMod
  <2>3. y + own \in Int
    BY <1>11
  <2>4. (((y + own) % P) * InverseMass - Half(z)) % P = ((((y + own) * InverseMass) % P) - Half(z)) % P
    BY <1>12, <2>3, MassValue
  <2> QED
    BY <1>11, <2>1, <2>2, <2>4 DEF Made, z
<1>16. HoldsWn(v1, pc', k', tnow)
  <2>1. \A e \in Elem : tnow + (IF pc' = "add" /\ e < k' THEN 1 ELSE 0) = tnow
    BY <1>1, <1>2, Loops
  <2> QED
    BY <1>8, <1>13, <2>1 DEF HoldsWn, w
<1>17. ASSUME NEW e \in Elem
       PROVE  /\ pc' = "elems" /\ k' <= e => v1[dtwn_handle(e)] = Left(stage, tnow, e)
              /\ pc' = "add" \/ (pc' = "elems" /\ e < k') => v1[dtwn_handle(e)] = Made(stage, tnow, e)
              /\ pc' = "elems" /\ k' <= e => v1[res_handle(e)] = FaceNet(e, nbfaces, w, tnow) % P
  <2>1. e \in 0..(nbelems - 1) /\ nbelems \in Nat
    BY Loops
  <2>2. /\ pc' = "elems" /\ k' <= e => k <= e /\ e # k
        /\ pc' = "add" \/ (pc' = "elems" /\ e < k') => e = k \/ (e < k /\ e # k)
    BY <1>1, <1>2, <2>1
  <2>3. /\ k <= e => v[dtwn_handle(e)] = Left(stage, tnow, e)
        /\ e < k => v[dtwn_handle(e)] = Made(stage, tnow, e)
        /\ k <= e => v[res_handle(e)] = FaceNet(e, nbfaces, w, tnow) % P
    BY <1>1, <1>7 DEF Holds, HoldsDtwn, HoldsRes, w
  <2>4. e # k => v1[dtwn_handle(e)] = v[dtwn_handle(e)] /\ v1[res_handle(e)] = v[res_handle(e)]
    BY <1>13
  <2> QED
    BY <1>15, <2>2, <2>3, <2>4
<1>18. HoldsDtwn(v1, pc', k', stage, tnow) /\ HoldsRes(v1, pc', k', tnow)
  BY <1>2, <1>17 DEF HoldsDtwn, HoldsRes, w
<1>19. HostValues'
  BY <1>1, <1>16, <1>18 DEF HostValues, Holds, v1
<1>20. TimePacked'
  BY <1>1 DEF TimePacked
<1> QED
  BY <1>14, <1>19, <1>20

-----------------------------------------------------------------------------
\* and a turn that adds the time derivative to the state of an element.
LEMMA AddTurn ==
  ASSUME Inv, TimeInv, Submits, HostValues, AddBuffers
  PROVE  Submits' /\ HostValues'
<1> DEFINE q == queue  r == queue'  v == Result(q)  v1 == Result(r)  S == OpenAt(pc, k)
<1>1. /\ pc = "add" /\ tnow \in Nat /\ stage \in {1, 2} /\ iter \in Nat
      /\ k \in Elem /\ k \in 0..(nbelems - 1)
      /\ r = q \o AddBuffer_SPU(Weight, dtwn_handle(k), wn_handle(k))
  BY DEF AddBuffers, Turn, Submit, Inv, HostTypeOK, Elem
<1>2. \/ pc' = "add" /\ k' = k + 1
      \/ pc' = (IF stage = 1 THEN "zeroRes" ELSE "while") /\ k' = 0 /\ k = nbelems - 1
  BY <1>1, Loops, AfterTurn DEF AddBuffers
<1>3. /\ pc' = "add" => tnow' = tnow /\ stage' = stage
      /\ pc' # "add" => tnow' = tnow + 1 /\ stage' = 3 - stage
  BY DEF AddBuffers
<1>4. Point(q, S)
  BY DEF Submits
<1>5. ASSUME NEW e \in Elem
      PROVE  Pending(pc', k', e) <=> (Pending(pc, k, e) /\ e # k)
  <2>1. e \in 0..(nbelems - 1) /\ nbelems \in Nat
    BY Loops
  <2> QED
    BY <1>1, <1>2, <2>1 DEF Pending
<1>6. Pending(pc, k, k)
  BY <1>1 DEF Pending
<1>7. wn_handle(k) \notin S
  BY <1>1, <1>6, ElementBuffers DEF OpenAt
<1>8. (S \ {dtwn_handle(k)}) \cup {wn_handle(k)} \subseteq OpenAt(pc', k')
  BY <1>1, <1>5, ElementBuffers DEF OpenAt
<1> DEFINE x == (v[wn_handle(k)] + Weight * v[dtwn_handle(k)]) % P
<1>9. Leads(q, r, (S \ {dtwn_handle(k)}) \cup {wn_handle(k)}, wn_handle(k), x)
  <2>1. Weight \in Int
    BY <1>1 DEF Weight
  <2> HIDE DEF S
  <2> QED
    BY <1>1, <1>4, <1>7, <2>1, AddBufferNext
<1>10. Submits'
  <2>1. Point(r, OpenAt(pc', k'))
    BY <1>8, <1>9, PointWider DEF Leads
  <2> QED
    BY <2>1 DEF Submits
<1>11. Holds(v, pc, k, stage, tnow)
  BY DEF HostValues
<1>12. /\ v[wn_handle(k)] = RK2State[tnow][k] /\ v[dtwn_handle(k)] = Made(stage, tnow, k)
       /\ \A e \in Elem : v[dtwn_handle(e)] = Made(stage, tnow, e)
  <2>1. tnow + 0 = tnow /\ ~ (k < k)
    BY <1>1
  <2> QED
    BY <1>1, <1>11, <2>1 DEF Holds, HoldsWn, HoldsDtwn
<1>13. x = RK2State[tnow + 1][k]
  <2>1. CASE stage = 1
    <3>1. tnow % 2 = 0
      BY <1>1, <2>1 DEF TimeInv
    <3>2. (RK2State[tnow][k] + 1 * Made(1, tnow, k)) % P = RK2State[tnow + 1][k]
      BY <1>1, <3>1, Stages
    <3> QED
      BY <1>12, <2>1, <3>2 DEF Weight
  <2>2. CASE stage = 2
    <3>1. PICK n \in Nat : tnow = n + 1 /\ n % 2 = 0
      <4>1. tnow = 2 * iter + 1 /\ 2 * iter \in Nat /\ (2 * iter) % 2 = 0
        BY <1>1, <2>2 DEF TimeInv
      <4> QED
        BY <4>1
    <3>2. (RK2State[n + 1][k] + 2 * Made(2, n + 1, k)) % P = RK2State[n + 2][k]
      BY <1>1, <3>1, Stages
    <3>3. n + 2 = tnow + 1
      BY <3>1
    <3> QED
      BY <1>12, <2>2, <3>1, <3>2, <3>3 DEF Weight
  <2> QED
    BY <1>1, <2>1, <2>2
<1> HIDE DEF x
<1>14. \A e \in Elem : /\ v1[wn_handle(e)] = IF e = k THEN RK2State[tnow + 1][e] ELSE v[wn_handle(e)]
                       /\ v1[dtwn_handle(e)] = v[dtwn_handle(e)]
  BY <1>1, <1>9, <1>13, ElementHandles, ElementBuffers DEF Leads, Becomes
<1> HIDE DEF v, v1
<1>15. HoldsWn(v1, pc', k', tnow')
  <2>1. ASSUME NEW e \in Elem
        PROVE  v1[wn_handle(e)] = RK2State[tnow' + (IF pc' = "add" /\ e < k' THEN 1 ELSE 0)][e]
    <3>1. e \in 0..(nbelems - 1) /\ nbelems \in Nat
      BY Loops
    <3>2. v[wn_handle(e)] = RK2State[tnow + (IF e < k THEN 1 ELSE 0)][e]
      BY <1>1, <1>11 DEF Holds, HoldsWn
    <3>3. v1[wn_handle(e)] = RK2State[tnow + (IF e < k \/ e = k THEN 1 ELSE 0)][e]
      BY <1>14, <3>2
    <3>4. tnow + (IF e < k \/ e = k THEN 1 ELSE 0) = tnow' + (IF pc' = "add" /\ e < k' THEN 1 ELSE 0)
      BY <1>1, <1>2, <1>3, <3>1
    <3> QED
      BY <3>3, <3>4
  <2> QED
    BY <2>1 DEF HoldsWn
<1>16. HoldsDtwn(v1, pc', k', stage', tnow')
  <2>1. CASE pc' = "add"
    BY <1>3, <1>12, <1>14, <2>1 DEF HoldsDtwn
  <2>2. CASE stage = 1 /\ pc' = "zeroRes"
    <3>1. tnow' = tnow + 1 /\ stage' = 2
      BY <1>3, <2>2
    <3>2. \A e \in Elem : Left(2, tnow + 1, e) = Made(1, tnow, e)
      BY <1>1, Stages
    <3> QED
      BY <1>12, <1>14, <2>2, <3>1, <3>2 DEF HoldsDtwn
  <2>3. CASE pc' = "while"
    BY <2>3 DEF HoldsDtwn
  <2> QED
    BY <1>2, <2>1, <2>2, <2>3
<1>17. HoldsRes(v1, pc', k', tnow')
  <2>1. \A e \in Elem : ~ (e < 0)
    BY Loops
  <2> QED
    BY <1>2, <2>1 DEF HoldsRes
<1>18. HostValues'
  BY <1>15, <1>16, <1>17 DEF HostValues, Holds, v1
<1> QED
  BY <1>10, <1>18

\* Other steps leave the queue alone.
LEMMA NoTurn ==
  ASSUME Inv, TimeInv, Submits, HostValues, TimePacked, WhileLoop \/ FinalWait \/ Workers \/ UNCHANGED vars
  PROVE  Submits' /\ HostValues' /\ TimePacked'
<1>1. queue' = queue /\ stage' = stage /\ tnow' = tnow /\ ftnow' = ftnow
  BY DEF WhileLoop, While, FinalWait, WaitForAll, Workers, StartKernel, Start, FinishKernel, Finish,
    vars, hostVars, rtVars
<1>2. CASE pc' = pc /\ k' = k
  BY <1>1, <1>2 DEF Submits, HostValues, TimePacked
<1>3. CASE /\ pc = "while" /\ pc' \in {"zeroDtw", "wait"} /\ k' = k /\ k = 0
  <2>1. OpenAt(pc', k') = OpenAt(pc, k)
    BY <1>3 DEF OpenAt, Pending
  <2>2. Submits'
    BY <1>1, <2>1 DEF Submits
  <2>3. Holds(Result(queue), pc, k, stage, tnow)
    BY DEF HostValues
  <2>4. \A e \in Elem : ~ (e < 0)
    BY Loops
  <2>5. Holds(Result(queue), pc', k', stage, tnow)
    BY <1>3, <2>3, <2>4 DEF Holds, HoldsWn, HoldsDtwn, HoldsRes
  <2> QED
    BY <1>1, <1>3, <2>2, <2>5 DEF HostValues, TimePacked
<1>4. CASE pc = "wait" /\ pc' = "return" /\ k' = k
  <2>1. OpenAt(pc', k') = OpenAt(pc, k)
    BY <1>4 DEF OpenAt, Pending
  <2>2. Submits'
    BY <1>1, <2>1 DEF Submits
  <2>3. Holds(Result(queue), pc, k, stage, tnow)
    BY DEF HostValues
  <2>4. Holds(Result(queue), pc', k', stage, tnow)
    BY <1>4, <2>3 DEF Holds, HoldsWn, HoldsDtwn, HoldsRes
  <2> QED
    BY <1>1, <1>4, <2>2, <2>4 DEF HostValues, TimePacked
<1> QED
  BY <1>2, <1>3, <1>4 DEF WhileLoop, While, FinalWait, WaitForAll, Workers, StartKernel, FinishKernel,
    vars, hostVars, Inv, HostTypeOK

-----------------------------------------------------------------------------
(* The states that the ends of stages leave behind.                          *)

\* The n-th task of q that ends a stage of e leaves it with the n-th state.
LevelsOf(q, e) ==
  \A a \in Ends(q, e) :
    Run(q)[a][wn_handle(e)] = RK2State[Cardinality(EndsBefore(q, e, a + 1))][e]
Levels == \A e \in Elem : LevelsOf(queue, e)

\* Longer queues keep it, whether they have the same ends of stages or one more.
LEMMA LevelsKept ==
  ASSUME NEW q \in Seq(RK2Task), NEW r \in Seq(RK2Task), Prefix(q, r), NEW e \in Elem, LevelsOf(q, e),
         \/ Cardinality(Ends(r, e)) = Cardinality(Ends(q, e))
         \/ /\ Len(r) = Len(q) + 1
            /\ Result(r)[wn_handle(e)] = RK2State[Cardinality(Ends(r, e))][e]
  PROVE  LevelsOf(r, e)
<1> DEFINE n == Len(q)  m == Len(r)
<1>1. /\ q \in Seq(Task) /\ r \in Seq(Task)
      /\ n \in Nat /\ m \in Nat /\ DOMAIN q = 1..n /\ DOMAIN r = 1..m
  BY RK2Tasks, LenProperties
<1>2. n <= m /\ \A i \in 1..n : r[i] = q[i]
  BY DEF Prefix
<1> HIDE DEF n, m
<1>3. \A i \in DOMAIN q : i \in DOMAIN r /\ r[i] = q[i]
  BY <1>1, <1>2
<1>4. ASSUME NEW a \in Ends(r, e), a \in DOMAIN q
      PROVE  Run(r)[a][wn_handle(e)] = RK2State[Cardinality(EndsBefore(r, e, a + 1))][e]
  <2>1. a \in Ends(q, e)
    BY <1>3, <1>4 DEF Ends
  <2>2. a \in 0..n /\ a + 1 \in 1..(n + 1)
    BY <1>1, <1>4
  <2>3. Run(r)[a] = Run(q)[a]
    BY <2>2, RunKept DEF n
  <2>4. EndsBefore(r, e, a + 1) = EndsBefore(q, e, a + 1)
    BY <1>1, <2>2, EndsBeforeKept DEF n
  <2> QED
    BY <2>1, <2>3, <2>4 DEF LevelsOf
<1>5. ASSUME NEW a \in Ends(r, e), a \notin DOMAIN q
      PROVE  Run(r)[a][wn_handle(e)] = RK2State[Cardinality(EndsBefore(r, e, a + 1))][e]
  <2>1. CASE Cardinality(Ends(r, e)) = Cardinality(Ends(q, e))
    <3>1. Ends(q, e) \in SUBSET Ends(r, e)
      BY <1>3 DEF Ends
    <3>2. IsFiniteSet(Ends(r, e))
      BY <1>1, EndsFinite
    <3>3. Ends(q, e) = Ends(r, e)
      BY <2>1, <3>1, <3>2, FS_Subset
    <3> QED
      BY <1>5, <3>3 DEF Ends
  <2>2. CASE /\ Len(r) = Len(q) + 1
             /\ Result(r)[wn_handle(e)] = RK2State[Cardinality(Ends(r, e))][e]
    <3>1. a \in DOMAIN r
      BY DEF Ends
    <3>2. a = m
      <4>1. m = n + 1
        BY <2>2 DEF n, m
      <4> QED
        BY <1>1, <1>5, <3>1, <4>1
    <3>3. EndsBefore(r, e, a + 1) = Ends(r, e)
      <4>1. \A j \in 1..m : j < a + 1
        BY <1>1, <3>2
      <4> QED
        BY <1>1, <4>1 DEF EndsBefore, Ends
    <3> QED
      BY <2>2, <3>2, <3>3 DEF Result, m
  <2> QED
    BY <2>1, <2>2
<1> QED
  BY <1>4, <1>5 DEF LevelsOf

\* No step takes a task out of the queue.
LEMMA QueueGrows ==
  ASSUME Inv, [Next]_vars
  PROVE  Prefix(queue, queue') /\ queue' \in Seq(Task)
<1>1. RTInv /\ RTInv' /\ [RTNext]_rtVars
  BY StepsAreRTSteps, RTStep DEF Inv
<1>2. queue \in Seq(Task) /\ queue' \in Seq(Task)
  BY <1>1 DEF RTInv, RTTypeOK
<1>3. /\ DOMAIN queue \subseteq DOMAIN queue' /\ \A i \in DOMAIN queue : queue'[i] = queue[i]
  BY <1>1 DEF RTNext, SubmitSome, Start, Finish, rtVars
<1>4. Len(queue) <= Len(queue')
  <2>1. /\ DOMAIN queue = 1..Len(queue) /\ DOMAIN queue' = 1..Len(queue')
        /\ Len(queue) \in Nat /\ Len(queue') \in Nat
    BY <1>2, LenProperties
  <2> QED
    BY <1>3, <2>1
<1> QED
  BY <1>2, <1>3, <1>4, LenProperties DEF Prefix

\* Each step of the scheme keeps it.
LEMMA LevelsStep ==
  ASSUME Inv, OrderInv, OrderInv', HostValues', Levels, [Next]_vars
  PROVE  Levels'
<1>1. queue \in Seq(RK2Task) /\ queue' \in Seq(RK2Task) /\ Prefix(queue, queue')
  BY QueueGrows DEF OrderInv
<1>2. ASSUME NEW e \in Elem
      PROVE  /\ Cardinality(Ends(queue, e)) = tnow + (IF pc = "add" /\ e < k THEN 1 ELSE 0)
             /\ Cardinality(Ends(queue', e)) = tnow' + (IF pc' = "add" /\ e < k' THEN 1 ELSE 0)
  BY DEF OrderInv, EndsCounted
<1>3. ASSUME NEW e \in Elem
      PROVE  LevelsOf(queue', e)
  <2>1. LevelsOf(queue, e)
    BY DEF Levels
  <2>2. CASE AddBuffers
    <3>1. Result(queue')[wn_handle(e)] = RK2State[Cardinality(Ends(queue', e))][e]
      BY <1>2 DEF HostValues, Holds, HoldsWn
    <3>2. Len(queue') = Len(queue) + 1
      <4>1. queue' = queue \o << [cl |-> "AddBuffer", buf |-> << dtwn_handle(k), wn_handle(k) >>, arg |-> Weight] >>
        BY <2>2 DEF AddBuffers, Turn, Submit, AddBuffer_SPU
      <4> QED
        BY <1>1, <4>1
    <3> QED
      BY <1>1, <2>1, <3>1, <3>2, LevelsKept
  <2>3. CASE ~ AddBuffers
    <3>1. tnow' = tnow /\ (pc = "add" => pc' = "add" /\ k' = k)
                       /\ (pc' = "add" => k' = 0 \/ (pc = "add" /\ k' = k))
      BY <2>3 DEF Next, Host, WhileLoop, ZeroDtw, ZeroRes, Faces, Elems, FinalWait, While, Turn,
        WaitForAll, Workers, StartKernel, FinishKernel, Returned, vars, hostVars
    <3>2. (pc' = "add" /\ e < k') <=> (pc = "add" /\ e < k)
      BY <3>1, Loops
    <3>3. Cardinality(Ends(queue', e)) = Cardinality(Ends(queue, e))
      BY <1>2, <3>1, <3>2
    <3> QED
      BY <1>1, <2>1, <3>3, LevelsKept
  <2> QED
    BY <2>2, <2>3
<1> QED
  BY <1>3 DEF Levels

-----------------------------------------------------------------------------
(* The fields are on the schedule of the serial scheme.                      *)

\* The invariant: what the queue would leave in the buffers if it were executed in
\* order (Submits, HostValues, TimePacked, Levels), and that the workers, whatever
\* their order, have what it leaves (Follows).
ValuesInv == Submits /\ HostValues /\ TimePacked /\ Levels /\ Follows

\* Before the first task.
LEMMA ValuesInit == Init => ValuesInv
<1> SUFFICES ASSUME Init PROVE ValuesInv
  OBVIOUS
<1>1. queue = << >> /\ done = {} /\ Running = {} /\ mem = Initially
      /\ pc = "while" /\ k = 0 /\ stage = 1 /\ tnow = 0
  BY DEF Init, RTInit, Running, Initially
<1>2. queue \in Seq(RK2Task) /\ Len(queue) = 0 /\ DOMAIN queue = {}
  BY <1>1
<1>3. Submits
  BY <1>2 DEF Submits, Point, AllApart, ApartOn, Open
<1>4. Run(queue)[0] = Initially /\ Result(queue) = Initially
  BY <1>2, RunExists DEF IsRun, Result
<1>5. ASSUME NEW e \in Elem
      PROVE  Initially[wn_handle(e)] = RK2State[0][e]
  <2>1. wn_handle(e) \in Handle /\ wn_handle(e)[2] = e
    BY ElementHandles DEF wn_handle
  <2> QED
    BY <2>1, RK2States DEF Initially
<1>6. HostValues
  <2>1. tnow + 0 = 0
    BY <1>1
  <2> QED
    BY <1>1, <1>4, <1>5, <2>1 DEF HostValues, Holds, HoldsWn, HoldsDtwn, HoldsRes
<1>7. TimePacked
  BY <1>1 DEF TimePacked
<1>8. Levels
  BY <1>2 DEF Levels, LevelsOf, Ends
<1>9. Follows
  <2>1. \A c \in 0..Len(queue) : c = 0
    BY <1>2
  <2> QED
    BY <1>1, <1>4, <2>1 DEF Follows, MemFollows, ArgsFollow
<1> QED
  BY <1>3, <1>6, <1>7, <1>8, <1>9 DEF ValuesInv

\* Action by action.
LEMMA ValuesStep ==
  Inv /\ OrderInv /\ OrderInv' /\ TimeInv /\ ValuesInv /\ [Next]_vars => ValuesInv'
<1> SUFFICES ASSUME Inv, OrderInv, OrderInv', TimeInv, ValuesInv, [Next]_vars PROVE ValuesInv'
  OBVIOUS
<1>1. Submits /\ HostValues /\ TimePacked /\ Levels /\ Follows
  BY DEF ValuesInv
<1>2. Submits' /\ HostValues' /\ TimePacked'
  <2>1. CASE ZeroDtw
    <3>1. TimePacked'
      BY <2>1 DEF ZeroDtw, Turn, TimePacked
    <3> QED
      BY <1>1, <2>1, <3>1, ZeroDtwTurn
  <2>2. CASE AddBuffers
    <3>1. TimePacked'
      BY <2>2 DEF AddBuffers, Turn, TimePacked
    <3> QED
      BY <1>1, <2>2, <3>1, AddTurn
  <2>3. CASE WhileLoop \/ FinalWait \/ Workers \/ UNCHANGED vars
    BY <1>1, <2>3, NoTurn
  <2> QED
    BY <1>1, <2>1, <2>2, <2>3, ZeroResTurn, FacesTurn, ElemsTurn DEF Next, Host, Returned
<1>3. Levels'
  BY <1>1, <1>2, LevelsStep
<1>4. Follows'
  <2>1. RTInv /\ RTInv' /\ queue \in Seq(RK2Task) /\ queue' \in Seq(RK2Task) /\ AllApart(queue)
        /\ Prefix(queue, queue')
    BY <1>1, StepsAreRTSteps, RTStep, QueueGrows DEF Inv, OrderInv, Submits, Point
  <2>2. CASE Host \/ UNCHANGED vars
    <3>1. UNCHANGED << done, view, mem, args >>
      BY <2>2 DEF Host, WhileLoop, ZeroDtw, ZeroRes, Faces, Elems, AddBuffers, FinalWait,
        While, Turn, WaitForAll, Submit, rtVars, vars
    <3> QED
      BY <1>1, <2>1, <3>1, FollowsSubmit
  <2>3. ASSUME NEW i \in DOMAIN queue \ done, StartKernel(i)
        PROVE  Follows'
    BY <1>1, <2>1, <2>3, FollowsStart
  <2>4. ASSUME NEW i \in Running, FinishKernel(i)
        PROVE  Follows'
    BY <1>1, <2>1, <2>4, FollowsFinish
  <2> QED
    BY <2>2, <2>3, <2>4 DEF Next, Returned, Workers
<1> QED
  BY <1>2, <1>3, <1>4 DEF ValuesInv

\* What an element holds is what the last of its stages that are done left.
LEMMA ValuesAreOnSchedule == Inv /\ OrderInv /\ ValuesInv => FieldsOnSchedule
<1> SUFFICES ASSUME Inv, OrderInv, ValuesInv, NEW e \in Elem
             PROVE  mem[wn_handle(e)] = RK2State[level[e]][e]
  BY DEF FieldsOnSchedule
<1>1. RTInv /\ queue \in Seq(RK2Task) /\ queue \in Seq(Task) /\ AllApart(queue)
      /\ MemFollows /\ LevelsOf(queue, e) /\ done \subseteq DOMAIN queue
  BY Submitted DEF Inv, OrderInv, ValuesInv, Submits, Point, Follows, Levels, RTInv, RTTypeOK
<1>2. DOMAIN queue = 1..Len(queue) /\ Len(queue) \in Nat
  BY <1>1, LenProperties
<1> DEFINE h == wn_handle(e)  D == DoneEnds(e)
<1>3. h \in Handle /\ \A i \in DOMAIN queue : Writes(queue[i], h) <=> i \in Ends(queue, e)
  BY ElementHandles, StateIsWn DEF Ends
<1>4. level[e] = Cardinality(D)
  BY <1>1, LevelIsDoneEnds
<1>5. \A j \in D : j \in done /\ j \in DOMAIN queue /\ j \in Ends(queue, e)
  BY <1>1 DEF DoneEnds
\* The stages of e are done in order.
<1>6. ASSUME NEW j \in D, NEW i \in Ends(queue, e), i < j
      PROVE  i \in D
  <2>1. i \in DOMAIN queue /\ j \in done /\ queue[i] \in Task /\ queue[j] \in Task
    BY <1>1, <1>5, ElementOfSequence DEF Ends
  <2>2. Writes(queue[i], h) /\ Writes(queue[j], h)
    BY <1>3, <1>5, <1>6, <2>1
  <2>3. Accesses(queue[i], h) /\ Accesses(queue[j], h)
    BY <2>1, <2>2, WriteIsAccess
  <2>4. i \in done
    BY <1>1, <1>6, <2>1, <2>2, <2>3, InOrder
  <2> QED
    BY <1>6, <2>4 DEF DoneEnds
<1>7. CASE D = {}
  <2>1. Cut(0, h)
    <3>1. \A j \in done : ~ Writes(queue[j], h)
      BY <1>1, <1>3, <1>7 DEF DoneEnds
    <3> QED
      BY <3>1 DEF Cut
  <2>2. mem[h] = Run(queue)[0][h]
    BY <1>1, <1>2, <1>3, <2>1 DEF MemFollows
  <2>3. Run(queue)[0] = Initially
    BY <1>1, RunExists DEF IsRun
  <2>4. Initially[h] = RK2State[0][e]
    <3>1. h[2] = e
      BY DEF wn_handle
    <3> QED
      BY <1>3, <3>1, RK2States DEF Initially
  <2>5. Cardinality(D) = 0
    BY <1>7, FS_EmptySet
  <2> QED
    BY <1>4, <2>2, <2>3, <2>4, <2>5
<1>8. CASE D # {}
  <2>1. PICK a \in D : \A j \in D : j <= a
    <3>1. D \in SUBSET (1..Len(queue))
      BY <1>2, <1>5
    <3> HIDE DEF D
    <3> QED
      BY <1>2, <1>8, <3>1, GreatestOne
  <2>2. a \in done /\ a \in DOMAIN queue /\ a \in Ends(queue, e) /\ a \in 0..Len(queue)
    BY <1>2, <1>5
  <2>3. Cut(a, h)
    <3>1. \A j \in done : Writes(queue[j], h) => j <= a
      BY <1>1, <1>3, <2>1 DEF DoneEnds
    <3>2. ASSUME NEW j \in 1..a, Writes(queue[j], h)
          PROVE  j \in done
      <4>1. j \in Ends(queue, e)
        BY <1>2, <1>3, <2>2, <3>2
      <4>2. j < a \/ j = a
        BY <2>2
      <4> QED
        BY <1>5, <1>6, <2>1, <4>1, <4>2
    <3> QED
      BY <3>1, <3>2 DEF Cut
  <2>4. mem[h] = Run(queue)[a][h]
    BY <1>1, <1>3, <2>2, <2>3 DEF MemFollows
  <2>5. Run(queue)[a][h] = RK2State[Cardinality(EndsBefore(queue, e, a + 1))][e]
    BY <1>1, <2>2 DEF LevelsOf
  <2>6. EndsBefore(queue, e, a + 1) = D
    <3>1. ASSUME NEW j \in Ends(queue, e), j < a + 1
          PROVE  j \in D
      <4>1. j \in DOMAIN queue
        BY DEF Ends
      <4>2. j < a \/ j = a
        BY <1>2, <2>2, <3>1, <4>1
      <4> QED
        BY <1>6, <2>1, <4>2
    <3>2. \A j \in D : j \in Ends(queue, e) /\ j < a + 1
      BY <1>2, <1>5, <2>1, <2>2
    <3> QED
      BY <3>1, <3>2 DEF EndsBefore
  <2> QED
    BY <1>4, <2>4, <2>5, <2>6
<1> QED
  BY <1>7, <1>8

\* On every mesh, for any number of workers, final time, source and initial state, and
\* however the workers interleave, an element that has gone through s stages holds
\* what the serial RK2 of simulation.c gives it after s stages.
THEOREM RK2FieldsOnSchedule == Spec => []FieldsOnSchedule
<1>1. Init => TimeInv
  BY HostAssumption DEF Init, TimeInv
<1> QED
  BY <1>1, TimeStep, ValuesInit, ValuesStep, ValuesAreOnSchedule, RK2Invariant, RK2Order, PTL DEF Spec
=============================================================================
