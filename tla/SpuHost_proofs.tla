--------------------------- MODULE SpuHost_proofs ---------------------------
(***************************************************************************)
(* For every set of handles, every number of workers and every program of  *)
(* SCHNAPS tasks: no data race, and every kernel sees what it would see in *)
(* the sequential execution.  What the submission functions hand to the    *)
(* runtime are well-formed tasks, and what a host thread does is something *)
(* the runtime allows: these results hold for the time schemes built on    *)
(* SpuHost, whose queues are followed task by task.                        *)
(***************************************************************************)
EXTENDS SpuHost, SequenceTheorems, FiniteSetTheorems, TLAPS

Decl == [mode : Mode, eff : {"read", "set", "add", "upd"}]

-----------------------------------------------------------------------------
(* The tables.                                                             *)

\* An element of a sequence is in the set the sequence is over.
LEMMA ElementOfSequence ==
  ASSUME NEW S, NEW s \in Seq(S), NEW n \in DOMAIN s
  PROVE  s[n] \in S
OBVIOUS

\* Every codelet is a sequence of well-formed buffer declarations.
LEMMA CodeletTable ==
  \A c \in CodeletName : Codelet[c] \in Seq(Decl)
<1>1. \A m \in Mode, e \in {"read", "set", "add", "upd"} : Buf(m, e) \in Decl
  BY DEF Buf, Decl
<1>2. \A x, y, z \in Decl : /\ << x >> \in Seq(Decl)
                            /\ << x, y >> \in Seq(Decl)
                            /\ << x, y, z >> \in Seq(Decl)
  OBVIOUS
<1> USE <1>1, <1>2 DEF Mode
<1>3. /\ ZeroBuffer_codelet \in Seq(Decl) /\ AddBuffer_codelet \in Seq(Decl)
      /\ DGInitField_codelet \in Seq(Decl) /\ DGSubCellInterface_codelet \in Seq(Decl)
      /\ DGVolume_codelet \in Seq(Decl) /\ DGAverage_codelet \in Seq(Decl)
  BY DEF ZeroBuffer_codelet, AddBuffer_codelet, DGInitField_codelet,
    DGSubCellInterface_codelet, DGVolume_codelet, DGAverage_codelet
<1>4. /\ DGSource_codelet \in Seq(Decl) /\ DGMass_codelet \in Seq(Decl)
      /\ DGMacroCellInterface_codelet \in Seq(Decl)
      /\ DGMacroCellBoundaryFlux_codelet \in Seq(Decl)
      /\ ExtractInterface_codelet \in Seq(Decl)
  BY DEF DGSource_codelet, DGMass_codelet, DGMacroCellInterface_codelet,
    DGMacroCellBoundaryFlux_codelet, ExtractInterface_codelet
<1>5. /\ InterfaceExplicitFlux_codelet \in Seq(Decl)
      /\ InterfaceBoundaryFlux_codelet \in Seq(Decl)
      /\ SourceLocalAssembly_codelet \in Seq(Decl)
      /\ MatVectSkyline_codelet \in Seq(Decl) /\ SolveSkyline_codelet \in Seq(Decl)
  BY DEF InterfaceExplicitFlux_codelet, InterfaceBoundaryFlux_codelet,
    SourceLocalAssembly_codelet, MatVectSkyline_codelet, SolveSkyline_codelet
<1> QED
  BY <1>3, <1>4, <1>5 DEF CodeletName, Codelet

\* No kernel does to a buffer what its codelet does not declare.
THEOREM TablesAreSound == ModesCoverKernels
BY DEF ModesCoverKernels, Covers, CodeletName, Codelet, Buf,
  ZeroBuffer_codelet, AddBuffer_codelet, DGInitField_codelet,
  DGSubCellInterface_codelet, DGVolume_codelet, DGAverage_codelet,
  DGSource_codelet, DGMass_codelet, DGMacroCellInterface_codelet,
  DGMacroCellBoundaryFlux_codelet, ExtractInterface_codelet,
  InterfaceExplicitFlux_codelet, InterfaceBoundaryFlux_codelet,
  SourceLocalAssembly_codelet, MatVectSkyline_codelet, SolveSkyline_codelet

\* What a task declares and does to its n-th buffer.
LEMMA TaskBuffer ==
  ASSUME NEW t \in Task, NEW n \in DOMAIN t.buf
  PROVE  Codelet[t.cl][n] \in Decl /\ Covers(Codelet[t.cl][n])
<1>1. t.cl \in CodeletName /\ t.buf \in Seq(Handle) /\ Len(t.buf) = Len(Codelet[t.cl])
  BY DEF Task
<1>2. Codelet[t.cl] \in Seq(Decl)
  BY <1>1, CodeletTable
<1>3. n \in DOMAIN Codelet[t.cl]
  BY <1>1, <1>2
<1>4. Codelet[t.cl][n] \in Decl
  BY <1>2, <1>3, ElementOfSequence
<1> QED
  BY <1>1, <1>3, <1>4, TablesAreSound DEF ModesCoverKernels

\* A task uses a handle through one buffer.
LEMMA OneBuffer ==
  ASSUME NEW t \in Task, NEW j \in DOMAIN t.buf, NEW n \in DOMAIN t.buf,
         t.buf[j] = t.buf[n]
  PROVE  j = n
BY DEF Task

-----------------------------------------------------------------------------
(* Tasks that meet in a buffer.                                            *)

\* A buffer that is written is not declared read-only.
LEMMA WrittenBuffer ==
  ASSUME NEW t \in Task, NEW h, Writes(t, h)
  PROVE  \E n \in DOMAIN t.buf : t.buf[n] = h /\ Codelet[t.cl][n].mode # "R"
<1>1. PICK n \in DOMAIN t.buf :
         t.buf[n] = h /\ Codelet[t.cl][n].eff \in {"set", "add", "upd"}
  BY DEF Writes, Does
<1>2. Covers(Codelet[t.cl][n])
  BY TaskBuffer
<1> QED
  BY <1>1, <1>2 DEF Covers

\* A buffer that is written is declared, in some mode.
LEMMA WriteIsAccess ==
  ASSUME NEW t \in Task, NEW h, Writes(t, h)
  PROVE  Accesses(t, h)
<1>1. PICK n \in DOMAIN t.buf : t.buf[n] = h
  BY DEF Writes, Does
<1> QED
  BY <1>1, TaskBuffer DEF Accesses, Uses, Decl

\* Overwriting is a way of writing.
LEMMA SetIsWrite ==
  ASSUME NEW t, NEW h, Sets(t, h)
  PROVE  Writes(t, h)
BY DEF Sets, Writes, Does

\* A buffer that is overwritten is declared neither read-only nor commuting.
LEMMA SetDoesNotCommute ==
  ASSUME NEW t \in Task, NEW h, Sets(t, h)
  PROVE  ~ Commutes(t, h)
<1>1. PICK n \in DOMAIN t.buf : t.buf[n] = h /\ Codelet[t.cl][n].eff = "set"
  BY DEF Sets, Does
<1>2. Codelet[t.cl][n].mode # "RWC"
  BY <1>1, TaskBuffer DEF Covers
<1>3. \A j \in DOMAIN t.buf : t.buf[j] = h => j = n
  BY <1>1, OneBuffer
<1> QED
  BY <1>1, <1>2, <1>3 DEF Commutes, Uses

\* Neither relation depends on which of two tasks comes first.
LEMMA ConflictIsSymmetric ==
  \A t, u : (Conflict(t, u) => Conflict(u, t)) /\ (Ordered(t, u) => Ordered(u, t))
BY DEF Conflict, Ordered

\* A writer conflicts with every other user of the buffer.
LEMMA WriterConflicts ==
  ASSUME NEW t \in Task, NEW u \in Task, NEW h, Writes(t, h), Accesses(u, h)
  PROVE  Conflict(t, u)
<1>1. PICK n \in DOMAIN t.buf : t.buf[n] = h /\ Codelet[t.cl][n].mode # "R"
  BY WrittenBuffer
<1>2. PICK j \in DOMAIN u.buf : u.buf[j] = h
  BY DEF Accesses, Uses
<1> QED
  BY <1>1, <1>2 DEF Conflict

\* Two tasks that use a buffer, one of them for more than reading, are ordered
\* unless both commute.
LEMMA OrderedUnlessBothCommute ==
  ASSUME NEW t \in Task, NEW u \in Task, NEW h,
         Writes(t, h) \/ Commutes(t, h), Accesses(u, h),
         ~ (Commutes(t, h) /\ Commutes(u, h))
  PROVE  Ordered(t, u) /\ Ordered(u, t)
<1>1. PICK n \in DOMAIN t.buf : t.buf[n] = h /\ Codelet[t.cl][n].mode # "R"
  <2>1. CASE Writes(t, h)
    BY <2>1, WrittenBuffer
  <2>2. CASE Commutes(t, h)
    BY <2>2 DEF Commutes, Uses
  <2> QED
    BY <2>1, <2>2
<1>2. PICK j \in DOMAIN u.buf : u.buf[j] = h
  BY DEF Accesses, Uses
<1>3. ~ (Codelet[t.cl][n].mode = "RWC" /\ Codelet[u.cl][j].mode = "RWC")
  BY <1>1, <1>2 DEF Commutes, Uses
<1>4. Ordered(t, u)
  BY <1>1, <1>2, <1>3 DEF Ordered
<1> QED
  BY <1>4, ConflictIsSymmetric

\* A task that overwrites a buffer is ordered with every other user of it.
LEMMA SetterIsOrdered ==
  ASSUME NEW t \in Task, NEW u \in Task, NEW h, Sets(t, h), Accesses(u, h)
  PROVE  Ordered(t, u) /\ Ordered(u, t)
BY SetIsWrite, SetDoesNotCommute, OrderedUnlessBothCommute

-----------------------------------------------------------------------------
(* The inductive invariant.  RTTypeOK and what it says of a running task   *)
(* are not enough: the order in which the writers of a buffer finished has *)
(* to be carried along.                                                    *)

\* A task starts only after every earlier task it is ordered with.
PrefixClosed ==
  \A i \in Running \cup done : \A j \in 1..(i - 1) :
    Ordered(queue[j], queue[i]) => j \in done

\* Running tasks do not conflict.
Exclusion ==
  \A i, j \in Running : i # j => ~ Conflict(queue[i], queue[j])

\* A buffer holds the writes of the finished tasks since its last overwrite in
\* the order of submission, whatever the order in which they finished.
LastWrites(h) ==
  { j \in done : /\ Writes(queue[j], h)
                 /\ \A m \in done : Sets(queue[m], h) => m <= j }
ContentInOrder == \A h \in Handle : content[h] = LastWrites(h)

\* What a running task has read is what its buffers still hold.
ViewIsCurrent ==
  \A i \in Running : \A h \in DOMAIN view[i] : view[i][h] = content[h]

RTInv ==
  /\ RTTypeOK
  /\ PrefixClosed
  /\ Exclusion
  /\ ContentInOrder
  /\ ViewIsCurrent

\* Nothing has been submitted.
LEMMA RTInitInv == RTInit => RTInv
<1> SUFFICES ASSUME RTInit PROVE RTInv
  OBVIOUS
<1> USE DEF RTInit, Running
<1>1. RTTypeOK
  BY DEF RTTypeOK
<1>2. PrefixClosed /\ Exclusion /\ ViewIsCurrent
  BY DEF PrefixClosed, Exclusion, ViewIsCurrent
<1>3. ContentInOrder
  BY DEF ContentInOrder, LastWrites
<1> QED
  BY <1>1, <1>2, <1>3 DEF RTInv

\* What the type invariant gives of a submitted task.
LEMMA Submitted ==
  ASSUME RTTypeOK
  PROVE  /\ DOMAIN queue = 1..Len(queue) /\ Len(queue) \in Nat
         /\ \A i \in DOMAIN queue : queue[i] \in Task
         /\ \A i \in Running \cup done : i \in DOMAIN queue
         /\ \A i \in Running : i \notin done
BY ElementOfSequence DEF RTTypeOK

\* New tasks change nothing for the submitted ones.
LEMMA SubmitStep == RTInv /\ SubmitSome => RTInv'
<1> SUFFICES ASSUME RTInv, SubmitSome PROVE RTInv'
  OBVIOUS
<1> USE DEF Running
<1>1. /\ done' = done /\ view' = view /\ content' = content
      /\ queue' \in Seq(Task) /\ DOMAIN queue \subseteq DOMAIN queue'
      /\ \A i \in DOMAIN queue : queue'[i] = queue[i]
  BY DEF SubmitSome
<1>2. RTTypeOK
  BY DEF RTInv
<1>3. \A i \in Running \cup done : queue'[i] = queue[i]
  BY <1>1, <1>2, Submitted
<1>4. \A i \in Running \cup done : \A j \in 1..(i - 1) : queue'[j] = queue[j]
  <2>1. \A i \in Running \cup done : i \in 1..Len(queue)
    BY <1>2, Submitted
  <2>2. \A i \in Running \cup done : \A j \in 1..(i - 1) : j \in DOMAIN queue
    BY <2>1, <1>2, Submitted
  <2> QED
    BY <2>2, <1>1
<1>5. RTTypeOK'
  <2>1. \A i \in Running :
          {h \in Handle : Accesses(queue'[i], h)} = {h \in Handle : Accesses(queue[i], h)}
    BY <1>3
  <2> QED
    BY <1>1, <1>2, <2>1 DEF RTTypeOK
<1>6. PrefixClosed'
  BY <1>1, <1>3, <1>4 DEF RTInv, PrefixClosed
<1>7. Exclusion'
  BY <1>1, <1>3 DEF RTInv, Exclusion
<1>8. ContentInOrder'
  <2>1. \A h \in Handle : LastWrites(h)' = LastWrites(h)
    BY <1>1, <1>3 DEF LastWrites
  <2> QED
    BY <1>1, <2>1 DEF RTInv, ContentInOrder
<1>9. ViewIsCurrent'
  BY <1>1 DEF RTInv, ViewIsCurrent
<1> QED
  BY <1>5, <1>6, <1>7, <1>8, <1>9 DEF RTInv

\* A task starts with its predecessors done, its rivals stopped and its buffers
\* as they are.
LEMMA StartStep ==
  ASSUME RTInv, NEW i \in DOMAIN queue, Start(i)
  PROVE  RTInv'
<1>1. /\ queue' = queue /\ done' = done /\ content' = content
      /\ Ready(i)
      /\ Running' = Running \cup {i}
      /\ view'[i] = [h \in {g \in Handle : Accesses(queue[i], g)} |-> content[h]]
      /\ \A j \in Running : view'[j] = view[j]
  BY DEF Start, Ready, Running
<1>2. RTTypeOK /\ PrefixClosed /\ Exclusion /\ ContentInOrder /\ ViewIsCurrent
  BY DEF RTInv
<1>3. i \notin Running /\ i \notin done
  BY <1>1 DEF Ready
<1>4. RTTypeOK'
  <2>1. view'[i] \in [{h \in Handle : Accesses(queue[i], h)} -> SUBSET done]
    BY <1>1, <1>2 DEF RTTypeOK
  <2>2. Running' \subseteq DOMAIN queue \ done
    BY <1>1, <1>2, <1>3 DEF RTTypeOK
  <2>3. \A j \in Running' :
          view'[j] \in [{h \in Handle : Accesses(queue[j], h)} -> SUBSET done]
    BY <1>1, <1>2, <2>1 DEF RTTypeOK
  <2> QED
    BY <1>1, <1>2, <2>2, <2>3 DEF RTTypeOK
<1>5. PrefixClosed'
  <2>1. \A j \in 1..(i - 1) : Ordered(queue[j], queue[i]) => j \in done
    BY <1>1 DEF Ready
  <2> QED
    BY <1>1, <1>2, <2>1 DEF PrefixClosed
<1>6. Exclusion'
  <2>1. \A j \in Running : /\ ~ Conflict(queue[j], queue[i])
                           /\ ~ Conflict(queue[i], queue[j])
    BY <1>1, ConflictIsSymmetric DEF Ready
  <2> QED
    BY <1>1, <1>2, <2>1 DEF Exclusion
<1>7. ContentInOrder'
  BY <1>1, <1>2 DEF ContentInOrder, LastWrites
<1>8. ViewIsCurrent'
  BY <1>1, <1>2, <1>3 DEF ViewIsCurrent
<1> QED
  BY <1>4, <1>5, <1>6, <1>7, <1>8 DEF RTInv

\* A finished task adds its writes to what its buffers still hold as it saw them.
LEMMA FinishStep ==
  ASSUME RTInv, NEW i \in DOMAIN queue, Finish(i)
  PROVE  RTInv'
<1>1. /\ queue' = queue /\ done' = done \cup {i}
      /\ i \in Running
      /\ Running' = Running \ {i}
      /\ \A j \in Running \ {i} : view'[j] = view[j]
      /\ content' = [h \in Handle |->
                       IF Sets(queue[i], h) THEN {i}
                       ELSE IF Writes(queue[i], h) THEN view[i][h] \cup {i}
                       ELSE content[h]]
  BY DEF Finish, Running
<1>2. RTTypeOK /\ PrefixClosed /\ Exclusion /\ ContentInOrder /\ ViewIsCurrent
  BY DEF RTInv
<1>3. /\ i \notin done /\ queue[i] \in Task /\ i \in Nat
      /\ \A j \in done : queue[j] \in Task /\ j \in Nat
      /\ \A j \in Running : queue[j] \in Task
  BY <1>1, <1>2, Submitted
<1>4. RTTypeOK'
  <2>1. content' \in [Handle -> SUBSET done']
    <3> SUFFICES ASSUME NEW h \in Handle
                 PROVE  content'[h] \subseteq done'
      BY <1>1
    <3>1. content[h] \subseteq done
      BY <1>2 DEF RTTypeOK
    <3>2. Writes(queue[i], h) => view[i][h] \subseteq done
      BY <1>1, <1>2, <1>3, WriteIsAccess DEF RTTypeOK
    <3> QED
      BY <1>1, <3>1, <3>2
  <2>2. \A j \in Running' :
          view'[j] \in [{h \in Handle : Accesses(queue'[j], h)} -> SUBSET done']
    <3> SUFFICES ASSUME NEW j \in Running \ {i}
                 PROVE  view'[j] \in [{h \in Handle : Accesses(queue'[j], h)} -> SUBSET done']
      BY <1>1
    <3>1. view[j] \in [{h \in Handle : Accesses(queue[j], h)} -> SUBSET done]
      BY <1>2 DEF RTTypeOK
    <3>2. view'[j] = view[j] /\ queue' = queue /\ done \subseteq done'
      BY <1>1
    <3> QED
      BY <3>1, <3>2
  <2>3. /\ queue' \in Seq(Task) /\ done' \subseteq DOMAIN queue'
        /\ Running' \subseteq DOMAIN queue' \ done'
    BY <1>1, <1>2 DEF RTTypeOK
  <2> QED
    BY <2>1, <2>2, <2>3 DEF RTTypeOK
<1>5. PrefixClosed'
  BY <1>1, <1>2 DEF PrefixClosed
<1>6. Exclusion'
  BY <1>1, <1>2 DEF Exclusion
<1>7. ContentInOrder'
  <2> SUFFICES ASSUME NEW h \in Handle
               PROVE  content'[h] = LastWrites(h)'
    BY DEF ContentInOrder
  <2>1. LastWrites(h)' = { j \in done \cup {i} :
                             /\ Writes(queue[j], h)
                             /\ \A m \in done \cup {i} : Sets(queue[m], h) => m <= j }
    BY <1>1 DEF LastWrites
  <2>2. content[h] = { j \in done : /\ Writes(queue[j], h)
                                    /\ \A m \in done : Sets(queue[m], h) => m <= j }
    BY <1>2 DEF ContentInOrder, LastWrites
  \* A finished task ordered with i was submitted before it.
  <2>3. \A j \in done : Ordered(queue[i], queue[j]) => j < i
    <3> SUFFICES ASSUME NEW j \in done, Ordered(queue[i], queue[j]), ~ (j < i)
                 PROVE  FALSE
      OBVIOUS
    <3>1. i \in 1..(j - 1)
      <4>1. i \in 1..Len(queue) /\ j \in 1..Len(queue) /\ Len(queue) \in Nat
        BY <1>1, <1>2, Submitted
      <4>2. i # j
        BY <1>3
      <4> QED
        BY <4>1, <4>2
    <3> QED
      BY <3>1, <1>2, <1>3 DEF PrefixClosed
  <2>4. \A m \in done : Sets(queue[m], h) /\ Accesses(queue[i], h) => m < i
    BY <2>3, <1>3, SetterIsOrdered
  <2>5. CASE Sets(queue[i], h)
    <3>1. Writes(queue[i], h) /\ Accesses(queue[i], h)
      BY <2>5, <1>3, SetIsWrite, WriteIsAccess
    <3>2. \A j \in done : Writes(queue[j], h) => j < i
      BY <2>3, <2>5, <1>3, WriteIsAccess, SetterIsOrdered
    <3>3. \A m \in done : Sets(queue[m], h) => m < i
      BY <2>4, <3>1
    <3>4. LastWrites(h)' = {i}
      BY <2>1, <2>5, <3>1, <3>2, <3>3, <1>3
    <3> QED
      BY <1>1, <2>5, <3>4
  <2>6. CASE ~ Sets(queue[i], h) /\ Writes(queue[i], h)
    <3>1. Accesses(queue[i], h)
      BY <2>6, <1>3, WriteIsAccess
    <3>2. h \in DOMAIN view[i] /\ view[i][h] = content[h]
      BY <3>1, <1>1, <1>2 DEF RTTypeOK, ViewIsCurrent
    <3>3. \A m \in done : Sets(queue[m], h) => m <= i
      BY <2>4, <3>1, <1>3
    <3>4. LastWrites(h)' = content[h] \cup {i}
      BY <2>1, <2>2, <2>6, <3>3
    <3> QED
      BY <1>1, <2>6, <3>2, <3>4
  <2>7. CASE ~ Writes(queue[i], h)
    <3>1. ~ Sets(queue[i], h)
      BY <2>7, SetIsWrite
    <3>2. LastWrites(h)' = content[h]
      BY <2>1, <2>2, <2>7, <3>1
    <3> QED
      BY <1>1, <2>7, <3>1, <3>2
  <2> QED
    BY <2>5, <2>6, <2>7
<1>8. ViewIsCurrent'
  <2> SUFFICES ASSUME NEW j \in Running \ {i}, NEW h \in DOMAIN view[j]
               PROVE  view[j][h] = content'[h]
    BY <1>1 DEF ViewIsCurrent
  <2>1. h \in Handle /\ Accesses(queue[j], h)
    BY <1>2 DEF RTTypeOK
  <2>2. ~ Writes(queue[i], h)
    BY <2>1, <1>1, <1>2, <1>3, WriterConflicts DEF Exclusion
  <2>3. content'[h] = content[h]
    BY <2>1, <2>2, <1>1, SetIsWrite
  <2> QED
    BY <2>3, <1>2 DEF ViewIsCurrent
<1> QED
  BY <1>4, <1>5, <1>6, <1>7, <1>8 DEF RTInv

\* The invariant is inductive.
LEMMA RTStep == RTInv /\ [RTNext]_rtVars => RTInv'
<1>1. ASSUME RTInv, UNCHANGED rtVars PROVE RTInv'
  BY <1>1 DEF rtVars, RTInv, RTTypeOK, PrefixClosed, Exclusion, ContentInOrder,
    LastWrites, ViewIsCurrent, Running
<1> QED
  BY <1>1, SubmitStep, StartStep, FinishStep DEF RTNext

-----------------------------------------------------------------------------
(* What the invariant gives the host program.                              *)

\* Exclusion is by declared modes, NoDataRace by what the kernels do.
LEMMA InvNoDataRace == RTInv => NoDataRace
<1> SUFFICES ASSUME RTInv, NEW i \in Running, NEW j \in Running, i # j,
                    NEW h \in Handle, Writes(queue[i], h), Accesses(queue[j], h)
             PROVE  FALSE
  BY DEF NoDataRace
<1>1. RTTypeOK /\ Exclusion
  BY DEF RTInv
<1>2. queue[i] \in Task /\ queue[j] \in Task
  BY <1>1, Submitted
<1>3. Conflict(queue[i], queue[j])
  BY <1>2, WriterConflicts
<1> QED
  BY <1>1, <1>3 DEF Exclusion

\* The view of a running task is what the submission order says it is.
LEMMA InvSequentialView == RTInv => SequentialView
<1> SUFFICES ASSUME RTInv, NEW i \in Running, NEW h \in DOMAIN view[i]
             PROVE  /\ \A j \in Before(i, h) : j \in view[i][h] \/ SameGroup(j, i, h)
                    /\ \A j \in view[i][h] : j \in Before(i, h) \/ SameGroup(i, j, h)
  BY DEF SequentialView
<1>1. RTTypeOK /\ PrefixClosed /\ ContentInOrder /\ ViewIsCurrent
  BY DEF RTInv
<1>2. /\ DOMAIN queue = 1..Len(queue) /\ Len(queue) \in Nat
      /\ i \in 1..Len(queue) /\ i \notin done
      /\ done \subseteq 1..Len(queue) /\ Running \subseteq 1..Len(queue)
      /\ \A j \in 1..Len(queue) : queue[j] \in Task
  BY <1>1, Submitted
<1>3. h \in Handle /\ Accesses(queue[i], h)
  BY <1>1 DEF RTTypeOK
<1>4. view[i][h] = { j \in done : /\ Writes(queue[j], h)
                                  /\ \A m \in done : Sets(queue[m], h) => m <= j }
  BY <1>1, <1>3 DEF ViewIsCurrent, ContentInOrder, LastWrites
\* A task ordered with a running or a finished one, and submitted before it, is done.
<1>5. ASSUME NEW m \in Running \cup done, NEW j \in 1..Len(queue), j < m,
             Ordered(queue[j], queue[m])
      PROVE  j \in done
  <2>1. m \in 1..Len(queue)
    BY <1>2
  <2>2. j \in 1..(m - 1)
    BY <1>5, <2>1, <1>2
  <2> QED
    BY <2>2, <1>5, <1>1 DEF PrefixClosed
\* i has not finished, so a finished task ordered with it comes before it.
<1>6. ASSUME NEW m \in done, Ordered(queue[i], queue[m])
      PROVE  m < i
  BY <1>2, <1>5, <1>6
<1>7. \A m \in done : Sets(queue[m], h) => m < i
  BY <1>2, <1>3, <1>6, SetterIsOrdered
<1>8. ASSUME NEW j \in Before(i, h)
      PROVE  j \in view[i][h] \/ SameGroup(j, i, h)
  <2> SUFFICES ASSUME ~ SameGroup(j, i, h)
               PROVE  j \in view[i][h]
    OBVIOUS
  <2>1. /\ j \in 1..Len(queue) /\ j < i /\ Writes(queue[j], h)
        /\ \A m \in 1..Len(queue) : j < m /\ m < i => ~ Sets(queue[m], h)
    BY <1>2 DEF Before
  <2>2. PICK m \in 1..Len(queue) : /\ j <= m /\ m <= i
                                   /\ Accesses(queue[m], h) /\ ~ Commutes(queue[m], h)
    BY <2>1, <1>2 DEF SameGroup
  <2>3. j \in done
    <3>1. CASE ~ (Commutes(queue[j], h) /\ Commutes(queue[i], h))
      <4>1. Ordered(queue[j], queue[i])
        BY <3>1, <2>1, <1>2, <1>3, OrderedUnlessBothCommute
      <4> QED
        BY <4>1, <2>1, <1>5
    <3>2. CASE Commutes(queue[j], h) /\ Commutes(queue[i], h)
      <4>1. m # i /\ m # j
        BY <3>2, <2>2
      <4>2. j < m /\ m < i
        BY <4>1, <2>1, <2>2, <1>2
      <4>3. Ordered(queue[m], queue[i])
        BY <3>2, <2>2, <1>2, OrderedUnlessBothCommute
      <4>4. m \in done
        BY <4>2, <4>3, <1>5
      <4>5. Ordered(queue[j], queue[m])
        BY <2>1, <2>2, <1>2, OrderedUnlessBothCommute
      <4> QED
        BY <4>2, <4>4, <4>5, <2>1, <1>5
    <3> QED
      BY <3>1, <3>2
  <2>4. \A m2 \in done : Sets(queue[m2], h) => m2 <= j
    BY <1>7, <1>2, <2>1
  <2> QED
    BY <1>4, <2>1, <2>3, <2>4
<1>9. ASSUME NEW j \in view[i][h]
      PROVE  j \in Before(i, h) \/ SameGroup(i, j, h)
  <2>1. /\ j \in done /\ j \in 1..Len(queue) /\ j # i /\ Writes(queue[j], h)
        /\ \A m \in done : Sets(queue[m], h) => m <= j
    BY <1>2, <1>4
  <2>2. CASE j < i
    <3>1. ASSUME NEW m \in (j + 1)..(i - 1), Sets(queue[m], h)
          PROVE  FALSE
      <4>1. m \in 1..Len(queue) /\ j < m /\ m < i
        BY <1>2, <2>1
      <4>2. Ordered(queue[m], queue[i])
        BY <4>1, <3>1, <1>2, <1>3, SetterIsOrdered
      <4>3. m \in done
        BY <4>1, <4>2, <1>5
      <4> QED
        BY <4>1, <4>3, <3>1, <2>1, <1>2
    <3>2. j \in 1..(i - 1)
      BY <2>1, <2>2, <1>2
    <3> QED
      BY <2>1, <3>1, <3>2 DEF Before
  <2>3. CASE i < j
    <3> SUFFICES ASSUME ~ SameGroup(i, j, h)
                 PROVE  FALSE
      OBVIOUS
    <3>1. ~ Ordered(queue[i], queue[j])
      BY <2>1, <2>3, <1>2, <1>6
    <3>2. Accesses(queue[j], h)
      BY <2>1, <1>2, WriteIsAccess
    <3>3. Commutes(queue[i], h) /\ Commutes(queue[j], h)
      BY <3>1, <2>1, <1>2, <1>3, OrderedUnlessBothCommute
    <3>4. PICK m \in 1..Len(queue) : /\ i <= m /\ m <= j
                                     /\ Accesses(queue[m], h) /\ ~ Commutes(queue[m], h)
      BY <2>1, <2>3, <1>2 DEF SameGroup
    <3>5. i < m /\ m < j
      BY <3>3, <3>4, <2>1, <1>2
    <3>6. Ordered(queue[m], queue[j])
      BY <3>2, <3>3, <3>4, <2>1, <1>2, OrderedUnlessBothCommute
    <3>7. m \in done
      BY <3>5, <3>6, <2>1, <1>5
    <3>8. Ordered(queue[i], queue[m])
      BY <1>2, <3>3, <3>4, OrderedUnlessBothCommute
    <3> QED
      BY <3>5, <3>7, <3>8, <1>2, <1>6
  <2> QED
    BY <2>1, <2>2, <2>3, <1>2
<1> QED
  BY <1>8, <1>9

-----------------------------------------------------------------------------
(* The theorems.                                                           *)

\* The invariant holds of every program on every machine.
THEOREM RTInvariant == RTSpec => []RTInv
BY RTInitInv, RTStep, PTL DEF RTSpec

\* The tasks submitted by SCHNAPS are well formed and every buffer's content is
\* made of finished tasks.
THEOREM RTTypeCorrect == RTSpec => []RTTypeOK
<1>1. RTInv => RTTypeOK
  BY DEF RTInv
<1> QED
  BY <1>1, RTInvariant, PTL

\* No two kernels are in a buffer together unless both only read it, whatever
\* the submission order, the number of workers and the schedule.
THEOREM RaceFree == RTSpec => []NoDataRace
BY InvNoDataRace, RTInvariant, PTL

\* Every kernel sees the writes of the sequential execution, up to the tasks of
\* its own commuting group.
THEOREM SequentialSemantics == RTSpec => []SequentialView
BY InvSequentialView, RTInvariant, PTL

-----------------------------------------------------------------------------
(* Handles.                                                                *)

\* The handles the functions use are registered.
LEMMA MeshHandles ==
  /\ ~ HasSolver => \A e \in Elem : {wn_handle(e), dtwn_handle(e), res_handle(e)} \subseteq Handle
  /\ HasSolver => \A e \in Elem : {sol_handle(e), rhs_handle(e)} \subseteq Handle
  /\ \A e \in Elem : {state_handle(e), flux_handle(e)} \subseteq Handle
  /\ \A f \in Face : wL_handle(f) \in Handle
  /\ \A f \in Face : fR[f] # Null => wR_handle(f) \in Handle
<1>1. MeshHandle \subseteq Handle
  BY MeshAssumption
<1>2. ~ HasSolver => \A e \in Elem : {wn_handle(e), dtwn_handle(e), res_handle(e)} \subseteq Handle
  BY <1>1 DEF MeshHandle, wn_handle, dtwn_handle, res_handle
<1>3. HasSolver => \A e \in Elem : {sol_handle(e), rhs_handle(e)} \subseteq Handle
  BY <1>1 DEF MeshHandle, sol_handle, rhs_handle
<1>4. \A f \in Face : wL_handle(f) \in Handle
  BY <1>1 DEF MeshHandle, wL_handle
<1>5. \A f \in Face : fR[f] # Null => wR_handle(f) \in Handle
  BY <1>1 DEF MeshHandle, wR_handle
<1> QED
  BY <1>2, <1>3, <1>4, <1>5 DEF state_handle, flux_handle

\* Handles of different kinds are different.
LEMMA DifferentHandles ==
  \A x, y :
    /\ wn_handle(x) # dtwn_handle(y) /\ wn_handle(x) # res_handle(y)
    /\ dtwn_handle(x) # res_handle(y)
    /\ sol_handle(x) # rhs_handle(y)
    /\ wL_handle(x) # wR_handle(y)
    /\ res_handle(x) # wL_handle(y) /\ res_handle(x) # wR_handle(y)
    /\ state_handle(x) # wL_handle(y) /\ state_handle(x) # wR_handle(y)
    /\ flux_handle(x) # wL_handle(y) /\ flux_handle(x) # wR_handle(y)
BY DEF wn_handle, dtwn_handle, res_handle, sol_handle, rhs_handle, wL_handle, wR_handle,
  state_handle, flux_handle

-----------------------------------------------------------------------------
(* Tasks.                                                                  *)

\* A codelet with as many different handles as it has buffers makes a task.
LEMMA OneTask ==
  ASSUME NEW c \in CodeletName, NEW b \in Seq(Handle), NEW a \in Int,
         Len(b) = Len(Codelet[c]),
         \A j, m \in DOMAIN b : b[j] = b[m] => j = m
  PROVE  << [cl |-> c, buf |-> b, arg |-> a] >> \in Seq(Task)
<1>1. [cl |-> c, buf |-> b, arg |-> a] \in Task
  BY DEF Task
<1> QED
  BY <1>1

\* One buffer.
LEMMA TaskOfOne ==
  ASSUME NEW c \in CodeletName, NEW x \in Handle, NEW a \in Int, Len(Codelet[c]) = 1
  PROVE  << [cl |-> c, buf |-> << x >>, arg |-> a] >> \in Seq(Task)
<1>1. << x >> \in Seq(Handle) /\ Len(<< x >>) = 1
  OBVIOUS
<1>2. \A j, m \in DOMAIN << x >> : j = m
  OBVIOUS
<1> QED
  BY <1>1, <1>2, OneTask

\* Two buffers.
LEMMA TaskOfTwo ==
  ASSUME NEW c \in CodeletName, NEW x \in Handle, NEW y \in Handle, NEW a \in Int,
         Len(Codelet[c]) = 2, x # y
  PROVE  << [cl |-> c, buf |-> << x, y >>, arg |-> a] >> \in Seq(Task)
<1>1. << x, y >> \in Seq(Handle) /\ Len(<< x, y >>) = 2
  OBVIOUS
<1>2. \A j, m \in DOMAIN << x, y >> : << x, y >>[j] = << x, y >>[m] => j = m
  OBVIOUS
<1> QED
  BY <1>1, <1>2, OneTask

\* Three buffers.
LEMMA TaskOfThree ==
  ASSUME NEW c \in CodeletName, NEW x \in Handle, NEW y \in Handle, NEW z \in Handle,
         NEW a \in Int, Len(Codelet[c]) = 3, x # y, y # z, z # x
  PROVE  << [cl |-> c, buf |-> << x, y, z >>, arg |-> a] >> \in Seq(Task)
<1>1. << x, y, z >> \in Seq(Handle) /\ Len(<< x, y, z >>) = 3
  OBVIOUS
<1>2. \A j, m \in DOMAIN << x, y, z >> : << x, y, z >>[j] = << x, y, z >>[m] => j = m
  OBVIOUS
<1> QED
  BY <1>1, <1>2, OneTask

\* The number of buffers of the codelets.
LEMMA CodeletLengths ==
  /\ \A c \in {"ZeroBuffer", "InterfaceBoundaryFlux", "SourceLocalAssembly"} :
       c \in CodeletName /\ Len(Codelet[c]) = 1
  /\ \A c \in {"AddBuffer", "DGSubCellInterface", "DGVolume", "DGSource", "DGMass",
               "DGMacroCellBoundaryFlux", "ExtractInterface", "InterfaceExplicitFlux",
               "MatVectSkyline", "SolveSkyline"} :
       c \in CodeletName /\ Len(Codelet[c]) = 2
  /\ "DGMacroCellInterface" \in CodeletName /\ Len(Codelet["DGMacroCellInterface"]) = 3
BY DEF CodeletName, Codelet, ZeroBuffer_codelet, AddBuffer_codelet,
  DGSubCellInterface_codelet, DGVolume_codelet, DGSource_codelet, DGMass_codelet,
  DGMacroCellInterface_codelet, DGMacroCellBoundaryFlux_codelet, ExtractInterface_codelet,
  InterfaceExplicitFlux_codelet, InterfaceBoundaryFlux_codelet,
  SourceLocalAssembly_codelet, MatVectSkyline_codelet, SolveSkyline_codelet

\* The elements on the sides of a face.
LEMMA Sides ==
  ASSUME NEW f \in Face
  PROVE  fL[f] \in Elem /\ (fR[f] # Null => fR[f] \in Elem) /\ Null \notin Elem /\ fL[f] # Null
BY MeshAssumption DEF Elem, Null

-----------------------------------------------------------------------------
(* The submission functions.                                               *)

\* Of the tasks of both kinds of schemes.
LEMMA InterfaceTasks ==
  ASSUME NEW f \in Face, NEW side \in {0, 1}, NEW t \in Int
  PROVE  /\ ExtractInterface_SPU(f, side) \in Seq(Task)
         /\ InterfaceExplicitFlux_SPU(f, side) \in Seq(Task)
         /\ InterfaceBoundaryFlux_SPU(f, t) \in Seq(Task)
<1>1. /\ << >> \in Seq(Task)
      /\ wL_handle(f) \in Handle
      /\ state_handle(fL[f]) \in Handle /\ flux_handle(fL[f]) \in Handle
      /\ fR[f] # Null => /\ wR_handle(f) \in Handle
                         /\ state_handle(fR[f]) \in Handle /\ flux_handle(fR[f]) \in Handle
  BY MeshHandles, Sides
<1>2. /\ wL_handle(f) # state_handle(fL[f]) /\ wR_handle(f) # state_handle(fR[f])
      /\ wR_handle(f) # flux_handle(fL[f]) /\ wL_handle(f) # flux_handle(fR[f])
  BY DifferentHandles
<1>3. ExtractInterface_SPU(f, side) \in Seq(Task)
  <2>1. << [cl |-> "ExtractInterface", buf |-> << wL_handle(f), state_handle(fL[f]) >>,
            arg |-> 0] >> \in Seq(Task)
    BY <1>1, <1>2, CodeletLengths, TaskOfTwo
  <2>2. ASSUME fR[f] # Null
        PROVE  << [cl |-> "ExtractInterface", buf |-> << wR_handle(f), state_handle(fR[f]) >>,
                   arg |-> 0] >> \in Seq(Task)
    BY <1>1, <1>2, <2>2, CodeletLengths, TaskOfTwo
  <2> QED
    BY <1>1, <2>1, <2>2 DEF ExtractInterface_SPU
<1>4. InterfaceExplicitFlux_SPU(f, side) \in Seq(Task)
  <2>1. ASSUME fR[f] # Null
        PROVE  << [cl |-> "InterfaceExplicitFlux", buf |-> << wR_handle(f), flux_handle(fL[f]) >>,
                   arg |-> 1] >> \in Seq(Task)
    BY <1>1, <1>2, <2>1, CodeletLengths, TaskOfTwo
  <2>2. ASSUME fR[f] # Null
        PROVE  << [cl |-> "InterfaceExplicitFlux", buf |-> << wL_handle(f), flux_handle(fR[f]) >>,
                   arg |-> -1] >> \in Seq(Task)
    BY <1>1, <1>2, <2>2, CodeletLengths, TaskOfTwo
  <2> QED
    BY <1>1, <2>1, <2>2 DEF InterfaceExplicitFlux_SPU
<1>5. InterfaceBoundaryFlux_SPU(f, t) \in Seq(Task)
  BY <1>1, CodeletLengths, TaskOfOne DEF InterfaceBoundaryFlux_SPU
<1> QED
  BY <1>3, <1>4, <1>5

\* Of the tasks of the explicit scheme, on its elements.
LEMMA ExplicitElementTasks ==
  ASSUME ~ HasSolver, NEW e \in Elem, NEW t \in Int, NEW alpha \in Int
  PROVE  /\ ZeroBuffer_SPU(dtwn_handle(e)) \in Seq(Task)
         /\ ZeroBuffer_SPU(res_handle(e)) \in Seq(Task)
         /\ AddBuffer_SPU(alpha, dtwn_handle(e), wn_handle(e)) \in Seq(Task)
         /\ DGSubCellInterface_SPU(e) \in Seq(Task)
         /\ DGVolume_SPU(e) \in Seq(Task)
         /\ DGSource_SPU(e, t) \in Seq(Task)
         /\ DGMass_SPU(e) \in Seq(Task)
<1>1. /\ wn_handle(e) \in Handle /\ dtwn_handle(e) \in Handle /\ res_handle(e) \in Handle
      /\ << >> \in Seq(Task)
  BY MeshHandles
<1>2. ZeroBuffer_SPU(dtwn_handle(e)) \in Seq(Task) /\ ZeroBuffer_SPU(res_handle(e)) \in Seq(Task)
  BY <1>1, CodeletLengths, TaskOfOne DEF ZeroBuffer_SPU
<1>3. AddBuffer_SPU(alpha, dtwn_handle(e), wn_handle(e)) \in Seq(Task)
  BY <1>1, DifferentHandles, CodeletLengths, TaskOfTwo DEF AddBuffer_SPU
<1>4. \A c \in {"DGSubCellInterface", "DGVolume", "DGSource"}, a \in Int :
        << [cl |-> c, buf |-> << wn_handle(e), res_handle(e) >>, arg |-> a] >> \in Seq(Task)
  BY <1>1, DifferentHandles, CodeletLengths, TaskOfTwo
<1>5. DGMass_SPU(e) \in Seq(Task)
  BY <1>1, DifferentHandles, CodeletLengths, TaskOfTwo DEF DGMass_SPU
<1> QED
  BY <1>1, <1>2, <1>3, <1>4, <1>5 DEF DGSubCellInterface_SPU, DGVolume_SPU, DGSource_SPU

\* Of the tasks of the explicit scheme, on its faces.
LEMMA ExplicitFaceTasks ==
  ASSUME ~ HasSolver, NEW f \in Face, NEW side \in {0, 1}, NEW t \in Int
  PROVE  /\ DGMacroCellInterface_SPU(f, side) \in Seq(Task)
         /\ DGMacroCellBoundaryFlux_SPU(f, t) \in Seq(Task)
<1>1. /\ << >> \in Seq(Task)
      /\ wL_handle(f) \in Handle /\ res_handle(fL[f]) \in Handle
      /\ fR[f] # Null => wR_handle(f) \in Handle /\ res_handle(fR[f]) \in Handle
  BY MeshHandles, Sides
<1>2. ASSUME fR[f] # Null
      PROVE  /\ << [cl  |-> "DGMacroCellInterface",
                    buf |-> << wL_handle(f), wR_handle(f), res_handle(fL[f]) >>,
                    arg |-> 1] >> \in Seq(Task)
             /\ << [cl  |-> "DGMacroCellInterface",
                    buf |-> << wR_handle(f), wL_handle(f), res_handle(fR[f]) >>,
                    arg |-> -1] >> \in Seq(Task)
  BY <1>1, <1>2, DifferentHandles, CodeletLengths, TaskOfThree
<1>3. << [cl |-> "DGMacroCellBoundaryFlux", buf |-> << wL_handle(f), res_handle(fL[f]) >>,
          arg |-> t] >> \in Seq(Task)
  BY <1>1, DifferentHandles, CodeletLengths, TaskOfTwo
<1> QED
  BY <1>1, <1>2, <1>3 DEF DGMacroCellInterface_SPU, DGMacroCellBoundaryFlux_SPU

\* Of the tasks of the implicit schemes.
LEMMA ImplicitTasks ==
  ASSUME HasSolver, NEW e \in Elem, NEW t \in Int
  PROVE  /\ MatVect_SPU(e) \in Seq(Task)
         /\ SolveLinearSolver(e) \in Seq(Task)
         /\ SourceLocalAssembly_SPU(e, t) \in Seq(Task)
<1>1. sol_handle(e) \in Handle /\ rhs_handle(e) \in Handle /\ << >> \in Seq(Task)
  BY MeshHandles
<1>2. MatVect_SPU(e) \in Seq(Task) /\ SolveLinearSolver(e) \in Seq(Task)
  BY <1>1, DifferentHandles, CodeletLengths, TaskOfTwo DEF MatVect_SPU, SolveLinearSolver
<1>3. SourceLocalAssembly_SPU(e, t) \in Seq(Task)
  BY <1>1, CodeletLengths, TaskOfOne DEF SourceLocalAssembly_SPU
<1> QED
  BY <1>2, <1>3

-----------------------------------------------------------------------------
(* The host thread and the runtime.                                        *)

\* A host program only ever adds tasks at the end of the queue.
LEMMA SubmitTasks ==
  ASSUME RTTypeOK, NEW ts \in Seq(Task), Submit(ts)
  PROVE  SubmitSome
<1>1. queue \in Seq(Task) /\ queue' = queue \o ts
  BY DEF RTTypeOK, Submit
<1>2. /\ queue' \in Seq(Task)
      /\ Len(queue') = Len(queue) + Len(ts)
      /\ \A i \in 1..Len(queue) : queue'[i] = queue[i]
  BY <1>1, ConcatProperties
<1>3. DOMAIN queue \subseteq DOMAIN queue'
  BY <1>1, <1>2, LenProperties
<1> QED
  BY <1>1, <1>2, <1>3 DEF Submit, SubmitSome

\* A step of one of the loops of a time scheme, or of its waits, is a step of
\* the runtime.
LEMMA HostStep ==
  ASSUME RTTypeOK, NEW here, NEW after, NEW n, NEW ts \in Seq(Task),
         Turn(here, ts, n, after) \/ WaitForAll(here, after) \/ While(here, after)
  PROVE  [RTNext]_rtVars
BY SubmitTasks DEF Turn, WaitForAll, While, RTNext, rtVars

\* A worker only runs tasks that have been submitted.
LEMMA WorkerAction ==
  ASSUME RTTypeOK, NEW i \in (DOMAIN queue \ done) \cup Running, Start(i) \/ Finish(i)
  PROVE  RTNext
BY DEF RTTypeOK, RTNext

-----------------------------------------------------------------------------
(* Sequences of tasks.                                                     *)

\* A sequence all of whose elements are in T is a sequence of T.
LEMMA RestrictSeq ==
  ASSUME NEW S, NEW T, NEW s \in Seq(S), \A n \in DOMAIN s : s[n] \in T
  PROVE  s \in Seq(T)
OBVIOUS

\* The element of a sequence of one.
LEMMA OneInSequence ==
  ASSUME NEW S, NEW x, << x >> \in Seq(S)
  PROVE  x \in S
<1>1. << x >>[1] \in S
  BY ElementOfSequence
<1> QED
  BY <1>1

\* r starts with q.
Prefix(q, r) == /\ Len(q) <= Len(r)
                /\ \A i \in 1..Len(q) : r[i] = q[i]

\* Submitting the tasks of functions one after the other.
Joined(s, t) == s \o t

\* The order in which they are joined does not matter,
LEMMA JoinedInTurn ==
  ASSUME NEW q \in Seq(Task), NEW s \in Seq(Task), NEW t \in Seq(Task)
  PROVE  Joined(Joined(q, s), t) = Joined(q, Joined(s, t)) /\ Joined(s, t) \in Seq(Task)
BY ConcatAssociative, ConcatProperties DEF Joined

\* for four functions either.
LEMMA FourJoined ==
  ASSUME NEW q \in Seq(Task), NEW s \in Seq(Task), NEW t \in Seq(Task), NEW u \in Seq(Task),
         NEW x \in Seq(Task)
  PROVE  /\ Joined(q, Joined(Joined(s, t), Joined(u, x)))
              = Joined(Joined(Joined(Joined(q, s), t), u), x)
         /\ Joined(q, Joined(Joined(Joined(s, t), u), x))
              = Joined(Joined(Joined(Joined(q, s), t), u), x)
BY JoinedInTurn

\* What submitting the tasks ts does to a queue.
LEMMA AppendedTasks ==
  ASSUME NEW q \in Seq(Task), NEW ts \in Seq(Task)
  PROVE  /\ q \o ts \in Seq(Task)
         /\ Len(q \o ts) = Len(q) + Len(ts)
         /\ Prefix(q, q \o ts)
         /\ \A n \in 1..Len(ts) : (q \o ts)[Len(q) + n] = ts[n]
         /\ \A i \in Len(q) + 1 .. Len(q \o ts) : i - Len(q) \in 1..Len(ts) /\ (q \o ts)[i] = ts[i - Len(q)]
<1>1. Len(q) \in Nat /\ Len(ts) \in Nat
  BY LenProperties
<1> QED
  BY <1>1, ConcatProperties DEF Prefix

\* The tasks of two functions that submit one each.
LEMMA TwoTasks ==
  ASSUME NEW x \in Task, NEW y \in Task
  PROVE  /\ << x >> \o << y >> \in Seq(Task) /\ Len(<< x >> \o << y >>) = 2
         /\ (<< x >> \o << y >>)[1] = x /\ (<< x >> \o << y >>)[2] = y
<1> DEFINE s == << x >>  t == << y >>  st == s \o t
<1>1. s \in Seq(Task) /\ t \in Seq(Task) /\ Len(s) = 1 /\ Len(t) = 1 /\ s[1] = x /\ t[1] = y
  OBVIOUS
<1> HIDE DEF s, t
<1>2. /\ st \in Seq(Task) /\ Len(st) = Len(s) + Len(t)
      /\ \A i \in 1..Len(s) : st[i] = s[i]
      /\ \A i \in 1..Len(t) : st[Len(s) + i] = t[i]
  BY <1>1, AppendedTasks DEF Prefix
<1> HIDE DEF st
<1>3. st \in Seq(Task) /\ Len(st) = 2 /\ st[1] = x /\ st[2] = y
  <2>1. 1 \in 1..Len(s) /\ 1 \in 1..Len(t) /\ Len(s) + 1 = 2
    BY <1>1
  <2>2. st[1] = s[1] /\ st[Len(s) + 1] = t[1]
    BY <1>2, <2>1
  <2> QED
    BY <1>1, <1>2, <2>1, <2>2
<1> QED
  BY <1>3 DEF s, t, st

\* The tasks of a face between two elements: two from each of two loops over sides.
LEMMA FourTasks ==
  ASSUME NEW s \in Seq(Task), NEW t \in Seq(Task), Len(s) = 2, Len(t) = 2
  PROVE  /\ Len(s \o t) = 4
         /\ (s \o t)[1] = s[1] /\ (s \o t)[2] = s[2]
         /\ (s \o t)[3] = t[1] /\ (s \o t)[4] = t[2]
<1> DEFINE st == s \o t
<1>1. /\ Len(st) = Len(s) + Len(t)
      /\ \A i \in 1..Len(s) : st[i] = s[i]
      /\ \A i \in 1..Len(t) : st[Len(s) + i] = t[i]
  BY AppendedTasks DEF Prefix
<1> HIDE DEF st
<1>2. 1 \in 1..2 /\ 2 \in 1..2 /\ 2 + 1 = 3 /\ 2 + 2 = 4
  OBVIOUS
<1>3. Len(st) = 4 /\ st[1] = s[1] /\ st[2] = s[2] /\ st[3] = t[1] /\ st[4] = t[2]
  BY <1>1, <1>2
<1> QED
  BY <1>3 DEF st

-----------------------------------------------------------------------------
(* What a task declares and does, from its buffers.                        *)

\* With the buffers of the task spelt out.
LEMMA OneOrMoreBuffers ==
  ASSUME NEW t, NEW h, NEW modes
  PROVE  /\ \A x : t.buf = << x >> =>
              /\ Uses(t, h, modes) <=> (x = h /\ Codelet[t.cl][1].mode \in modes)
              /\ Does(t, h, modes) <=> (x = h /\ Codelet[t.cl][1].eff \in modes)
         /\ \A x, y : t.buf = << x, y >> =>
              /\ Uses(t, h, modes) <=> \/ x = h /\ Codelet[t.cl][1].mode \in modes
                                       \/ y = h /\ Codelet[t.cl][2].mode \in modes
              /\ Does(t, h, modes) <=> \/ x = h /\ Codelet[t.cl][1].eff \in modes
                                       \/ y = h /\ Codelet[t.cl][2].eff \in modes
         /\ \A x, y, z : t.buf = << x, y, z >> =>
              /\ Uses(t, h, modes) <=> \/ x = h /\ Codelet[t.cl][1].mode \in modes
                                       \/ y = h /\ Codelet[t.cl][2].mode \in modes
                                       \/ z = h /\ Codelet[t.cl][3].mode \in modes
              /\ Does(t, h, modes) <=> \/ x = h /\ Codelet[t.cl][1].eff \in modes
                                       \/ y = h /\ Codelet[t.cl][2].eff \in modes
                                       \/ z = h /\ Codelet[t.cl][3].eff \in modes
BY DEF Uses, Does

\* A handle names its element or its face.
LEMMA SameElement ==
  \A x, y : /\ wn_handle(x) = wn_handle(y) => x = y
            /\ dtwn_handle(x) = dtwn_handle(y) => x = y
            /\ res_handle(x) = res_handle(y) => x = y
            /\ sol_handle(x) = sol_handle(y) => x = y
            /\ rhs_handle(x) = rhs_handle(y) => x = y
            /\ wL_handle(x) = wL_handle(y) => x = y
            /\ wR_handle(x) = wR_handle(y) => x = y
            /\ state_handle(x) = state_handle(y) => x = y
BY DEF wn_handle, dtwn_handle, res_handle, sol_handle, rhs_handle, wL_handle, wR_handle,
  state_handle

\* A task that reads a buffer does not commute on it.
LEMMA ReadersDoNotCommute ==
  ASSUME NEW r \in Task, NEW h, ReadOnly(r, h)
  PROVE  ~ Commutes(r, h) /\ Accesses(r, h)
<1>1. PICK j \in DOMAIN r.buf : r.buf[j] = h /\ Codelet[r.cl][j].mode = "R"
  BY DEF ReadOnly, Uses
<1>2. \A m \in DOMAIN r.buf : r.buf[m] = h => m = j
  BY <1>1, OneBuffer
<1> QED
  BY <1>1, <1>2 DEF Commutes, Accesses, Uses, Mode

\* A reader of a buffer is ordered with its writers, and with those that commute on it.
LEMMA ReaderAfterWriter ==
  ASSUME NEW t \in Task, NEW r \in Task, NEW h,
         Writes(t, h) \/ Commutes(t, h), ReadOnly(r, h)
  PROVE  Ordered(t, r)
BY ReadersDoNotCommute, OrderedUnlessBothCommute

-----------------------------------------------------------------------------
(* Stages.  The task that ends a stage of an element is the one that writes *)
(* its state: an AddBuffer of RK2_SPU, a solve of the theta scheme.  The    *)
(* order of submission must make it come after tasks that read the state of *)
(* each neighbour, and of the element itself, at the same stage.            *)

\* The elements whose state enters the fluxes of e.
Near(e) == {e} \cup {u \in Elem : \E f \in Face : {fL[f], fR[f]} = {e, u}}

\* The tasks that end a stage of e, and those of them before task i.
Ends(q, e) == {i \in DOMAIN q : Writes(q[i], state_handle(e))}
EndsBefore(q, e, i) == {j \in Ends(q, e) : j < i}

\* Task y cannot start before x is done, unless it is x.
Link(q, x, y) == x = y \/ (x < y /\ Ordered(q[x], q[y]))

\* Before task lim, the fluxes of e took the state u had after n stages: a task y
\* that writes them waits for a task x that reads it.
Fed(q, e, u, n, lim) ==
  \E x, y \in DOMAIN q :
    /\ Link(q, x, y) /\ y < lim
    /\ ReadOnly(q[x], state_handle(u)) /\ Writes(q[y], flux_handle(e))
    /\ Cardinality(EndsBefore(q, u, x)) = n

\* The same, from all the elements that matter to e.
FedAll(q, e, n, lim) == \A u \in Near(e) : Fed(q, e, u, n, lim)

\* A task that ends a stage of e waits for a task that reads the fluxes of e,
\* after they took all the states that e had entered the stage with.
EndsAreFed(q) ==
  \A e \in Elem : \A a \in Ends(q, e) : \E z \in DOMAIN q :
    /\ Link(q, z, a) /\ ReadOnly(q[z], flux_handle(e))
    /\ FedAll(q, e, Cardinality(EndsBefore(q, e, a)), z)

\* Longer queues keep what is said of their prefix: the stages before a task,
LEMMA EndsBeforeKept ==
  ASSUME NEW q \in Seq(Task), NEW r \in Seq(Task), Prefix(q, r), NEW e,
         NEW i \in 1..(Len(q) + 1)
  PROVE  EndsBefore(r, e, i) = EndsBefore(q, e, i)
<1>1. Len(q) \in Nat /\ Len(r) \in Nat /\ DOMAIN q = 1..Len(q) /\ DOMAIN r = 1..Len(r)
  BY LenProperties
<1>2. \A j \in 1..Len(r) : j < i => j \in 1..Len(q)
  BY <1>1
<1>3. \A j \in 1..Len(q) : j \in 1..Len(r) /\ r[j] = q[j]
  BY <1>1 DEF Prefix
<1> QED
  BY <1>1, <1>2, <1>3 DEF EndsBefore, Ends

\* the stages of an element being finitely many;
LEMMA EndsFinite ==
  ASSUME NEW q \in Seq(Task), NEW e
  PROVE  /\ IsFiniteSet(Ends(q, e))
         /\ \A S \in SUBSET Ends(q, e) : IsFiniteSet(S) /\ Cardinality(S) \in Nat
<1>1. DOMAIN q = 1..Len(q) /\ Len(q) \in Nat
  BY LenProperties
<1>2. IsFiniteSet(1..Len(q))
  BY <1>1, FS_Interval
<1>3. Ends(q, e) \in SUBSET (1..Len(q))
  BY <1>1 DEF Ends
<1>4. IsFiniteSet(Ends(q, e))
  BY <1>2, <1>3, FS_Subset
<1> QED
  BY <1>4, FS_Subset, FS_CardinalityType

\* the states taken into account;
LEMMA FedKept ==
  ASSUME NEW q \in Seq(Task), NEW r \in Seq(Task), Prefix(q, r),
         NEW e, NEW u, NEW n, NEW lim \in Nat, NEW later \in Nat, lim <= later,
         Fed(q, e, u, n, lim)
  PROVE  Fed(r, e, u, n, later)
<1>1. PICK x \in DOMAIN q, y \in DOMAIN q :
         /\ Link(q, x, y) /\ y < lim
         /\ ReadOnly(q[x], state_handle(u)) /\ Writes(q[y], flux_handle(e))
         /\ Cardinality(EndsBefore(q, u, x)) = n
  BY DEF Fed
<1>2. Len(q) \in Nat /\ Len(r) \in Nat /\ DOMAIN q = 1..Len(q) /\ DOMAIN r = 1..Len(r)
  BY LenProperties
<1>3. x \in DOMAIN r /\ y \in DOMAIN r /\ r[x] = q[x] /\ r[y] = q[y] /\ y < later
  BY <1>1, <1>2 DEF Prefix
<1>4. EndsBefore(r, u, x) = EndsBefore(q, u, x)
  BY <1>2, EndsBeforeKept
<1>5. Link(r, x, y)
  BY <1>1, <1>3 DEF Link
<1> QED
  BY <1>1, <1>3, <1>4, <1>5 DEF Fed

\* what the end of a stage waits for.
LEMMA EndsAreStillFed ==
  ASSUME NEW q \in Seq(Task), NEW r \in Seq(Task), Prefix(q, r), EndsAreFed(q),
         NEW e \in Elem, NEW a \in Ends(r, e), a <= Len(q)
  PROVE  \E z \in DOMAIN r :
           /\ Link(r, z, a) /\ ReadOnly(r[z], flux_handle(e))
           /\ FedAll(r, e, Cardinality(EndsBefore(r, e, a)), z)
<1>1. Len(q) \in Nat /\ Len(r) \in Nat /\ DOMAIN q = 1..Len(q) /\ DOMAIN r = 1..Len(r)
  BY LenProperties
<1>2. a \in 1..Len(q) /\ r[a] = q[a]
  BY <1>1 DEF Ends, Prefix
<1>3. a \in Ends(q, e)
  BY <1>1, <1>2 DEF Ends
<1>4. PICK z \in DOMAIN q :
        /\ Link(q, z, a) /\ ReadOnly(q[z], flux_handle(e))
        /\ FedAll(q, e, Cardinality(EndsBefore(q, e, a)), z)
  BY <1>3 DEF EndsAreFed
<1>5. z \in DOMAIN r /\ r[z] = q[z] /\ z \in Nat
  BY <1>1 DEF Prefix
<1>6. EndsBefore(r, e, a) = EndsBefore(q, e, a)
  BY <1>1, <1>2, EndsBeforeKept
<1>7. FedAll(r, e, Cardinality(EndsBefore(r, e, a)), z)
  BY <1>4, <1>5, <1>6, FedKept DEF FedAll
<1> QED
  BY <1>2, <1>4, <1>5, <1>7 DEF Link

\* Tasks that write no state end no stage,
LEMMA SameEnds ==
  ASSUME NEW q \in Seq(Task), NEW r \in Seq(Task), Prefix(q, r), NEW e,
         \A i \in DOMAIN r : i > Len(q) => ~ Writes(r[i], state_handle(e))
  PROVE  Ends(r, e) = Ends(q, e)
<1>1. Len(q) \in Nat /\ Len(r) \in Nat /\ DOMAIN q = 1..Len(q) /\ DOMAIN r = 1..Len(r)
  BY LenProperties
<1> QED
  BY <1>1 DEF Ends, Prefix

\* so that all the stages of the queue come before them,
LEMMA EndsBeforeNew ==
  ASSUME NEW q \in Seq(Task), NEW e, NEW r, Ends(r, e) = Ends(q, e), NEW x \in Nat, x > Len(q)
  PROVE  EndsBefore(r, e, x) = Ends(q, e)
<1>1. Len(q) \in Nat /\ DOMAIN q = 1..Len(q)
  BY LenProperties
<1> QED
  BY <1>1 DEF EndsBefore, Ends

\* and leave what the ends of stages wait for as it was.
LEMMA StillFed ==
  ASSUME NEW q \in Seq(Task), NEW r \in Seq(Task), Prefix(q, r), EndsAreFed(q),
         \A e \in Elem : Ends(r, e) = Ends(q, e)
  PROVE  /\ EndsAreFed(r)
         /\ \A e, u, n : Fed(q, e, u, n, Len(q) + 1) => Fed(r, e, u, n, Len(r) + 1)
<1>1. Len(q) \in Nat /\ DOMAIN q = 1..Len(q) /\ Len(r) \in Nat /\ Len(q) <= Len(r)
  BY LenProperties DEF Prefix
<1>2. ASSUME NEW e \in Elem, NEW a \in Ends(r, e)
      PROVE  a <= Len(q)
  BY <1>1, <1>2 DEF Ends
<1>3. ASSUME NEW e, NEW u, NEW n, Fed(q, e, u, n, Len(q) + 1)
      PROVE  Fed(r, e, u, n, Len(r) + 1)
  <2> DEFINE lim == Len(q) + 1  later == Len(r) + 1
  <2>1. lim \in Nat /\ later \in Nat /\ lim <= later /\ Fed(q, e, u, n, lim)
    BY <1>1, <1>3
  <2> HIDE DEF lim, later
  <2>2. Fed(r, e, u, n, later)
    BY <2>1, FedKept
  <2> QED
    BY <2>2 DEF later
<1>4. EndsAreFed(r)
  BY <1>2, EndsAreStillFed DEF EndsAreFed
<1> QED
  BY <1>3, <1>4

\* The tasks of a face between two elements, submitted when all the elements
\* have the same number of stages, make each of the two take the state of the other.
LEMMA FaceFeeds ==
  ASSUME NEW q \in Seq(Task), NEW ts \in Seq(Task), Len(ts) = 4, NEW n,
         NEW eL \in Elem, NEW eR \in Elem,
         \A e \in Elem : Ends(q \o ts, e) = Ends(q, e) /\ Cardinality(Ends(q, e)) = n,
         ReadOnly(ts[1], state_handle(eL)), ReadOnly(ts[2], state_handle(eR)),
         Writes(ts[3], flux_handle(eL)), Writes(ts[4], flux_handle(eR)),
         Ordered(ts[2], ts[3]), Ordered(ts[1], ts[4])
  PROVE  /\ Fed(q \o ts, eL, eR, n, Len(q \o ts) + 1)
         /\ Fed(q \o ts, eR, eL, n, Len(q \o ts) + 1)
<1> DEFINE m == Len(q)  r == q \o ts
<1>1. m \in Nat
  BY LenProperties
<1>2. /\ Len(r) = m + 4 /\ r \in Seq(Task)
      /\ \A i \in 1..4 : r[m + i] = ts[i]
  <2>1. /\ Len(r) = m + Len(ts) /\ r \in Seq(Task)
        /\ \A i \in 1..Len(ts) : r[m + i] = ts[i]
    BY AppendedTasks
  <2> QED
    BY <2>1
<1> HIDE DEF m, r
<1>3. /\ DOMAIN r = 1..(m + 4)
      /\ m + 1 \in 1..(m + 4) /\ m + 2 \in 1..(m + 4) /\ m + 3 \in 1..(m + 4) /\ m + 4 \in 1..(m + 4)
      /\ m + 1 < m + 4 /\ m + 2 < m + 3 /\ m + 3 < Len(r) + 1 /\ m + 4 < Len(r) + 1
      /\ m + 1 \in Nat /\ m + 2 \in Nat /\ m + 1 > m /\ m + 2 > m
  BY <1>1, <1>2, LenProperties
<1>4. r[m + 1] = ts[1] /\ r[m + 2] = ts[2] /\ r[m + 3] = ts[3] /\ r[m + 4] = ts[4]
  BY <1>2
<1>5. /\ Cardinality(EndsBefore(r, eL, m + 1)) = n
      /\ Cardinality(EndsBefore(r, eR, m + 2)) = n
  BY <1>3, EndsBeforeNew DEF m, r
<1>6. Link(r, m + 2, m + 3) /\ Link(r, m + 1, m + 4)
  BY <1>3, <1>4 DEF Link
<1>7. Fed(r, eL, eR, n, Len(r) + 1)
  BY <1>3, <1>4, <1>5, <1>6 DEF Fed
<1>8. Fed(r, eR, eL, n, Len(r) + 1)
  BY <1>3, <1>4, <1>5, <1>6 DEF Fed
<1> QED
  BY <1>7, <1>8 DEF r

-----------------------------------------------------------------------------
(* What has run.                                                           *)

\* What a task that runs, or has run, waited for is done.
LEMMA LinkDone ==
  ASSUME RTInv, NEW x \in DOMAIN queue, NEW y \in Running \cup done, Link(queue, x, y), x # y
  PROVE  x \in done
<1>1. DOMAIN queue = 1..Len(queue) /\ Len(queue) \in Nat /\ y \in DOMAIN queue
  BY Submitted DEF RTInv
<1>2. x \in 1..(y - 1) /\ Ordered(queue[x], queue[y])
  BY <1>1 DEF Link
<1> QED
  BY <1>2 DEF RTInv, PrefixClosed

\* When a task that reads the fluxes of e runs, or has run, the stages of u that
\* e needed are done.
LEMMA FedDone ==
  ASSUME RTInv, NEW e \in Elem, NEW u \in Elem, NEW n, NEW z \in Running \cup done,
         ReadOnly(queue[z], flux_handle(e)), Fed(queue, e, u, n, z)
  PROVE  \E x \in DOMAIN queue : /\ x < z /\ EndsBefore(queue, u, x) \subseteq done
                                 /\ Cardinality(EndsBefore(queue, u, x)) = n
<1>1. PICK x \in DOMAIN queue, y \in DOMAIN queue :
         /\ Link(queue, x, y) /\ y < z
         /\ ReadOnly(queue[x], state_handle(u)) /\ Writes(queue[y], flux_handle(e))
         /\ Cardinality(EndsBefore(queue, u, x)) = n
  BY DEF Fed
<1>2. /\ DOMAIN queue = 1..Len(queue) /\ Len(queue) \in Nat /\ z \in DOMAIN queue
      /\ \A i \in DOMAIN queue : queue[i] \in Task
  BY Submitted DEF RTInv
<1>3. y \in done
  <2>1. Ordered(queue[y], queue[z])
    BY <1>1, <1>2, ReaderAfterWriter
  <2> QED
    BY <1>1, <1>2, <2>1, LinkDone DEF Link
<1>4. x \in done
  BY <1>1, <1>3, LinkDone
<1>5. ASSUME NEW j \in EndsBefore(queue, u, x) PROVE j \in done
  <2>1. j \in DOMAIN queue /\ j < x /\ Writes(queue[j], state_handle(u))
    BY DEF EndsBefore, Ends
  <2>2. Ordered(queue[j], queue[x])
    BY <1>1, <1>2, <2>1, ReaderAfterWriter
  <2> QED
    BY <1>4, <2>1, <2>2, LinkDone DEF Link
<1>6. x < z
  BY <1>1, <1>2 DEF Link
<1> QED
  BY <1>1, <1>5, <1>6

\* The stages of e that are done.
DoneEnds(e) == done \cap Ends(queue, e)

\* While the end of a stage of e runs, the stages of e before it are done, and
\* the elements near e have as many done.
LEMMA DoneStages ==
  ASSUME RTInv, EndsAreFed(queue), NEW e \in Elem, NEW a \in Ends(queue, e), a \in Running
  PROVE  /\ DoneEnds(e) = EndsBefore(queue, e, a)
         /\ \A u \in Near(e) : Cardinality(DoneEnds(e)) <= Cardinality(DoneEnds(u))
<1>1. /\ queue \in Seq(Task)
      /\ DOMAIN queue = 1..Len(queue) /\ Len(queue) \in Nat
      /\ done \subseteq DOMAIN queue /\ a \notin done
      /\ \A j \in DOMAIN queue : queue[j] \in Task
  BY Submitted DEF RTInv, RTTypeOK
\* What the chain to a stage that runs, or has run, tells.
<1>2. ASSUME NEW b \in Ends(queue, e), b \in Running \cup done, NEW u \in Near(e)
      PROVE  \E x \in DOMAIN queue : 
               /\ x < b /\ EndsBefore(queue, u, x) \subseteq done
               /\ Cardinality(EndsBefore(queue, u, x)) = Cardinality(EndsBefore(queue, e, b))
  <2> b \in DOMAIN queue
    BY DEF Ends
  <2>1. PICK z \in DOMAIN queue :
          /\ Link(queue, z, b) /\ ReadOnly(queue[z], flux_handle(e))
          /\ FedAll(queue, e, Cardinality(EndsBefore(queue, e, b)), z)
    BY DEF EndsAreFed
  <2>2. z \in Running \cup done /\ z <= b
    <3>1. z # b => z \in done /\ z < b
      BY <1>2, <2>1, LinkDone DEF Link
    <3> QED
      BY <1>1, <1>2, <3>1
  <2>3. u \in Elem
    BY DEF Near
  <2>4. Fed(queue, e, u, Cardinality(EndsBefore(queue, e, b)), z)
    BY <1>2, <2>1 DEF FedAll
  <2>5. PICK x \in DOMAIN queue :
          /\ x < z /\ EndsBefore(queue, u, x) \subseteq done
          /\ Cardinality(EndsBefore(queue, u, x)) = Cardinality(EndsBefore(queue, e, b))
    BY <2>1, <2>2, <2>3, <2>4, FedDone
  <2>6. x < b
    BY <1>1, <1>2, <2>2, <2>5
  <2> QED
    BY <2>5, <2>6
\* In particular, the stages of e before it are done.
<1>3. ASSUME NEW b \in Ends(queue, e), b \in Running \cup done
      PROVE  EndsBefore(queue, e, b) \subseteq done
  <2>1. e \in Near(e)
    BY DEF Near
  <2>2. PICK x \in DOMAIN queue :
          /\ x < b /\ EndsBefore(queue, e, x) \subseteq done
          /\ Cardinality(EndsBefore(queue, e, x)) = Cardinality(EndsBefore(queue, e, b))
    BY <1>2, <1>3, <2>1
  <2>3. EndsBefore(queue, e, x) \in SUBSET EndsBefore(queue, e, b)
    BY <1>1, <2>2 DEF EndsBefore, Ends
  <2>4. IsFiniteSet(EndsBefore(queue, e, b))
    BY <1>1, EndsFinite DEF EndsBefore
  <2>5. EndsBefore(queue, e, x) = EndsBefore(queue, e, b)
    BY <2>2, <2>3, <2>4, FS_Subset
  <2> QED
    BY <2>2, <2>5
<1>4. DoneEnds(e) = EndsBefore(queue, e, a)
  <2>1. ASSUME NEW b \in DoneEnds(e)
        PROVE  b \in EndsBefore(queue, e, a)
    <3>1. b \in done /\ b \in Ends(queue, e) /\ b \in DOMAIN queue /\ a \in DOMAIN queue
      BY <1>1 DEF DoneEnds, Ends
    <3>2. ~ (a < b)
      BY <1>1, <1>3, <3>1 DEF EndsBefore
    <3>3. b < a
      BY <1>1, <3>1, <3>2
    <3> QED
      BY <3>1, <3>3 DEF EndsBefore
  <2>2. EndsBefore(queue, e, a) \subseteq DoneEnds(e)
    BY <1>3 DEF DoneEnds, EndsBefore
  <2> QED
    BY <2>1, <2>2
<1>5. ASSUME NEW u \in Near(e)
      PROVE  Cardinality(DoneEnds(e)) <= Cardinality(DoneEnds(u))
  <2>1. PICK x \in DOMAIN queue :
          /\ x < a /\ EndsBefore(queue, u, x) \subseteq done
          /\ Cardinality(EndsBefore(queue, u, x)) = Cardinality(EndsBefore(queue, e, a))
    BY <1>2, <1>5
  <2>2. EndsBefore(queue, u, x) \in SUBSET DoneEnds(u)
    BY <2>1 DEF DoneEnds, EndsBefore
  <2>3. IsFiniteSet(DoneEnds(u))
    BY <1>1, EndsFinite DEF DoneEnds
  <2> QED
    BY <1>4, <2>1, <2>2, <2>3, FS_Subset
<1> QED
  BY <1>4, <1>5

\* A task that finishes leaves the stages of e as they are, or adds the next one.
LEMMA StageEnds ==
  ASSUME RTInv, NEW i \in DOMAIN queue, Finish(i), NEW e
  PROVE  /\ i \notin Ends(queue, e) => DoneEnds(e)' = DoneEnds(e)
         /\ i \in Ends(queue, e) => Cardinality(DoneEnds(e)') = Cardinality(DoneEnds(e)) + 1
<1>1. /\ queue \in Seq(Task) /\ i \notin done
      /\ queue' = queue /\ done' = done \cup {i}
  BY Submitted DEF RTInv, RTTypeOK, Finish
<1>2. IsFiniteSet(DoneEnds(e))
  BY <1>1, EndsFinite DEF DoneEnds
<1>3. ASSUME i \notin Ends(queue, e) PROVE DoneEnds(e)' = DoneEnds(e)
  BY <1>1, <1>3 DEF DoneEnds
<1>4. ASSUME i \in Ends(queue, e) PROVE Cardinality(DoneEnds(e)') = Cardinality(DoneEnds(e)) + 1
  <2>1. DoneEnds(e)' = DoneEnds(e) \cup {i} /\ i \notin DoneEnds(e)
    BY <1>1, <1>4 DEF DoneEnds
  <2> QED
    BY <1>2, <2>1, FS_AddElement
<1> QED
  BY <1>3, <1>4

\* A step of the runtime changes the stages of one element at most, by one, when a task
\* that ends its stage returns.
LEMMA StagesChange ==
  ASSUME RTInv, [RTNext]_rtVars,
         \A i \in DOMAIN queue : \A e, x \in Elem :
           i \in Ends(queue, e) /\ i \in Ends(queue, x) => e = x
  PROVE  \/ \A e \in Elem : DoneEnds(e)' = DoneEnds(e)
         \/ \E e \in Elem : \E i \in Running :
              /\ i \in Ends(queue, e)
              /\ \A x \in Elem \ {e} : DoneEnds(x)' = DoneEnds(x)
              /\ Cardinality(DoneEnds(e)') = Cardinality(DoneEnds(e)) + 1
<1>1. \A i \in done : i \in DOMAIN queue
  BY Submitted DEF RTInv
<1>2. ASSUME done' = done, \A i \in DOMAIN queue : i \in DOMAIN queue' /\ queue'[i] = queue[i]
      PROVE  \A e \in Elem : DoneEnds(e)' = DoneEnds(e)
  BY <1>1, <1>2 DEF DoneEnds, Ends
<1>3. CASE UNCHANGED rtVars
  BY <1>2, <1>3 DEF rtVars
<1>4. CASE SubmitSome
  BY <1>2, <1>4 DEF SubmitSome
<1>5. CASE \E i \in DOMAIN queue : Start(i)
  BY <1>2, <1>5 DEF Start
<1>6. ASSUME NEW i \in DOMAIN queue, Finish(i), NEW e \in Elem, i \in Ends(queue, e)
      PROVE  /\ i \in Running
             /\ \A x \in Elem \ {e} : DoneEnds(x)' = DoneEnds(x)
             /\ Cardinality(DoneEnds(e)') = Cardinality(DoneEnds(e)) + 1
  <2>1. \A x \in Elem \ {e} : i \notin Ends(queue, x)
    BY <1>6
  <2>2. i \in Running
    BY <1>6 DEF Finish
  <2> QED
    BY <1>6, <2>1, <2>2, StageEnds
<1>7. ASSUME NEW i \in DOMAIN queue, Finish(i), \A e \in Elem : i \notin Ends(queue, e)
      PROVE  \A e \in Elem : DoneEnds(e)' = DoneEnds(e)
  BY <1>7, StageEnds
<1> QED
  BY <1>3, <1>4, <1>5, <1>6, <1>7 DEF RTNext

\* It does so only if all the elements near that element have reached its stage.
LEMMA StagesAdvance ==
  ASSUME RTInv, EndsAreFed(queue), [RTNext]_rtVars,
         \A i \in DOMAIN queue : \A e, x \in Elem :
           i \in Ends(queue, e) /\ i \in Ends(queue, x) => e = x
  PROVE  \/ \A e \in Elem : DoneEnds(e)' = DoneEnds(e)
         \/ \E e \in Elem :
              /\ \A x \in Elem \ {e} : DoneEnds(x)' = DoneEnds(x)
              /\ Cardinality(DoneEnds(e)') = Cardinality(DoneEnds(e)) + 1
              /\ \A u \in Near(e) : /\ Cardinality(DoneEnds(u)) \in Nat
                                    /\ Cardinality(DoneEnds(e)) <= Cardinality(DoneEnds(u))
<1>1. CASE \A e \in Elem : DoneEnds(e)' = DoneEnds(e)
  BY <1>1
<1>2. ASSUME NEW e \in Elem, NEW i \in Running, i \in Ends(queue, e), NEW u \in Near(e)
      PROVE  /\ Cardinality(DoneEnds(u)) \in Nat
             /\ Cardinality(DoneEnds(e)) <= Cardinality(DoneEnds(u))
  <2>1. queue \in Seq(Task)
    BY DEF RTInv, RTTypeOK
  <2>2. Cardinality(DoneEnds(u)) \in Nat
    BY <2>1, EndsFinite DEF DoneEnds
  <2> QED
    BY <1>2, <2>2, DoneStages
<1> QED
  BY <1>1, <1>2, StagesChange

-----------------------------------------------------------------------------
(* A turn of a loop of the host.                                           *)

\* A turn of a loop over n things leads to the next thing or to the loop `after`.
LEMMA AfterTurn ==
  ASSUME NEW here, NEW after, NEW ts, NEW n \in Nat, k \in 0..(n - 1),
         Turn(here, ts, n, after)
  PROVE  /\ pc = here /\ Submit(ts)
         /\ \/ pc' = here /\ k' = k + 1 /\ k' \in 0..(n - 1)
            \/ pc' = after /\ k' = 0 /\ k = n - 1
BY DEF Turn

\* The ranges of the loops.
LEMMA Loops ==
  /\ nbelems \in Nat \ {0} /\ nbfaces \in Nat \ {0}
  /\ Elem = 0..(nbelems - 1) /\ Face = 0..(nbfaces - 1)
  /\ 0 \in Elem /\ 0 \in Face /\ Elem \subseteq Nat /\ Face \subseteq Nat
BY MeshAssumption DEF Elem, Face

-----------------------------------------------------------------------------
(* What the tasks of the implicit schemes do.                              *)

\* What the codelets of the implicit schemes declare and do.
LEMMA ImplicitCodelets ==
  /\ Codelet["ExtractInterface"] = << [mode |-> "W", eff |-> "set"], [mode |-> "R", eff |-> "read"] >>
  /\ Codelet["InterfaceExplicitFlux"] = << [mode |-> "R", eff |-> "read"], [mode |-> "RW", eff |-> "add"] >>
  /\ Codelet["InterfaceBoundaryFlux"] = << [mode |-> "RW", eff |-> "add"] >>
  /\ Codelet["SourceLocalAssembly"] = << [mode |-> "RW", eff |-> "add"] >>
  /\ Codelet["MatVectSkyline"] = << [mode |-> "R", eff |-> "read"], [mode |-> "W", eff |-> "set"] >>
  /\ Codelet["SolveSkyline"] = << [mode |-> "W", eff |-> "set"], [mode |-> "R", eff |-> "read"] >>
BY DEF Codelet, Buf, ExtractInterface_codelet, InterfaceExplicitFlux_codelet,
  InterfaceBoundaryFlux_codelet, SourceLocalAssembly_codelet, MatVectSkyline_codelet,
  SolveSkyline_codelet

\* Handles of different kinds are different.
LEMMA ImplicitHandles ==
  \A x, y :
    /\ sol_handle(x) # rhs_handle(y) /\ sol_handle(x) # wL_handle(y) /\ sol_handle(x) # wR_handle(y)
    /\ rhs_handle(x) # wL_handle(y) /\ rhs_handle(x) # wR_handle(y) /\ wL_handle(x) # wR_handle(y)
BY DEF sol_handle, rhs_handle, wL_handle, wR_handle

\* With a solver the interfaces work on sol and rhs.
LEMMA SolverState ==
  ASSUME HasSolver
  PROVE  \A e : state_handle(e) = sol_handle(e) /\ flux_handle(e) = rhs_handle(e)
BY DEF state_handle, flux_handle

\* The tasks that put together the right-hand side of an element.
IsRhsTask(t) ==
  \/ t.cl = "MatVectSkyline" /\ \E e \in Elem : t.buf = << sol_handle(e), rhs_handle(e) >>
  \/ /\ t.cl \in {"SourceLocalAssembly", "InterfaceBoundaryFlux"}
     /\ \E e \in Elem : t.buf = << rhs_handle(e) >>
  \/ /\ t.cl = "ExtractInterface"
     /\ \E f \in Face, e \in Elem : \/ t.buf = << wL_handle(f), sol_handle(e) >>
                                    \/ t.buf = << wR_handle(f), sol_handle(e) >>
  \/ /\ t.cl = "InterfaceExplicitFlux"
     /\ \E f \in Face, e \in Elem : \/ t.buf = << wL_handle(f), rhs_handle(e) >>
                                    \/ t.buf = << wR_handle(f), rhs_handle(e) >>
RhsTask == {t \in Task : IsRhsTask(t)}

\* The solve of element e, and all the tasks of the scheme.
SolveTask(e) == {t \in Task : t.cl = "SolveSkyline" /\ t.buf = << sol_handle(e), rhs_handle(e) >>}
ThetaTask == RhsTask \cup UNION {SolveTask(e) : e \in Elem}

\* Sequences of some of these tasks are sequences of tasks.
LEMMA ThetaTasks ==
  /\ ThetaTask \subseteq Task /\ RhsTask \subseteq ThetaTask
  /\ \A e \in Elem : SolveTask(e) \subseteq ThetaTask
  /\ Seq(ThetaTask) \subseteq Seq(Task) /\ Seq(RhsTask) \subseteq Seq(ThetaTask)
BY DEF ThetaTask, RhsTask, SolveTask

\* The tasks of a right-hand side change no state.
LEMMA RhsTasksDo ==
  ASSUME NEW t \in RhsTask, NEW e
  PROVE  ~ Writes(t, sol_handle(e))
<1> USE OneOrMoreBuffers, ImplicitCodelets, ImplicitHandles DEF Writes
<1>1. CASE t.cl = "MatVectSkyline"
  BY <1>1 DEF RhsTask, IsRhsTask
<1>2. CASE t.cl \in {"SourceLocalAssembly", "InterfaceBoundaryFlux"}
  BY <1>2 DEF RhsTask, IsRhsTask
<1>3. CASE t.cl = "ExtractInterface"
  BY <1>3 DEF RhsTask, IsRhsTask
<1>4. CASE t.cl = "InterfaceExplicitFlux"
  BY <1>4 DEF RhsTask, IsRhsTask
<1> QED
  BY <1>1, <1>2, <1>3, <1>4 DEF RhsTask, IsRhsTask

\* A solve replaces the state of its element by what the right-hand side gives.
LEMMA SolveTasksDo ==
  ASSUME NEW x, NEW t \in SolveTask(x), NEW e
  PROVE  /\ Writes(t, sol_handle(e)) <=> e = x
         /\ ReadOnly(t, rhs_handle(x))
BY OneOrMoreBuffers, ImplicitCodelets, ImplicitHandles, SameElement
   DEF SolveTask, Writes, ReadOnly

\* One task of a right-hand side.
LEMMA OneRhsTask ==
  ASSUME NEW t, << t >> \in Seq(Task), IsRhsTask(t)
  PROVE  << t >> \in Seq(RhsTask)
<1>1. t \in RhsTask
  BY OneInSequence DEF RhsTask
<1> QED
  BY <1>1

\* The tasks `level` counts are those that end time steps.
LEMMA SolveTaskIs ==
  ASSUME HasSolver, NEW t \in ThetaTask, NEW e \in Elem
  PROVE  Writes(t, state_handle(e)) <=> t.cl = "SolveSkyline" /\ t.buf[1] = sol_handle(e)
<1>1. CASE t \in RhsTask
  BY <1>1, RhsTasksDo, SolverState DEF RhsTask, IsRhsTask
<1>2. CASE \E x \in Elem : t \in SolveTask(x)
  BY <1>2, SolveTasksDo, SolverState, SameElement DEF SolveTask
<1> QED
  BY <1>1, <1>2 DEF ThetaTask

\* The tasks of one element: the product opens the right-hand side, reading the state; the
\* source; the solve.
LEMMA TasksOfElement ==
  ASSUME HasSolver, NEW e \in Elem, NEW t \in Int
  PROVE  /\ MatVect_SPU(e) \in Seq(RhsTask) /\ Len(MatVect_SPU(e)) = 1
         /\ ReadOnly(MatVect_SPU(e)[1], sol_handle(e)) /\ Writes(MatVect_SPU(e)[1], rhs_handle(e))
         /\ SourceLocalAssembly_SPU(e, t) \in Seq(RhsTask)
         /\ SolveLinearSolver(e) \in Seq(SolveTask(e)) /\ Len(SolveLinearSolver(e)) = 1
<1>1. /\ MatVect_SPU(e) \in Seq(Task) /\ SolveLinearSolver(e) \in Seq(Task)
      /\ SourceLocalAssembly_SPU(e, t) \in Seq(Task) /\ << >> \in Seq(RhsTask)
  BY ImplicitTasks
<1>2. MatVect_SPU(e) \in Seq(RhsTask) /\ Len(MatVect_SPU(e)) = 1
  <2>1. IsRhsTask([cl |-> "MatVectSkyline", buf |-> << sol_handle(e), rhs_handle(e) >>, arg |-> 0])
    BY DEF IsRhsTask
  <2> QED
    BY <1>1, <2>1, OneRhsTask DEF MatVect_SPU
<1>3. SourceLocalAssembly_SPU(e, t) \in Seq(RhsTask)
  <2>1. IsRhsTask([cl |-> "SourceLocalAssembly", buf |-> << rhs_handle(e) >>, arg |-> t])
    BY DEF IsRhsTask
  <2> QED
    BY <1>1, <2>1, OneRhsTask DEF SourceLocalAssembly_SPU
<1>4. SolveLinearSolver(e) \in Seq(SolveTask(e)) /\ Len(SolveLinearSolver(e)) = 1
  BY <1>1 DEF SolveLinearSolver, SolveTask
<1>5. ReadOnly(MatVect_SPU(e)[1], sol_handle(e)) /\ Writes(MatVect_SPU(e)[1], rhs_handle(e))
  BY OneOrMoreBuffers, ImplicitCodelets DEF ReadOnly, Writes, MatVect_SPU
<1> QED
  BY <1>2, <1>3, <1>4, <1>5

\* One more task in a queue.
LEMMA OneMore ==
  ASSUME NEW q \in Seq(Task), NEW t \in Task
  PROVE  /\ q \o << t >> \in Seq(Task) /\ Len(q) \in Nat
         /\ Len(q \o << t >>) = Len(q) + 1
         /\ (q \o << t >>)[Len(q) + 1] = t
         /\ Prefix(q, q \o << t >>)
<1> DEFINE ts == << t >>  r == q \o ts
<1>1. ts \in Seq(Task) /\ Len(ts) = 1 /\ ts[1] = t /\ 1 \in 1..Len(ts)
  OBVIOUS
<1> HIDE DEF ts
<1>2. /\ r \in Seq(Task) /\ Len(r) = Len(q) + Len(ts) /\ Prefix(q, r)
      /\ \A i \in 1..Len(ts) : r[Len(q) + i] = ts[i]
  BY <1>1, AppendedTasks
<1> HIDE DEF r
<1>3. r \in Seq(Task) /\ Len(r) = Len(q) + 1 /\ r[Len(q) + 1] = t /\ Prefix(q, r) /\ Len(q) \in Nat
  BY <1>1, <1>2, LenProperties
<1> QED
  BY <1>3 DEF r, ts

-----------------------------------------------------------------------------
(* What the tasks see.  No task of the implicit schemes commutes, so that a *)
(* running task sees in its buffers exactly what the tasks submitted before *)
(* it put there: what is left is about the queue, task by task.             *)

\* StepOf and Before, in a queue q.
Opens(t, e) == t.cl = "MatVectSkyline" /\ t.buf[2] = rhs_handle(e)
StepIn(q, i, e) == Cardinality({j \in 1..i : Opens(q[j], e)})
Held(q, i, h) ==
  {j \in 1..(i - 1) : Writes(q[j], h) /\ \A l \in (j + 1)..(i - 1) : ~ Sets(q[l], h)}

\* When the program reaches task i, u has the state of its step s.
StateIs(q, i, u, s) ==
  IF s = 0 THEN Held(q, i, sol_handle(u)) = {}
  ELSE \E j \in 1..(i - 1) : /\ Held(q, i, sol_handle(u)) = {j}
                             /\ q[j].cl = "SolveSkyline" /\ StepIn(q, j, u) = s

\* The right-hand side of e is then made of the product, the sources and the fluxes
\* of step n, in these numbers.
OfKind(q, R, kinds) == {j \in R : q[j].cl \in kinds}
FluxKind == {"InterfaceBoundaryFlux", "InterfaceExplicitFlux"}
RhsIs(q, i, e, n, sources, fluxes) ==
  /\ \A j \in Held(q, i, rhs_handle(e)) : StepIn(q, j, e) = n
  /\ Cardinality(OfKind(q, Held(q, i, rhs_handle(e)), {"MatVectSkyline"})) = 1
  /\ Cardinality(OfKind(q, Held(q, i, rhs_handle(e)), {"SourceLocalAssembly"})) = sources
  /\ Cardinality(OfKind(q, Held(q, i, rhs_handle(e)), FluxKind)) = fluxes

\* A longer queue keeps the steps of its prefix,
LEMMA StepKept ==
  ASSUME NEW q, NEW r, Prefix(q, r), NEW i \in Nat, Len(q) \in Nat, i <= Len(q), NEW e
  PROVE  StepIn(r, i, e) = StepIn(q, i, e)
<1>1. \A j \in 1..i : r[j] = q[j]
  BY DEF Prefix
<1>2. {j \in 1..i : Opens(r[j], e)} = {j \in 1..i : Opens(q[j], e)}
  BY <1>1
<1> QED
  BY <1>2 DEF StepIn

\* and what its tasks see.
LEMMA HeldKept ==
  ASSUME NEW q, NEW r, Prefix(q, r), NEW i \in Nat, Len(q) \in Nat, i <= Len(q) + 1, NEW h
  PROVE  Held(r, i, h) = Held(q, i, h)
<1>1. \A j \in 1..(i - 1) : r[j] = q[j]
  BY DEF Prefix
<1>2. \A j \in 1..(i - 1) : \A l \in (j + 1)..(i - 1) : r[l] = q[l]
  BY <1>1
<1> QED
  BY <1>1, <1>2 DEF Held

\* The states,
LEMMA StateKept ==
  ASSUME NEW q, NEW r, Prefix(q, r), NEW i \in Nat, Len(q) \in Nat, i <= Len(q) + 1,
         NEW u, NEW s
  PROVE  StateIs(r, i, u, s) <=> StateIs(q, i, u, s)
<1>1. Held(r, i, sol_handle(u)) = Held(q, i, sol_handle(u))
  BY HeldKept
<1>2. \A j \in 1..(i - 1) : r[j] = q[j] /\ StepIn(r, j, u) = StepIn(q, j, u)
  BY StepKept DEF Prefix
<1> QED
  BY <1>1, <1>2 DEF StateIs

\* and the right-hand sides.
LEMMA RhsKept ==
  ASSUME NEW q, NEW r, Prefix(q, r), NEW i \in Nat, Len(q) \in Nat, i <= Len(q) + 1,
         NEW e, NEW n, NEW a, NEW b
  PROVE  RhsIs(r, i, e, n, a, b) <=> RhsIs(q, i, e, n, a, b)
<1> DEFINE R == Held(q, i, rhs_handle(e))
<1>1. Held(r, i, rhs_handle(e)) = R
  BY HeldKept
<1>2. R \subseteq 1..(i - 1)
  BY DEF Held
<1> HIDE DEF R
<1>3. \A j \in R : r[j] = q[j] /\ StepIn(r, j, e) = StepIn(q, j, e)
  <2>1. \A j \in 1..(i - 1) : r[j] = q[j] /\ StepIn(r, j, e) = StepIn(q, j, e)
    BY StepKept DEF Prefix
  <2> QED
    BY <1>2, <2>1
<1>4. \A kinds : OfKind(r, R, kinds) = OfKind(q, R, kinds)
  BY <1>3 DEF OfKind
<1> QED
  BY <1>1, <1>3, <1>4 DEF RhsIs, R

\* From a task to the next: the steps,
LEMMA StepNext ==
  ASSUME NEW q, NEW i \in Nat \ {0}, NEW e
  PROVE  /\ StepIn(q, i - 1, e) \in Nat
         /\ StepIn(q, i, e) = StepIn(q, i - 1, e) + (IF Opens(q[i], e) THEN 1 ELSE 0)
<1> DEFINE S == {j \in 1..(i - 1) : Opens(q[j], e)}  T == {j \in 1..i : Opens(q[j], e)}
<1>1. IsFiniteSet(1..(i - 1))
  BY FS_Interval
<1>2. IsFiniteSet(S) /\ Cardinality(S) \in Nat /\ i \notin S
  BY <1>1, FS_Subset, FS_CardinalityType
<1>3. T = IF Opens(q[i], e) THEN S \cup {i} ELSE S
  <2>1. \A j : j \in 1..i <=> j \in 1..(i - 1) \/ j = i
    OBVIOUS
  <2> QED
    BY <2>1
<1> HIDE DEF S, T
<1>4. Cardinality(T) = Cardinality(S) + (IF Opens(q[i], e) THEN 1 ELSE 0)
  BY <1>2, <1>3, FS_AddElement
<1> QED
  BY <1>2, <1>4 DEF StepIn, S, T

\* and what a buffer holds.
LEMMA HeldNext ==
  ASSUME NEW q, NEW i \in Nat \ {0}, NEW h
  PROVE  Held(q, i + 1, h) = IF Sets(q[i], h) THEN {i}
                             ELSE IF Writes(q[i], h) THEN Held(q, i, h) \cup {i}
                             ELSE Held(q, i, h)
<1>1. Sets(q[i], h) => Writes(q[i], h)
  BY SetIsWrite
<1>2. i + 1 - 1 = i /\ \A j : j \in 1..i <=> j \in 1..(i - 1) \/ j = i
  OBVIOUS
<1>3. \A j \in 1..(i - 1) : \A l : l \in (j + 1)..i <=> l \in (j + 1)..(i - 1) \/ l = i
  OBVIOUS
<1>4. (i + 1)..i = {} /\ i \notin 1..(i - 1)
  OBVIOUS
<1>5. ASSUME NEW j \in 1..(i - 1)
      PROVE  j \in Held(q, i + 1, h) <=> j \in Held(q, i, h) /\ ~ Sets(q[i], h)
  BY <1>2, <1>3, <1>5 DEF Held
<1>6. i \in Held(q, i + 1, h) <=> Writes(q[i], h)
  BY <1>2, <1>4 DEF Held
<1>7. \A j \in Held(q, i + 1, h) : j \in 1..(i - 1) \/ j = i
  BY <1>2 DEF Held
<1>8. \A j \in Held(q, i, h) : j \in 1..(i - 1)
  BY DEF Held
<1> DEFINE H == Held(q, i + 1, h)  G == Held(q, i, h)
<1> HIDE DEF H, G
<1>9. \A j : j \in H <=> (j \in G /\ ~ Sets(q[i], h)) \/ (j = i /\ Writes(q[i], h))
  BY <1>5, <1>6, <1>7, <1>8 DEF H, G
<1>10. H = IF Sets(q[i], h) THEN {i} ELSE IF Writes(q[i], h) THEN G \cup {i} ELSE G
  BY <1>1, <1>9
<1> QED
  BY <1>10 DEF H, G

\* From a task to a later one: the steps of an element stay while no product opens one,
LEMMA StepOver ==
  ASSUME NEW q, NEW e, NEW i \in Nat, NEW j \in Nat, i <= j,
         \A l \in (i + 1)..j : ~ Opens(q[l], e)
  PROVE  StepIn(q, j, e) = StepIn(q, i, e)
<1>1. \A l : l \in 1..j <=> l \in 1..i \/ l \in (i + 1)..j
  OBVIOUS
<1>2. {l \in 1..j : Opens(q[l], e)} = {l \in 1..i : Opens(q[l], e)}
  BY <1>1
<1> QED
  BY <1>2 DEF StepIn

\* a buffer holds what it held while no task writes it,
LEMMA HeldOver ==
  ASSUME NEW q, NEW h, NEW i \in Nat \ {0}, NEW j \in Nat, i <= j,
         \A l \in i..(j - 1) : ~ Writes(q[l], h)
  PROVE  Held(q, j, h) = Held(q, i, h)
<1>1. \A l : l \in 1..(j - 1) <=> l \in 1..(i - 1) \/ l \in i..(j - 1)
  OBVIOUS
<1>2. ASSUME NEW x \in 1..(i - 1)
      PROVE  x \in Held(q, j, h) <=> x \in Held(q, i, h)
  <2>1. \A l : l \in (x + 1)..(j - 1) <=> l \in (x + 1)..(i - 1) \/ l \in i..(j - 1)
    OBVIOUS
  <2>2. \A l \in i..(j - 1) : ~ Sets(q[l], h)
    BY SetIsWrite
  <2> QED
    BY <1>1, <2>1, <2>2 DEF Held
<1>3. \A x : x \in Held(q, j, h) \/ x \in Held(q, i, h) => x \in 1..(i - 1)
  BY <1>1 DEF Held
<1> QED
  BY <1>2, <1>3

\* and since a task that set it, what that one and those that added to it put there.
LEMMA HeldSince ==
  ASSUME NEW q, NEW h, NEW i \in Nat \ {0}, NEW j \in Nat, i < j, Sets(q[i], h),
         \A l \in (i + 1)..(j - 1) : ~ Sets(q[l], h)
  PROVE  Held(q, j, h) = {i} \cup {l \in (i + 1)..(j - 1) : Writes(q[l], h)}
<1>1. \A l : l \in 1..(j - 1) <=> l \in 1..(i - 1) \/ l = i \/ l \in (i + 1)..(j - 1)
  OBVIOUS
<1>2. \A x \in 1..(i - 1) : i \in (x + 1)..(j - 1)
  OBVIOUS
<1>3. \A x \in (i + 1)..(j - 1) : \A l \in (x + 1)..(j - 1) : l \in (i + 1)..(j - 1)
  OBVIOUS
<1>4. Writes(q[i], h)
  BY SetIsWrite
<1>5. \A x : x \in Held(q, j, h) <=> x = i \/ (x \in (i + 1)..(j - 1) /\ Writes(q[x], h))
  BY <1>1, <1>2, <1>3, <1>4 DEF Held
<1> QED
  BY <1>5

\* An element keeps its state until it is written.
LEMMA StateOver ==
  ASSUME NEW q, NEW u, NEW s, NEW i \in Nat \ {0}, NEW j \in Nat, i <= j,
         \A l \in i..(j - 1) : ~ Writes(q[l], sol_handle(u)), StateIs(q, i, u, s)
  PROVE  StateIs(q, j, u, s)
<1>1. Held(q, j, sol_handle(u)) = Held(q, i, sol_handle(u))
  BY HeldOver
<1>2. \A l \in 1..(i - 1) : l \in 1..(j - 1)
  OBVIOUS
<1> QED
  BY <1>1, <1>2 DEF StateIs

-----------------------------------------------------------------------------
(* The tasks, with what they write.                                        *)

MatVectTask(x) == {t \in Task : t.cl = "MatVectSkyline" /\ t.buf = << sol_handle(x), rhs_handle(x) >>}
SourceTask(x)  == {t \in Task : t.cl = "SourceLocalAssembly" /\ t.buf = << rhs_handle(x) >>}
RhsFluxTask(x)    == {t \in Task : \/ t.cl = "InterfaceBoundaryFlux" /\ t.buf = << rhs_handle(x) >>
                                \/ /\ t.cl = "InterfaceExplicitFlux"
                                   /\ \E f \in Face : \/ t.buf = << wL_handle(f), rhs_handle(x) >>
                                                      \/ t.buf = << wR_handle(f), rhs_handle(x) >>}
ExtractTask(w, x) == {t \in Task : t.cl = "ExtractInterface" /\ t.buf = << w, sol_handle(x) >>}

\* The handles of faces.
FaceHandle == {wL_handle(f) : f \in Face} \cup {wR_handle(f) : f \in Face}

\* Each kind writes one buffer, and says whether it sets it or adds to it.
LEMMA ImplicitTasksWrite ==
  ASSUME NEW x, NEW h
  PROVE  /\ \A t \in MatVectTask(x) : /\ Writes(t, h) <=> h = rhs_handle(x)
                                      /\ Sets(t, h) <=> h = rhs_handle(x)
         /\ \A t \in SourceTask(x) \cup RhsFluxTask(x) : /\ Writes(t, h) <=> h = rhs_handle(x)
                                                      /\ ~ Sets(t, h)
         /\ \A w : \A t \in ExtractTask(w, x) : /\ Writes(t, h) <=> h = w
                                                /\ Sets(t, h) <=> h = w
         /\ \A t \in SolveTask(x) : /\ Writes(t, h) <=> h = sol_handle(x)
                                    /\ Sets(t, h) <=> h = sol_handle(x)
<1> USE OneOrMoreBuffers, ImplicitCodelets DEF Writes, Sets
<1>1. \A t \in MatVectTask(x) : (Writes(t, h) <=> h = rhs_handle(x)) /\ (Sets(t, h) <=> h = rhs_handle(x))
  BY DEF MatVectTask
<1>2. \A t \in SourceTask(x) : (Writes(t, h) <=> h = rhs_handle(x)) /\ ~ Sets(t, h)
  BY DEF SourceTask
<1>3. ASSUME NEW t \in RhsFluxTask(x)
      PROVE  (Writes(t, h) <=> h = rhs_handle(x)) /\ ~ Sets(t, h)
  <2>1. CASE t.cl = "InterfaceBoundaryFlux"
    BY <2>1 DEF RhsFluxTask
  <2>2. CASE t.cl = "InterfaceExplicitFlux"
    BY <2>2 DEF RhsFluxTask
  <2> QED
    BY <2>1, <2>2 DEF RhsFluxTask
<1>4. \A w : \A t \in ExtractTask(w, x) : (Writes(t, h) <=> h = w) /\ (Sets(t, h) <=> h = w)
  BY DEF ExtractTask
<1>5. \A t \in SolveTask(x) : (Writes(t, h) <=> h = sol_handle(x)) /\ (Sets(t, h) <=> h = sol_handle(x))
  BY DEF SolveTask
<1> QED
  BY <1>1, <1>2, <1>3, <1>4, <1>5

\* The tasks of a turn over the elements: the product, the source, the solve.
LEMMA ElementTurns ==
  ASSUME HasSolver, NEW e \in Elem, NEW t \in Int
  PROVE  /\ \E x \in MatVectTask(e) : MatVect_SPU(e) = << x >>
         /\ HasSource => \E x \in SourceTask(e) : SourceLocalAssembly_SPU(e, t) = << x >>
         /\ ~ HasSource => SourceLocalAssembly_SPU(e, t) = << >>
         /\ \E x \in SolveTask(e) : SolveLinearSolver(e) = << x >>
<1>1. /\ MatVect_SPU(e) \in Seq(Task) /\ SolveLinearSolver(e) \in Seq(Task)
      /\ SourceLocalAssembly_SPU(e, t) \in Seq(Task)
  BY ImplicitTasks
<1>2. \E x \in MatVectTask(e) : MatVect_SPU(e) = << x >>
  BY <1>1, OneInSequence DEF MatVect_SPU, MatVectTask
<1>3. HasSource => \E x \in SourceTask(e) : SourceLocalAssembly_SPU(e, t) = << x >>
  BY <1>1, OneInSequence DEF SourceLocalAssembly_SPU, SourceTask
<1>4. ~ HasSource => SourceLocalAssembly_SPU(e, t) = << >>
  BY DEF SourceLocalAssembly_SPU
<1>5. \E x \in SolveTask(e) : SolveLinearSolver(e) = << x >>
  BY <1>1, OneInSequence DEF SolveLinearSolver, SolveTask
<1> QED
  BY <1>2, <1>3, <1>4, <1>5

\* From a task to the next, an element keeps its state or takes that of a solve;
LEMMA StateNext ==
  ASSUME NEW q, NEW i \in Nat \ {0}, NEW u, NEW s
  PROVE  /\ ~ Writes(q[i], sol_handle(u)) /\ StateIs(q, i, u, s) => StateIs(q, i + 1, u, s)
         /\ (/\ Sets(q[i], sol_handle(u)) /\ q[i].cl = "SolveSkyline"
             /\ StepIn(q, i, u) = s /\ s # 0)
            => StateIs(q, i + 1, u, s)
<1>1. i + 1 - 1 = i /\ i \in 1..i /\ \A j \in 1..(i - 1) : j \in 1..i
  OBVIOUS
<1>2. ASSUME ~ Writes(q[i], sol_handle(u)), StateIs(q, i, u, s)
      PROVE  StateIs(q, i + 1, u, s)
  <2>1. Held(q, i + 1, sol_handle(u)) = Held(q, i, sol_handle(u))
    BY <1>2, HeldNext, SetIsWrite
  <2> QED
    BY <1>1, <1>2, <2>1 DEF StateIs
<1>3. ASSUME Sets(q[i], sol_handle(u)), q[i].cl = "SolveSkyline", StepIn(q, i, u) = s, s # 0
      PROVE  StateIs(q, i + 1, u, s)
  <2>1. Held(q, i + 1, sol_handle(u)) = {i}
    BY <1>3, HeldNext
  <2> QED
    BY <1>1, <1>3, <2>1 DEF StateIs
<1> QED
  BY <1>2, <1>3

\* a right-hand side stays as it is,
LEMMA RhsSame ==
  ASSUME NEW q, NEW i \in Nat \ {0}, NEW e, NEW n, NEW a, NEW b,
         ~ Writes(q[i], rhs_handle(e)), RhsIs(q, i, e, n, a, b)
  PROVE  RhsIs(q, i + 1, e, n, a, b)
<1>1. Held(q, i + 1, rhs_handle(e)) = Held(q, i, rhs_handle(e))
  BY HeldNext, SetIsWrite
<1> QED
  BY <1>1 DEF RhsIs

\* is opened by a product,
LEMMA RhsOpened ==
  ASSUME NEW q, NEW i \in Nat \ {0}, NEW e, NEW n,
         q[i] \in MatVectTask(e), StepIn(q, i, e) = n
  PROVE  RhsIs(q, i + 1, e, n, 0, 0)
<1>1. Held(q, i + 1, rhs_handle(e)) = {i} /\ q[i].cl = "MatVectSkyline"
  <2>1. Sets(q[i], rhs_handle(e))
    BY ImplicitTasksWrite
  <2>2. Held(q, i + 1, rhs_handle(e)) = {i}
    BY <2>1, HeldNext
  <2> QED
    BY <2>2 DEF MatVectTask
<1>2. /\ OfKind(q, {i}, {"MatVectSkyline"}) = {i}
      /\ OfKind(q, {i}, {"SourceLocalAssembly"}) = {}
      /\ OfKind(q, {i}, FluxKind) = {}
  BY <1>1 DEF OfKind, FluxKind
<1>3. Cardinality({}) = 0 /\ Cardinality({i}) = 1
  BY FS_EmptySet, FS_Singleton
<1> QED
  BY <1>1, <1>2, <1>3 DEF RhsIs

\* or is added to by a source or by a flux.
LEMMA RhsGrows ==
  ASSUME NEW q, NEW i \in Nat \ {0}, NEW e, NEW n, NEW a \in Nat, NEW b \in Nat,
         q[i] \in SourceTask(e) \cup RhsFluxTask(e), StepIn(q, i, e) = n, RhsIs(q, i, e, n, a, b)
  PROVE  /\ q[i] \in SourceTask(e) => RhsIs(q, i + 1, e, n, a + 1, b)
         /\ q[i] \in RhsFluxTask(e) => RhsIs(q, i + 1, e, n, a, b + 1)
<1> DEFINE R == Held(q, i, rhs_handle(e))  S == Held(q, i + 1, rhs_handle(e))
<1>1. S = R \cup {i}
  BY HeldNext, ImplicitTasksWrite
<1>2. R \subseteq 1..(i - 1) /\ i \notin 1..(i - 1) /\ IsFiniteSet(1..(i - 1))
  BY FS_Interval DEF Held
<1> HIDE DEF R, S
<1>3. \A kinds : IsFiniteSet(OfKind(q, R, kinds)) /\ i \notin OfKind(q, R, kinds)
  <2>1. IsFiniteSet(R)
    BY <1>2, FS_Subset
  <2>2. \A kinds : OfKind(q, R, kinds) \in SUBSET R
    BY DEF OfKind
  <2> QED
    BY <1>2, <2>1, <2>2, FS_Subset
<1>4. \A kinds : OfKind(q, S, kinds) = IF q[i].cl \in kinds THEN OfKind(q, R, kinds) \cup {i}
                                       ELSE OfKind(q, R, kinds)
  BY <1>1 DEF OfKind
<1>5. \A kinds : q[i].cl \in kinds =>
        Cardinality(OfKind(q, S, kinds)) = Cardinality(OfKind(q, R, kinds)) + 1
  BY <1>3, <1>4, FS_AddElement
<1>6. \A kinds : q[i].cl \notin kinds =>
        Cardinality(OfKind(q, S, kinds)) = Cardinality(OfKind(q, R, kinds))
  BY <1>4
<1>7. \A j \in S : StepIn(q, j, e) = n
  BY <1>1 DEF RhsIs, R
<1>8. /\ Cardinality(OfKind(q, R, {"MatVectSkyline"})) = 1
      /\ Cardinality(OfKind(q, R, {"SourceLocalAssembly"})) = a
      /\ Cardinality(OfKind(q, R, FluxKind)) = b
  BY DEF RhsIs, R
<1>9. ASSUME q[i] \in SourceTask(e)
      PROVE  RhsIs(q, i + 1, e, n, a + 1, b)
  <2>1. q[i].cl \in {"SourceLocalAssembly"} /\ q[i].cl \notin {"MatVectSkyline"} /\ q[i].cl \notin FluxKind
    BY <1>9 DEF SourceTask, FluxKind
  <2>2. /\ Cardinality(OfKind(q, S, {"MatVectSkyline"})) = 1
        /\ Cardinality(OfKind(q, S, {"SourceLocalAssembly"})) = a + 1
        /\ Cardinality(OfKind(q, S, FluxKind)) = b
    BY <1>5, <1>6, <1>8, <2>1
  <2> QED
    BY <1>7, <2>2 DEF RhsIs, S
<1>10. ASSUME q[i] \in RhsFluxTask(e)
       PROVE  RhsIs(q, i + 1, e, n, a, b + 1)
  <2>1. q[i].cl \in FluxKind /\ q[i].cl \notin {"MatVectSkyline"} /\ q[i].cl \notin {"SourceLocalAssembly"}
    BY <1>10 DEF RhsFluxTask, FluxKind
  <2>2. /\ Cardinality(OfKind(q, S, {"MatVectSkyline"})) = 1
        /\ Cardinality(OfKind(q, S, {"SourceLocalAssembly"})) = a
        /\ Cardinality(OfKind(q, S, FluxKind)) = b + 1
    BY <1>5, <1>6, <1>8, <2>1
  <2> QED
    BY <1>7, <2>2 DEF RhsIs, S
<1> QED
  BY <1>9, <1>10

-----------------------------------------------------------------------------
(* What a task of the queue must see.                                      *)

\* The element a flux enters, and its neighbour across the face.
Into(t) == t.buf[2][2]
Across(t) == LET f == t.buf[1][2] IN IF fL[f] = Into(t) THEN fR[f] ELSE fL[f]

\* An extraction copies the state its element had `lag` steps before; a flux reads
\* what its neighbour extracted in the same step; a solve finds its right-hand side
\* complete, with so many fluxes.
ExtractSees(q, i, lag) ==
  q[i].cl = "ExtractInterface" => StateIs(q, i, q[i].buf[2][2], StepIn(q, i, q[i].buf[2][2]) - lag)
FluxSees(q, i) ==
  q[i].cl = "InterfaceExplicitFlux" =>
    \E j \in 1..(i - 1) :
      /\ Held(q, i, q[i].buf[1]) = {j}
      /\ q[j].cl = "ExtractInterface" /\ q[j].buf[2] = sol_handle(Across(q[i]))
      /\ StepIn(q, j, Across(q[i])) = StepIn(q, i, Into(q[i]))
SolveSees(q, i, fluxes) ==
  q[i].cl = "SolveSkyline" =>
    RhsIs(q, i, q[i].buf[1][2], StepIn(q, i, q[i].buf[1][2]), IF HasSource THEN 1 ELSE 0, fluxes)

\* Longer queues keep that too.
LEMMA SightKept ==
  ASSUME NEW q, NEW r, Prefix(q, r), Len(q) \in Nat, NEW i \in 1..Len(q), NEW lag, NEW fluxes
  PROVE  /\ ExtractSees(q, i, lag) => ExtractSees(r, i, lag)
         /\ FluxSees(q, i) => FluxSees(r, i)
         /\ SolveSees(q, i, fluxes) => SolveSees(r, i, fluxes)
<1>1. r[i] = q[i] /\ i \in Nat /\ i <= Len(q) /\ i <= Len(q) + 1
  BY DEF Prefix
<1>2. \A e : StepIn(r, i, e) = StepIn(q, i, e)
  BY <1>1, StepKept
<1>3. ASSUME ExtractSees(q, i, lag) PROVE ExtractSees(r, i, lag)
  <2>1. \A u, s : StateIs(r, i, u, s) <=> StateIs(q, i, u, s)
    BY <1>1, StateKept
  <2> QED
    BY <1>1, <1>2, <1>3, <2>1 DEF ExtractSees
<1>4. ASSUME FluxSees(q, i) PROVE FluxSees(r, i)
  <2>1. \A h : Held(r, i, h) = Held(q, i, h)
    BY <1>1, HeldKept
  <2>2. \A j \in 1..(i - 1) : r[j] = q[j] /\ \A e : StepIn(r, j, e) = StepIn(q, j, e)
    BY <1>1, StepKept DEF Prefix
  <2> QED
    BY <1>1, <1>2, <1>4, <2>1, <2>2 DEF FluxSees
<1>5. ASSUME SolveSees(q, i, fluxes) PROVE SolveSees(r, i, fluxes)
  <2>1. \A e, n, a, b : RhsIs(r, i, e, n, a, b) <=> RhsIs(q, i, e, n, a, b)
    BY <1>1, RhsKept
  <2> QED
    BY <1>1, <1>2, <1>5, <2>1 DEF SolveSees
<1> QED
  BY <1>3, <1>4, <1>5

\* The tasks of the implicit schemes never commute,
LEMMA NoTaskCommutes ==
  ASSUME NEW t \in ThetaTask, NEW h
  PROVE  ~ Commutes(t, h)
<1> USE OneOrMoreBuffers, ImplicitCodelets DEF Commutes
<1>1. CASE \E e \in Elem : t \in SolveTask(e)
  BY <1>1 DEF SolveTask
<1>2. CASE t \in RhsTask /\ t.cl = "MatVectSkyline"
  BY <1>2 DEF RhsTask, IsRhsTask
<1>3. CASE t \in RhsTask /\ t.cl \in {"SourceLocalAssembly", "InterfaceBoundaryFlux"}
  BY <1>3 DEF RhsTask, IsRhsTask
<1>4. CASE t \in RhsTask /\ t.cl = "ExtractInterface"
  BY <1>4 DEF RhsTask, IsRhsTask
<1>5. CASE t \in RhsTask /\ t.cl = "InterfaceExplicitFlux"
  BY <1>5 DEF RhsTask, IsRhsTask
<1> QED
  BY <1>1, <1>2, <1>3, <1>4, <1>5 DEF ThetaTask, RhsTask, IsRhsTask

\* so that a running task sees exactly what the queue tells.
LEMMA ViewIsHeld ==
  ASSUME RTInv, queue \in Seq(ThetaTask), NEW i \in Running, NEW h, Accesses(queue[i], h),
         h \in Handle
  PROVE  view[i][h] = Held(queue, i, h)
<1>1. /\ \A j \in DOMAIN queue : queue[j] \in ThetaTask
      /\ i \in DOMAIN queue /\ i \in Nat
      /\ h \in DOMAIN view[i]
      /\ \A j \in view[i][h] : j \in Nat
      /\ SequentialView
  <2>1. /\ i \in DOMAIN queue /\ DOMAIN queue = 1..Len(queue) /\ Len(queue) \in Nat
        /\ done \subseteq DOMAIN queue
    BY Submitted DEF RTInv, RTTypeOK
  <2>2. view[i] \in [{g \in Handle : Accesses(queue[i], g)} -> SUBSET done]
    BY DEF RTInv, RTTypeOK
  <2> QED
    BY <2>1, <2>2, ElementOfSequence, InvSequentialView
<1>2. \A j \in Nat : ~ SameGroup(j, i, h) /\ ~ SameGroup(i, j, h)
  <2>1. ~ Commutes(queue[i], h)
    BY <1>1, NoTaskCommutes
  <2> QED
    BY <1>1, <2>1 DEF SameGroup
<1>3. \A j \in Before(i, h) : j \in Nat
  BY <1>1 DEF Before
<1>4. view[i][h] = Before(i, h)
  BY <1>1, <1>2, <1>3 DEF SequentialView
<1> QED
  BY <1>4 DEF Before, Held

\* An element whose right-hand side is open when the program reaches task i.
ElemAt(q, i, e, n, s, a, b) ==
  StepIn(q, i - 1, e) = n /\ StateIs(q, i, e, s) /\ RhsIs(q, i, e, n, a, b)

\* What each task makes of it.
LEMMA ElemKept ==
  ASSUME NEW q, NEW r, Prefix(q, r), Len(q) \in Nat, NEW e, NEW n, NEW s, NEW a, NEW b
  PROVE  ElemAt(r, Len(q) + 1, e, n, s, a, b) <=> ElemAt(q, Len(q) + 1, e, n, s, a, b)
<1> DEFINE m == Len(q)  i == m + 1
<1>1. m \in Nat /\ i \in Nat /\ i - 1 = m /\ m <= Len(q) /\ i <= Len(q) + 1
  OBVIOUS
<1> HIDE DEF m, i
<1>2. StepIn(r, m, e) = StepIn(q, m, e)
  BY <1>1, StepKept
<1>3. StateIs(r, i, e, s) <=> StateIs(q, i, e, s)
  BY <1>1, StateKept
<1>4. RhsIs(r, i, e, n, a, b) <=> RhsIs(q, i, e, n, a, b)
  BY <1>1, RhsKept
<1> QED
  BY <1>1, <1>2, <1>3, <1>4 DEF ElemAt, i, m

\* The handles of faces are none of elements.
LEMMA FaceHandles ==
  \A w \in FaceHandle : \A e : w # sol_handle(e) /\ w # rhs_handle(e)
BY ImplicitHandles DEF FaceHandle

\* a task that is no product opens no step;
LEMMA SameStep ==
  ASSUME NEW q, NEW i \in Nat \ {0}, NEW e, NEW n, NEW s, NEW a, NEW b,
         ElemAt(q, i, e, n, s, a, b), q[i].cl # "MatVectSkyline"
  PROVE  /\ StepIn(q, i, e) = n /\ StepIn(q, i + 1 - 1, e) = n
         /\ StateIs(q, i, e, s) /\ RhsIs(q, i, e, n, a, b)
<1>1. ~ Opens(q[i], e) => StepIn(q, i, e) = StepIn(q, i - 1, e)
  BY StepNext
<1>2. StepIn(q, i, e) = n
  BY <1>1 DEF Opens, ElemAt
<1>3. i + 1 - 1 = i
  OBVIOUS
<1> QED
  BY <1>2, <1>3 DEF ElemAt

\* an extraction changes nothing;
LEMMA ElemExtract ==
  ASSUME NEW q, NEW i \in Nat \ {0}, NEW e, NEW n, NEW s, NEW a, NEW b,
         ElemAt(q, i, e, n, s, a, b),
         NEW x, NEW w \in FaceHandle, q[i] \in ExtractTask(w, x)
  PROVE  ElemAt(q, i + 1, e, n, s, a, b)
<1>1. ~ Writes(q[i], sol_handle(e)) /\ ~ Writes(q[i], rhs_handle(e))
  BY ImplicitTasksWrite, FaceHandles
<1>2. q[i].cl # "MatVectSkyline"
  BY DEF ExtractTask
<1>3. StepIn(q, i + 1 - 1, e) = n /\ StateIs(q, i, e, s) /\ RhsIs(q, i, e, n, a, b)
  BY <1>2, SameStep
<1>4. StateIs(q, i + 1, e, s) /\ RhsIs(q, i + 1, e, n, a, b)
  BY <1>1, <1>3, StateNext, RhsSame
<1> QED
  BY <1>3, <1>4 DEF ElemAt

\* a source or a flux adds to the right-hand side of its element, not to the others;
LEMMA ElemAdd ==
  ASSUME NEW q, NEW i \in Nat \ {0}, NEW e, NEW n, NEW s, NEW a \in Nat, NEW b \in Nat,
         ElemAt(q, i, e, n, s, a, b), NEW x, q[i] \in SourceTask(x) \cup RhsFluxTask(x)
  PROVE  /\ e # x => ElemAt(q, i + 1, e, n, s, a, b)
         /\ e = x /\ q[i] \in SourceTask(x) => ElemAt(q, i + 1, e, n, s, a + 1, b)
         /\ e = x /\ q[i] \in RhsFluxTask(x) => ElemAt(q, i + 1, e, n, s, a, b + 1)
<1>1. ~ Writes(q[i], sol_handle(e)) /\ (e # x => ~ Writes(q[i], rhs_handle(e)))
  BY ImplicitTasksWrite, ImplicitHandles, SameElement
<1>2. q[i].cl # "MatVectSkyline"
  BY DEF SourceTask, RhsFluxTask
<1>3. /\ StepIn(q, i, e) = n /\ StepIn(q, i + 1 - 1, e) = n
      /\ StateIs(q, i, e, s) /\ RhsIs(q, i, e, n, a, b)
  BY <1>2, SameStep
<1>4. StateIs(q, i + 1, e, s)
  BY <1>1, <1>3, StateNext
<1>5. ASSUME e # x PROVE ElemAt(q, i + 1, e, n, s, a, b)
  <2>1. RhsIs(q, i + 1, e, n, a, b)
    BY <1>1, <1>3, <1>5, RhsSame
  <2> QED
    BY <1>3, <1>4, <2>1 DEF ElemAt
<1>6. ASSUME e = x PROVE /\ q[i] \in SourceTask(x) => RhsIs(q, i + 1, e, n, a + 1, b)
                         /\ q[i] \in RhsFluxTask(x) => RhsIs(q, i + 1, e, n, a, b + 1)
  BY <1>3, <1>6, RhsGrows
<1> QED
  BY <1>3, <1>4, <1>5, <1>6 DEF ElemAt

\* in one formula each: the sources,
LEMMA ElemSource ==
  ASSUME NEW q, NEW i \in Nat \ {0}, NEW e, NEW n, NEW s, NEW a \in Nat, NEW b \in Nat,
         ElemAt(q, i, e, n, s, a, b), NEW x, q[i] \in SourceTask(x)
  PROVE  ElemAt(q, i + 1, e, n, s, a + (IF e = x THEN 1 ELSE 0), b)
<1>1. CASE e = x
  <2>1. ElemAt(q, i + 1, e, n, s, a + 1, b)
    BY <1>1, ElemAdd
  <2> QED
    BY <1>1, <2>1
<1>2. CASE e # x
  <2>1. ElemAt(q, i + 1, e, n, s, a, b) /\ a + 0 = a
    BY <1>2, ElemAdd
  <2> QED
    BY <1>2, <2>1
<1> QED
  BY <1>1, <1>2

\* the fluxes;
LEMMA ElemFlux ==
  ASSUME NEW q, NEW i \in Nat \ {0}, NEW e, NEW n, NEW s, NEW a \in Nat, NEW b \in Nat,
         ElemAt(q, i, e, n, s, a, b), NEW x, q[i] \in RhsFluxTask(x)
  PROVE  ElemAt(q, i + 1, e, n, s, a, b + (IF e = x THEN 1 ELSE 0))
<1>1. CASE e = x
  <2>1. ElemAt(q, i + 1, e, n, s, a, b + 1)
    BY <1>1, ElemAdd
  <2> QED
    BY <1>1, <2>1
<1>2. CASE e # x
  <2>1. ElemAt(q, i + 1, e, n, s, a, b) /\ b + 0 = b
    BY <1>2, ElemAdd
  <2> QED
    BY <1>2, <2>1
<1> QED
  BY <1>1, <1>2

\* a solve gives its element the state of the step.
LEMMA ElemSolve ==
  ASSUME NEW q, NEW i \in Nat \ {0}, NEW e, NEW n \in Nat \ {0}, NEW s, NEW a, NEW b,
         ElemAt(q, i, e, n, s, a, b), NEW x, q[i] \in SolveTask(x)
  PROVE  ElemAt(q, i + 1, e, n, IF e = x THEN n ELSE s, a, b)
<1>1. /\ ~ Writes(q[i], rhs_handle(e))
      /\ e # x => ~ Writes(q[i], sol_handle(e))
      /\ e = x => Sets(q[i], sol_handle(e))
  <2>1. \A h : /\ Writes(q[i], h) <=> h = sol_handle(x)
               /\ Sets(q[i], h) <=> h = sol_handle(x)
    BY ImplicitTasksWrite
  <2>2. sol_handle(e) = sol_handle(x) => e = x
    BY SameElement
  <2>3. rhs_handle(e) # sol_handle(x)
    BY ImplicitHandles
  <2> QED
    BY <2>1, <2>2, <2>3
<1>2. q[i].cl = "SolveSkyline"
  BY DEF SolveTask
<1>3. /\ StepIn(q, i, e) = n /\ StepIn(q, i + 1 - 1, e) = n
      /\ StateIs(q, i, e, s) /\ RhsIs(q, i, e, n, a, b)
  BY <1>2, SameStep
<1>4. StateIs(q, i + 1, e, IF e = x THEN n ELSE s)
  BY <1>1, <1>2, <1>3, StateNext
<1>5. RhsIs(q, i + 1, e, n, a, b)
  BY <1>1, <1>3, RhsSame
<1> QED
  BY <1>3, <1>4, <1>5 DEF ElemAt

\* A product opens the right-hand side of its element and leaves the others.
LEMMA ProductNext ==
  ASSUME NEW q, NEW i \in Nat \ {0}, NEW x, q[i] \in MatVectTask(x), NEW e, NEW n \in Nat, NEW s,
         StateIs(q, i, e, s)
  PROVE  /\ StateIs(q, i + 1, e, s)
         /\ e # x => (RhsIs(q, i, e, n, 0, 0) => RhsIs(q, i + 1, e, n, 0, 0))
         /\ e = x => /\ StepIn(q, i, e) = StepIn(q, i - 1, e) + 1
                     /\ RhsIs(q, i + 1, e, StepIn(q, i, e), 0, 0)
<1>1. Opens(q[i], e) <=> e = x
  BY SameElement DEF Opens, MatVectTask
<1>2. /\ ~ Writes(q[i], sol_handle(e))
      /\ e # x => ~ Writes(q[i], rhs_handle(e))
  <2>1. \A h : Writes(q[i], h) <=> h = rhs_handle(x)
    BY ImplicitTasksWrite
  <2>2. rhs_handle(e) = rhs_handle(x) => e = x
    BY SameElement
  <2>3. sol_handle(e) # rhs_handle(x)
    BY ImplicitHandles
  <2> QED
    BY <2>1, <2>2, <2>3
<1>3. StateIs(q, i + 1, e, s)
  BY <1>2, StateNext
<1>4. StepIn(q, i - 1, e) \in Nat
      /\ StepIn(q, i, e) = StepIn(q, i - 1, e) + (IF e = x THEN 1 ELSE 0)
  BY <1>1, StepNext
<1>5. e # x => (RhsIs(q, i, e, n, 0, 0) => RhsIs(q, i + 1, e, n, 0, 0))
  BY <1>2, RhsSame
<1>6. e = x => RhsIs(q, i + 1, e, StepIn(q, i, e), 0, 0)
  BY RhsOpened
<1> QED
  BY <1>3, <1>4, <1>5, <1>6

\* A running task sees in each of its buffers what the queue tells.
LEMMA RunningViews ==
  ASSUME RTInv, queue \in Seq(ThetaTask), NEW i \in Running
  PROVE  /\ i \in DOMAIN queue /\ queue[i] \in ThetaTask
         /\ \A b \in DOMAIN queue[i].buf :
              view[i][queue[i].buf[b]] = Held(queue, i, queue[i].buf[b])
<1>1. i \in DOMAIN queue /\ queue[i] \in ThetaTask
  BY Submitted, ElementOfSequence DEF RTInv
<1>2. queue[i] \in Task
  BY <1>1, ThetaTasks
<1>3. ASSUME NEW b \in DOMAIN queue[i].buf
      PROVE  queue[i].buf[b] \in Handle /\ Accesses(queue[i], queue[i].buf[b])
  <2>1. /\ queue[i].buf \in Seq(Handle) /\ queue[i].cl \in CodeletName
        /\ Len(queue[i].buf) = Len(Codelet[queue[i].cl])
    BY <1>2 DEF Task
  <2>2. queue[i].buf[b] \in Handle
    BY <2>1, ElementOfSequence
  <2>3. Codelet[queue[i].cl] \in Seq(Decl) /\ b \in DOMAIN Codelet[queue[i].cl]
    BY <2>1, CodeletTable, LenProperties
  <2>4. Codelet[queue[i].cl][b].mode \in Mode
    <3>1. Codelet[queue[i].cl][b] \in Decl
      BY <2>3, ElementOfSequence
    <3> QED
      BY <3>1 DEF Decl
  <2> QED
    BY <2>2, <2>4 DEF Accesses, Uses
<1> QED
  BY <1>1, <1>3, ViewIsHeld

\* Extractions, fluxes and solves have two buffers; those of a solve are of one element.
LEMMA BuffersOfTasks ==
  ASSUME NEW t \in ThetaTask
  PROVE  /\ t.cl \in {"ExtractInterface", "InterfaceExplicitFlux", "SolveSkyline"} =>
              1 \in DOMAIN t.buf /\ 2 \in DOMAIN t.buf
         /\ t.cl = "ExtractInterface" => t.buf[2] = sol_handle(t.buf[2][2])
         /\ t.cl = "SolveSkyline" => t.buf[2] = rhs_handle(t.buf[1][2])
<1>1. CASE t.cl = "ExtractInterface"
  <2>1. \E w, e : t.buf = << w, sol_handle(e) >>
    BY <1>1 DEF ThetaTask, RhsTask, IsRhsTask, SolveTask
  <2> QED
    BY <1>1, <2>1 DEF sol_handle
<1>2. CASE t.cl = "InterfaceExplicitFlux"
  <2>1. \E w, e : t.buf = << w, rhs_handle(e) >>
    BY <1>2 DEF ThetaTask, RhsTask, IsRhsTask, SolveTask
  <2> QED
    BY <1>2, <2>1
<1>3. CASE t.cl = "SolveSkyline"
  <2>1. \E e : t.buf = << sol_handle(e), rhs_handle(e) >>
    BY <1>3 DEF ThetaTask, RhsTask, IsRhsTask, SolveTask
  <2> QED
    BY <1>3, <2>1 DEF sol_handle
<1> QED
  BY <1>1, <1>2, <1>3

\* What the scheme shows the tasks of its queue, the runtime shows them when they run: the
\* fluxes,
LEMMA RunningFlux ==
  ASSUME RTInv, queue \in Seq(ThetaTask), NEW i \in Running,
         queue[i].cl = "InterfaceExplicitFlux", FluxSees(queue, i)
  PROVE  \E j \in 1..(i - 1) :
           /\ view[i][queue[i].buf[1]] = {j}
           /\ queue[j].cl = "ExtractInterface"
           /\ queue[j].buf[2] = sol_handle(Across(queue[i]))
           /\ StepIn(queue, j, Across(queue[i])) = StepIn(queue, i, Into(queue[i]))
<1>1. /\ i \in DOMAIN queue
      /\ view[i][queue[i].buf[1]] = Held(queue, i, queue[i].buf[1])
  BY RunningViews, BuffersOfTasks
<1> QED
  BY <1>1 DEF FluxSees

\* the extractions,
StateInView(i, u, s) ==
  IF s = 0 THEN view[i][sol_handle(u)] = {}
  ELSE \E j \in 1..(i - 1) : /\ view[i][sol_handle(u)] = {j}
                             /\ queue[j].cl = "SolveSkyline" /\ StepIn(queue, j, u) = s

LEMMA RunningExtract ==
  ASSUME RTInv, queue \in Seq(ThetaTask), NEW i \in Running, NEW lag,
         queue[i].cl = "ExtractInterface", ExtractSees(queue, i, lag),
         NEW u, u = queue[i].buf[2][2], NEW s, s = StepIn(queue, i, u) - lag
  PROVE  StateInView(i, u, s)
<1>1. view[i][sol_handle(u)] = Held(queue, i, sol_handle(u))
  BY RunningViews, BuffersOfTasks
<1>2. StateIs(queue, i, u, s)
  BY DEF ExtractSees
<1> QED
  BY <1>1, <1>2 DEF StateIs, StateInView

\* the solves.
OfCodelet(R, c) == {j \in R : queue[j].cl = c}
RhsInView(i, e, rhs, fluxes) ==
  /\ \A j \in rhs : StepIn(queue, j, e) = StepIn(queue, i, e)
  /\ Cardinality(OfCodelet(rhs, "MatVectSkyline")) = 1
  /\ Cardinality(OfCodelet(rhs, "SourceLocalAssembly")) = IF HasSource THEN 1 ELSE 0
  /\ Cardinality(OfCodelet(rhs, "InterfaceBoundaryFlux")
                   \cup OfCodelet(rhs, "InterfaceExplicitFlux")) = fluxes

LEMMA RunningSolve ==
  ASSUME RTInv, queue \in Seq(ThetaTask), NEW i \in Running, NEW fluxes,
         queue[i].cl = "SolveSkyline", SolveSees(queue, i, fluxes),
         NEW e, e = queue[i].buf[1][2], NEW rhs, rhs = view[i][rhs_handle(e)]
  PROVE  RhsInView(i, e, rhs, fluxes)
<1>1. rhs = Held(queue, i, rhs_handle(e))
  BY RunningViews, BuffersOfTasks
<1>2. RhsIs(queue, i, e, StepIn(queue, i, e), IF HasSource THEN 1 ELSE 0, fluxes)
  BY DEF SolveSees
<1>3. OfCodelet(rhs, "InterfaceBoundaryFlux") \cup OfCodelet(rhs, "InterfaceExplicitFlux")
        = OfKind(queue, rhs, FluxKind)
  BY DEF OfCodelet, OfKind, FluxKind
<1>4. \A c : OfCodelet(rhs, c) = OfKind(queue, rhs, {c})
  BY DEF OfCodelet, OfKind
<1>5. /\ \A j \in rhs : StepIn(queue, j, e) = StepIn(queue, i, e)
      /\ Cardinality(OfKind(queue, rhs, {"MatVectSkyline"})) = 1
      /\ Cardinality(OfKind(queue, rhs, {"SourceLocalAssembly"})) = IF HasSource THEN 1 ELSE 0
      /\ Cardinality(OfKind(queue, rhs, FluxKind)) = fluxes
  BY <1>1, <1>2 DEF RhsIs
<1> QED
  BY <1>3, <1>4, <1>5 DEF RhsInView
=============================================================================
