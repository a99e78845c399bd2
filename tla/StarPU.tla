------------------------------- MODULE StarPU -------------------------------
(***************************************************************************)
(* The StarPU runtime, as the SCHNAPS sources use it: the host submits     *)
(* tasks in program order with starpu_task_submit; the runtime infers from *)
(* the declared access modes which earlier tasks a task must wait for; any *)
(* worker may run any task that waits for nothing.  Tasks that declare     *)
(* STARPU_COMMUTE on the same buffer are not ordered, and the arbiter      *)
(* SCHNAPS gives every handle (register_data_arbiter) keeps them from      *)
(* running together.                                                       *)
(*                                                                         *)
(* Instead of numbers a buffer holds its provenance: content[h] is the set *)
(* of the tasks whose writes make up what h holds, that is the tasks that  *)
(* wrote it since it was last overwritten whole.  A task takes a view of   *)
(* its buffers when it starts and gives its results back when it finishes, *)
(* so that a write by another task in between would be lost.               *)
(***************************************************************************)
EXTENDS Codelets, FiniteSets

CONSTANTS
  Handle,    \* the registered data handles
  NWorkers   \* the number of workers

ASSUME NWorkersAssumption == NWorkers \in Nat \ {0}

\* A submitted task: its codelet, its handles in the codelet's order, and the
\* number packed into cl_arg with STARPU_VALUE (a weight, a sign or a time).
Task ==
  { t \in [cl : CodeletName, buf : Seq(Handle), arg : Int] :
      /\ Len(t.buf) = Len(Codelet[t.cl])
      /\ \A j, k \in DOMAIN t.buf : t.buf[j] = t.buf[k] => j = k }

VARIABLES
  queue,     \* the tasks submitted so far, in order; a task's id is its index
  done,      \* the ids of the finished tasks
  view,      \* for each running task, the content its buffers had at its start
  content    \* for each handle, the tasks whose writes it holds

rtVars == << queue, done, view, content >>

Running == DOMAIN view

-----------------------------------------------------------------------------
\* What tasks t, u declare and do to a handle h.
Uses(t, h, modes) ==
  \E k \in DOMAIN t.buf : t.buf[k] = h /\ Codelet[t.cl][k].mode \in modes
Does(t, h, effs) ==
  \E k \in DOMAIN t.buf : t.buf[k] = h /\ Codelet[t.cl][k].eff \in effs

Mode == {"R", "W", "RW", "RWC"}
Accesses(t, h) == Uses(t, h, Mode)
Writes(t, h)   == Does(t, h, {"set", "add", "upd"})
Sets(t, h)     == Does(t, h, {"set"})
ReadOnly(t, h) == Uses(t, h, {"R"})
Commutes(t, h) == Uses(t, h, {"RWC"})

\* Two uses of one buffer conflict unless both only read it; conflicting uses
\* are ordered as they were submitted unless both commute.
Conflict(t, u) ==
  \E j \in DOMAIN t.buf, k \in DOMAIN u.buf :
    /\ t.buf[j] = u.buf[k]
    /\ ~ (Codelet[t.cl][j].mode = "R" /\ Codelet[u.cl][k].mode = "R")
Ordered(t, u) ==
  \E j \in DOMAIN t.buf, k \in DOMAIN u.buf :
    /\ t.buf[j] = u.buf[k]
    /\ ~ (Codelet[t.cl][j].mode = "R" /\ Codelet[u.cl][k].mode = "R")
    /\ ~ (Codelet[t.cl][j].mode = "RWC" /\ Codelet[u.cl][k].mode = "RWC")

-----------------------------------------------------------------------------
RTInit ==
  /\ queue = << >>
  /\ done = {}
  /\ view = << >>
  /\ content = [h \in Handle |-> {}]

\* starpu_task_submit of one or several tasks.
Submit(ts) ==
  /\ queue' = queue \o ts
  /\ UNCHANGED << done, view, content >>

Ready(i) ==
  /\ i \in DOMAIN queue \ (done \cup Running)
  /\ \A j \in (1..(i - 1)) \ done : ~ Ordered(queue[j], queue[i])
  /\ \A j \in Running : ~ Conflict(queue[j], queue[i])

\* A worker takes task i and starts its kernel on the buffers as they are.
Start(i) ==
  /\ Cardinality(Running) < NWorkers
  /\ Ready(i)
  /\ view' = [j \in Running \cup {i} |->
                IF j = i
                THEN [h \in {g \in Handle : Accesses(queue[i], g)} |-> content[h]]
                ELSE view[j]]
  /\ UNCHANGED << queue, done, content >>

\* The kernel of task i returns.
Finish(i) ==
  /\ i \in Running
  /\ done' = done \cup {i}
  /\ content' = [h \in Handle |->
                   IF Sets(queue[i], h) THEN {i}
                   ELSE IF Writes(queue[i], h) THEN view[i][h] \cup {i}
                   ELSE content[h]]
  /\ view' = [j \in Running \ {i} |-> view[j]]
  /\ UNCHANGED queue

\* starpu_task_wait_for_all returns.
AllDone == done = DOMAIN queue

\* The runtime under a host program that submits whatever tasks it likes.
SubmitSome ==
  /\ queue' \in Seq(Task)
  /\ DOMAIN queue \subseteq DOMAIN queue'
  /\ \A i \in DOMAIN queue : queue'[i] = queue[i]
  /\ UNCHANGED << done, view, content >>
RTNext == SubmitSome \/ \E i \in DOMAIN queue : Start(i) \/ Finish(i)
RTSpec == RTInit /\ [][RTNext]_rtVars

-----------------------------------------------------------------------------
(* What the host program may rely on.                                      *)

RTTypeOK ==
  /\ queue \in Seq(Task)
  /\ done \subseteq DOMAIN queue
  /\ Running \subseteq DOMAIN queue \ done
  /\ \A i \in Running :
       view[i] \in [{h \in Handle : Accesses(queue[i], h)} -> SUBSET done]
  /\ content \in [Handle -> SUBSET done]

\* No two kernels are ever in a buffer together unless both only read it (by
\* what they do, not by what they declare).
NoDataRace ==
  \A i, j \in Running : i # j =>
    \A h \in Handle : Writes(queue[i], h) => ~ Accesses(queue[j], h)

\* Tasks i and j commute on h with everything submitted between them that uses h.
SameGroup(i, j, h) ==
  \A k \in DOMAIN queue :
    /\ (i <= k /\ k <= j) \/ (j <= k /\ k <= i)
    /\ Accesses(queue[k], h)
    => Commutes(queue[k], h)

\* The tasks whose writes h holds when the program reaches task i, if the
\* tasks are executed one after the other in the order they were submitted.
Before(i, h) ==
  { j \in 1..(i - 1) :
      /\ Writes(queue[j], h)
      /\ \A k \in (j + 1)..(i - 1) : ~ Sets(queue[k], h) }

\* A running task sees, in every buffer it uses, the writes it would see in
\* the sequential execution, except that tasks of its commuting group may or
\* may not have run.
SequentialView ==
  \A i \in Running : \A h \in DOMAIN view[i] :
    /\ \A j \in Before(i, h) : j \in view[i][h] \/ SameGroup(j, i, h)
    /\ \A j \in view[i][h] : j \in Before(i, h) \/ SameGroup(i, j, h)

\* Additions commute, an update does not: no running task that updates a buffer
\* (rather than adds to it) shares its commuting group with another writer.
UpdatesKeepTheirPlace ==
  \A i \in Running : \A h \in DOMAIN view[i] :
    Does(queue[i], h, {"upd"}) =>
      \A j \in DOMAIN queue \ {i} : Writes(queue[j], h) => ~ SameGroup(i, j, h)
=============================================================================
