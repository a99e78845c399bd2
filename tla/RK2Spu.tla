------------------------------ MODULE RK2Spu ------------------------------
(***************************************************************************)
(* RK2_SPU and DtFields_SPU (simulation_spu.c) over the StarPU runtime.    *)
(* Nothing makes the host wait before the end of the last time step, so    *)
(* that it may be several stages ahead of the workers.                     *)
(***************************************************************************)
EXTENDS SpuHost, DGKernels, Functions

CONSTANT w0    \* the initial state, a number per macro-element

ASSUME RK2Assumption == w0 \in [Elem -> 0..(P - 1)] /\ ~ HasSolver

VARIABLES
  mem,     \* the value in each buffer
  args,    \* for each running task, the values its buffers had at its start
  stage,   \* 1 or 2, the stage of the time step
  iter,    \* simu->iter_time_rk
  ftnow    \* fd[ie].tnow, the time packed into the tasks of a field

hostVars == << pc, k, stage, iter, tnow, ftnow >>
vars == << rtVars, mem, args, hostVars >>

Init ==
  /\ RTInit
  /\ mem = [h \in Handle |-> IF h \in {wn_handle(e) : e \in Elem} THEN w0[h[2]] ELSE 0]
  /\ args = << >>
  /\ pc = "while" /\ k = 0 /\ stage = 1
  /\ iter = 0 /\ tnow = 0 /\ ftnow = 0

-----------------------------------------------------------------------------
(* The host thread.                                                        *)

ZeroDtw ==
  /\ Turn("zeroDtw", ZeroBuffer_SPU(dtwn_handle(k)), nbelems, "zeroRes")
  /\ UNCHANGED << mem, args, stage, iter, tnow, ftnow >>

\* DtFields_SPU: the residuals are zeroed, then every field takes the time.
ZeroRes ==
  /\ Turn("zeroRes", ZeroBuffer_SPU(res_handle(k)), nbelems, "faces")
  /\ ftnow' = IF pc' = "faces" THEN tnow ELSE ftnow
  /\ UNCHANGED << mem, args, stage, iter, tnow >>

FaceTasks(f) ==
  ExtractInterface_SPU(f, 0) \o ExtractInterface_SPU(f, 1)
    \o (IF fR[f] # Null
        THEN DGMacroCellInterface_SPU(f, 0) \o DGMacroCellInterface_SPU(f, 1)
        ELSE DGMacroCellBoundaryFlux_SPU(f, ftnow))

Faces ==
  /\ Turn("faces", FaceTasks(k), nbfaces, "elems")
  /\ UNCHANGED << mem, args, stage, iter, tnow, ftnow >>

ElemTasks(e) ==
  DGSubCellInterface_SPU(e) \o DGVolume_SPU(e) \o DGSource_SPU(e, ftnow) \o DGMass_SPU(e)

Elems ==
  /\ Turn("elems", ElemTasks(k), nbelems, "add")
  /\ UNCHANGED << mem, args, stage, iter, tnow, ftnow >>

\* wn += dt/2 * dtwn after the first stage, wn += dt * dtwn after the second.
Weight == IF stage = 1 THEN 1 ELSE 2

AddBuffers ==
  /\ Turn("add", AddBuffer_SPU(Weight, dtwn_handle(k), wn_handle(k)), nbelems,
          IF stage = 1 THEN "zeroRes" ELSE "while")
  /\ IF pc' = "add"
     THEN UNCHANGED << stage, iter, tnow >>
     ELSE /\ stage' = 3 - stage
          /\ tnow' = tnow + 1
          /\ iter' = IF stage = 2 THEN iter + 1 ELSE iter
  /\ UNCHANGED << mem, args, ftnow >>

WhileLoop ==
  /\ While("zeroDtw", "wait")
  /\ UNCHANGED << mem, args, stage, iter, tnow, ftnow >>

FinalWait ==
  /\ WaitForAll("wait", "return")
  /\ UNCHANGED << mem, args, stage, iter, tnow, ftnow >>

Host == WhileLoop \/ ZeroDtw \/ ZeroRes \/ Faces \/ Elems \/ AddBuffers \/ FinalWait

-----------------------------------------------------------------------------
(* The workers.                                                            *)

StartKernel(i) ==
  /\ Start(i)
  /\ args' = [j \in Running \cup {i} |->
                IF j = i THEN [n \in DOMAIN queue[i].buf |-> mem[queue[i].buf[n]]]
                ELSE args[j]]
  /\ UNCHANGED << mem, hostVars >>

FinishKernel(i) ==
  /\ Finish(i)
  /\ LET t   == queue[i]
         res == Kernel(t, args[i])
     IN  mem' = [h \in Handle |->
                   IF \E n \in DOMAIN t.buf : t.buf[n] = h /\ Codelet[t.cl][n].eff # "read"
                   THEN res[CHOOSE n \in DOMAIN t.buf : t.buf[n] = h]
                   ELSE mem[h]]
  /\ args' = [j \in Running \ {i} |-> args[j]]
  /\ UNCHANGED hostVars

\* The function has returned; nothing is left to do.
Returned == pc = "return" /\ UNCHANGED vars

Workers ==
  \/ \E i \in DOMAIN queue \ done : StartKernel(i)
  \/ \E i \in Running : FinishKernel(i)

Next == Host \/ Workers \/ Returned

Spec == Init /\ [][Next]_vars

\* As long as the host thread can run, a worker can take a task or a kernel can
\* return, one of them does.  Every step submits, starts or finishes a task or
\* ends a loop, so that nothing more is needed.
FairSpec == Spec /\ WF_vars(Host \/ Workers)

-----------------------------------------------------------------------------
(* Properties.                                                             *)

HostLoop == {"while", "zeroDtw", "zeroRes", "faces", "elems", "add", "wait", "return"}

\* The host is in one of the loops of RK2_SPU and DtFields_SPU; every submitted
\* task has the buffers of its codelet, all registered.
TypeOK ==
  /\ RTTypeOK
  /\ mem \in [Handle -> 0..(P - 1)]
  /\ DOMAIN args = Running
  /\ pc \in HostLoop
  /\ k \in 0..(nbelems + nbfaces)
  /\ stage \in {1, 2}
  /\ iter \in Nat /\ tnow \in Nat /\ ftnow \in Nat

\* How many stages element e has gone through: its finished AddBuffer tasks.
level ==
  [e \in Elem |-> Cardinality({i \in done : /\ queue[i].cl = "AddBuffer"
                                            /\ queue[i].buf[2] = wn_handle(e)})]

\* The time derivative of the serial scheme: one flux per face, subtracted on the
\* left and added on the right.
FaceFlux(f, w, t) ==
  IF fR[f] # Null THEN NumFlux(w[fL[f]], w[fR[f]], 1) ELSE BoundaryFlux(t, w[fL[f]])

FluxSum(faces, w, t) == SumFunctionOnSet([f \in Face |-> FaceFlux(f, w, t)], faces)

DtFields(w, t) ==
  [e \in Elem |->
     LET left  == FluxSum({f \in Face : fL[f] = e}, w, t)
         right == FluxSum({f \in Face : fR[f] = e}, w, t)
         sub   == IF e \in Refined THEN SubCellFlux(w[e]) ELSE 0
         src   == IF HasSource THEN Source(t, w[e]) ELSE 0
     IN  ((right - left - sub + VolumeFlux(w[e]) + src) * InverseMass) % P]

Serial == INSTANCE RKSchemes

\* The state after s stages: RK_in takes a half step from the state, RK_out
\* takes the full step from the copy made before it.
RK2State[s \in Nat] ==
  IF s = 0 THEN w0
  ELSE LET w == RK2State[s - 1]
       IN  IF s % 2 = 1 THEN Serial!RK_in(w, 1, DtFields(w, s - 1))
           ELSE Serial!RK_out(RK2State[s - 2], 2, DtFields(w, s - 1))

\* Whatever the workers do, an element that has gone through s stages holds
\* what the serial RK2 of simulation.c gives it after s stages.  It relies on
\* the order of all the tasks before, on the times packed into them, and on
\* dtwn being zeroed before the first stage but not before the second: DGMass
\* subtracts dtwn / 2, which undoes the half step of the first stage.
FieldsOnSchedule ==
  \A e \in Elem : mem[wn_handle(e)] = RK2State[level[e]][e]

\* RK2_SPU returns with every element at the last stage of the last time step,
\* at the first multiple of dt that is not before tmax, within the itermax_rk
\* steps announced when it started.
ReturnsAtTmax ==
  pc = "return" =>
    /\ \A e \in Elem : level[e] = 2 * iter
    /\ tnow = 2 * iter /\ tmax <= tnow /\ tnow < tmax + 2
    /\ iter <= tmax \div 2 + 1

\* RK2_SPU implements ElementClock: elements advance on their own as far as their
\* neighbours let them, so that neighbours are never two stages apart although
\* DtFields_SPU has no barrier.
Clock == INSTANCE ElementClock WITH Vertex <- Elem, Ahead <- 0, Lead <- 1,
           Arc <- {<< fL[f], fR[f] >> : f \in {g \in Face : fR[g] # Null}}
ElementsFollowTheClock == Clock!Spec

\* In the end RK2_SPU has returned, at tmax or after it, and every element has
\* gone through the stages the host's clock has counted: the host moves tnow on
\* when it submits a stage, the elements take it later, each at its own pace, and
\* the last step is not left out when dt does not divide tmax.
Terminates == <>(pc = "return" /\ tmax <= tnow /\ \A e \in Elem : level[e] = tnow)
=============================================================================
