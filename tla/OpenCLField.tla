---------------------------- MODULE OpenCLField ----------------------------
(***************************************************************************)
(* The OpenCL scheme (field_cl.c): the host enqueues kernels whose order is *)
(* described by events, and the device executes them behind its back.  The *)
(* queue of clinfo.c is in order: a command starts when those before it    *)
(* have ended and the events it waits for are complete.  An event is       *)
(* either a user event, completed by the host, or stands for a command.    *)
(***************************************************************************)
EXTENDS DGKernels, FiniteSets, Functions

CONSTANTS
  Confs,    \* what a simulation is started with: see ConfType
  tmax      \* in half steps

Buffer == {"w", "dtw", "l1", "l2", "l3"}     \* wp1 of RK2_CL is l1

\* s holds each element of S once.
Lists(s, S) == s \in Seq(S) /\ IsInjective(s) /\ Range(s) = S

\* fL, fR: the elements on the left and on the right of each face (-1 outside);
\* macrointerface, boundaryface: the faces inside and on the boundary, in any order;
\* raf: the dimensions with more than one subcell, the same in all elements.
ConfType(c) ==
  /\ c.scheme \in {"RK2", "RK4"}
  /\ c.ndim \in 1..3 /\ c.raf \subseteq 0..(c.ndim - 1)
  /\ c.use_source_cl \in BOOLEAN
  /\ c.nbelems \in Nat \ {0}
  /\ c.fL \in Seq(0..(c.nbelems - 1))
  /\ c.fR \in [DOMAIN c.fL -> -1..(c.nbelems - 1)]
  /\ Lists(c.macrointerface, {f \in DOMAIN c.fL : c.fR[f] # -1})
  /\ Lists(c.boundaryface, {f \in DOMAIN c.fL : c.fR[f] = -1})
  /\ c.w0 \in [0..(c.nbelems - 1) -> 0..(P - 1)]

\* RK4 divides by 3.
ASSUME OpenCLAssumption == (\A c \in Confs : ConfType(c)) /\ tmax \in Nat /\ P % 3 # 0

VARIABLES
  conf,     \* the simulation
  cl,       \* the runtime: ev[slot], queue, issued, userDone
  mem,      \* the device's buffers
  pc, k,    \* where the host is, and its loop counter
  stage,    \* the Runge-Kutta stage, from 0
  tnow, iter,
  hostw     \* simu->w as CopyfieldtoCPU leaves it, << >> before

vars == << conf, cl, mem, pc, k, stage, tnow, iter, hostw >>

Elem  == 0..(conf.nbelems - 1)
Nbstages == IF conf.scheme = "RK2" THEN 2 ELSE 4

ninterfaces    == Len(conf.macrointerface)
nboundaryfaces == Len(conf.boundaryface)

-----------------------------------------------------------------------------
(* The runtime.                                                            *)

Slot ==
  {<< "zbuf" >>} \cup ({"mci"} \X (1..ninterfaces)) \cup ({"boundary"} \X (1..nboundaryfaces))
    \cup ({"flux0", "flux1", "flux2", "volume", "mass", "source"} \X Elem)
    \cup ({"rksource", "rkstage"} \X (0..(Nbstages - 1)))

\* An event is << "user", slot >> or << "command", number >>.
Complete(s, e) ==
  IF e[1] = "user" THEN e[2] \in s.userDone ELSE e[2] <= s.issued - Len(s.queue)

\* The slot takes the event of the new command; wait names slots.
clEnqueueNDRangeKernel(s, kernel, wait, slot) ==
  [s EXCEPT !.queue  = Append(@, [run |-> kernel, wait |-> {s.ev[x] : x \in wait}]),
            !.issued = @ + 1,
            !.ev[slot] = << "command", s.issued + 1 >>]

\* An error, ignored, if the slot no longer holds a user event.
clSetUserEventStatus(s, slot) ==
  IF s.ev[slot][1] = "user" THEN [s EXCEPT !.userDone = @ \cup {s.ev[slot][2]}] ELSE s

-----------------------------------------------------------------------------
(* The kernels of field.cl.                                                *)

Add(d, e, x) == [d EXCEPT ![e] = (@ + x) % P]

set_buffer_to_zero == [e \in Elem |-> 0]

DGMacroCellInterface(c, w, dtw) ==
  LET flux == NumFlux(w[conf.fL[c.f]], w[conf.fR[c.f]], 1)
  IN  Add(Add(dtw, conf.fL[c.f], - flux), conf.fR[c.f], flux)

DGBoundary(c, w, dtw) == Add(dtw, conf.fL[c.f], - BoundaryFlux(c.t, w[conf.fL[c.f]]))
DGFlux(c, w, dtw)     == Add(dtw, c.e, - (c.dim + 1) * SubCellFlux(w[c.e]))
DGVolume(c, w, dtw)   == Add(dtw, c.e, VolumeFlux(w[c.e]))
DGMass(c, dtw)        == [dtw EXCEPT ![c.e] = (@ * InverseMass) % P]

\* The source is added to the derivative itself, after the division by the
\* mass; the serial scheme adds it with its weight before.
DGSource(c, w, dtw)   == Add(dtw, c.e, Source(c.t, w[c.e]) * InverseMass)

dtwAfter(c, w, dtw) ==
  CASE c.k = "set_buffer_to_zero"   -> set_buffer_to_zero
    [] c.k = "DGMacroCellInterface" -> DGMacroCellInterface(c, w, dtw)
    [] c.k = "DGBoundary"           -> DGBoundary(c, w, dtw)
    [] c.k = "DGFlux"               -> DGFlux(c, w, dtw)
    [] c.k = "DGVolume"             -> DGVolume(c, w, dtw)
    [] c.k = "DGMass"               -> DGMass(c, dtw)
    [] c.k = "DGSource"             -> DGSource(c, w, dtw)

\* The serial time derivative of the same fields, and the schemes built on it.
FaceFlux(w, t) ==
  [f \in DOMAIN conf.fL |-> IF conf.fR[f] = -1 THEN BoundaryFlux(t, w[conf.fL[f]])
                            ELSE NumFlux(w[conf.fL[f]], w[conf.fR[f]], 1)]

DtFields(w, t) ==
  [e \in Elem |->
     LET left  == SumFunctionOnSet(FaceFlux(w, t), {f \in DOMAIN conf.fL : conf.fL[f] = e})
         right == SumFunctionOnSet(FaceFlux(w, t), {f \in DOMAIN conf.fL : conf.fR[f] = e})
         sub   == SumFunctionOnSet([d \in 0..2 |-> (d + 1) * SubCellFlux(w[e])], conf.raf)
         src   == IF conf.use_source_cl THEN Source(t, w[e]) ELSE 0
     IN  ((right - left - sub + VolumeFlux(w[e]) + src) * InverseMass) % P]

Serial == INSTANCE RKSchemes

\* The buffers after a kernel.
memAfter(c, m) ==
  CASE c.k = "RK_out_CL" -> [m EXCEPT ![c.out] = Serial!RK_out(m[c.w], c.dt, m["dtw"])]
    [] c.k = "RK_in_CL"  -> [m EXCEPT !["w"] = Serial!RK_in(@, c.dt, m["dtw"])]
    [] c.k = "RK4_final_stage" ->
         [m EXCEPT !["w"] = Serial!RK4_final_inplace(@, m["l1"], m["l2"], m["l3"], m["dtw"])]
    [] OTHER -> [m EXCEPT !["dtw"] = dtwAfter(c, m[c.w], @)]

\* The device executes the command at the head of the queue.
Device ==
  /\ cl.queue # << >>
  /\ \A e \in Head(cl.queue).wait : Complete(cl, e)
  /\ mem' = memAfter(Head(cl.queue).run, mem)
  /\ cl' = [cl EXCEPT !.queue = Tail(@)]
  /\ UNCHANGED << conf, pc, k, stage, tnow, iter, hostw >>

-----------------------------------------------------------------------------
(* The host: RK2_CL and RK4_CL, which call dtfield_CL at each stage.       *)

\* init_field_cl and the beginning of RK2_CL and RK4_CL: user events in every
\* slot, of which only that of the last stage is complete.
Init ==
  /\ conf \in Confs
  /\ cl = [ev |-> [x \in Slot |-> << "user", x >>], queue |-> << >>, issued |-> 0,
           userDone |-> {<< "rkstage", Nbstages - 1 >>}]
  /\ mem = [b \in Buffer |-> IF b = "w" THEN conf.w0 ELSE [e \in Elem |-> 0]]
  /\ pc = "while" /\ k = 1 /\ stage = 0 /\ tnow = 0 /\ iter = 0 /\ hostw = << >>

WhileLoop ==
  /\ pc = "while"
  /\ pc' = IF tnow < tmax THEN "zbuf" ELSE "copy"
  /\ UNCHANGED << conf, cl, mem, k, stage, tnow, iter, hostw >>

X_FirstStage == << "w", "l1", "l1", "l3" >>[stage + 1]

\* The state a stage starts from.
StageInput == << "w", "l1", "l2", "l3" >>[stage + 1]

\* A stage waits for the one before; the first for the last of the last step.
StageBefore == << "rkstage", (stage + Nbstages - 1) % Nbstages >>

\* A loop from 1 to n, done at once if n = 0.
Loop(here, n, next) ==
  /\ pc = here
  /\ IF k < n THEN pc' = pc /\ k' = k + 1 ELSE pc' = next /\ k' = 1

set_buf_to_zero_cl ==
  /\ pc = "zbuf" /\ pc' = "mci" /\ k' = 1
  /\ cl' = clEnqueueNDRangeKernel(cl, [k |-> "set_buffer_to_zero", w |-> StageInput],
                                  {StageBefore}, << "zbuf" >>)
  /\ UNCHANGED << conf, mem, stage, tnow, iter, hostw >>

DGMacroCellInterface_CL ==
  /\ Loop("mci", ninterfaces, "boundary")
  /\ cl' = IF ninterfaces = 0 THEN cl
           ELSE clEnqueueNDRangeKernel(cl,
                  [k |-> "DGMacroCellInterface", f |-> conf.macrointerface[k], w |-> StageInput],
                  {IF k = 1 THEN << "zbuf" >> ELSE << "mci", k - 1 >>}, << "mci", k >>)
  /\ UNCHANGED << conf, mem, stage, tnow, iter, hostw >>

startboundary == IF ninterfaces > 0 THEN << "mci", ninterfaces >> ELSE << "zbuf" >>

\* The time is an argument, copied when the kernel is enqueued.
DGBoundary_CL ==
  /\ Loop("boundary", nboundaryfaces, "macro")
  /\ cl' = IF nboundaryfaces = 0 THEN cl
           ELSE clEnqueueNDRangeKernel(cl,
                  [k |-> "DGBoundary", f |-> conf.boundaryface[k], w |-> StageInput, t |-> tnow],
                  {IF k = 1 THEN startboundary ELSE << "boundary", k - 1 >>}, << "boundary", k >>)
  /\ UNCHANGED << conf, mem, stage, tnow, iter, hostw >>

startmacroloop ==
  IF nboundaryfaces > 0 THEN << "boundary", nboundaryfaces >> ELSE startboundary

fluxevent(d) == << "flux0", "flux1", "flux2" >>[d + 1]

FluxKernel(s, d, e) ==
  clEnqueueNDRangeKernel(s, [k |-> "DGFlux", e |-> e, dim |-> d, w |-> StageInput],
                         {IF d = 0 THEN startmacroloop ELSE << fluxevent(d - 1), e >>},
                         << fluxevent(d), e >>)

X_NoUserEvent(s, d, e) == IF d \in conf.raf THEN FluxKernel(s, d, e) ELSE s

\* No kernel and no wait in a dimension that is not refined: the event is
\* completed at once if the host may still do so.
DGFlux_CL(s, d, e) ==
  IF d >= conf.ndim THEN s
  ELSE IF d \in conf.raf THEN FluxKernel(s, d, e)
  ELSE clSetUserEventStatus(s, << fluxevent(d), e >>)

DGVolume_CL(s, e) ==
  clEnqueueNDRangeKernel(s, [k |-> "DGVolume", e |-> e, w |-> StageInput],
                         {<< fluxevent(conf.ndim - 1), e >>}, << "volume", e >>)

DGMass_CL(s, e) ==
  clEnqueueNDRangeKernel(s, [k |-> "DGMass", e |-> e, w |-> StageInput],
                         {<< "volume", e >>}, << "mass", e >>)

DGSource_CL(s, e) ==
  IF ~ conf.use_source_cl THEN s
  ELSE clEnqueueNDRangeKernel(s, [k |-> "DGSource", e |-> e, w |-> StageInput, t |-> tnow],
                              {<< "mass", e >>}, << "source", e >>)

MacroCell(s, e) ==
  DGSource_CL(DGMass_CL(DGVolume_CL(
    DGFlux_CL(DGFlux_CL(DGFlux_CL(s, 0, e), 1, e), 2, e), e), e), e)

MacroLoop ==
  /\ Loop("macro", conf.nbelems, "wait")
  /\ cl' = MacroCell(cl, k - 1)
  /\ UNCHANGED << conf, mem, stage, tnow, iter, hostw >>

\* The wait for the last kernel of every element, those of clv_duration, which
\* waits for each event it times, and the user event of the caller.
dtfieldevents ==
  {x \in Slot : \/ x[1] \in {"zbuf", "mci", "boundary", "volume", "mass"}
                \/ x[1] = "source" /\ conf.use_source_cl
                \/ \E d \in 0..(conf.ndim - 1) : x[1] = fluxevent(d)}

dtfieldDone ==
  /\ pc = "wait" /\ pc' = "stage"
  /\ \A x \in dtfieldevents : Complete(cl, cl.ev[x])
  /\ cl' = clSetUserEventStatus(cl, << "rksource", stage >>)
  /\ UNCHANGED << conf, mem, k, stage, tnow, iter, hostw >>

\* RK2_CL_stage1, RK2_CL_stage2, RK4_CL_stageA and RK4_final_inplace_CL.
StageKernel ==
  IF conf.scheme = "RK2"
  THEN << [k |-> "RK_out_CL", out |-> "l1", w |-> "w", dt |-> 1],
          [k |-> "RK_in_CL", dt |-> 2] >>[stage + 1]
  ELSE << [k |-> "RK_out_CL", out |-> "l1", w |-> "w", dt |-> 1],
          [k |-> "RK_out_CL", out |-> "l2", w |-> "w", dt |-> 1],
          [k |-> "RK_out_CL", out |-> "l3", w |-> "w", dt |-> 2],
          [k |-> "RK4_final_stage"] >>[stage + 1]

\* RK2_CL moves the time by half a step after each stage, RK4_CL by a step
\* after the last stage only.
StageTime ==
  IF conf.scheme = "RK2" THEN 1 ELSE IF stage = 3 THEN 2 ELSE 0

Stage ==
  /\ pc = "stage"
  /\ cl' = clEnqueueNDRangeKernel(cl, StageKernel, {<< "rksource", stage >>}, << "rkstage", stage >>)
  /\ tnow' = tnow + StageTime
  /\ pc' = IF stage = Nbstages - 1 THEN "timers" ELSE "zbuf"
  /\ stage' = (stage + 1) % Nbstages
  /\ UNCHANGED << conf, mem, k, iter, hostw >>

\* The end of a step: clv_duration waits for the stages.
StageTimers ==
  /\ pc = "timers" /\ pc' = "while"
  /\ \A s \in 0..(Nbstages - 1) : Complete(cl, cl.ev[<< "rkstage", s >>])
  /\ iter' = iter + 1
  /\ UNCHANGED << conf, cl, mem, k, stage, tnow, hostw >>

\* After the scheme the caller maps the buffer; clFinish waits for the queue.
CopyfieldtoCPU ==
  /\ pc = "copy" /\ pc' = "return"
  /\ cl.queue = << >>
  /\ hostw' = mem["w"]
  /\ UNCHANGED << conf, cl, mem, k, stage, tnow, iter >>

Host ==
  WhileLoop \/ set_buf_to_zero_cl \/ DGMacroCellInterface_CL \/ DGBoundary_CL \/ MacroLoop
    \/ dtfieldDone \/ Stage \/ StageTimers \/ CopyfieldtoCPU

Returned == pc = "return" /\ UNCHANGED vars

Next == Host \/ Device \/ Returned

\* The host thread runs, and the device executes what it can.
Spec == Init /\ [][Next]_vars /\ WF_vars(Host) /\ WF_vars(Device)

-----------------------------------------------------------------------------
(* Properties.                                                             *)

\* RK4_CL evaluates the boundary data and the sources of all its stages at the
\* time of the beginning of the step.
Frozen(t0) == INSTANCE RKSchemes WITH DtFields <- LAMBDA w, t : DtFields(w, t0)

StepFrom(w, t) ==
  IF conf.scheme = "RK2" THEN Serial!RK2Step(w, t) ELSE Frozen(t)!ClassicalRK4(w, t)

StateAfter[n \in Nat] ==
  IF n = 0 THEN conf.w0 ELSE StepFrom(StateAfter[n - 1], 2 * (n - 1))

\* What simulation.c rearranges is the classical scheme: the last combination
\* takes the first slope from l2 - l1, the others from l3 and l4, and the weights
\* must add up to 1, 2, 2, 1 over 6 at the stage times.  Checked from every
\* state a simulation starts in and every time.
RK4IsClassical ==
  \A t \in 0..tmax : Serial!RK4Step(conf.w0, t) = Serial!ClassicalRK4(conf.w0, t)

\* How many steps the device has finished: those the host has enqueued the last
\* stage of, less the one whose last stage is still in the queue.
LastStages == {"RK_in_CL", "RK4_final_stage"}

StepsDone ==
  LET enqueued == IF pc = "timers" THEN iter + 1 ELSE iter
  IN  enqueued - Cardinality({n \in DOMAIN cl.queue : cl.queue[n].run.k \in LastStages})

\* Whenever it is looked at, the field on the device is what the serial scheme
\* gives after the steps the device has finished, and the caller gets the last
\* one.  It takes kernels in the order of the serial scheme, each with the
\* buffer and the time of its stage, while the host is several kernels ahead.
DeviceOnSchedule ==
  /\ mem["w"] = StateAfter[StepsDone]
  /\ hostw # << >> => hostw = StateAfter[(tmax + 1) \div 2]

\* Every wait of the host and of the device is for an event that something will
\* complete: the scheme returns.  The user events that DGFlux_CL and dtfield_CL
\* complete are the only ones anything ever waits for.
Terminates == <>(pc = "return")
=============================================================================
