------------------------------ MODULE SpuHost ------------------------------
(***************************************************************************)
(* The submission functions of the DG scheme: which handles, and which     *)
(* values fixed at submission, each *_SPU function puts into its task, and *)
(* when it returns without submitting one.  A function is the sequence of  *)
(* the tasks it submits (none or one).                                     *)
(*                                                                         *)
(* Then the host thread that runs a time scheme: it walks through its      *)
(* loops and submits tasks; nothing makes it wait for the workers but an   *)
(* explicit starpu_task_wait_for_all and StarPU's limit on unfinished      *)
(* tasks.  The tasks of one turn of a loop are submitted in one step: the  *)
(* runtime never looks at a later task to decide what an earlier one waits *)
(* for.                                                                    *)
(***************************************************************************)
EXTENDS StarPU

CONSTANTS
  nbelems,    \* macro-elements are 0 .. nbelems-1
  nbfaces,    \* faces are 0 .. nbfaces-1
  fL, fR,     \* for each face, the elements on its sides; fR is Null on the boundary
  Refined,    \* the elements with raf[0] * raf[1] * raf[2] # 1
  HasSource,  \* model.Source # NULL
  HasSolver   \* f->solver # NULL: an implicit scheme owns the fields

Null == -1
Elem == 0..(nbelems - 1)
Face == 0..(nbfaces - 1)

wn_handle(e)   == << "wn", e >>
dtwn_handle(e) == << "dtwn", e >>
res_handle(e)  == << "res", e >>
sol_handle(e)  == << "sol", e >>
rhs_handle(e)  == << "rhs", e >>
wL_handle(f)   == << "wL", f >>
wR_handle(f)   == << "wR", f >>

\* Where the tasks that serve both kinds of schemes find the state of an
\* element and put its fluxes.
state_handle(e) == IF HasSolver THEN sol_handle(e) ELSE wn_handle(e)
flux_handle(e)  == IF HasSolver THEN rhs_handle(e) ELSE res_handle(e)

\* RegisterSkyline_SPU, or Registerfield_SPU, for every element;
\* RegisterInterface_SPU registers wR only if the face has a right element.
MeshHandle ==
  { << b, e >> : b \in (IF HasSolver THEN {"sol", "rhs"} ELSE {"wn", "dtwn", "res"}),
                 e \in Elem }
    \cup { << "wL", f >> : f \in Face }
    \cup { << "wR", f >> : f \in {g \in Face : fR[g] # Null} }

ASSUME MeshAssumption ==
  /\ nbelems \in Nat \ {0} /\ nbfaces \in Nat \ {0}
  /\ fL \in [Face -> Elem]
  /\ fR \in [Face -> Elem \cup {Null}]
  /\ Refined \subseteq Elem
  /\ HasSource \in BOOLEAN /\ HasSolver \in BOOLEAN
  /\ MeshHandle \subseteq Handle

-----------------------------------------------------------------------------
ZeroBuffer_SPU(h) == << [cl |-> "ZeroBuffer", buf |-> << h >>, arg |-> 0] >>

AddBuffer_SPU(alpha, in, out) ==
  << [cl |-> "AddBuffer", buf |-> << in, out >>, arg |-> alpha] >>

\* Mutated form: without the return on a missing element.
ExtractInterface_SPU_NoReturn(f, side) ==
  LET e    == IF side = 0 THEN fL[f] ELSE fR[f]
      wfac == IF side = 0 THEN wL_handle(f) ELSE wR_handle(f)
  IN  << [cl |-> "ExtractInterface", buf |-> << wfac, state_handle(e) >>, arg |-> 0] >>

ExtractInterface_SPU(f, side) ==
  LET e    == IF side = 0 THEN fL[f] ELSE fR[f]
      wfac == IF side = 0 THEN wL_handle(f) ELSE wR_handle(f)
  IN  IF e = Null THEN << >>
      ELSE << [cl |-> "ExtractInterface", buf |-> << wfac, state_handle(e) >>, arg |-> 0] >>

DGMacroCellInterface_SPU(f, side) ==
  IF fR[f] = Null THEN << >>
  ELSE IF side = 0
  THEN << [cl  |-> "DGMacroCellInterface",
           buf |-> << wL_handle(f), wR_handle(f), res_handle(fL[f]) >>, arg |-> 1] >>
  ELSE << [cl  |-> "DGMacroCellInterface",
           buf |-> << wR_handle(f), wL_handle(f), res_handle(fR[f]) >>, arg |-> -1] >>

\* Packs the whole field, and so its tnow at the time of submission.
DGMacroCellBoundaryFlux_SPU(f, t) ==
  IF fR[f] # Null THEN << >>
  ELSE << [cl  |-> "DGMacroCellBoundaryFlux",
           buf |-> << wL_handle(f), res_handle(fL[f]) >>, arg |-> t] >>

DGSubCellInterface_SPU(e) ==
  IF e \notin Refined THEN << >>
  ELSE << [cl |-> "DGSubCellInterface", buf |-> << wn_handle(e), res_handle(e) >>, arg |-> 0] >>

DGVolume_SPU(e) ==
  << [cl |-> "DGVolume", buf |-> << wn_handle(e), res_handle(e) >>, arg |-> 0] >>

DGSource_SPU(e, t) ==
  IF ~ HasSource THEN << >>
  ELSE << [cl |-> "DGSource", buf |-> << wn_handle(e), res_handle(e) >>, arg |-> t] >>

\* Mutated form: the mass matrix applied in place, on the residual.
DGMass_SPU_InPlace(e) ==
  << [cl |-> "DGMass", buf |-> << dtwn_handle(e), res_handle(e) >>, arg |-> 0] >>

DGMass_SPU(e) ==
  << [cl |-> "DGMass", buf |-> << res_handle(e), dtwn_handle(e) >>, arg |-> 0] >>

-----------------------------------------------------------------------------
(* Implicit schemes.  MatVect_SPU multiplies by the right-hand side matrix *)
(* f->rmat, SolveLinearSolver solves with the factorised f->solver.        *)

MatVect_SPU(e) ==
  << [cl |-> "MatVectSkyline", buf |-> << sol_handle(e), rhs_handle(e) >>, arg |-> 0] >>

SolveLinearSolver(e) ==
  << [cl |-> "SolveSkyline", buf |-> << sol_handle(e), rhs_handle(e) >>, arg |-> 0] >>

SourceLocalAssembly_SPU(e, t) ==
  IF ~ HasSource THEN << >>
  ELSE << [cl |-> "SourceLocalAssembly", buf |-> << rhs_handle(e) >>, arg |-> t] >>

InterfaceExplicitFlux_SPU(f, side) ==
  IF fR[f] = Null THEN << >>
  ELSE IF side = 0
  THEN << [cl  |-> "InterfaceExplicitFlux",
           buf |-> << wR_handle(f), flux_handle(fL[f]) >>, arg |-> 1] >>
  ELSE << [cl  |-> "InterfaceExplicitFlux",
           buf |-> << wL_handle(f), flux_handle(fR[f]) >>, arg |-> -1] >>

\* Packs the whole field of the left element, and so its tnow.
InterfaceBoundaryFlux_SPU(f, t) ==
  << [cl |-> "InterfaceBoundaryFlux", buf |-> << flux_handle(fL[f]) >>, arg |-> t] >>

-----------------------------------------------------------------------------
(* The host thread.                                                          *)

CONSTANTS
  tmax,        \* the final time, in units of dt / 2
  MaxPending   \* how many unfinished tasks StarPU lets the host run ahead
               \* (STARPU_LIMIT_MAX_SUBMITTED_TASKS); bounds the model

ASSUME HostAssumption == tmax \in Nat /\ MaxPending \in Nat \ {0}

VARIABLES
  pc,      \* the loop the host is in
  k,       \* the counter of that loop
  tnow     \* simu->tnow, in units of dt / 2

-----------------------------------------------------------------------------
\* Submit the tasks of one turn of a loop of n turns; go to `after` at its end.
Turn(here, ts, n, after) ==
  /\ pc = here
  /\ Len(queue) - Cardinality(done) < MaxPending
  /\ Submit(ts)
  /\ pc' = IF k + 1 < n THEN here ELSE after
  /\ k' = IF k + 1 < n THEN k + 1 ELSE 0

\* Mutated form: the call is forgotten.
WaitForAll_NoWait(here, after) ==
  /\ pc = here
  /\ pc' = after
  /\ UNCHANGED << rtVars, k >>

\* starpu_task_wait_for_all.
WaitForAll(here, after) ==
  /\ pc = here /\ AllDone
  /\ pc' = after
  /\ UNCHANGED << rtVars, k >>

\* Mutated form: as many steps as tmax / dt, rounded down.
While_WholeSteps(body, after) ==
  /\ pc = "while"
  /\ pc' = IF tnow < 2 * (tmax \div 2) THEN body ELSE after
  /\ UNCHANGED << rtVars, k >>

\* while (simu->tnow < tmax)
While(body, after) ==
  /\ pc = "while"
  /\ pc' = IF tnow < tmax THEN body ELSE after
  /\ UNCHANGED << rtVars, k >>
=============================================================================
