--------------------------- MODULE GraphThetaSpu ---------------------------
(***************************************************************************)
(* GraphThetaTimeScheme_SPU (implicit.c): the implicit theta scheme as a   *)
(* sweep.  The elements are visited in a topological order of the flow     *)
(* graph; each is solved with the state its upwind neighbours have at the  *)
(* end of the same time step, which they leave in the buffer of the face   *)
(* they share.                                                             *)
(*                                                                         *)
(* First BuildMacroMeshGraph (macromesh.c): the directed graph of the      *)
(* elements for a constant velocity, with a ghost vertex upwind of the     *)
(* inflow boundary and one downwind of the outflow boundary, and a         *)
(* topological order of it for the sweep.                                  *)
(***************************************************************************)
EXTENDS ThetaSpu, Functions

CONSTANT
  flow       \* for each face, the signs v.n takes at its Gauss points, n going
             \* out of the left element: a subset of {"out", "in"}; empty if v.n is 0

upwind   == nbelems
downwind == nbelems + 1
Vertex   == 0..(nbelems + 1)

GraphAssumption ==
  /\ nbelems \in Nat \ {0} /\ nbfaces \in Nat
  /\ fL \in [0..(nbfaces - 1) -> 0..(nbelems - 1)]
  /\ fR \in [0..(nbfaces - 1) -> -1..(nbelems - 1)]
  /\ flow \in [0..(nbfaces - 1) -> SUBSET {"out", "in"}]

-----------------------------------------------------------------------------
FlowArc(from, to, f, dir) == [from |-> from, to |-> to, face |-> f, dir |-> dir]

\* Mutated form: the two ghosts are exchanged.
FaceArcs_GhostsExchanged(f) ==
  LET right == IF fR[f] = -1 THEN upwind ELSE fR[f]
      left  == IF fR[f] = -1 THEN downwind ELSE fR[f]
  IN  (IF "out" \in flow[f] THEN {FlowArc(fL[f], right, f, 0)} ELSE {})
        \cup (IF "in" \in flow[f] THEN {FlowArc(left, fL[f], f, 1)} ELSE {})

\* The arcs of face f: edge2face is its face, edge_dir its dir, 0 if the arc
\* leaves the left element.
FaceArcs(f) ==
  LET right == IF fR[f] = -1 THEN downwind ELSE fR[f]
      left  == IF fR[f] = -1 THEN upwind ELSE fR[f]
  IN  (IF "out" \in flow[f] THEN {FlowArc(fL[f], right, f, 0)} ELSE {})
        \cup (IF "in" \in flow[f] THEN {FlowArc(left, fL[f], f, 1)} ELSE {})

connect_graph == UNION {FaceArcs(f) : f \in 0..(nbfaces - 1)}

InArcs(v)  == {a \in connect_graph : a.to = v}
OutArcs(v) == {a \in connect_graph : a.from = v}

\* igraph_topological_sorting returns some order of all the vertices in which
\* every arc goes forward; there is one if and only if the graph has no cycle.
IsTopoOrder(order) ==
  /\ order \in Bijection(Vertex, Vertex)
  /\ \A a \in connect_graph : \A i, j \in Vertex :
       order[i] = a.from /\ order[j] = a.to => i < j

TopoOrders == {order \in [Vertex -> Vertex] : IsTopoOrder(order)}

\* A constant velocity enters and leaves every element: the flux of a constant
\* vector field through a closed surface is null.
FlowThrough ==
  \A v \in 0..(nbelems - 1) : InArcs(v) # {} /\ OutArcs(v) # {}

\* The graph has no more arcs than edge2face and edge_dir have cells.
ArcsFit ==
  \A f \in 0..(nbfaces - 1) : flow[f] # {"out", "in"}

-----------------------------------------------------------------------------
(* The sweep.                                                              *)

ASSUME GraphThetaAssumption == GraphAssumption /\ TopoOrders # {} /\ FlowThrough

VARIABLES
  topo_order,  \* macromesh.topo_order
  iter         \* the time steps submitted

hostVars == << pc, k, tnow, topo_order, ftnow, iter >>
vars == << rtVars, hostVars >>

Init ==
  /\ RTInit
  /\ topo_order \in TopoOrders
  /\ pc = "while" /\ k = 0 /\ tnow = 0 /\ ftnow = 0 /\ iter = 0

-----------------------------------------------------------------------------
(* The host thread.                                                        *)

\* simu->tnow += theta * dt at the top of the body.
WhileLoop ==
  /\ While("elems", "wait")
  /\ tnow' = IF pc' = "elems" THEN tnow + 1 ELSE tnow
  /\ UNCHANGED << topo_order, ftnow, iter >>

\* Mutated form: the side is that of the upwind element.
UpwindFlux_WrongSide(a) ==
  IF a.from >= nbelems THEN InterfaceBoundaryFlux_SPU(a.face, tnow)
  ELSE InterfaceExplicitFlux_SPU(a.face, a.dir)

\* One task: an arc from an element does not cross the boundary.
UpwindFlux(a) ==
  IF a.from >= nbelems THEN InterfaceBoundaryFlux_SPU(a.face, tnow)
  ELSE InterfaceExplicitFlux_SPU(a.face, 1 - a.dir)

\* igraph_incident lists the arcs in some order, which does not matter: the fluxes
\* are added one after the other.
incident(A) == CHOOSE s \in Bijection(1..Cardinality(A), A) : TRUE

UpwindFluxes(e) ==
  [n \in 1..Cardinality(InArcs(e)) |-> UpwindFlux(incident(InArcs(e))[n])[1]]

\* Only the arcs to an element, not to the downwind ghost, give a task: one.
DownwindArcs(e) == {a \in OutArcs(e) : a.to < nbelems}
DownwindExtracts(e) ==
  [n \in 1..Cardinality(DownwindArcs(e)) |->
     LET a == incident(DownwindArcs(e))[n] IN ExtractInterface_SPU(a.face, a.dir)[1]]

\* Mutated form: the state is handed downwind before the solve.
ElemTasks_ExtractFirst(e) ==
  MatVect_SPU(e) \o SourceLocalAssembly_SPU(e, tnow)
    \o UpwindFluxes(e) \o DownwindExtracts(e) \o SolveLinearSolver(e)

\* The tasks of one element.
ElemTasks(e) ==
  MatVect_SPU(e) \o SourceLocalAssembly_SPU(e, tnow)
    \o UpwindFluxes(e) \o SolveLinearSolver(e) \o DownwindExtracts(e)

\* Mutated form: the two ghosts are counted among the elements of the order.
Elems_GhostsCounted ==
  /\ Turn("elems", ElemTasks(topo_order[k + 1]), nbelems - 1,
          IF iter = 0 THEN "firstWait" ELSE "while")
  /\ ftnow' = tnow
  /\ IF pc' = "elems" THEN UNCHANGED << tnow, iter >>
     ELSE tnow' = tnow + 1 /\ iter' = iter + 1
  /\ UNCHANGED topo_order

\* ie = topo_order[ies + 1]; simu->tnow += (1 - theta) * dt after the loop.
Elems ==
  /\ Turn("elems", ElemTasks(topo_order[k + 1]), nbelems,
          IF iter = 0 THEN "firstWait" ELSE "while")
  /\ ftnow' = tnow
  /\ IF pc' = "elems" THEN UNCHANGED << tnow, iter >>
     ELSE tnow' = tnow + 1 /\ iter' = iter + 1
  /\ UNCHANGED topo_order

FirstWait ==
  /\ WaitForAll("firstWait", "while")
  /\ UNCHANGED << tnow, topo_order, ftnow, iter >>

FinalWait ==
  /\ WaitForAll("wait", "return")
  /\ UNCHANGED << tnow, topo_order, ftnow, iter >>

Host == WhileLoop \/ Elems \/ FirstWait \/ FinalWait

-----------------------------------------------------------------------------
WorkerStep == Workers /\ UNCHANGED << topo_order, iter >>

Returned == pc = "return" /\ UNCHANGED vars

Next == Host \/ WorkerStep \/ Returned

Spec == Init /\ [][Next]_vars

\* Some thread runs as long as one can: see RK2Spu.
FairSpec == Spec /\ WF_vars(Host \/ WorkerStep)

-----------------------------------------------------------------------------
(* Properties.                                                             *)

\* Every face the flow enters an element by contributes once, and only once,
\* to each of its systems.
SolveSeesItsStep ==
  SolveIsComplete(LAMBDA e : {f \in Face : \/ fL[f] = e /\ "in" \in flow[f]
                                           \/ fR[f] = e /\ "out" \in flow[f]})

\* The upwind neighbours enter the system of a time step with the state they
\* have at its end, although they may already be several steps further.
UpwindAtTheNewStep == FluxSeesThisStep /\ ExtractLags(0)

\* GraphThetaTimeScheme_SPU implements ElementClock: the sweep is pipelined over the
\* time steps, and an element is at most three steps ahead of one downwind of it,
\* since the buffer of their face, its read by the next flux and the solution
\* itself each hold one.
Clock == INSTANCE ElementClock WITH Vertex <- Elem, Ahead <- 1, Lead <- 3,
           Arc <- {<< a.from, a.to >> : a \in {b \in connect_graph : {b.from, b.to} \subseteq Elem}}
SweepFollowsTheClock == Clock!Spec

\* The scheme returns with every element at the last time step, the first whose
\* end is not before tmax.
ReturnsAtTmax ==
  pc = "return" =>
    /\ \A e \in Elem : level[e] = iter
    /\ tnow = 2 * iter /\ tmax <= tnow /\ tnow < tmax + 2

\* The ghost vertices are the ends of every topological order, so that the
\* elements are topo_order[1 .. nbelems].
GhostsAtTheEnds ==
  topo_order[0] = upwind /\ topo_order[nbelems + 1] = downwind

\* In the end the host has returned, at tmax or after it, and every element has
\* been solved at the host's time: no sweep left one out, and neither the wait
\* after the first sweep nor the last one holds the host for ever.
Terminates == <>(pc = "return" /\ tmax <= tnow /\ \A e \in Elem : 2 * level[e] = tnow)
=============================================================================
