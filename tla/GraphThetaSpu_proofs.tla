------------------------ MODULE GraphThetaSpu_proofs ------------------------
(***************************************************************************)
(* GraphThetaTimeScheme_SPU on every mesh, for every velocity field whose  *)
(* flow graph has a topological order and goes through every element.  The *)
(* scheme is a program of the runtime (Inv); the queue the host builds is  *)
(* in order along the arcs of the flow graph (OrderInv), which gives the   *)
(* clock of the sweep.                                                     *)
(***************************************************************************)
EXTENDS GraphThetaSpu, SpuHost_proofs

-----------------------------------------------------------------------------
(* GraphThetaTimeScheme_SPU visits topo_order[1 .. nbelems] "because the   *)
(* ghost upwind vertex is always the first and the ghost downwind vertex   *)
(* is always the last" (implicit.c).  It is so for every mesh, every       *)
(* topological order and every velocity that enters and leaves every       *)
(* element.                                                                *)

Element == 0..(nbelems - 1)

\* Nothing flows into the upwind ghost, or out of the downwind ghost, and no
\* arc joins the two.
LEMMA GhostArcs ==
  ASSUME GraphAssumption
  PROVE  \A a \in connect_graph :
           /\ a.from \in Element \cup {upwind}
           /\ a.to \in Element \cup {downwind}
<1> SUFFICES ASSUME NEW f \in 0..(nbfaces - 1), NEW a \in FaceArcs(f)
             PROVE  a.from \in Element \cup {upwind} /\ a.to \in Element \cup {downwind}
  BY DEF connect_graph
<1>1. fL[f] \in Element /\ fR[f] \in Element \cup {-1}
  BY DEF GraphAssumption, Element
<1>2. \/ a.from = fL[f] /\ a.to = (IF fR[f] = -1 THEN downwind ELSE fR[f])
      \/ a.to = fL[f] /\ a.from = (IF fR[f] = -1 THEN upwind ELSE fR[f])
  BY DEF FaceArcs, FlowArc
<1> QED
  BY <1>1, <1>2

\* The ends of a topological order are the two ghosts, in this order.
THEOREM GhostsFirstAndLast ==
  ASSUME GraphAssumption, FlowThrough,
         NEW order, IsTopoOrder(order)
  PROVE  order[0] = upwind /\ order[nbelems + 1] = downwind
<1>1. nbelems \in Nat \ {0}
  BY DEF GraphAssumption
<1>2. /\ order \in [Vertex -> Vertex]
      /\ \A i, j \in Vertex : order[i] = order[j] => i = j
      /\ \A v \in Vertex : \E i \in Vertex : order[i] = v
  BY DEF IsTopoOrder, Bijection, Injection, Surjection, IsInjective
<1>3. \A a \in connect_graph : \A i, j \in Vertex :
        order[i] = a.from /\ order[j] = a.to => i < j
  BY DEF IsTopoOrder
<1>4. Vertex = Element \cup {upwind, downwind} /\ upwind # downwind
      /\ upwind \notin Element /\ downwind \notin Element
  BY <1>1 DEF Vertex, Element, upwind, downwind
<1>5. 0 \in Vertex /\ 1 \in Vertex /\ nbelems + 1 \in Vertex /\ 1 # nbelems + 1
  BY <1>1 DEF Vertex
\* An element has a predecessor, and a successor.
<1>6. ASSUME NEW i \in Vertex, order[i] \in Element
      PROVE  /\ \E j \in Vertex : j < i /\ order[j] # downwind
             /\ \E j \in Vertex : i < j
  <2>1. PICK a \in connect_graph : a.to = order[i]
    BY <1>6 DEF FlowThrough, InArcs, Element
  <2>2. PICK b \in connect_graph : b.from = order[i]
    BY <1>6 DEF FlowThrough, OutArcs, Element
  <2>3. PICK j \in Vertex : order[j] = a.from
    BY <1>2, <1>4, GhostArcs
  <2>4. PICK m \in Vertex : order[m] = b.to
    BY <1>2, <1>4, GhostArcs
  <2>5. a.from # downwind
    BY <1>4, GhostArcs
  <2> QED
    BY <2>1, <2>2, <2>3, <2>4, <2>5, <1>3
<1>7. order[0] \in {upwind, downwind}
  <2>1. order[0] \notin Element
    BY <1>5, <1>6 DEF Vertex
  <2> QED
    BY <2>1, <1>2, <1>4, <1>5
<1>8. order[nbelems + 1] \in {upwind, downwind}
  <2>1. order[nbelems + 1] \notin Element
    BY <1>1, <1>5, <1>6 DEF Vertex
  <2> QED
    BY <2>1, <1>2, <1>4, <1>5
<1>9. order[0] # order[nbelems + 1] /\ order[1] # order[0] /\ order[1] # order[nbelems + 1]
  BY <1>1, <1>2, <1>5
<1>10. order[1] \in Element
  BY <1>2, <1>4, <1>5, <1>7, <1>8, <1>9
<1>11. order[0] # downwind
  BY <1>5, <1>6, <1>10 DEF Vertex
<1> QED
  BY <1>7, <1>8, <1>9, <1>11

-----------------------------------------------------------------------------
(* The flow graph.                                                         *)

\* The assumptions on the graph, and the ranges that the two modules share.
LEMMA Graph ==
  /\ GraphAssumption /\ FlowThrough
  /\ Elem = Element /\ Face = 0..(nbfaces - 1)
  /\ nbelems \in Nat \ {0} /\ Elem = 0..(nbelems - 1)
  /\ Vertex = 0..(nbelems + 1)
  /\ upwind = nbelems /\ downwind = nbelems + 1
BY GraphThetaAssumption, MeshAssumption DEF Elem, Element, Face, Vertex, upwind, downwind

\* The elements are topo_order[1 .. nbelems], each once, and arcs go forward.
LEMMA SweepOrder ==
  ASSUME NEW order \in TopoOrders
  PROVE  /\ order[0] = upwind /\ order[nbelems + 1] = downwind
         /\ \A i \in 1..nbelems : order[i] \in Elem
         /\ \A e \in Elem : \E i \in 1..nbelems : order[i] = e
         /\ \A i, j \in 1..nbelems : order[i] = order[j] => i = j
         /\ \A a \in connect_graph : \A i, j \in 1..nbelems :
              order[i] = a.from /\ order[j] = a.to => i < j
<1>1. IsTopoOrder(order) /\ order \in [Vertex -> Vertex]
  BY DEF TopoOrders
<1>2. order[0] = upwind /\ order[nbelems + 1] = downwind
  BY <1>1, Graph, GhostsFirstAndLast
<1>3. /\ \A i, j \in Vertex : order[i] = order[j] => i = j
      /\ \A v \in Vertex : \E i \in Vertex : order[i] = v
  BY <1>1 DEF IsTopoOrder, Bijection, Injection, Surjection, IsInjective
<1>4. \A a \in connect_graph : \A i, j \in Vertex :
        order[i] = a.from /\ order[j] = a.to => i < j
  BY <1>1 DEF IsTopoOrder
<1>5. /\ 0 \in Vertex /\ nbelems + 1 \in Vertex
      /\ \A i \in 1..nbelems : i \in Vertex /\ i # 0 /\ i # nbelems + 1
      /\ \A i \in Vertex : i \in 1..nbelems \/ i = 0 \/ i = nbelems + 1
      /\ \A v \in Vertex : v \in Elem \/ v = upwind \/ v = downwind
      /\ \A e \in Elem : e \in Vertex /\ e # upwind /\ e # downwind
  BY Graph
<1>6. \A i \in 1..nbelems : order[i] \in Elem
  BY <1>1, <1>2, <1>3, <1>5
<1>7. \A e \in Elem : \E i \in 1..nbelems : order[i] = e
  BY <1>2, <1>3, <1>5
<1> QED
  BY <1>2, <1>3, <1>4, <1>5, <1>6, <1>7

\* The arcs between elements.
InnerArc == {a \in connect_graph : a.from \in Elem /\ a.to \in Elem}

\* What an arc is: the flow goes through its face from one side, `dir`, to the other.
LEMMA Arcs ==
  ASSUME NEW a \in connect_graph
  PROVE  /\ a.face \in Face /\ a.dir \in {0, 1}
         /\ a.from \in Elem \cup {upwind} /\ a.to \in Elem \cup {downwind}
         /\ a.dir = 0 => /\ a.from = fL[a.face]
                         /\ a.to = IF fR[a.face] = Null THEN downwind ELSE fR[a.face]
         /\ a.dir = 1 => /\ a.to = fL[a.face]
                         /\ a.from = IF fR[a.face] = Null THEN upwind ELSE fR[a.face]
<1>1. PICK f \in Face : a \in FaceArcs(f)
  BY Graph DEF connect_graph
<1>2. a.face = f /\ a.dir \in {0, 1}
  BY <1>1 DEF FaceArcs, FlowArc
<1>3. /\ a.dir = 0 => /\ a.from = fL[f]
                      /\ a.to = IF fR[f] = -1 THEN downwind ELSE fR[f]
      /\ a.dir = 1 => /\ a.to = fL[f]
                      /\ a.from = IF fR[f] = -1 THEN upwind ELSE fR[f]
  BY <1>1 DEF FaceArcs, FlowArc
<1>4. a.from \in Elem \cup {upwind} /\ a.to \in Elem \cup {downwind}
  BY Graph, GhostArcs
<1> QED
  BY <1>1, <1>2, <1>3, <1>4 DEF Null

\* A face of an inner arc lies between two elements.
LEMMA InnerFaces ==
  ASSUME NEW a \in InnerArc
  PROVE  /\ a \in connect_graph /\ fR[a.face] # Null
         /\ a.from \in Elem /\ a.to \in Elem
         /\ a.dir = 0 => a.from = fL[a.face] /\ a.to = fR[a.face]
         /\ a.dir = 1 => a.to = fL[a.face] /\ a.from = fR[a.face]
<1>1. upwind \notin Elem /\ downwind \notin Elem
  BY Graph
<1> QED
  BY <1>1, Arcs DEF InnerArc

\* A face has at most one arc in each direction,
LEMMA OneArc ==
  ASSUME NEW a \in connect_graph, NEW b \in connect_graph, a.face = b.face, a.dir = b.dir
  PROVE  a = b
<1>1. PICK f \in Face, g \in Face : a \in FaceArcs(f) /\ b \in FaceArcs(g)
  BY Graph DEF connect_graph
<1>2. f = g
  BY <1>1 DEF FaceArcs, FlowArc
<1> QED
  BY <1>1, <1>2 DEF FaceArcs, FlowArc

\* so that there are finitely many arcs.
LEMMA FiniteGraph == IsFiniteSet(connect_graph)
<1> DEFINE key == [a \in connect_graph |-> 2 * a.face + a.dir]
           K == 0..(2 * nbfaces)
<1>1. nbfaces \in Nat /\ Face = 0..(nbfaces - 1)
  BY MeshAssumption, Graph
<1>2. \A a \in connect_graph : a.face \in Nat /\ a.face < nbfaces /\ a.dir \in {0, 1}
  BY <1>1, Arcs
<1>3. key \in [connect_graph -> K]
  BY <1>1, <1>2
<1>4. ASSUME NEW a \in connect_graph, NEW b \in connect_graph, key[a] = key[b]
      PROVE  a = b
  BY <1>2, <1>4, OneArc
<1>5. key \in Injection(connect_graph, K)
  BY <1>3, <1>4 DEF Injection, IsInjective
<1>6. IsFiniteSet(K)
  BY <1>1, FS_Interval
<1> QED
  BY <1>5, <1>6, FS_Injection

\* igraph_incident lists each arc once.
LEMMA Incident ==
  ASSUME NEW A \in SUBSET connect_graph
  PROVE  /\ IsFiniteSet(A) /\ Cardinality(A) \in Nat
         /\ incident(A) \in Bijection(1..Cardinality(A), A)
         /\ \A n \in 1..Cardinality(A) : incident(A)[n] \in A
         /\ \A a \in A : \E n \in 1..Cardinality(A) : incident(A)[n] = a
         /\ \A l, n \in 1..Cardinality(A) : incident(A)[l] = incident(A)[n] => l = n
<1>1. IsFiniteSet(A)
  BY FiniteGraph, FS_Subset
<1>2. Cardinality(A) \in Nat /\ ExistsBijection(1..Cardinality(A), A)
  BY <1>1, FS_CardinalityType
<1>3. incident(A) \in Bijection(1..Cardinality(A), A)
  BY <1>2 DEF ExistsBijection, incident
<1> QED
  BY <1>1, <1>2, <1>3 DEF Bijection, Injection, Surjection, IsInjective

-----------------------------------------------------------------------------
(* The tasks of an element.                                                *)

\* With a solver the interfaces work on sol and rhs.
LEMMA StateIsSol ==
  \A e : state_handle(e) = sol_handle(e) /\ flux_handle(e) = rhs_handle(e)
BY ThetaAssumption, SolverState

\* The buffer of the face of an arc on the side the flow comes from.
FaceOf(a) == IF a.dir = 0 THEN wL_handle(a.face) ELSE wR_handle(a.face)

\* Each arc has its own, and it is no buffer of an element.
LEMMA FaceOfArcs ==
  ASSUME NEW a \in connect_graph
  PROVE  /\ \A b \in connect_graph : FaceOf(a) = FaceOf(b) => a = b
         /\ FaceOf(a) \in FaceHandle
         /\ \A e : FaceOf(a) # sol_handle(e) /\ FaceOf(a) # rhs_handle(e)
<1>1. FaceOf(a) \in FaceHandle
  BY Arcs DEF FaceOf, FaceHandle
<1>2. ASSUME NEW b \in connect_graph, FaceOf(a) = FaceOf(b)
      PROVE  a = b
  <2>1. a.dir \in {0, 1} /\ b.dir \in {0, 1}
    BY Arcs
  <2>2. a.face = b.face /\ a.dir = b.dir
    BY <1>2, <2>1, SameElement, ImplicitHandles DEF FaceOf
  <2> QED
    BY <2>2, OneArc
<1> QED
  BY <1>1, <1>2, FaceHandles

\* An arc into an element gives it one flux: between elements, from the buffer of the
\* face on the upwind side.
LEMMA UpwindFluxTask ==
  ASSUME NEW e \in Elem, NEW a \in InArcs(e), tnow \in Int
  PROVE  /\ UpwindFlux(a)[1] \in RhsFluxTask(e) /\ UpwindFlux(a)[1] \in RhsTask
         /\ a \in InnerArc => /\ UpwindFlux(a)[1].cl = "InterfaceExplicitFlux"
                              /\ UpwindFlux(a)[1].buf = << FaceOf(a), rhs_handle(e) >>
         /\ a \notin InnerArc => UpwindFlux(a)[1].cl = "InterfaceBoundaryFlux"
<1>1. /\ a \in connect_graph /\ a.to = e /\ a.face \in Face /\ a.dir \in {0, 1}
      /\ 1 - a.dir \in {0, 1} /\ fL[a.face] # Null
  BY Arcs, Sides DEF InArcs
<1>2. a.from \in Elem \/ a.from = upwind
  BY <1>1, Arcs
<1>3. CASE a.from = upwind
  <2> DEFINE t == [cl |-> "InterfaceBoundaryFlux", buf |-> << rhs_handle(e) >>, arg |-> tnow]
  <2>1. a.from >= nbelems /\ a.from \notin Elem
    BY <1>3, Graph
  <2>2. fL[a.face] = e
    <3>1. a.dir = 0 => fL[a.face] = upwind
      BY <1>1, <1>3, Arcs
    <3>2. fL[a.face] \in Elem
      BY <1>1, Sides
    <3> QED
      BY <1>1, <1>3, <2>1, <3>1, <3>2, Arcs
  <2>3. UpwindFlux(a) = << t >>
    BY <2>1, <2>2, StateIsSol DEF UpwindFlux, InterfaceBoundaryFlux_SPU
  <2>4. UpwindFlux(a) \in Seq(Task)
    BY <1>1, <2>1, InterfaceTasks DEF UpwindFlux
  <2>5. t \in Task
    BY <2>3, <2>4, OneInSequence
  <2>6. t \in RhsFluxTask(e) /\ t \in RhsTask
    BY <2>5 DEF RhsFluxTask, RhsTask, IsRhsTask
  <2>7. a \notin InnerArc /\ t.cl = "InterfaceBoundaryFlux"
    BY <2>1 DEF InnerArc
  <2> HIDE DEF t
  <2> QED
    BY <2>3, <2>6, <2>7
<1>4. CASE a.from \in Elem
  <2> DEFINE f == a.face
             t == [cl |-> "InterfaceExplicitFlux", buf |-> << FaceOf(a), rhs_handle(e) >>,
                   arg |-> IF a.dir = 0 THEN -1 ELSE 1]
  <2>1. a \in InnerArc /\ ~ (a.from >= nbelems)
    BY <1>1, <1>4, Graph DEF InnerArc
  <2>2. /\ fR[a.face] # Null
        /\ a.dir = 0 => fR[a.face] = e
        /\ a.dir = 1 => fL[a.face] = e
    BY <1>1, <2>1, InnerFaces
  <2>3. UpwindFlux(a) = InterfaceExplicitFlux_SPU(a.face, 1 - a.dir)
    BY <2>1 DEF UpwindFlux
  <2>4. UpwindFlux(a) \in Seq(Task)
    BY <1>1, <2>3, InterfaceTasks
  <2>5. UpwindFlux(a) = << t >>
    <3>1. CASE a.dir = 0
      <4>1. 1 - a.dir # 0
        BY <3>1
      <4> QED
        BY <2>2, <2>3, <3>1, <4>1, StateIsSol DEF InterfaceExplicitFlux_SPU, FaceOf
    <3>2. CASE a.dir = 1
      <4>1. 1 - a.dir = 0
        BY <3>2
      <4> QED
        BY <2>2, <2>3, <3>2, <4>1, StateIsSol DEF InterfaceExplicitFlux_SPU, FaceOf
    <3> QED
      BY <1>1, <3>1, <3>2
  <2>6. t \in Task
    BY <2>4, <2>5, OneInSequence
  <2>7. t \in RhsFluxTask(e) /\ t \in RhsTask
    BY <1>1, <2>6 DEF RhsFluxTask, RhsTask, IsRhsTask, FaceOf
  <2>8. t.cl = "InterfaceExplicitFlux" /\ t.buf = << FaceOf(a), rhs_handle(e) >>
    OBVIOUS
  <2> HIDE DEF t
  <2> QED
    BY <2>1, <2>5, <2>7, <2>8
<1> QED
  BY <1>2, <1>3, <1>4

\* An arc to another element hands the state over, in that buffer.
LEMMA DownwindTask ==
  ASSUME NEW e \in Elem, NEW a \in DownwindArcs(e)
  PROVE  /\ a \in InnerArc /\ a.from = e
         /\ ExtractInterface_SPU(a.face, a.dir)[1] \in ExtractTask(FaceOf(a), e)
         /\ ExtractInterface_SPU(a.face, a.dir)[1] \in RhsTask
<1> DEFINE t == [cl |-> "ExtractInterface", buf |-> << FaceOf(a), sol_handle(e) >>, arg |-> 0]
<1>1. /\ a \in connect_graph /\ a.from = e /\ a.to < nbelems
      /\ a.face \in Face /\ a.dir \in {0, 1} /\ 0 \in Int
  BY Arcs DEF DownwindArcs, OutArcs
<1>2. a \in InnerArc
  BY <1>1, Arcs, Graph DEF InnerArc
<1>3. /\ a.dir = 0 => fL[a.face] = e
      /\ a.dir = 1 => fR[a.face] = e
      /\ e # Null
  BY <1>1, <1>2, InnerFaces, Graph DEF Null
<1>4. ExtractInterface_SPU(a.face, a.dir) = << t >>
  BY <1>1, <1>3, StateIsSol DEF ExtractInterface_SPU, FaceOf
<1>5. t \in Task
  BY <1>1, <1>4, InterfaceTasks, OneInSequence
<1>6. t \in ExtractTask(FaceOf(a), e) /\ t \in RhsTask
  BY <1>1, <1>5 DEF ExtractTask, RhsTask, IsRhsTask, FaceOf
<1> HIDE DEF t
<1> QED
  BY <1>1, <1>2, <1>4, <1>6

\* The fluxes of an element: one for each arc into it.
LEMMA UpwindFluxTasks ==
  ASSUME NEW e \in Elem, tnow \in Int
  PROVE  /\ UpwindFluxes(e) \in Seq(RhsTask) /\ Len(UpwindFluxes(e)) = Cardinality(InArcs(e))
         /\ \A n \in 1..Len(UpwindFluxes(e)) : \E a \in InArcs(e) :
              UpwindFluxes(e)[n] = UpwindFlux(a)[1]
         /\ \A a \in InArcs(e) : \E n \in 1..Len(UpwindFluxes(e)) :
              UpwindFluxes(e)[n] = UpwindFlux(a)[1]
<1> DEFINE A == InArcs(e)  N == Cardinality(A)  s == incident(A)  u == UpwindFluxes(e)
<1>1. /\ N \in Nat
      /\ \A n \in 1..N : s[n] \in A
      /\ \A a \in A : \E n \in 1..N : s[n] = a
  <2>1. A \in SUBSET connect_graph
    BY DEF InArcs
  <2> QED
    BY <2>1, Incident
<1>2. u = [n \in 1..N |-> UpwindFlux(s[n])[1]]
  BY DEF UpwindFluxes
<1>3. \A a \in A : UpwindFlux(a)[1] \in RhsTask
  BY UpwindFluxTask
<1> HIDE DEF A, N, s, u
<1>4. u \in Seq(RhsTask) /\ Len(u) = N
  BY <1>1, <1>2, <1>3
<1>5. /\ \A n \in 1..N : \E a \in A : u[n] = UpwindFlux(a)[1]
      /\ \A a \in A : \E n \in 1..N : u[n] = UpwindFlux(a)[1]
  BY <1>1, <1>2
<1> QED
  BY <1>4, <1>5 DEF A, N, u

\* Its extractions: one for each arc to another element.
LEMMA DownwindTasks ==
  ASSUME NEW e \in Elem
  PROVE  /\ DownwindExtracts(e) \in Seq(RhsTask)
         /\ \A n \in 1..Len(DownwindExtracts(e)) : \E a \in DownwindArcs(e) :
              DownwindExtracts(e)[n] \in ExtractTask(FaceOf(a), e)
         /\ \A a \in DownwindArcs(e) : \E n \in 1..Len(DownwindExtracts(e)) :
              /\ DownwindExtracts(e)[n] \in ExtractTask(FaceOf(a), e)
              /\ \A l \in 1..Len(DownwindExtracts(e)) :
                   l # n => ~ Writes(DownwindExtracts(e)[l], FaceOf(a))
<1> DEFINE A == DownwindArcs(e)  N == Cardinality(A)  s == incident(A)  d == DownwindExtracts(e)
           X(a) == ExtractInterface_SPU(a.face, a.dir)[1]
<1>1. /\ N \in Nat
      /\ \A n \in 1..N : s[n] \in A
      /\ \A a \in A : \E n \in 1..N : s[n] = a
      /\ \A l, n \in 1..N : s[l] = s[n] => l = n
  <2>1. A \in SUBSET connect_graph
    BY DEF DownwindArcs, OutArcs
  <2> QED
    BY <2>1, Incident
<1>2. d = [n \in 1..N |-> X(s[n])]
  BY DEF DownwindExtracts
<1>3. \A a \in A : X(a) \in RhsTask /\ X(a) \in ExtractTask(FaceOf(a), e)
  BY DownwindTask
<1>4. ASSUME NEW a \in A, NEW b \in A, Writes(X(b), FaceOf(a))
      PROVE  a = b
  <2>1. a \in connect_graph /\ b \in connect_graph
    BY DownwindTask, InnerFaces
  <2>2. FaceOf(a) = FaceOf(b)
    BY <1>3, <1>4, ImplicitTasksWrite
  <2> QED
    BY <2>1, <2>2, FaceOfArcs
<1> HIDE DEF A, N, s, d, X
<1>5. d \in Seq(RhsTask) /\ Len(d) = N
  BY <1>1, <1>2, <1>3
<1>6. \A n \in 1..N : \E a \in A : d[n] \in ExtractTask(FaceOf(a), e)
  BY <1>1, <1>2, <1>3
<1>7. ASSUME NEW a \in A
      PROVE  \E n \in 1..N : /\ d[n] \in ExtractTask(FaceOf(a), e)
                             /\ \A l \in 1..N : l # n => ~ Writes(d[l], FaceOf(a))
  <2>1. PICK n \in 1..N : s[n] = a
    BY <1>1
  <2>2. \A l \in 1..N : Writes(d[l], FaceOf(a)) => s[l] = s[n]
    BY <1>1, <1>2, <1>4, <2>1
  <2> QED
    BY <1>1, <1>2, <1>3, <2>1, <2>2
<1> QED
  BY <1>5, <1>6, <1>7 DEF A, d

\* What the tasks of an arc do.
LEMMA ArcTasksDo ==
  ASSUME NEW a \in InnerArc
  PROVE  /\ \A t \in RhsFluxTask(a.to) :
              t.cl = "InterfaceExplicitFlux" /\ t.buf = << FaceOf(a), rhs_handle(a.to) >>
                => ReadOnly(t, FaceOf(a)) /\ Writes(t, rhs_handle(a.to))
         /\ \A t \in ExtractTask(FaceOf(a), a.from) :
              ReadOnly(t, sol_handle(a.from)) /\ Writes(t, FaceOf(a))
<1> USE OneOrMoreBuffers, ImplicitCodelets DEF ReadOnly, Writes
<1>1. ASSUME NEW t \in RhsFluxTask(a.to), t.buf = << FaceOf(a), rhs_handle(a.to) >>,
             t.cl = "InterfaceExplicitFlux"
      PROVE  ReadOnly(t, FaceOf(a)) /\ Writes(t, rhs_handle(a.to))
  BY <1>1
<1>2. ASSUME NEW t \in ExtractTask(FaceOf(a), a.from)
      PROVE  ReadOnly(t, sol_handle(a.from)) /\ Writes(t, FaceOf(a))
  <2>1. t.cl = "ExtractInterface" /\ t.buf = << FaceOf(a), sol_handle(a.from) >>
    BY DEF ExtractTask
  <2> QED
    BY <2>1
<1> QED
  BY <1>1, <1>2

\* x is a part of r, after the first o tasks.
Part(r, o, x) == \A i \in 1..Len(x) : r[o + i] = x[i]

\* Two sequences of tasks one after the other.
LEMMA Concatenated ==
  ASSUME NEW s \in Seq(ThetaTask), NEW t \in Seq(ThetaTask)
  PROVE  /\ s \o t \in Seq(ThetaTask) /\ Len(s \o t) = Len(s) + Len(t) /\ Len(s) \in Nat
         /\ Part(s \o t, Len(s), t)
         /\ \A o \in Nat : \A x \in Seq(ThetaTask) :
              /\ o + Len(x) <= Len(s) /\ Part(s, o, x) => Part(s \o t, o, x)
              /\ o + Len(x) <= Len(t) /\ Part(t, o, x) => Part(s \o t, Len(s) + o, x)
<1> DEFINE r == s \o t
<1>1. Len(s) \in Nat /\ Len(t) \in Nat
  BY LenProperties
<1>2. /\ r \in Seq(ThetaTask) /\ Len(r) = Len(s) + Len(t)
      /\ \A i \in 1..Len(s) : r[i] = s[i]
      /\ \A i \in 1..Len(t) : r[Len(s) + i] = t[i]
  BY <1>1, ConcatProperties
<1> HIDE DEF r
<1>3. ASSUME NEW o \in Nat, NEW x \in Seq(ThetaTask)
      PROVE  /\ o + Len(x) <= Len(s) /\ Part(s, o, x) => Part(r, o, x)
             /\ o + Len(x) <= Len(t) /\ Part(t, o, x) => Part(r, Len(s) + o, x)
  <2>1. Len(x) \in Nat
    BY LenProperties
  <2>2. ASSUME NEW i \in 1..Len(x)
        PROVE  /\ o + Len(x) <= Len(s) => o + i \in 1..Len(s)
               /\ o + Len(x) <= Len(t) => o + i \in 1..Len(t)
               /\ Len(s) + (o + i) = Len(s) + o + i
    BY <1>1, <2>1
  <2> QED
    BY <1>2, <2>2 DEF Part
<1>4. Part(r, Len(s), t)
  BY <1>2 DEF Part
<1> QED
  BY <1>1, <1>2, <1>3, <1>4 DEF r

\* How many sources an element has.
SourceCount == IF HasSource THEN 1 ELSE 0

\* The tasks of an element in their order: the product, the source, a flux for each arc
\* into it, the solve, an extraction for each arc to another element.
LEMMA ElementParts ==
  ASSUME NEW e \in Elem, tnow \in Int
  PROVE  \E s \in SolveTask(e) :
           LET up   == UpwindFluxes(e)
               down == DownwindExtracts(e)
               z    == 1 + SourceCount + Len(up) + 1
           IN  /\ ElemTasks(e) \in Seq(ThetaTask)
               /\ Len(ElemTasks(e)) = z + Len(down)
               /\ Part(ElemTasks(e), 0, MatVect_SPU(e))
               /\ Part(ElemTasks(e), 1, SourceLocalAssembly_SPU(e, tnow))
               /\ Part(ElemTasks(e), 1 + SourceCount, up)
               /\ Part(ElemTasks(e), 1 + SourceCount + Len(up), << s >>)
               /\ Part(ElemTasks(e), z, down)
<1> DEFINE mv == MatVect_SPU(e)  src == SourceLocalAssembly_SPU(e, tnow)
           up == UpwindFluxes(e)  down == DownwindExtracts(e)
<1>1. /\ mv \in Seq(ThetaTask) /\ src \in Seq(ThetaTask)
      /\ up \in Seq(ThetaTask) /\ down \in Seq(ThetaTask)
  <2>1. mv \in Seq(RhsTask) /\ src \in Seq(RhsTask)
    BY TasksOfElement, ThetaAssumption
  <2> QED
    BY <2>1, UpwindFluxTasks, DownwindTasks, ThetaTasks
<1>2. PICK s \in SolveTask(e) : SolveLinearSolver(e) = << s >>
  BY ElementTurns, ThetaAssumption
<1> DEFINE one == << s >>
           u == mv \o src  v == u \o up  w == v \o one  ts == w \o down
<1>3. ElemTasks(e) = ts
  BY <1>2 DEF ElemTasks
<1>4. one \in Seq(ThetaTask) /\ Len(one) = 1
  <2>1. s \in ThetaTask
    BY ThetaTasks
  <2> QED
    BY <2>1
<1>5. Len(mv) = 1 /\ Len(src) = SourceCount /\ SourceCount \in Nat
  <2>1. Len(src) = IF HasSource THEN 1 ELSE 0
    BY DEF SourceLocalAssembly_SPU
  <2> QED
    BY <2>1 DEF MatVect_SPU, SourceCount
<1>6. Part(mv, 0, mv) /\ 0 \in Nat
  BY DEF Part
<1> HIDE DEF mv, src, up, down, one
<1>7. Len(up) \in Nat /\ Len(down) \in Nat
  BY <1>1, LenProperties
<1> DEFINE c == SourceCount  n == Len(up)  d == Len(down)
<1> HIDE DEF c, n, d
<1>8. /\ u \in Seq(ThetaTask) /\ Len(u) = 1 + c
      /\ Part(u, 0, mv) /\ Part(u, 1, src)
  <2>1. 0 + Len(mv) <= Len(mv)
    BY <1>5
  <2> QED
    BY <1>1, <1>5, <1>6, <2>1, Concatenated DEF c
<1> HIDE DEF u
<1>9. c \in Nat /\ n \in Nat /\ d \in Nat /\ Len(src) = c /\ Len(mv) = 1 /\ Len(up) = n /\ Len(down) = d
  BY <1>5, <1>7 DEF c, n, d
<1>10. /\ v \in Seq(ThetaTask) /\ Len(v) = 1 + c + n
       /\ Part(v, 0, mv) /\ Part(v, 1, src) /\ Part(v, 1 + c, up)
  <2>1. 0 + Len(mv) <= Len(u) /\ 1 + Len(src) <= Len(u) /\ 1 \in Nat
    BY <1>8, <1>9
  <2> QED
    BY <1>1, <1>6, <1>8, <1>9, <2>1, Concatenated
<1> HIDE DEF v
<1>11. /\ w \in Seq(ThetaTask) /\ Len(w) = 1 + c + n + 1
       /\ Part(w, 0, mv) /\ Part(w, 1, src) /\ Part(w, 1 + c, up) /\ Part(w, 1 + c + n, one)
  <2>1. /\ 0 + Len(mv) <= Len(v) /\ 1 + Len(src) <= Len(v) /\ 1 + c + Len(up) <= Len(v)
        /\ 1 \in Nat /\ 1 + c \in Nat
    BY <1>9, <1>10
  <2>2. /\ w \in Seq(ThetaTask) /\ Len(w) = Len(v) + Len(one) /\ Part(w, Len(v), one)
    BY <1>4, <1>10, Concatenated
  <2>3. \A o \in Nat : \A x \in Seq(ThetaTask) :
          o + Len(x) <= Len(v) /\ Part(v, o, x) => Part(w, o, x)
    BY <1>4, <1>10, Concatenated
  <2>4. Part(w, 0, mv) /\ Part(w, 1, src) /\ Part(w, 1 + c, up)
    BY <1>1, <1>6, <1>10, <2>1, <2>3
  <2> QED
    BY <1>4, <1>10, <2>2, <2>4
<1> HIDE DEF w
<1>12. /\ ts \in Seq(ThetaTask) /\ Len(ts) = 1 + c + n + 1 + d
       /\ Part(ts, 0, mv) /\ Part(ts, 1, src) /\ Part(ts, 1 + c, up) /\ Part(ts, 1 + c + n, one)
       /\ Part(ts, 1 + c + n + 1, down)
  <2>1. /\ 0 + Len(mv) <= Len(w) /\ 1 + Len(src) <= Len(w) /\ 1 + c + Len(up) <= Len(w)
        /\ 1 + c + n + Len(one) <= Len(w)
        /\ 1 \in Nat /\ 1 + c \in Nat /\ 1 + c + n \in Nat
    BY <1>4, <1>9, <1>11
  <2> QED
    BY <1>1, <1>4, <1>6, <1>9, <1>11, <2>1, Concatenated
<1> HIDE DEF ts
<1> QED
  BY <1>3, <1>12 DEF mv, src, up, down, one, c, n, d

\* What submitting them makes of the queue q: r, where z is the solve.
Turned(q, r, e, z) ==
  /\ Prefix(q, r)
  /\ z = Len(q) + 2 + SourceCount + Cardinality(InArcs(e)) /\ z \in DOMAIN r
  /\ r[Len(q) + 1] \in MatVectTask(e)
  /\ \A i \in (Len(q) + 2)..(Len(q) + 1 + SourceCount) : r[i] \in SourceTask(e)
  /\ \A i \in (Len(q) + 2 + SourceCount)..(z - 1) : \E a \in InArcs(e) : r[i] = UpwindFlux(a)[1]
  /\ \A a \in InArcs(e) : \E i \in (Len(q) + 2 + SourceCount)..(z - 1) : r[i] = UpwindFlux(a)[1]
  /\ r[z] \in SolveTask(e)
  /\ \A i \in (z + 1)..Len(r) : \E a \in DownwindArcs(e) : r[i] \in ExtractTask(FaceOf(a), e)
  /\ \A a \in DownwindArcs(e) : \E i \in (z + 1)..Len(r) :
       /\ r[i] \in ExtractTask(FaceOf(a), e)
       /\ \A l \in (z + 1)..Len(r) : l # i => ~ Writes(r[l], FaceOf(a))

LEMMA TurnOf ==
  ASSUME NEW q \in Seq(ThetaTask), NEW e \in Elem, tnow \in Int, NEW r, r = q \o ElemTasks(e)
  PROVE  r \in Seq(ThetaTask) /\ \E z : Turned(q, r, e, z)
<1> DEFINE ts == ElemTasks(e)  mv == MatVect_SPU(e)  src == SourceLocalAssembly_SPU(e, tnow)
           up == UpwindFluxes(e)  down == DownwindExtracts(e)
           m == Len(q)  c == SourceCount  n == Len(up)  d == Len(down)
<1>1. PICK s \in SolveTask(e) :
        /\ ts \in Seq(ThetaTask) /\ Len(ts) = 1 + c + n + 1 + d
        /\ Part(ts, 0, mv) /\ Part(ts, 1, src) /\ Part(ts, 1 + c, up)
        /\ Part(ts, 1 + c + n, << s >>) /\ Part(ts, 1 + c + n + 1, down)
  BY ElementParts
<1> DEFINE one == << s >>
<1>2. /\ mv \in Seq(ThetaTask) /\ src \in Seq(ThetaTask) /\ one \in Seq(ThetaTask)
      /\ up \in Seq(ThetaTask) /\ down \in Seq(ThetaTask)
  <2>1. mv \in Seq(RhsTask) /\ src \in Seq(RhsTask)
    BY TasksOfElement, ThetaAssumption
  <2>2. s \in ThetaTask
    BY ThetaTasks
  <2> QED
    BY <2>1, <2>2, UpwindFluxTasks, DownwindTasks, ThetaTasks
<1>3. /\ \E x \in MatVectTask(e) : mv = << x >>
      /\ \A i \in 1..c : i = 1 /\ src[i] \in SourceTask(e)
      /\ Len(mv) = 1 /\ Len(src) = c /\ c \in Nat
  <2>1. \E x \in MatVectTask(e) : mv = << x >>
    BY ElementTurns, ThetaAssumption
  <2>2. CASE HasSource
    <3>1. PICK x \in SourceTask(e) : src = << x >>
      BY <2>2, ElementTurns, ThetaAssumption
    <3>2. c = 1
      BY <2>2 DEF SourceCount
    <3> HIDE DEF src, c
    <3> QED
      BY <2>1, <3>1, <3>2
  <2>3. CASE ~ HasSource
    <3>1. src = << >>
      BY <2>3, ElementTurns, ThetaAssumption
    <3>2. c = 0
      BY <2>3 DEF SourceCount
    <3> HIDE DEF src, c
    <3> QED
      BY <2>1, <3>1, <3>2
  <2> QED
    BY <2>2, <2>3
<1>4. /\ n = Cardinality(InArcs(e))
      /\ \A i \in 1..n : \E a \in InArcs(e) : up[i] = UpwindFlux(a)[1]
      /\ \A a \in InArcs(e) : \E i \in 1..n : up[i] = UpwindFlux(a)[1]
  BY UpwindFluxTasks
<1>5. /\ \A i \in 1..d : \E a \in DownwindArcs(e) : down[i] \in ExtractTask(FaceOf(a), e)
      /\ \A a \in DownwindArcs(e) : \E i \in 1..d :
           /\ down[i] \in ExtractTask(FaceOf(a), e)
           /\ \A l \in 1..d : l # i => ~ Writes(down[l], FaceOf(a))
  BY DownwindTasks
<1>6. m \in Nat /\ n \in Nat /\ d \in Nat /\ Len(one) = 1 /\ one[1] = s
  BY <1>2, LenProperties
<1> HIDE DEF ts, mv, src, up, down, c, one, m, n, d
<1>7. /\ Len(up) = n /\ Len(down) = d /\ Len(q) = m
  BY DEF m, n, d
<1>8. r = q \o ts
  BY DEF ts
<1> DEFINE z == m + 2 + c + n
<1>9. /\ r \in Seq(ThetaTask) /\ Len(r) = z + d
      /\ Part(r, m, mv) /\ Part(r, m + 1, src) /\ Part(r, m + 1 + c, up)
      /\ Part(r, m + 1 + c + n, one) /\ Part(r, z, down)
  <2>1. /\ r \in Seq(ThetaTask) /\ Len(r) = m + Len(ts)
        /\ \A o \in Nat : \A x \in Seq(ThetaTask) :
             o + Len(x) <= Len(ts) /\ Part(ts, o, x) => Part(r, m + o, x)
    <3>1. /\ q \o ts \in Seq(ThetaTask) /\ Len(q \o ts) = m + Len(ts)
          /\ \A o \in Nat : \A x \in Seq(ThetaTask) :
               o + Len(x) <= Len(ts) /\ Part(ts, o, x) => Part(q \o ts, m + o, x)
      BY <1>1, <1>7, Concatenated
    <3> QED
      BY <1>8, <3>1, Zenon
  <2>2. /\ 0 + Len(mv) <= Len(ts) /\ 1 + Len(src) <= Len(ts) /\ 1 + c + Len(up) <= Len(ts)
        /\ 1 + c + n + Len(one) <= Len(ts) /\ 1 + c + n + 1 + Len(down) <= Len(ts)
        /\ 0 \in Nat /\ 1 \in Nat /\ 1 + c \in Nat /\ 1 + c + n \in Nat /\ 1 + c + n + 1 \in Nat
    BY <1>1, <1>3, <1>6, <1>7
  <2>3. /\ Part(r, m + 0, mv) /\ Part(r, m + 1, src) /\ Part(r, m + (1 + c), up)
        /\ Part(r, m + (1 + c + n), one) /\ Part(r, m + (1 + c + n + 1), down)
    BY <1>1, <1>2, <2>1, <2>2 DEF one
  <2>4. /\ m + 0 = m /\ m + (1 + c) = m + 1 + c /\ m + (1 + c + n) = m + 1 + c + n
        /\ m + (1 + c + n + 1) = z /\ m + Len(ts) = z + d
    BY <1>1, <1>3, <1>6
  <2> QED
    BY <2>1, <2>3, <2>4
<1>10. Prefix(q, r)
  <2>1. q \in Seq(Task) /\ ts \in Seq(Task)
    BY <1>1, ThetaTasks
  <2> QED
    BY <1>8, <2>1, AppendedTasks
<1>11. r[m + 1] \in MatVectTask(e)
  <2>1. 1 \in 1..Len(mv)
    BY <1>3
  <2>2. r[m + 1] = mv[1]
    BY <1>9, <2>1 DEF Part
  <2> QED
    BY <1>3, <2>2
<1>12. \A i \in (m + 2)..(m + 1 + c) : r[i] \in SourceTask(e)
  <2> SUFFICES ASSUME NEW i \in (m + 2)..(m + 1 + c) PROVE r[i] \in SourceTask(e)
    OBVIOUS
  <2>1. i - (m + 1) \in 1..Len(src) /\ m + 1 + (i - (m + 1)) = i
    BY <1>3, <1>6
  <2>2. r[i] = src[i - (m + 1)]
    BY <1>9, <2>1 DEF Part
  <2> QED
    BY <1>3, <2>1, <2>2
<1>13. \A i \in (m + 2 + c)..(z - 1) : \E a \in InArcs(e) : r[i] = UpwindFlux(a)[1]
  <2> SUFFICES ASSUME NEW i \in (m + 2 + c)..(z - 1)
               PROVE  \E a \in InArcs(e) : r[i] = UpwindFlux(a)[1]
    OBVIOUS
  <2>1. i - (m + 1 + c) \in 1..n /\ m + 1 + c + (i - (m + 1 + c)) = i
    BY <1>3, <1>6
  <2>2. r[i] = up[i - (m + 1 + c)]
    BY <1>7, <1>9, <2>1 DEF Part
  <2> QED
    BY <1>4, <2>1, <2>2
<1>14. \A a \in InArcs(e) : \E i \in (m + 2 + c)..(z - 1) : r[i] = UpwindFlux(a)[1]
  <2> SUFFICES ASSUME NEW a \in InArcs(e)
               PROVE  \E i \in (m + 2 + c)..(z - 1) : r[i] = UpwindFlux(a)[1]
    OBVIOUS
  <2>1. PICK i \in 1..n : up[i] = UpwindFlux(a)[1]
    BY <1>4
  <2>2. m + 1 + c + i \in (m + 2 + c)..(z - 1)
    BY <1>3, <1>6
  <2>3. r[m + 1 + c + i] = up[i]
    BY <1>7, <1>9 DEF Part
  <2> QED
    BY <2>1, <2>2, <2>3
<1>15. r[z] \in SolveTask(e)
  <2>1. 1 \in 1..Len(one) /\ m + 1 + c + n + 1 = z
    BY <1>3, <1>6
  <2>2. r[z] = one[1]
    BY <1>9, <2>1 DEF Part
  <2> QED
    BY <1>6, <2>2
<1>16. z \in DOMAIN r /\ z \in Nat
  <2>1. z \in 1..(z + d) /\ z \in Nat
    BY <1>3, <1>6
  <2> QED
    BY <1>9, <2>1, LenProperties
<1>17. z = m + 2 + c + n
  OBVIOUS
<1> HIDE DEF z
<1>18. \A i \in (z + 1)..Len(r) : i - z \in 1..d /\ r[i] = down[i - z]
  <2> SUFFICES ASSUME NEW i \in (z + 1)..Len(r) PROVE i - z \in 1..d /\ r[i] = down[i - z]
    OBVIOUS
  <2>1. i - z \in 1..d /\ z + (i - z) = i
    BY <1>6, <1>9, <1>16
  <2> QED
    BY <1>7, <1>9, <2>1 DEF Part
<1>19. \A i \in (z + 1)..Len(r) : \E a \in DownwindArcs(e) : r[i] \in ExtractTask(FaceOf(a), e)
  BY <1>5, <1>18
<1>20. ASSUME NEW a \in DownwindArcs(e)
       PROVE  \E i \in (z + 1)..Len(r) :
                /\ r[i] \in ExtractTask(FaceOf(a), e)
                /\ \A l \in (z + 1)..Len(r) : l # i => ~ Writes(r[l], FaceOf(a))
  <2>1. PICK i \in 1..d : /\ down[i] \in ExtractTask(FaceOf(a), e)
                          /\ \A l \in 1..d : l # i => ~ Writes(down[l], FaceOf(a))
    BY <1>5
  <2>2. z + i \in (z + 1)..Len(r) /\ (z + i) - z = i
    BY <1>6, <1>9, <1>16
  <2> DEFINE y == z + i
  <2>3. \A l \in (z + 1)..Len(r) : l # y => l - z # i
    BY <1>16
  <2>4. y \in (z + 1)..Len(r) /\ r[y] = down[i]
    BY <1>18, <2>2
  <2> HIDE DEF y
  <2>5. \A l \in (z + 1)..Len(r) : l # y => ~ Writes(r[l], FaceOf(a))
    BY <1>18, <2>1, <2>3
  <2> QED
    BY <2>1, <2>4, <2>5
<1>21. Turned(q, r, e, z)
  BY <1>4, <1>7, <1>10, <1>11, <1>12, <1>13, <1>14, <1>15, <1>16, <1>17, <1>19, <1>20
     DEF Turned, c
<1> QED
  BY <1>9, <1>21

\* Among the new tasks one is a solve, with the fluxes before it and the extractions
\* after it.
LEMMA ElementTurn ==
  ASSUME NEW q \in Seq(ThetaTask), NEW e \in Elem, tnow \in Int, NEW r, r = q \o ElemTasks(e)
  PROVE  /\ r \in Seq(ThetaTask) /\ Prefix(q, r)
         /\ \E z \in DOMAIN r :
              /\ z > Len(q) /\ r[z] \in SolveTask(e)
              /\ \A i \in DOMAIN r : i > Len(q) /\ i # z => r[i] \in RhsTask
              /\ \A a \in InnerArc : a.to = e => \E x \in DOMAIN r :
                   /\ Len(q) < x /\ x < z
                   /\ ReadOnly(r[x], FaceOf(a)) /\ Writes(r[x], rhs_handle(e))
              /\ \A a \in InnerArc : a.from = e => \E y \in DOMAIN r :
                   /\ z < y
                   /\ ReadOnly(r[y], sol_handle(e)) /\ Writes(r[y], FaceOf(a))
<1>1. PICK z : Turned(q, r, e, z)
  BY TurnOf
<1>2. r \in Seq(ThetaTask) /\ Prefix(q, r)
  BY <1>1, TurnOf DEF Turned
<1> DEFINE m == Len(q)  c == SourceCount
<1>3. /\ DOMAIN r = 1..Len(r) /\ Len(r) \in Nat /\ m \in Nat /\ c \in Nat
      /\ z = m + 2 + c + Cardinality(InArcs(e)) /\ z \in DOMAIN r
      /\ Cardinality(InArcs(e)) \in Nat
  <2>1. InArcs(e) \in SUBSET connect_graph
    BY DEF InArcs
  <2> QED
    BY <1>1, <1>2, <2>1, Incident, LenProperties DEF Turned, SourceCount
<1> HIDE DEF m, c
<1>4. m < z
  BY <1>3
<1>5. ASSUME NEW i \in DOMAIN r, i > m, i # z
      PROVE  r[i] \in RhsTask
  <2>1. \/ i = m + 1 \/ i \in (m + 2)..(m + 1 + c)
        \/ i \in (m + 2 + c)..(z - 1) \/ i \in (z + 1)..Len(r)
    <3>1. i \in Nat /\ i <= Len(r) /\ m < i /\ z \in Nat /\ i # z
      BY <1>3, <1>5
    <3>2. i < z => i = m + 1 \/ i \in (m + 2)..(m + 1 + c) \/ i \in (m + 2 + c)..(z - 1)
      BY <1>3, <3>1
    <3>3. z < i => i \in (z + 1)..Len(r)
      BY <1>3, <3>1
    <3> QED
      BY <3>1, <3>2, <3>3
  <2>2. CASE i = m + 1
    <3>1. r[i] \in MatVectTask(e)
      BY <1>1, <2>2 DEF Turned, m
    <3> QED
      BY <3>1 DEF MatVectTask, RhsTask, IsRhsTask
  <2>3. CASE i \in (m + 2)..(m + 1 + c)
    <3>1. r[i] \in SourceTask(e)
      BY <1>1, <2>3 DEF Turned, m, c
    <3> QED
      BY <3>1 DEF SourceTask, RhsTask, IsRhsTask
  <2>4. CASE i \in (m + 2 + c)..(z - 1)
    <3>1. PICK a \in InArcs(e) : r[i] = UpwindFlux(a)[1]
      BY <1>1, <2>4 DEF Turned, m, c
    <3> QED
      BY <3>1, UpwindFluxTask
  <2>5. CASE i \in (z + 1)..Len(r)
    <3>1. PICK a \in DownwindArcs(e) : r[i] \in ExtractTask(FaceOf(a), e)
      BY <1>1, <2>5 DEF Turned
    <3>2. a \in connect_graph
      BY DEF DownwindArcs, OutArcs
    <3>3. FaceOf(a) \in FaceHandle
      BY <3>2, FaceOfArcs
    <3> QED
      BY <3>1, <3>3 DEF ExtractTask, RhsTask, IsRhsTask, FaceHandle
  <2> QED
    BY <2>1, <2>2, <2>3, <2>4, <2>5
<1>6. ASSUME NEW a \in InnerArc, a.to = e
      PROVE  \E x \in DOMAIN r : /\ m < x /\ x < z
                                 /\ ReadOnly(r[x], FaceOf(a)) /\ Writes(r[x], rhs_handle(e))
  <2>1. a \in InArcs(e)
    BY <1>6 DEF InnerArc, InArcs
  <2>2. PICK x \in (m + 2 + c)..(z - 1) : r[x] = UpwindFlux(a)[1]
    BY <1>1, <2>1 DEF Turned, m, c
  <2>3. x \in DOMAIN r /\ m < x /\ x < z
    BY <1>3
  <2> QED
    BY <1>6, <2>1, <2>2, <2>3, UpwindFluxTask, ArcTasksDo
<1>7. ASSUME NEW a \in InnerArc, a.from = e
      PROVE  \E y \in DOMAIN r : /\ z < y
                                 /\ ReadOnly(r[y], sol_handle(e)) /\ Writes(r[y], FaceOf(a))
  <2>1. a \in DownwindArcs(e)
    BY <1>7, Graph DEF InnerArc, DownwindArcs, OutArcs
  <2>2. PICK y \in (z + 1)..Len(r) : r[y] \in ExtractTask(FaceOf(a), e)
    BY <1>1, <2>1 DEF Turned
  <2>3. y \in DOMAIN r /\ z < y
    BY <1>3
  <2> QED
    BY <1>7, <2>2, <2>3, ArcTasksDo
<1>8. r[z] \in SolveTask(e)
  BY <1>1 DEF Turned
<1> QED
  BY <1>2, <1>3, <1>4, <1>5, <1>6, <1>7, <1>8 DEF m

-----------------------------------------------------------------------------
(* The host thread and the runtime.                                        *)

\* The host's loops and its counters.
HostLoop == {"while", "elems", "firstWait", "wait", "return"}
HostTypeOK ==
  /\ pc \in HostLoop
  /\ k \in Nat
  /\ pc = "elems" => k \in Elem
  /\ pc # "elems" => k = 0
  /\ tnow \in Nat /\ ftnow \in Nat /\ iter \in Nat
  /\ topo_order \in TopoOrders

\* The invariant of the runtime and the type of the host's variables.
Inv == RTInv /\ HostTypeOK

\* It holds at the start.
LEMMA InitInv == Init => Inv
<1>1. Init => RTInv
  BY RTInitInv DEF Init
<1>2. Init => HostTypeOK
  BY DEF Init, HostTypeOK, HostLoop
<1> QED
  BY <1>1, <1>2 DEF Inv

\* A turn of the sweep: the next element of the order, or the end of the time step.
LEMMA SweepTurn ==
  ASSUME HostTypeOK, Elems
  PROVE  /\ pc = "elems" /\ k \in Elem /\ k + 1 \in 1..nbelems
         /\ topo_order[k + 1] \in Elem /\ Submit(ElemTasks(topo_order[k + 1]))
         /\ topo_order' = topo_order /\ ftnow' = tnow
         /\ \/ pc' = "elems" /\ k' = k + 1 /\ k' \in Elem /\ tnow' = tnow /\ iter' = iter
            \/ /\ pc' \in {"firstWait", "while"} /\ k' = 0 /\ k + 1 = nbelems
               /\ tnow' = tnow + 1 /\ iter' = iter + 1
<1>1. /\ k \in Elem /\ nbelems \in Nat \ {0} /\ Elem = 0..(nbelems - 1)
      /\ topo_order \in TopoOrders
  BY Loops DEF HostTypeOK, Elems, Turn
<1>2. k + 1 \in 1..nbelems
  BY <1>1
<1>3. topo_order[k + 1] \in Elem
  BY <1>1, <1>2, SweepOrder
<1>4. /\ pc = "elems" /\ Submit(ElemTasks(topo_order[k + 1])) 
      /\ \/ pc' = "elems" /\ k' = k + 1 /\ k' \in Elem
         \/ pc' \in {"firstWait", "while"} /\ k' = 0 /\ k = nbelems - 1
  <2> DEFINE after == IF iter = 0 THEN "firstWait" ELSE "while"
             ts == ElemTasks(topo_order[k + 1])
  <2>1. Turn("elems", ts, nbelems, after) /\ after \in {"firstWait", "while"}
    BY DEF Elems
  <2> HIDE DEF after, ts
  <2>2. /\ pc = "elems" /\ Submit(ts)
        /\ \/ pc' = "elems" /\ k' = k + 1 /\ k' \in 0..(nbelems - 1)
           \/ pc' = after /\ k' = 0 /\ k = nbelems - 1
    BY <1>1, <2>1, AfterTurn
  <2> QED
    BY <1>1, <2>1, <2>2 DEF ts
<1> QED
  BY <1>1, <1>2, <1>3, <1>4 DEF Elems

\* The tasks of an element are tasks,
LEMMA ElemTasksAreTasks ==
  ASSUME NEW e \in Elem, tnow \in Int
  PROVE  ElemTasks(e) \in Seq(Task)
BY ElementParts, ThetaTasks

\* so that the host does nothing but submit tasks and wait,
LEMMA HostSteps == Inv /\ Host => [RTNext]_rtVars
<1> SUFFICES ASSUME Inv, Host PROVE [RTNext]_rtVars
  OBVIOUS
<1>1. RTTypeOK /\ HostTypeOK /\ tnow \in Int
  BY DEF Inv, RTInv, HostTypeOK
<1>2. CASE WhileLoop
  BY <1>2 DEF WhileLoop, While
<1>3. CASE Elems
  <2>1. ElemTasks(topo_order[k + 1]) \in Seq(Task)
    BY <1>1, <1>3, SweepTurn, ElemTasksAreTasks
  <2> QED
    BY <1>1, <1>3, <2>1, HostStep DEF Elems
<1>4. CASE FirstWait \/ FinalWait
  BY <1>4 DEF FirstWait, FinalWait, WaitForAll
<1> QED
  BY <1>2, <1>3, <1>4 DEF Host

\* the workers run them,
LEMMA WorkersSteps == Inv /\ WorkerStep => [RTNext]_rtVars
<1> SUFFICES ASSUME Inv, Workers PROVE RTNext
  BY DEF WorkerStep
<1>1. RTTypeOK
  BY DEF Inv, RTInv
<1>2. CASE \E i \in DOMAIN queue \ done : StartKernel(i)
  BY <1>1, <1>2, WorkerAction DEF StartKernel
<1>3. CASE \E i \in Running : FinishKernel(i)
  BY <1>1, <1>3, WorkerAction DEF FinishKernel
<1> QED
  BY <1>2, <1>3 DEF Workers

\* and every step of the scheme is one of the runtime.
LEMMA StepsAreRTSteps == Inv /\ [Next]_vars => [RTNext]_rtVars
<1>1. UNCHANGED vars => UNCHANGED rtVars
  BY DEF vars
<1> QED
  BY <1>1, HostSteps, WorkersSteps DEF Next, Returned

\* What the workers leave alone.
LEMMA WorkersLeave ==
  ASSUME WorkerStep
  PROVE  queue' = queue /\ UNCHANGED hostVars
BY DEF WorkerStep, Workers, StartKernel, FinishKernel, Start, Finish, hostVars

\* The host's variables keep their type.
LEMMA HostTypeStep == Inv /\ [Next]_vars => HostTypeOK'
<1> SUFFICES ASSUME Inv, [Next]_vars PROVE HostTypeOK'
  OBVIOUS
<1>1. HostTypeOK
  BY DEF Inv
<1>2. CASE Elems
  BY <1>1, <1>2, SweepTurn, Loops DEF HostTypeOK, HostLoop
<1>3. CASE WhileLoop
  BY <1>1, <1>3, Loops DEF WhileLoop, While, HostTypeOK, HostLoop
<1>4. CASE FirstWait \/ FinalWait
  BY <1>1, <1>4 DEF FirstWait, FinalWait, WaitForAll, HostTypeOK, HostLoop
<1>5. CASE WorkerStep \/ UNCHANGED vars
  BY <1>1, <1>5, WorkersLeave DEF vars, hostVars, HostTypeOK
<1> QED
  BY <1>2, <1>3, <1>4, <1>5 DEF Next, Host, Returned

\* The invariant of the runtime holds of the scheme, whose host submits well-formed tasks only.
THEOREM GraphThetaInvariant == Spec => []Inv
<1>1. Inv /\ [Next]_vars => RTInv'
  BY StepsAreRTSteps, RTStep DEF Inv
<1>2. Inv /\ [Next]_vars => Inv'
  BY <1>1, HostTypeStep DEF Inv
<1> QED
  BY InitInv, <1>2, PTL DEF Spec

\* GraphThetaTimeScheme_SPU is a program of the runtime: what SpuHost_proofs proves of all
\* programs holds of it.
THEOREM GraphThetaImplementsRuntime == Spec => RTSpec
<1>1. Init => RTInit
  BY DEF Init
<1> QED
  BY <1>1, StepsAreRTSteps, GraphThetaInvariant, PTL DEF Spec, RTSpec

\* Two running tasks of the sweep never conflict.
THEOREM GraphThetaRaceFree == Spec => []NoDataRace
BY GraphThetaImplementsRuntime, RaceFree, PTL

\* The sweep visits the elements and only them: the ghost vertices are the ends of the
\* order, on every mesh.
THEOREM GraphThetaGhosts == Spec => []GhostsAtTheEnds
<1>1. Inv => GhostsAtTheEnds
  BY SweepOrder DEF Inv, HostTypeOK, GhostsAtTheEnds
<1> QED
  BY <1>1, GraphThetaInvariant, PTL

-----------------------------------------------------------------------------
(* The order of submission.  The queue is a sequence of turns of elements.  *)
(* Along an arc the n-th step of the downwind element comes after a task    *)
(* that took the state the upwind element had after its own; and the n-th   *)
(* step of the upwind element after the buffer of the face had been given   *)
(* the state of the step before, that is after the downwind element had     *)
(* used the state in it.                                                    *)

\* The state of the upwind element of an arc after n steps, handed over by task y,
Taken(q, a, n, y) ==
  /\ ReadOnly(q[y], sol_handle(a.from)) /\ Writes(q[y], FaceOf(a))
  /\ Cardinality(EndsBefore(q, a.from, y)) = n

\* and used by task x of the downwind element, after n steps of its own.
Used(q, a, n, x) ==
  /\ ReadOnly(q[x], FaceOf(a)) /\ Writes(q[x], rhs_handle(a.to))
  /\ Cardinality(EndsBefore(q, a.to, x)) = n

\* Before task b: step n of the downwind element has its upwind state,
Fresh(q, a, n, b) ==
  \E y, x \in DOMAIN q : Taken(q, a, n + 1, y) /\ Used(q, a, n, x) /\ y < x /\ x < b

\* the buffer was free for the state of the upwind element after n steps.
Freed(q, a, n, b) ==
  n >= 2 => \E x, y \in DOMAIN q : Used(q, a, n - 2, x) /\ Taken(q, a, n, y) /\ x < y /\ y < b

\* It holds of all the steps in the queue.
SweepOrdered(q) ==
  \A a \in InnerArc :
    /\ \A b \in Ends(q, a.to) : Fresh(q, a, Cardinality(EndsBefore(q, a.to, b)), b)
    /\ \A b \in Ends(q, a.from) : Freed(q, a, Cardinality(EndsBefore(q, a.from, b)), b)

\* What the next turns need: the last state of the upwind element, after n steps, has been
\* handed over, once the buffer was free; the downwind element, after n steps, has used
\* what was handed to it.
HandedOver(q, a, n) ==
  n >= 1 => \E y \in DOMAIN q :
    /\ Taken(q, a, n, y)
    /\ n >= 2 => \E x \in DOMAIN q : Used(q, a, n - 2, x) /\ x < y
UsedUp(q, a, n) == n >= 1 => \E x \in DOMAIN q : Used(q, a, n - 1, x)
InnerArcsServed(q) ==
  \A a \in InnerArc : /\ HandedOver(q, a, Cardinality(Ends(q, a.from)))
                      /\ UsedUp(q, a, Cardinality(Ends(q, a.to)))

\* An element has a step more in the queue once the sweep has visited it.
Visited(e) == pc = "elems" /\ \E j \in 1..k : topo_order[j] = e
StepsCounted ==
  \A e \in Elem : Cardinality(Ends(queue, e)) = iter + (IF Visited(e) THEN 1 ELSE 0)

\* The invariant.  It is about the queue and the host alone.
OrderInv ==
  /\ queue \in Seq(ThetaTask)
  /\ SweepOrdered(queue) /\ InnerArcsServed(queue)
  /\ StepsCounted

\* Longer queues keep what is said of their prefix.
LEMMA ArcTasksKept ==
  ASSUME NEW q \in Seq(Task), NEW r \in Seq(Task), Prefix(q, r), NEW a \in InnerArc, NEW n
  PROVE  /\ \A y \in DOMAIN q : y \in DOMAIN r /\ y <= Len(q) /\ y \in Nat
         /\ \A y \in DOMAIN q : Taken(q, a, n, y) => Taken(r, a, n, y)
         /\ \A x \in DOMAIN q : Used(q, a, n, x) => Used(r, a, n, x)
<1>1. Len(q) \in Nat /\ Len(r) \in Nat /\ DOMAIN q = 1..Len(q) /\ DOMAIN r = 1..Len(r)
  BY LenProperties
<1>2. \A y \in DOMAIN q : /\ y \in DOMAIN r /\ y <= Len(q) /\ y \in Nat /\ r[y] = q[y]
                          /\ y \in 1..(Len(q) + 1)
  BY <1>1 DEF Prefix
<1>3. \A y \in DOMAIN q : \A e : EndsBefore(r, e, y) = EndsBefore(q, e, y)
  BY <1>2, EndsBeforeKept
<1> QED
  BY <1>2, <1>3 DEF Taken, Used

LEMMA ArcsKept ==
  ASSUME NEW q \in Seq(Task), NEW r \in Seq(Task), Prefix(q, r), NEW a \in InnerArc, NEW n
  PROVE  /\ \A b : Fresh(q, a, n, b) => Fresh(r, a, n, b)
         /\ \A b : Freed(q, a, n, b) => Freed(r, a, n, b)
         /\ HandedOver(q, a, n) => HandedOver(r, a, n)
         /\ UsedUp(q, a, n) => UsedUp(r, a, n)
<1>1. \A y \in DOMAIN q : y \in DOMAIN r
  BY ArcTasksKept
<1>2. \A l : \A y \in DOMAIN q : /\ Taken(q, a, l, y) => Taken(r, a, l, y)
                                 /\ Used(q, a, l, y) => Used(r, a, l, y)
  BY ArcTasksKept
<1>3. \A b : Fresh(q, a, n, b) => Fresh(r, a, n, b)
  BY <1>1, <1>2 DEF Fresh
<1>4. \A b : Freed(q, a, n, b) => Freed(r, a, n, b)
  BY <1>1, <1>2 DEF Freed
<1>5. HandedOver(q, a, n) => HandedOver(r, a, n)
  BY <1>1, <1>2 DEF HandedOver
<1>6. UsedUp(q, a, n) => UsedUp(r, a, n)
  BY <1>1, <1>2 DEF UsedUp
<1> QED
  BY <1>3, <1>4, <1>5, <1>6

\* The element e, after n steps, may take the next: its upwind elements have taken it, and
\* the downwind elements have not.
MayTurn(q, e, n) ==
  /\ Cardinality(Ends(q, e)) = n
  /\ \A a \in InnerArc : a.to = e => a.from # e /\ Cardinality(Ends(q, a.from)) = n + 1
  /\ \A a \in InnerArc : a.from = e => a.to # e /\ Cardinality(Ends(q, a.to)) = n

\* Then a turn of e adds a step to it and to no other, and keeps the order.
LEMMA TurnKeepsOrder ==
  ASSUME NEW q \in Seq(ThetaTask), SweepOrdered(q), InnerArcsServed(q),
         NEW e \in Elem, NEW n \in Nat, MayTurn(q, e, n),
         tnow \in Int, NEW r, r = q \o ElemTasks(e)
  PROVE  /\ r \in Seq(ThetaTask) /\ SweepOrdered(r) /\ InnerArcsServed(r)
         /\ Cardinality(Ends(r, e)) = n + 1
         /\ \A x \in Elem : x # e => Ends(r, x) = Ends(q, x)
<1> /\ Cardinality(Ends(q, e)) = n
    /\ \A a \in InnerArc : a.to = e => a.from # e /\ Cardinality(Ends(q, a.from)) = n + 1
    /\ \A a \in InnerArc : a.from = e => a.to # e /\ Cardinality(Ends(q, a.to)) = n
  BY DEF MayTurn
<1>1. r \in Seq(ThetaTask) /\ Prefix(q, r)
  BY ElementTurn
<1>2. PICK z \in DOMAIN r :
        /\ z > Len(q) /\ r[z] \in SolveTask(e)
        /\ \A i \in DOMAIN r : i > Len(q) /\ i # z => r[i] \in RhsTask
        /\ \A a \in InnerArc : a.to = e => \E x \in DOMAIN r :
             /\ Len(q) < x /\ x < z
             /\ ReadOnly(r[x], FaceOf(a)) /\ Writes(r[x], rhs_handle(e))
        /\ \A a \in InnerArc : a.from = e => \E y \in DOMAIN r :
             /\ z < y
             /\ ReadOnly(r[y], sol_handle(e)) /\ Writes(r[y], FaceOf(a))
  BY ElementTurn
<1>3. q \in Seq(Task) /\ r \in Seq(Task)
  BY <1>1, ThetaTasks
<1>4. /\ DOMAIN q = 1..Len(q) /\ DOMAIN r = 1..Len(r) /\ Len(q) \in Nat /\ Len(r) \in Nat
      /\ Len(q) <= Len(r) /\ \A i \in 1..Len(q) : r[i] = q[i]
  BY <1>1, <1>3, LenProperties DEF Prefix
<1>5. ASSUME NEW x \in Elem, x # e
      PROVE  Ends(r, x) = Ends(q, x)
  <2>1. ASSUME NEW i \in DOMAIN r, i > Len(q)
        PROVE  ~ Writes(r[i], state_handle(x))
    BY <1>2, <1>5, <2>1, RhsTasksDo, SolveTasksDo, StateIsSol
  <2> QED
    BY <1>1, <1>3, <2>1, SameEnds
<1>6. Ends(r, e) = Ends(q, e) \cup {z}
  <2>1. ASSUME NEW i \in DOMAIN r
        PROVE  i \in Ends(r, e) <=> i \in Ends(q, e) \/ i = z
    <3>1. CASE i <= Len(q)
      BY <1>2, <1>4, <3>1 DEF Ends
    <3>2. CASE i > Len(q)
      <4>1. Writes(r[i], state_handle(e)) <=> i = z
        BY <1>2, <3>2, RhsTasksDo, SolveTasksDo, StateIsSol
      <4> QED
        BY <1>4, <3>2, <4>1 DEF Ends
    <3> QED
      BY <1>4, <3>1, <3>2
  <2>2. Ends(q, e) \subseteq DOMAIN r /\ Ends(r, e) \subseteq DOMAIN r
    BY <1>4 DEF Ends
  <2> QED
    BY <2>1, <2>2
<1>7. Cardinality(Ends(q, e) \cup {z}) = n + 1
  <2>1. z \notin Ends(q, e)
    BY <1>2, <1>4 DEF Ends
  <2>2. IsFiniteSet(Ends(q, e))
    BY <1>3, EndsFinite
  <2> QED
    BY <2>1, <2>2, FS_AddElement
\* The tasks that were in the queue, and the steps before the new ones.
<1> DEFINE Kept(a, l, y) == /\ Taken(q, a, l, y) => Taken(r, a, l, y)
                            /\ Used(q, a, l, y) => Used(r, a, l, y)
<1>20. \A y \in DOMAIN q : /\ y \in DOMAIN r /\ y \in Nat /\ y <= Len(q)
                          /\ \A a \in InnerArc : \A l : Kept(a, l, y)
  <2>1. \A y \in DOMAIN q : y \in DOMAIN r /\ y \in Nat /\ y <= Len(q)
    BY <1>4
  <2>2. \A a \in InnerArc : \A l : \A y \in DOMAIN q : Kept(a, l, y)
    BY <1>1, <1>3, ArcTasksKept
  <2> QED
    BY <2>1, <2>2

<1>8. /\ \A x \in Elem : x # e => \A i \in DOMAIN r : i > Len(q) => EndsBefore(r, x, i) = Ends(q, x)
      /\ \A i \in DOMAIN r : i > Len(q) /\ i <= z => EndsBefore(r, e, i) = Ends(q, e)
      /\ \A i \in DOMAIN r : i > z => EndsBefore(r, e, i) = Ends(q, e) \cup {z}
  <2>1. \A x : \A j \in Ends(q, x) : j \in Nat /\ j <= Len(q)
    BY <1>4 DEF Ends
  <2> QED
    BY <1>2, <1>4, <1>5, <1>6, <2>1 DEF EndsBefore
\* The arcs into e.
<1>9. ASSUME NEW a \in InnerArc, a.to = e
      PROVE  Fresh(r, a, n, z) /\ UsedUp(r, a, n + 1)
  <2>1. PICK x \in DOMAIN r : /\ Len(q) < x /\ x < z
                              /\ ReadOnly(r[x], FaceOf(a)) /\ Writes(r[x], rhs_handle(e))
    BY <1>2, <1>9
  <2>2. Used(r, a, n, x)
    <3>1. x <= z
      BY <1>4, <2>1
    <3>2. EndsBefore(r, e, x) = Ends(q, e)
      BY <1>8, <2>1, <3>1
    <3> QED
      BY <1>9, <2>1, <3>2 DEF Used
  <2>3. HandedOver(q, a, n + 1)
    BY <1>9 DEF InnerArcsServed
  <2>4. PICK y \in DOMAIN q : Taken(q, a, n + 1, y)
    BY <2>3 DEF HandedOver
  <2>5. y \in DOMAIN r /\ y < x /\ Taken(r, a, n + 1, y)
    BY <1>4, <1>20, <2>1, <2>4
  <2>6. Fresh(r, a, n, z)
    BY <2>1, <2>2, <2>5 DEF Fresh
  <2>7. UsedUp(r, a, n + 1)
    <3>1. n + 1 - 1 = n
      OBVIOUS
    <3> QED
      BY <2>2, <3>1 DEF UsedUp
  <2> QED
    BY <2>6, <2>7
\* The arcs out of e.
<1>10. ASSUME NEW a \in InnerArc, a.from = e
       PROVE  Freed(r, a, n, z) /\ HandedOver(r, a, n + 1)
  <2>1. PICK y \in DOMAIN r : /\ z < y
                              /\ ReadOnly(r[y], sol_handle(e)) /\ Writes(r[y], FaceOf(a))
    BY <1>2, <1>10
  <2>2. Taken(r, a, n + 1, y)
    <3>1. EndsBefore(r, e, y) = Ends(q, e) \cup {z}
      BY <1>8, <2>1
    <3> QED
      BY <1>7, <1>10, <2>1, <3>1 DEF Taken
  <2>3. HandedOver(q, a, n) /\ UsedUp(q, a, n)
    <3>1. /\ HandedOver(q, a, Cardinality(Ends(q, a.from)))
          /\ UsedUp(q, a, Cardinality(Ends(q, a.to)))
      BY DEF InnerArcsServed
    <3> QED
      BY <1>10, <3>1
  <2>4. Freed(r, a, n, z)
    <3> SUFFICES ASSUME n >= 2
                 PROVE  \E x, w \in DOMAIN r :
                          Used(r, a, n - 2, x) /\ Taken(r, a, n, w) /\ x < w /\ w < z
      BY DEF Freed
    <3>1. PICK w \in DOMAIN q : /\ Taken(q, a, n, w)
                                /\ \E x \in DOMAIN q : Used(q, a, n - 2, x) /\ x < w
      BY <2>3 DEF HandedOver
    <3>2. PICK x \in DOMAIN q : Used(q, a, n - 2, x) /\ x < w
      BY <3>1
    <3>3. /\ x \in DOMAIN r /\ w \in DOMAIN r /\ w < z
          /\ Used(r, a, n - 2, x) /\ Taken(r, a, n, w)
      BY <1>2, <1>4, <1>20, <3>1, <3>2
    <3> QED
      BY <3>2, <3>3
  <2>5. HandedOver(r, a, n + 1)
    <3>1. n + 1 >= 2 => \E x \in DOMAIN r : Used(r, a, n + 1 - 2, x) /\ x < y
      <4> SUFFICES ASSUME n >= 1 PROVE \E x \in DOMAIN r : Used(r, a, n + 1 - 2, x) /\ x < y
        OBVIOUS
      <4>1. PICK x \in DOMAIN q : Used(q, a, n - 1, x)
        BY <2>3 DEF UsedUp
      <4>2. x \in DOMAIN r /\ x < y /\ Used(r, a, n - 1, x)
        BY <1>2, <1>4, <1>20, <2>1, <4>1
      <4>3. n + 1 - 2 = n - 1
        OBVIOUS
      <4> QED
        BY <4>2, <4>3
    <3> QED
      BY <2>2, <3>1 DEF HandedOver
  <2> QED
    BY <2>4, <2>5
\* The steps that were in the queue.
<1>11. ASSUME NEW a \in InnerArc
       PROVE  /\ \A b \in Ends(r, a.to) : Fresh(r, a, Cardinality(EndsBefore(r, a.to, b)), b)
              /\ \A b \in Ends(r, a.from) : Freed(r, a, Cardinality(EndsBefore(r, a.from, b)), b)
  <2>1. a.from \in Elem /\ a.to \in Elem
    BY InnerFaces
  <2>2. ASSUME NEW x \in Elem, NEW b \in Ends(r, x)
        PROVE  \/ b \in Ends(q, x) /\ EndsBefore(r, x, b) = EndsBefore(q, x, b)
               \/ b = z /\ x = e /\ EndsBefore(r, x, b) = Ends(q, e)
    <3>1. CASE b \in Ends(q, x)
      <4>1. b \in 1..(Len(q) + 1)
        BY <1>4, <3>1 DEF Ends
      <4> QED
        BY <1>1, <1>3, <3>1, <4>1, EndsBeforeKept
    <3>2. CASE b \notin Ends(q, x)
      <4>1. x = e /\ b = z
        BY <1>5, <1>6, <2>2, <3>2
      <4>2. z \in DOMAIN r /\ z > Len(q) /\ z <= z
        BY <1>2, <1>4
      <4> QED
        BY <1>8, <4>1, <4>2
    <3> QED
      BY <3>1, <3>2
  <2>3. ASSUME NEW b \in Ends(r, a.to)
        PROVE  Fresh(r, a, Cardinality(EndsBefore(r, a.to, b)), b)
    <3>1. CASE b \in Ends(q, a.to) /\ EndsBefore(r, a.to, b) = EndsBefore(q, a.to, b)
      <4>1. Fresh(q, a, Cardinality(EndsBefore(q, a.to, b)), b)
        BY <3>1 DEF SweepOrdered
      <4> QED
        BY <1>1, <1>3, <3>1, <4>1, ArcsKept
    <3>2. CASE b = z /\ a.to = e /\ EndsBefore(r, a.to, b) = Ends(q, e)
      BY <1>9, <3>2
    <3> QED
      BY <2>1, <2>2, <3>1, <3>2
  <2>4. ASSUME NEW b \in Ends(r, a.from)
        PROVE  Freed(r, a, Cardinality(EndsBefore(r, a.from, b)), b)
    <3>1. CASE b \in Ends(q, a.from) /\ EndsBefore(r, a.from, b) = EndsBefore(q, a.from, b)
      <4>1. Freed(q, a, Cardinality(EndsBefore(q, a.from, b)), b)
        BY <3>1 DEF SweepOrdered
      <4> QED
        BY <1>1, <1>3, <3>1, <4>1, ArcsKept
    <3>2. CASE b = z /\ a.from = e /\ EndsBefore(r, a.from, b) = Ends(q, e)
      BY <1>10, <3>2
    <3> QED
      BY <2>1, <2>2, <3>1, <3>2
  <2> QED
    BY <2>3, <2>4
<1>12. ASSUME NEW a \in InnerArc
       PROVE  /\ HandedOver(r, a, Cardinality(Ends(r, a.from)))
              /\ UsedUp(r, a, Cardinality(Ends(r, a.to)))
  <2>1. a.from \in Elem /\ a.to \in Elem
    BY InnerFaces
  <2>2. HandedOver(r, a, Cardinality(Ends(r, a.from)))
    <3>1. CASE a.from = e
      BY <1>6, <1>7, <1>10, <3>1
    <3>2. CASE a.from # e
      <4>1. HandedOver(q, a, Cardinality(Ends(q, a.from)))
        BY DEF InnerArcsServed
      <4> QED
        BY <1>1, <1>3, <1>5, <2>1, <3>2, <4>1, ArcsKept
    <3> QED
      BY <3>1, <3>2
  <2>3. UsedUp(r, a, Cardinality(Ends(r, a.to)))
    <3>1. CASE a.to = e
      BY <1>6, <1>7, <1>9, <3>1
    <3>2. CASE a.to # e
      <4>1. UsedUp(q, a, Cardinality(Ends(q, a.to)))
        BY DEF InnerArcsServed
      <4> QED
        BY <1>1, <1>3, <1>5, <2>1, <3>2, <4>1, ArcsKept
    <3> QED
      BY <3>1, <3>2
  <2> QED
    BY <2>2, <2>3
<1>13. SweepOrdered(r) /\ InnerArcsServed(r)
  BY <1>11, <1>12 DEF SweepOrdered, InnerArcsServed
<1> QED
  BY <1>1, <1>5, <1>6, <1>7, <1>13

\* The element the sweep visits next may take its step.
LEMMA ElemMayTurn ==
  ASSUME Inv, OrderInv, Elems
  PROVE  ~ Visited(topo_order[k + 1]) /\ MayTurn(queue, topo_order[k + 1], iter)
<1> DEFINE e == topo_order[k + 1]
<1>1. /\ pc = "elems" /\ k \in Elem /\ k + 1 \in 1..nbelems /\ k \in Nat
      /\ e \in Elem /\ Submit(ElemTasks(e)) /\ topo_order' = topo_order
      /\ \/ pc' = "elems" /\ k' = k + 1 /\ k' \in Elem /\ iter' = iter
         \/ pc' \in {"firstWait", "while"} /\ k' = 0 /\ k + 1 = nbelems /\ iter' = iter + 1
  BY SweepTurn, Loops DEF Inv, HostTypeOK
<1>2. topo_order \in TopoOrders /\ iter \in Nat /\ tnow \in Int
  BY DEF Inv, HostTypeOK
<1>3. \A i \in 1..k : i \in 1..nbelems /\ i # k + 1
  BY <1>1, Graph
<1>4. /\ \A x \in Elem : \E i \in 1..nbelems : topo_order[i] = x
      /\ \A i, j \in 1..nbelems : topo_order[i] = topo_order[j] => i = j
      /\ \A a \in connect_graph : \A i, j \in 1..nbelems :
           topo_order[i] = a.from /\ topo_order[j] = a.to => i < j
  BY <1>2, SweepOrder
<1>5. e = topo_order[k + 1]
  OBVIOUS
<1> HIDE DEF e
<1>6. ~ Visited(e)
  BY <1>1, <1>3, <1>4, <1>5 DEF Visited
<1>7. ASSUME NEW a \in InnerArc, a.to = e
      PROVE  a.from # e /\ Visited(a.from)
  <2>1. a \in connect_graph /\ a.from \in Elem
    BY DEF InnerArc
  <2>2. PICK i \in 1..nbelems : topo_order[i] = a.from
    BY <1>4, <2>1
  <2>3. i < k + 1
    BY <1>1, <1>4, <1>5, <1>7, <2>1, <2>2
  <2>4. i \in 1..k /\ i # k + 1
    BY <1>1, <2>3, Graph
  <2> QED
    BY <1>1, <1>4, <1>5, <2>2, <2>4 DEF Visited
<1>8. ASSUME NEW a \in InnerArc, a.from = e
      PROVE  a.to # e /\ ~ Visited(a.to)
  <2>1. a \in connect_graph /\ a.to \in Elem
    BY DEF InnerArc
  <2>2. ASSUME NEW i \in 1..nbelems, topo_order[i] = a.to
        PROVE  k + 1 < i
    BY <1>1, <1>4, <1>5, <1>8, <2>1, <2>2
  <2>3. \A i \in 1..(k + 1) : i \in 1..nbelems /\ ~ (k + 1 < i)
    BY <1>1, Graph
  <2>4. k + 1 \in 1..(k + 1) /\ \A i \in 1..k : i \in 1..(k + 1)
    BY <1>1
  <2> QED
    BY <1>5, <2>2, <2>3, <2>4 DEF Visited
<1>9. MayTurn(queue, e, iter)
  <2>1. \A x \in Elem : Cardinality(Ends(queue, x)) = iter + (IF Visited(x) THEN 1 ELSE 0)
    BY DEF OrderInv, StepsCounted
  <2>2. \A a \in InnerArc : a.from \in Elem /\ a.to \in Elem
    BY DEF InnerArc
  <2>3. iter + 0 = iter
    BY <1>2
  <2> QED
    BY <1>1, <1>6, <1>7, <1>8, <2>1, <2>2, <2>3 DEF MayTurn
<1> QED
  BY <1>6, <1>9 DEF e

\* The turn of the next element of the topological order is such a turn.
LEMMA ElemsOrder == Inv /\ OrderInv /\ Elems => OrderInv'
<1> SUFFICES ASSUME Inv, OrderInv, Elems PROVE OrderInv'
  OBVIOUS
<1> DEFINE e == topo_order[k + 1]
<1>1. /\ pc = "elems" /\ k \in Elem /\ k + 1 \in 1..nbelems /\ k \in Nat
      /\ e \in Elem /\ Submit(ElemTasks(e)) /\ topo_order' = topo_order
      /\ \/ pc' = "elems" /\ k' = k + 1 /\ k' \in Elem /\ iter' = iter
         \/ pc' \in {"firstWait", "while"} /\ k' = 0 /\ k + 1 = nbelems /\ iter' = iter + 1
  BY SweepTurn, Loops DEF Inv, HostTypeOK
<1>2. topo_order \in TopoOrders /\ iter \in Nat /\ tnow \in Int
  BY DEF Inv, HostTypeOK
<1>3. \A i \in 1..k : i \in 1..nbelems /\ i # k + 1
  BY <1>1, Graph
<1>4. /\ \A x \in Elem : \E i \in 1..nbelems : topo_order[i] = x
      /\ \A i, j \in 1..nbelems : topo_order[i] = topo_order[j] => i = j
      /\ \A a \in connect_graph : \A i, j \in 1..nbelems :
           topo_order[i] = a.from /\ topo_order[j] = a.to => i < j
  BY <1>2, SweepOrder
<1>5. e = topo_order[k + 1]
  OBVIOUS
<1> HIDE DEF e
<1>6. ~ Visited(e)
  BY ElemMayTurn DEF e
<1>9. MayTurn(queue, e, iter)
  BY ElemMayTurn DEF e
<1>10. queue' = queue \o ElemTasks(e)
  BY <1>1 DEF Submit
<1>11. queue \in Seq(ThetaTask) /\ SweepOrdered(queue) /\ InnerArcsServed(queue)
  BY DEF OrderInv
<1> DEFINE q == queue  r == queue'
<1> HIDE DEF q, r
<1>12. /\ queue' \in Seq(ThetaTask) /\ SweepOrdered(queue') /\ InnerArcsServed(queue')
       /\ Cardinality(Ends(queue', e)) = iter + 1
       /\ \A x \in Elem : x # e => Ends(queue', x) = Ends(queue, x)
  <2>1. r = q \o ElemTasks(e)
    BY <1>10 DEF q, r
  <2>2. /\ e \in Elem /\ iter \in Nat /\ tnow \in Int
        /\ q \in Seq(ThetaTask) /\ SweepOrdered(q) /\ InnerArcsServed(q)
        /\ MayTurn(q, e, iter)
    BY <1>1, <1>2, <1>9, <1>11 DEF q
  <2>3. r \in Seq(ThetaTask) /\ SweepOrdered(r) /\ InnerArcsServed(r)
    BY <2>1, <2>2, TurnKeepsOrder
  <2>4. Cardinality(Ends(r, e)) = iter + 1
    BY <2>1, <2>2, TurnKeepsOrder
  <2>5. \A x \in Elem : x # e => Ends(r, x) = Ends(q, x)
    BY <2>1, <2>2, TurnKeepsOrder
  <2> QED
    BY <2>3, <2>4, <2>5 DEF q, r
<1>13. StepsCounted'
  <2> SUFFICES ASSUME NEW x \in Elem
               PROVE  Cardinality(Ends(queue', x)) = iter' + (IF Visited(x)' THEN 1 ELSE 0)
    BY DEF StepsCounted
  <2>1. Cardinality(Ends(queue', x)) = iter + (IF Visited(x) \/ x = e THEN 1 ELSE 0)
    BY <1>2, <1>12 DEF OrderInv, StepsCounted
  <2>2. CASE pc' = "elems"
    <3>1. Visited(x)' <=> Visited(x) \/ x = e
      <4>1. 1..(k + 1) = 1..k \cup {k + 1}
        BY <1>1
      <4>2. Visited(x)' <=> \E j \in 1..(k + 1) : topo_order[j] = x
        BY <1>1, <2>2 DEF Visited
      <4>3. Visited(x) <=> \E j \in 1..k : topo_order[j] = x
        BY <1>1 DEF Visited
      <4> QED
        BY <1>5, <4>1, <4>2, <4>3
    <3> QED
      BY <1>1, <2>1, <2>2, <3>1
  <2>3. CASE pc' # "elems"
    <3>1. ~ Visited(x)' /\ k + 1 = nbelems /\ iter' = iter + 1
      BY <1>1, <2>3 DEF Visited
    <3>2. PICK i \in 1..nbelems : topo_order[i] = x
      BY <1>4
    <3>3. Visited(x) \/ x = e
      <4>1. i = k + 1 \/ i \in 1..k
        BY <1>1, <3>1
      <4> QED
        BY <1>1, <1>5, <3>2, <4>1 DEF Visited
    <3> QED
      BY <1>2, <2>1, <3>1, <3>3
  <2> QED
    BY <2>2, <2>3
<1> QED
  BY <1>12, <1>13 DEF OrderInv

\* Nothing else touches the queue.
LEMMA OtherOrder ==
  ASSUME Inv, OrderInv, WhileLoop \/ FirstWait \/ FinalWait \/ WorkerStep \/ UNCHANGED vars
  PROVE  OrderInv'
<1>1. queue' = queue /\ iter' = iter /\ topo_order' = topo_order
  BY WorkersLeave DEF WhileLoop, FirstWait, FinalWait, While, WaitForAll, vars, rtVars, hostVars
<1>2. \/ pc' = pc /\ k' = k
      \/ pc # "elems" /\ k' = 0
  BY WorkersLeave DEF WhileLoop, FirstWait, FinalWait, While, WaitForAll, vars, hostVars, Inv, HostTypeOK
<1>3. \A e \in Elem : Visited(e)' <=> Visited(e)
  <2>1. 1..0 = {}
    OBVIOUS
  <2> QED
    BY <1>1, <1>2, <2>1 DEF Visited
<1> QED
  BY <1>1, <1>3 DEF OrderInv, StepsCounted

\* An empty queue is in order.
LEMMA OrderInit == Init => OrderInv
<1> SUFFICES ASSUME Init PROVE OrderInv
  OBVIOUS
<1>1. queue = << >> /\ pc = "while" /\ iter = 0
  BY DEF Init, RTInit
<1>2. \A e : Ends(queue, e) = {}
  BY <1>1 DEF Ends
<1>3. Cardinality({}) = 0
  BY FS_EmptySet
<1>4. \A e : Cardinality(Ends(queue, e)) = 0
  BY <1>2, <1>3
<1>5. StepsCounted
  BY <1>1, <1>4 DEF StepsCounted, Visited
<1>6. SweepOrdered(queue) /\ InnerArcsServed(queue)
  BY <1>2, <1>4 DEF SweepOrdered, InnerArcsServed, HandedOver, UsedUp
<1> QED
  BY <1>1, <1>5, <1>6 DEF OrderInv

\* GraphThetaTimeScheme_SPU submits its tasks in order, on every mesh: the invariant of
\* the queue that the next theorems rest on.
THEOREM GraphThetaOrder == Spec => []OrderInv
<1>1. Inv /\ OrderInv /\ [Next]_vars => OrderInv'
  BY ElemsOrder, OtherOrder DEF Next, Host, Returned
<1> QED
  BY <1>1, OrderInit, GraphThetaInvariant, PTL DEF Spec

-----------------------------------------------------------------------------
(* The clock of the sweep.                                                 *)

\* Of two tasks that meet in a buffer one of them writes, the first is done when the
\* second runs.
LEMMA MeetDone ==
  ASSUME RTInv, queue \in Seq(ThetaTask),
         NEW i \in DOMAIN queue, NEW j \in Running \cup done, i < j,
         NEW h, Accesses(queue[i], h), Accesses(queue[j], h),
         Writes(queue[i], h) \/ Writes(queue[j], h)
  PROVE  i \in done
<1>1. /\ j \in DOMAIN queue
      /\ queue[i] \in ThetaTask /\ queue[j] \in ThetaTask
      /\ queue[i] \in Task /\ queue[j] \in Task
  BY Submitted, ElementOfSequence DEF RTInv
<1>2. ~ Commutes(queue[i], h) /\ ~ Commutes(queue[j], h)
  BY <1>1, NoTaskCommutes
<1>3. Ordered(queue[i], queue[j])
  BY <1>1, <1>2, OrderedUnlessBothCommute
<1>4. Link(queue, i, j) /\ i # j
  BY <1>1, <1>3, Submitted DEF Link, RTInv
<1> QED
  BY <1>4, LinkDone

\* The same with a task that reads the buffer and one that writes it.
LEMMA ReaderWriterDone ==
  ASSUME RTInv, queue \in Seq(ThetaTask),
         NEW i \in DOMAIN queue, NEW j \in Running \cup done, i < j, NEW h,
         \/ Writes(queue[i], h) /\ ReadOnly(queue[j], h)
         \/ ReadOnly(queue[i], h) /\ Writes(queue[j], h)
  PROVE  i \in done
<1>1. j \in DOMAIN queue /\ queue[i] \in Task /\ queue[j] \in Task
  BY Submitted DEF RTInv
<1>2. Accesses(queue[i], h) /\ Accesses(queue[j], h)
  BY <1>1, WriteIsAccess, ReadersDoNotCommute
<1> QED
  BY <1>2, MeetDone

\* The tasks that end the steps of an element are its solves.
LEMMA EndsSolve ==
  ASSUME RTInv, queue \in Seq(ThetaTask), NEW e \in Elem, NEW b \in Ends(queue, e)
  PROVE  /\ b \in DOMAIN queue
         /\ Writes(queue[b], sol_handle(e)) /\ ReadOnly(queue[b], rhs_handle(e))
<1>1. b \in DOMAIN queue /\ Writes(queue[b], sol_handle(e))
  BY StateIsSol DEF Ends
<1>2. queue[b] \in ThetaTask
  BY <1>1, ElementOfSequence
<1>3. queue[b] \notin RhsTask
  BY <1>1, RhsTasksDo
<1>4. PICK x \in Elem : queue[b] \in SolveTask(x)
  BY <1>2, <1>3 DEF ThetaTask
<1> QED
  BY <1>1, <1>4, SolveTasksDo

\* A solve that runs has all the steps of its element before it done, and no other.
LEMMA StepsBeforeSolve ==
  ASSUME RTInv, queue \in Seq(ThetaTask), NEW e \in Elem,
         NEW b \in Running, b \in Ends(queue, e)
  PROVE  DoneEnds(e) = EndsBefore(queue, e, b)
<1>1. DOMAIN queue = 1..Len(queue) /\ Len(queue) \in Nat /\ b \in DOMAIN queue /\ b \notin done
  BY Submitted DEF RTInv
<1>2. ASSUME NEW i \in Ends(queue, e), NEW j \in Ends(queue, e), i < j, j \in Running \cup done
      PROVE  i \in done
  <2>1. /\ i \in DOMAIN queue /\ j \in DOMAIN queue
        /\ Writes(queue[i], sol_handle(e)) /\ Writes(queue[j], sol_handle(e))
    BY <1>2, EndsSolve
  <2>2. queue[i] \in Task /\ queue[j] \in Task
    BY <2>1, Submitted DEF RTInv
  <2>3. Accesses(queue[i], sol_handle(e)) /\ Accesses(queue[j], sol_handle(e))
    BY <2>1, <2>2, WriteIsAccess
  <2> QED
    BY <1>2, <2>1, <2>3, MeetDone
<1>3. ASSUME NEW i \in DoneEnds(e)
      PROVE  i \in EndsBefore(queue, e, b)
  <2>1. i \in Ends(queue, e) /\ i \in done /\ i \in 1..Len(queue) /\ i # b
    BY <1>1 DEF DoneEnds, Ends
  <2>2. ~ (b < i)
    BY <1>1, <1>2, <2>1
  <2> QED
    BY <1>1, <2>1, <2>2 DEF EndsBefore
<1>4. ASSUME NEW i \in EndsBefore(queue, e, b)
      PROVE  i \in DoneEnds(e)
  BY <1>2, <1>4 DEF EndsBefore, DoneEnds
<1> QED
  BY <1>3, <1>4

\* The steps of an element before a task are among those done if they are done.
LEMMA StepsDone ==
  ASSUME RTInv, NEW e, NEW x, EndsBefore(queue, e, x) \subseteq done
  PROVE  /\ Cardinality(DoneEnds(e)) \in Nat /\ Cardinality(EndsBefore(queue, e, x)) \in Nat
         /\ Cardinality(EndsBefore(queue, e, x)) <= Cardinality(DoneEnds(e))
<1>1. queue \in Seq(Task)
  BY DEF RTInv, RTTypeOK
<1>2. EndsBefore(queue, e, x) \in SUBSET DoneEnds(e) /\ DoneEnds(e) \in SUBSET Ends(queue, e)
  BY DEF EndsBefore, DoneEnds
<1>3. IsFiniteSet(DoneEnds(e)) /\ Cardinality(DoneEnds(e)) \in Nat
  BY <1>1, <1>2, EndsFinite
<1> QED
  BY <1>2, <1>3, FS_Subset, FS_CardinalityType

\* When a solve runs, the upwind element has done the step,
LEMMA FreshDone ==
  ASSUME RTInv, queue \in Seq(ThetaTask), NEW a \in InnerArc, NEW n \in Nat,
         NEW b \in Running, b \in Ends(queue, a.to), Fresh(queue, a, n, b)
  PROVE  Cardinality(DoneEnds(a.from)) >= n + 1
<1>1. PICK y \in DOMAIN queue, x \in DOMAIN queue :
        Taken(queue, a, n + 1, y) /\ Used(queue, a, n, x) /\ y < x /\ x < b
  BY DEF Fresh
<1>2. a.from \in Elem /\ a.to \in Elem
  BY DEF InnerArc
<1>3. x \in done
  BY <1>1, <1>2, EndsSolve, ReaderWriterDone DEF Used
<1>4. y \in done
  BY <1>1, <1>3, ReaderWriterDone DEF Used, Taken
<1>5. ASSUME NEW j \in EndsBefore(queue, a.from, y) PROVE j \in done
  <2>1. j \in Ends(queue, a.from) /\ j < y
    BY DEF EndsBefore
  <2> QED
    BY <1>1, <1>2, <1>4, <2>1, EndsSolve, ReaderWriterDone DEF Taken
<1>6. Cardinality(EndsBefore(queue, a.from, y)) = n + 1
  BY <1>1 DEF Taken
<1>7. /\ Cardinality(DoneEnds(a.from)) \in Nat
      /\ Cardinality(EndsBefore(queue, a.from, y)) <= Cardinality(DoneEnds(a.from))
  BY <1>5, StepsDone
<1> QED
  BY <1>6, <1>7

\* and a downwind element the step before the last.
LEMMA FreedDone ==
  ASSUME RTInv, queue \in Seq(ThetaTask), NEW a \in InnerArc, NEW n \in Nat,
         NEW b \in Running, b \in Ends(queue, a.from), Freed(queue, a, n, b)
  PROVE  n < Cardinality(DoneEnds(a.to)) + 3
<1>0. Cardinality(DoneEnds(a.to)) \in Nat
  <2>1. queue \in Seq(Task)
    BY DEF RTInv, RTTypeOK
  <2> QED
    BY <2>1, EndsFinite DEF DoneEnds
<1>1. CASE n < 2
  BY <1>0, <1>1
<1>2. CASE n >= 2
  <2>1. PICK x \in DOMAIN queue, y \in DOMAIN queue :
          Used(queue, a, n - 2, x) /\ Taken(queue, a, n, y) /\ x < y /\ y < b
    BY <1>2 DEF Freed
  <2>2. a.from \in Elem /\ a.to \in Elem
    BY DEF InnerArc
  <2>3. y \in done
    BY <2>1, <2>2, EndsSolve, ReaderWriterDone DEF Taken
  <2>4. x \in done
    BY <2>1, <2>3, ReaderWriterDone DEF Used, Taken
  <2>5. ASSUME NEW j \in EndsBefore(queue, a.to, x) PROVE j \in done
    <3>1. j \in Ends(queue, a.to) /\ j < x
      BY DEF EndsBefore
    <3> QED
      BY <2>1, <2>2, <2>4, <3>1, EndsSolve, ReaderWriterDone DEF Used
  <2>6. Cardinality(EndsBefore(queue, a.to, x)) = n - 2
    BY <2>1 DEF Used
  <2>7. Cardinality(EndsBefore(queue, a.to, x)) <= Cardinality(DoneEnds(a.to))
    BY <2>5, StepsDone
  <2> QED
    BY <1>0, <2>6, <2>7
<1> QED
  BY <1>1, <1>2

\* The level of an element is the number of its time steps that are done.
LEMMA LevelIsDoneEnds ==
  ASSUME RTInv, queue \in Seq(ThetaTask)
  PROVE  level = [e \in Elem |-> Cardinality(DoneEnds(e))]
<1>1. ASSUME NEW e \in Elem
      PROVE  DoneEnds(e) = {i \in done : /\ queue[i].cl = "SolveSkyline"
                                         /\ queue[i].buf[1] = sol_handle(e)}
  <2>1. \A i \in done : i \in DOMAIN queue /\ queue[i] \in ThetaTask
    BY Submitted, ElementOfSequence DEF RTInv
  <2> QED
    BY <2>1, SolveTaskIs, ThetaAssumption DEF DoneEnds, Ends
<1> QED
  BY <1>1 DEF level

\* The arcs of the clock.
ClockArc == {<< a.from, a.to >> : a \in {b \in connect_graph : {b.from, b.to} \subseteq Elem}}

\* A step of the runtime is a step of the clock or changes no level.
LEMMA ClockStep ==
  ASSUME RTInv, OrderInv, RTInv', OrderInv', [RTNext]_rtVars
  PROVE  [Clock!Next]_level
<1>1. /\ queue \in Seq(ThetaTask) /\ SweepOrdered(queue)
      /\ level = [e \in Elem |-> Cardinality(DoneEnds(e))]
  BY LevelIsDoneEnds DEF OrderInv
<1>2. level' = [e \in Elem |-> Cardinality(DoneEnds(e)')]
  <2>1. queue' \in Seq(ThetaTask)
    BY DEF OrderInv
  <2>2. \A i \in done' : i \in DOMAIN queue' /\ queue'[i] \in ThetaTask
    BY <2>1, ElementOfSequence DEF RTInv, RTTypeOK
  <2>3. \A e \in Elem : {i \in done' : /\ queue'[i].cl = "SolveSkyline"
                                       /\ queue'[i].buf[1] = sol_handle(e)} = DoneEnds(e)'
    BY <2>2, SolveTaskIs, ThetaAssumption DEF DoneEnds, Ends
  <2> QED
    BY <2>3 DEF level
<1>3. ASSUME NEW i \in DOMAIN queue, NEW e \in Elem, NEW x \in Elem,
             i \in Ends(queue, e), i \in Ends(queue, x)
      PROVE  e = x
  <2>1. queue[i] \in ThetaTask
    BY <1>1, ElementOfSequence
  <2> QED
    BY <1>3, <2>1, SolveTaskIs, ThetaAssumption, SameElement DEF Ends
<1>4. CASE \A e \in Elem : DoneEnds(e)' = DoneEnds(e)
  BY <1>1, <1>2, <1>4
<1>5. ASSUME NEW e \in Elem, NEW b \in Running, b \in Ends(queue, e),
             \A x \in Elem \ {e} : DoneEnds(x)' = DoneEnds(x),
             Cardinality(DoneEnds(e)') = Cardinality(DoneEnds(e)) + 1
      PROVE  Clock!Advance(e)
  <2> DEFINE n == Cardinality(DoneEnds(e))
  <2>1. level' = [level EXCEPT ![e] = @ + 1]
    BY <1>1, <1>2, <1>5
  <2>2. n = Cardinality(EndsBefore(queue, e, b)) /\ n \in Nat
    <3>1. DoneEnds(e) = EndsBefore(queue, e, b)
      BY <1>1, <1>5, StepsBeforeSolve
    <3>2. queue \in Seq(Task)
      BY DEF RTInv, RTTypeOK
    <3> QED
      BY <3>1, <3>2, EndsFinite DEF DoneEnds
  <2> HIDE DEF n
  <2>3. ASSUME NEW a \in InnerArc, a.to = e
        PROVE  Cardinality(DoneEnds(a.from)) >= n + 1
    <3>1. Fresh(queue, a, n, b)
      BY <1>1, <1>5, <2>2, <2>3 DEF SweepOrdered
    <3> QED
      BY <1>1, <1>5, <2>2, <2>3, <3>1, FreshDone
  <2>4. ASSUME NEW a \in InnerArc, a.from = e
        PROVE  n < Cardinality(DoneEnds(a.to)) + 3
    <3>1. Freed(queue, a, n, b)
      BY <1>1, <1>5, <2>2, <2>4 DEF SweepOrdered
    <3> QED
      BY <1>1, <1>5, <2>2, <2>4, <3>1, FreedDone
  <2>5. \A x \in Elem : level[x] = Cardinality(DoneEnds(x)) /\ level[x] \in Nat
    <3>1. queue \in Seq(Task)
      BY DEF RTInv, RTTypeOK
    <3> QED
      BY <1>1, <3>1, EndsFinite DEF DoneEnds
  <2>6. \A u \in Elem : << u, e >> \in ClockArc => level[e] + 1 <= level[u]
    <3> SUFFICES ASSUME NEW u \in Elem, << u, e >> \in ClockArc
                 PROVE  level[e] + 1 <= level[u]
      OBVIOUS
    <3>1. PICK a \in InnerArc : a.from = u /\ a.to = e
      BY DEF ClockArc, InnerArc
    <3> QED
      BY <2>2, <2>3, <2>5, <3>1 DEF n
  <2>7. \A w \in Elem : << e, w >> \in ClockArc => level[e] < level[w] + 3
    <3> SUFFICES ASSUME NEW w \in Elem, << e, w >> \in ClockArc
                 PROVE  level[e] < level[w] + 3
      OBVIOUS
    <3>1. PICK a \in InnerArc : a.from = e /\ a.to = w
      BY DEF ClockArc, InnerArc
    <3> QED
      BY <2>4, <2>5, <3>1 DEF n
  <2> QED
    BY <2>1, <2>6, <2>7 DEF Clock!Advance, ClockArc
<1>6. \/ \A e \in Elem : DoneEnds(e)' = DoneEnds(e)
      \/ \E e \in Elem : \E b \in Running :
           /\ b \in Ends(queue, e)
           /\ \A x \in Elem \ {e} : DoneEnds(x)' = DoneEnds(x)
           /\ Cardinality(DoneEnds(e)') = Cardinality(DoneEnds(e)) + 1
  BY <1>3, StagesChange
<1> QED
  BY <1>4, <1>5, <1>6 DEF Clock!Next

\* GraphThetaTimeScheme_SPU implements ElementClock, on every mesh and for every sweep: an
\* element ends a step after the elements upwind of it, and before it is three steps ahead
\* of those downwind of it.
THEOREM GraphThetaFollowsTheClock == Spec => SweepFollowsTheClock
<1>1. Init => Clock!Init
  <2> SUFFICES ASSUME Init PROVE Clock!Init
    OBVIOUS
  <2>1. done = {}
    BY DEF Init, RTInit
  <2>2. Cardinality({}) = 0
    BY FS_EmptySet
  <2>3. \A e \in Elem : {i \in done : /\ queue[i].cl = "SolveSkyline"
                                      /\ queue[i].buf[1] = sol_handle(e)} = {}
    BY <2>1
  <2> QED
    BY <2>2, <2>3 DEF Clock!Init, level
<1>2. Inv /\ Inv' /\ OrderInv /\ OrderInv' /\ [Next]_vars => [Clock!Next]_level
  BY StepsAreRTSteps, ClockStep DEF Inv
<1> QED
  BY <1>1, <1>2, GraphThetaInvariant, GraphThetaOrder, PTL
     DEF Spec, SweepFollowsTheClock, Clock!Spec

\* Hence along an arc the level never increases, nor drops by more than three.
THEOREM GraphThetaLevels == Spec => []Clock!LevelsAlongArcs
<1>1. Clock!Spec => [](Clock!TypeOK /\ Clock!LevelsAlongArcs)
  BY Clock!Levels
<1> QED
  BY <1>1, GraphThetaFollowsTheClock, PTL DEF SweepFollowsTheClock

-----------------------------------------------------------------------------
(* The end of the scheme.                                                  *)

\* The time follows the steps; the loop ends with the first whose end is not before tmax,
\* and the scheme when all its tasks have run.
EndInv ==
  /\ tnow = 2 * iter + (IF pc = "elems" THEN 1 ELSE 0)
  /\ 2 * iter < tmax + 2 /\ (pc = "elems" => 2 * iter < tmax)
  /\ pc \in {"wait", "return"} => tmax <= tnow
  /\ pc = "return" => AllDone

\* Action by action.
LEMMA EndStep == Inv /\ EndInv /\ [Next]_vars => EndInv'
<1> SUFFICES ASSUME Inv, EndInv, [Next]_vars PROVE EndInv'
  OBVIOUS
<1>1. HostTypeOK /\ RTTypeOK /\ tnow \in Nat /\ iter \in Nat /\ tmax \in Nat
  BY HostAssumption DEF Inv, RTInv, HostTypeOK
<1> USE DEF EndInv, AllDone
<1>2. CASE UNCHANGED vars
  BY <1>2 DEF vars, rtVars, hostVars
<1>3. CASE WhileLoop
  BY <1>1, <1>3 DEF WhileLoop, While
<1>4. CASE Elems
  BY <1>1, <1>4 DEF Elems, Turn
<1>5. CASE FirstWait \/ FinalWait
  BY <1>1, <1>5 DEF FirstWait, FinalWait, WaitForAll, rtVars
<1>6. CASE WorkerStep
  <2>1. UNCHANGED << pc, tnow, iter >> /\ queue' = queue
    BY <1>6, WorkersLeave DEF hostVars
  <2>2. ASSUME AllDone PROVE FALSE
    <3>1. DOMAIN queue \ done = {} /\ Running = {}
      BY <1>1, <2>2 DEF RTTypeOK
    <3> QED
      BY <1>6, <3>1 DEF WorkerStep, Workers
  <2> QED
    BY <1>1, <2>1, <2>2
<1> QED
  BY <1>2, <1>3, <1>4, <1>5, <1>6 DEF Next, Host, Returned

\* When the host returns, each element has done all the steps the time tells.
LEMMA EndOfTheScheme == Inv /\ OrderInv /\ EndInv => ReturnsAtTmax
<1> SUFFICES ASSUME Inv, OrderInv, EndInv, pc = "return" PROVE ReturnsAtTmax
  BY DEF ReturnsAtTmax
<1>1. AllDone /\ tmax <= tnow /\ tmax \in Nat /\ RTInv /\ iter \in Nat
  BY HostAssumption DEF EndInv, Inv, HostTypeOK
<1>2. tnow = 2 * iter /\ tnow < tmax + 2
  BY <1>1 DEF EndInv
<1>3. \A e \in Elem : level[e] = iter
  <2>1. \A e \in Elem : level[e] = Cardinality(DoneEnds(e))
    BY <1>1, LevelIsDoneEnds DEF OrderInv
  <2>2. \A e \in Elem : DoneEnds(e) = Ends(queue, e)
    BY <1>1 DEF AllDone, DoneEnds, Ends
  <2>3. \A e \in Elem : Cardinality(Ends(queue, e)) = iter
    BY <1>1 DEF OrderInv, StepsCounted, Visited
  <2> QED
    BY <2>1, <2>2, <2>3
<1> QED
  BY <1>1, <1>2, <1>3 DEF ReturnsAtTmax

\* The scheme returns with every element at the last time step, the first whose end is not
\* before tmax, on every mesh: the safety half of Terminates.
THEOREM GraphThetaReturnsAtTmax == Spec => []ReturnsAtTmax
<1>1. Init => EndInv
  BY HostAssumption DEF Init, EndInv
<1> QED
  BY <1>1, EndStep, EndOfTheScheme, GraphThetaInvariant, GraphThetaOrder, PTL DEF Spec

-----------------------------------------------------------------------------
(* What the tasks see.  Between two turns the queue of the host has a simple *)
(* form: the state of each element is that of its last step, and so is the  *)
(* buffer of each face, on the side the flow comes from.                    *)

\* An extraction copies the state its element has at the end of the step, and a solve has
\* a flux for each arc into its element.
Sees(q, i) ==
  /\ ExtractSees(q, i, 0) /\ FluxSees(q, i)
  /\ SolveSees(q, i, Cardinality(InArcs(q[i].buf[1][2])))

\* After the queue q the buffer of the arc a has the state of its step n.
FaceHolds(q, a, n) ==
  \E j \in DOMAIN q : /\ Held(q, Len(q) + 1, FaceOf(a)) = {j}
                      /\ q[j].cl = "ExtractInterface" /\ q[j].buf[2] = sol_handle(a.from)
                      /\ StepIn(q, j, a.from) = n

\* The invariant.
ViewsOf(q) ==
  /\ \A i \in DOMAIN q : Sees(q, i)
  /\ \A e \in Elem : /\ StepIn(q, Len(q), e) = Cardinality(Ends(q, e))
                     /\ StateIs(q, Len(q) + 1, e, Cardinality(Ends(q, e)))
  /\ \A a \in InnerArc : Cardinality(Ends(q, a.from)) # 0 =>
       FaceHolds(q, a, Cardinality(Ends(q, a.from)))
ViewInv == ViewsOf(queue)

-----------------------------------------------------------------------------
(* A turn of the element e.                                                *)

\* The new tasks, by their places,
LEMMA TurnKinds ==
  ASSUME NEW q \in Seq(ThetaTask), NEW r \in Seq(ThetaTask), NEW e \in Elem, NEW z,
         Turned(q, r, e, z), tnow \in Int
  PROVE  /\ Len(q) \in Nat /\ Len(r) \in Nat /\ z \in Nat
         /\ Len(q) + 1 < z /\ z <= Len(r) /\ DOMAIN r = 1..Len(r) /\ DOMAIN q = 1..Len(q)
         /\ SourceCount \in Nat /\ Cardinality(InArcs(e)) \in Nat
         /\ z = Len(q) + 2 + SourceCount + Cardinality(InArcs(e))
         /\ \A i \in (Len(q) + 1)..Len(r) :
              \/ i = Len(q) + 1 /\ r[i] \in MatVectTask(e)
              \/ i \in (Len(q) + 2)..(Len(q) + 1 + SourceCount) /\ r[i] \in SourceTask(e)
              \/ i \in (Len(q) + 2 + SourceCount)..(z - 1) /\ r[i] \in RhsFluxTask(e)
              \/ i = z /\ r[i] \in SolveTask(e)
              \/ i \in (z + 1)..Len(r) /\ \E a \in DownwindArcs(e) : r[i] \in ExtractTask(FaceOf(a), e)
<1> DEFINE m == Len(q)  c == SourceCount
<1>1. /\ DOMAIN r = 1..Len(r) /\ Len(r) \in Nat /\ m \in Nat /\ c \in Nat /\ DOMAIN q = 1..m
      /\ z = m + 2 + c + Cardinality(InArcs(e)) /\ z \in DOMAIN r
      /\ Cardinality(InArcs(e)) \in Nat
  <2>1. InArcs(e) \in SUBSET connect_graph
    BY DEF InArcs
  <2> QED
    BY <2>1, Incident, LenProperties DEF Turned, SourceCount
<1>2. /\ r[m + 1] \in MatVectTask(e)
      /\ \A i \in (m + 2)..(m + 1 + c) : r[i] \in SourceTask(e)
      /\ \A i \in (m + 2 + c)..(z - 1) : r[i] \in RhsFluxTask(e)
      /\ r[z] \in SolveTask(e)
      /\ \A i \in (z + 1)..Len(r) : \E a \in DownwindArcs(e) : r[i] \in ExtractTask(FaceOf(a), e)
  BY UpwindFluxTask DEF Turned
<1> HIDE DEF m, c
<1>3. ASSUME NEW i \in (m + 1)..Len(r)
      PROVE  \/ i = m + 1 \/ i \in (m + 2)..(m + 1 + c) \/ i \in (m + 2 + c)..(z - 1)
             \/ i = z \/ i \in (z + 1)..Len(r)
  <2>1. z \in Nat /\ i \in Nat /\ m < i /\ i <= Len(r)
    BY <1>1
  <2>2. i < z => i = m + 1 \/ i \in (m + 2)..(m + 1 + c) \/ i \in (m + 2 + c)..(z - 1)
    BY <1>1, <2>1
  <2>3. z < i => i \in (z + 1)..Len(r)
    BY <1>1, <2>1
  <2> QED
    BY <2>1, <2>2, <2>3
<1>4. z \in Nat /\ m + 1 < z /\ z <= Len(r)
  BY <1>1
<1> QED
  BY <1>1, <1>2, <1>3, <1>4 DEF m, c

\* and what they write: the right-hand side of e before the solve, its state by the solve,
\* and the buffers of the arcs from it after the solve.
LEMMA TurnWrites ==
  ASSUME NEW q \in Seq(ThetaTask), NEW r \in Seq(ThetaTask), NEW e \in Elem, NEW z,
         Turned(q, r, e, z), tnow \in Int, NEW i \in (Len(q) + 1)..Len(r)
  PROVE  /\ i < z => Writes(r[i], rhs_handle(e))
         /\ Sets(r[i], rhs_handle(e)) <=> i = Len(q) + 1
         /\ \A x : Writes(r[i], sol_handle(x)) <=> i = z /\ x = e
         /\ i = z => Sets(r[i], sol_handle(e))
         /\ \A x : Opens(r[i], x) <=> i = Len(q) + 1 /\ x = e
         /\ \A a \in connect_graph : Writes(r[i], FaceOf(a)) => z < i /\ a.from = e
<1>1. /\ Len(q) \in Nat /\ z \in Nat /\ Len(q) + 1 < z /\ i \in Nat
      /\ \A l \in (Len(q) + 2)..(Len(q) + 1 + SourceCount) : Len(q) + 1 < l /\ l < z
      /\ \A l \in (Len(q) + 2 + SourceCount)..(z - 1) : Len(q) + 1 < l /\ l < z
      /\ \A l \in (z + 1)..Len(r) : z < l
  BY TurnKinds
<1>2. CASE i = Len(q) + 1 /\ r[i] \in MatVectTask(e)
  <2>1. Opens(r[i], e) /\ \A x : Opens(r[i], x) => x = e
    BY <1>2, SameElement DEF Opens, MatVectTask
  <2>2. \A h : /\ Writes(r[i], h) <=> h = rhs_handle(e)
               /\ Sets(r[i], h) <=> h = rhs_handle(e)
    BY <1>2, ImplicitTasksWrite
  <2>3. i < z /\ i # z
    BY <1>1, <1>2
  <2> QED
    BY <1>2, <2>1, <2>2, <2>3, ImplicitHandles, FaceOfArcs
<1>3. CASE Len(q) + 1 < i /\ i < z /\ r[i] \in SourceTask(e) \cup RhsFluxTask(e)
  <2>1. \A x : ~ Opens(r[i], x)
    BY <1>3 DEF Opens, SourceTask, RhsFluxTask
  <2>2. \A h : (Writes(r[i], h) <=> h = rhs_handle(e)) /\ ~ Sets(r[i], h)
    BY <1>3, ImplicitTasksWrite
  <2>3. i # Len(q) + 1 /\ i # z
    BY <1>1, <1>3
  <2> QED
    BY <2>1, <2>2, <2>3, ImplicitHandles, FaceOfArcs
<1>4. CASE i = z /\ r[i] \in SolveTask(e)
  <2>1. \A x : ~ Opens(r[i], x)
    BY <1>4 DEF Opens, SolveTask
  <2>2. \A h : /\ Writes(r[i], h) <=> h = sol_handle(e)
               /\ Sets(r[i], h) <=> h = sol_handle(e)
    BY <1>4, ImplicitTasksWrite
  <2>3. i # Len(q) + 1 /\ ~ (i < z)
    BY <1>1, <1>4
  <2>4. \A x : sol_handle(x) = sol_handle(e) => x = e
    BY SameElement
  <2> QED
    BY <1>4, <2>1, <2>2, <2>3, <2>4, ImplicitHandles, FaceOfArcs
<1>5. CASE z < i /\ \E a \in DownwindArcs(e) : r[i] \in ExtractTask(FaceOf(a), e)
  <2>1. PICK a \in DownwindArcs(e) : r[i] \in ExtractTask(FaceOf(a), e)
    BY <1>5
  <2>2. \A x : ~ Opens(r[i], x)
    BY <2>1 DEF Opens, ExtractTask
  <2>3. a \in connect_graph /\ a.from = e
    BY DEF DownwindArcs, OutArcs
  <2>4. \A h : /\ Writes(r[i], h) <=> h = FaceOf(a)
               /\ Sets(r[i], h) <=> h = FaceOf(a)
    BY <2>1, ImplicitTasksWrite
  <2>5. \A b \in connect_graph : FaceOf(b) = FaceOf(a) => b.from = e
    BY <2>3, FaceOfArcs
  <2> QED
    BY <1>1, <1>5, <2>2, <2>3, <2>4, <2>5, FaceOfArcs
<1> QED
  BY <1>1, <1>2, <1>3, <1>4, <1>5, TurnKinds

\* A turn opens a step of e and of no other element.
LEMMA TurnSteps ==
  ASSUME NEW q \in Seq(ThetaTask), NEW r \in Seq(ThetaTask), NEW e \in Elem, NEW z,
         Turned(q, r, e, z), tnow \in Int, NEW n \in Nat, StepIn(q, Len(q), e) = n
  PROVE  /\ \A x : \A j \in 1..Len(q) : StepIn(r, j, x) = StepIn(q, j, x) /\ r[j] = q[j]
         /\ \A i \in (Len(q) + 1)..Len(r) : StepIn(r, i, e) = n + 1
         /\ \A x : x # e => StepIn(r, Len(r), x) = StepIn(q, Len(q), x)
<1> DEFINE m == Len(q)
<1>1. m \in Nat /\ Len(r) \in Nat /\ m + 1 <= Len(r) /\ Prefix(q, r)
  <2>1. m \in Nat /\ Len(r) \in Nat /\ z \in Nat /\ m + 1 < z /\ z <= Len(r)
    BY TurnKinds
  <2>2. m + 1 <= Len(r)
    BY <2>1
  <2> QED
    BY <2>1, <2>2 DEF Turned
<1>2. /\ \A x : \A i \in (m + 1)..Len(r) : Opens(r[i], x) <=> i = m + 1 /\ x = e
  BY TurnWrites
<1> HIDE DEF m
<1>3. \A x : \A j \in 0..m : StepIn(r, j, x) = StepIn(q, j, x)
  BY <1>1, StepKept DEF m
<1>4. \A j \in 1..m : r[j] = q[j]
  BY <1>1 DEF Prefix, m
<1>5. StepIn(r, m + 1, e) = n + 1
  <2> DEFINE i == m + 1
  <2>1. i \in Nat \ {0} /\ i - 1 = m /\ m \in 0..m /\ i \in (m + 1)..Len(r)
    BY <1>1
  <2>2. Opens(r[i], e)
    BY <1>2, <2>1
  <2>3. StepIn(r, i - 1, e) = n
    BY <1>3, <2>1 DEF m
  <2> HIDE DEF i
  <2>4. StepIn(r, i, e) = n + 1
    BY <2>1, <2>2, <2>3, StepNext
  <2> QED
    BY <2>4 DEF i
<1>6. ASSUME NEW i \in (m + 1)..Len(r)
      PROVE  StepIn(r, i, e) = n + 1
  <2> DEFINE o == m + 1
  <2>1. o \in Nat /\ i \in Nat /\ o <= i
    BY <1>1
  <2>2. \A l \in (o + 1)..i : ~ Opens(r[l], e)
    <3>1. \A l \in (o + 1)..i : l \in (m + 1)..Len(r) /\ l # m + 1
      BY <1>1
    <3> QED
      BY <1>2, <3>1
  <2> HIDE DEF o
  <2>3. StepIn(r, i, e) = StepIn(r, o, e)
    BY <2>1, <2>2, StepOver
  <2> QED
    BY <1>5, <2>3 DEF o
<1>7. ASSUME NEW x, x # e
      PROVE  StepIn(r, Len(r), x) = StepIn(q, m, x)
  <2>1. \A l \in (m + 1)..Len(r) : ~ Opens(r[l], x)
    BY <1>2, <1>7
  <2>2. StepIn(r, Len(r), x) = StepIn(r, m, x)
    BY <1>1, <2>1, StepOver
  <2>3. m \in 0..m
    BY <1>1
  <2> QED
    BY <1>3, <2>2, <2>3
<1>8. \A j \in 1..m : j \in 0..m
  BY <1>1
<1> QED
  BY <1>3, <1>4, <1>6, <1>7, <1>8 DEF m

\* Its fluxes read, for each arc, the state the upwind element has after the same step.
LEMMA TurnFluxes ==
  ASSUME NEW q \in Seq(ThetaTask), NEW r \in Seq(ThetaTask), NEW e \in Elem, NEW z,
         Turned(q, r, e, z), tnow \in Int, NEW n \in Nat, MayTurn(q, e, n), ViewsOf(q),
         NEW i \in (Len(q) + 2 + SourceCount)..(z - 1)
  PROVE  FluxSees(r, i)
<1> DEFINE m == Len(q)
<1>1. /\ m \in Nat /\ i \in Nat /\ m + 1 < i /\ i < z /\ i \in (m + 1)..Len(r) /\ DOMAIN q = 1..m
      /\ Len(r) \in Nat /\ z \in Nat /\ z <= Len(r)
  <2>1. /\ m \in Nat /\ z \in Nat /\ z <= Len(r) /\ SourceCount \in Nat /\ Len(r) \in Nat
        /\ DOMAIN q = 1..m
    BY TurnKinds
  <2> HIDE DEF m
  <2>2. i \in (m + 2 + SourceCount)..(z - 1)
    BY DEF m
  <2> QED
    BY <2>1, <2>2
<1>2. PICK a \in InArcs(e) : r[i] = UpwindFlux(a)[1]
  BY DEF Turned
<1>3. CASE a \notin InnerArc
  BY <1>2, <1>3, UpwindFluxTask DEF FluxSees
<1>4. CASE a \in InnerArc
  <2>1. a.to = e /\ a \in connect_graph
    BY <1>4 DEF InArcs, InnerArc
  <2>2. r[i].buf[1] = FaceOf(a) /\ r[i].buf[2] = rhs_handle(e)
    BY <1>2, <1>4, UpwindFluxTask
  <2>3. a.from # e /\ Cardinality(Ends(q, a.from)) = n + 1 /\ Cardinality(Ends(q, e)) = n
    BY <1>4, <2>1 DEF MayTurn
  <2>4. Into(r[i]) = e /\ Across(r[i]) = a.from
    <3>1. FaceOf(a)[2] = a.face
      BY DEF FaceOf, wL_handle, wR_handle
    <3>2. rhs_handle(e)[2] = e
      BY DEF rhs_handle
    <3>3. Across(r[i]) = IF fL[a.face] = e THEN fR[a.face] ELSE fL[a.face]
      BY <2>2, <3>1, <3>2 DEF Across, Into
    <3>4. a.dir \in {0, 1}
      BY <2>1, Arcs
    <3> QED
      BY <1>4, <2>1, <2>2, <2>3, <3>2, <3>3, <3>4, InnerFaces DEF Into
  <2>5. PICK j \in DOMAIN q : /\ Held(q, m + 1, FaceOf(a)) = {j}
                              /\ q[j].cl = "ExtractInterface" /\ q[j].buf[2] = sol_handle(a.from)
                              /\ StepIn(q, j, a.from) = n + 1
    <3>1. n + 1 # 0
      OBVIOUS
    <3> QED
      BY <1>4, <2>3, <3>1 DEF ViewsOf, FaceHolds
  <2>6. Held(r, i, FaceOf(a)) = {j}
    <3> DEFINE o == m + 1
    <3>1. Held(r, o, FaceOf(a)) = Held(q, o, FaceOf(a))
      <4>1. Prefix(q, r) /\ o \in Nat /\ o <= Len(q) + 1 /\ Len(q) \in Nat
        BY <1>1 DEF Turned
      <4> HIDE DEF o
      <4> QED
        BY <4>1, HeldKept
    <3>2. \A l \in o..(i - 1) : ~ Writes(r[l], FaceOf(a))
      <4>1. \A l \in o..(i - 1) : l \in (m + 1)..Len(r) /\ ~ (z < l)
        BY <1>1
      <4> QED
        BY <2>1, <4>1, TurnWrites
    <3>3. o \in Nat \ {0} /\ o <= i
      BY <1>1
    <3> HIDE DEF o
    <3>4. Held(r, i, FaceOf(a)) = Held(r, o, FaceOf(a))
      BY <1>1, <3>2, <3>3, HeldOver
    <3> QED
      BY <2>5, <3>1, <3>4 DEF o
  <2>7. StepIn(q, m, e) = n
    BY <2>3 DEF ViewsOf
  <2>8. StepIn(r, i, e) = n + 1 /\ r[j] = q[j] /\ StepIn(r, j, a.from) = n + 1
    BY <1>1, <2>5, <2>7, TurnSteps
  <2>9. j \in 1..(i - 1)
    BY <1>1
  <2> QED
    BY <2>2, <2>4, <2>5, <2>6, <2>8, <2>9 DEF FluxSees
<1> QED
  BY <1>3, <1>4

\* The numbers of sources and of fluxes are lengths of intervals.
LEMMA Interval ==
  ASSUME NEW a \in Nat, NEW n \in Nat
  PROVE  Cardinality(a..(a + n - 1)) = n
<1>1. a \in Int /\ a + n - 1 \in Int
  OBVIOUS
<1>2. Cardinality(a..(a + n - 1)) = IF a > a + n - 1 THEN 0 ELSE (a + n - 1) - a + 1
  BY <1>1, FS_Interval
<1> QED
  BY <1>2

\* Its solve finds a complete right-hand side.
LEMMA TurnSolve ==
  ASSUME NEW q \in Seq(ThetaTask), NEW r \in Seq(ThetaTask), NEW e \in Elem, NEW z,
         Turned(q, r, e, z), tnow \in Int, NEW n \in Nat, StepIn(q, Len(q), e) = n
  PROVE  SolveSees(r, z, Cardinality(InArcs(e)))
<1> DEFINE m == Len(q)  c == SourceCount  N == Cardinality(InArcs(e))  o == m + 1
           R == Held(r, z, rhs_handle(e))
<1>1. /\ m \in Nat /\ Len(r) \in Nat /\ z \in Nat /\ o < z /\ z <= Len(r) /\ c \in Nat /\ N \in Nat
      /\ z = m + 2 + c + N /\ o \in Nat \ {0}
  BY TurnKinds
<1>2. \A i \in o..Len(r) :
        \/ i = o /\ r[i] \in MatVectTask(e)
        \/ i \in (m + 2)..(m + 1 + c) /\ r[i] \in SourceTask(e)
        \/ i \in (m + 2 + c)..(z - 1) /\ r[i] \in RhsFluxTask(e)
        \/ i = z \/ i \in (z + 1)..Len(r)
  BY TurnKinds
<1>3. \A i \in o..Len(r) : StepIn(r, i, e) = n + 1
  BY TurnSteps
<1>4. \A i \in o..Len(r) : /\ i < z => Writes(r[i], rhs_handle(e))
                           /\ Sets(r[i], rhs_handle(e)) <=> i = o
  BY TurnWrites
<1>5. r[z] \in SolveTask(e) /\ r[z].buf[1][2] = e
  BY DEF Turned, SolveTask, sol_handle
<1>6. R = o..(z - 1)
  <2>1. \A l \in (o + 1)..(z - 1) : l \in o..Len(r) /\ l # o /\ l < z
    BY <1>1
  <2>2. \A l \in (o + 1)..(z - 1) : ~ Sets(r[l], rhs_handle(e)) /\ Writes(r[l], rhs_handle(e))
    BY <1>4, <2>1
  <2>3. o \in o..Len(r)
    BY <1>1
  <2>4. Sets(r[o], rhs_handle(e))
    BY <1>4, <2>3
  <2> HIDE DEF o
  <2>5. Held(r, z, rhs_handle(e))
          = {o} \cup {l \in (o + 1)..(z - 1) : Writes(r[l], rhs_handle(e))}
    BY <1>1, <2>2, <2>4, HeldSince
  <2>6. \A l : l \in o..(z - 1) <=> l = o \/ l \in (o + 1)..(z - 1)
    BY <1>1
  <2> QED
    BY <2>2, <2>5, <2>6
<1>7. \A i \in R : i \in o..Len(r) /\ ~ (i = z) /\ ~ (i \in (z + 1)..Len(r))
  BY <1>1, <1>6
<1>8. \A i \in R : /\ r[i].cl = "MatVectSkyline" <=> i = o
                   /\ r[i].cl = "SourceLocalAssembly" <=> i \in (m + 2)..(m + 1 + c)
                   /\ r[i].cl \in FluxKind <=> i \in (m + 2 + c)..(z - 1)
  <2> SUFFICES ASSUME NEW i \in R
               PROVE  /\ r[i].cl = "MatVectSkyline" <=> i = o
                      /\ r[i].cl = "SourceLocalAssembly" <=> i \in (m + 2)..(m + 1 + c)
                      /\ r[i].cl \in FluxKind <=> i \in (m + 2 + c)..(z - 1)
    OBVIOUS
  <2>1. /\ o \notin (m + 2)..(m + 1 + c) /\ o \notin (m + 2 + c)..(z - 1)
        /\ \A l \in (m + 2)..(m + 1 + c) : l \notin (m + 2 + c)..(z - 1)
    BY <1>1
  <2>2. CASE i = o /\ r[i] \in MatVectTask(e)
    BY <2>1, <2>2 DEF MatVectTask, FluxKind
  <2>3. CASE i \in (m + 2)..(m + 1 + c) /\ r[i] \in SourceTask(e)
    BY <2>1, <2>3 DEF SourceTask, FluxKind
  <2>4. CASE i \in (m + 2 + c)..(z - 1) /\ r[i] \in RhsFluxTask(e)
    BY <2>1, <2>4 DEF RhsFluxTask, FluxKind
  <2> QED
    BY <1>2, <1>7, <2>2, <2>3, <2>4
<1>9. /\ OfKind(r, R, {"MatVectSkyline"}) = {o}
      /\ OfKind(r, R, {"SourceLocalAssembly"}) = (m + 2)..(m + 1 + c)
      /\ OfKind(r, R, FluxKind) = (m + 2 + c)..(z - 1)
  <2>1. o \in R /\ \A l \in (m + 2)..(m + 1 + c) : l \in R
    BY <1>1, <1>6
  <2>2. \A l \in (m + 2 + c)..(z - 1) : l \in R
    BY <1>1, <1>6
  <2> HIDE DEF R, o
  <2> QED
    BY <1>8, <2>1, <2>2 DEF OfKind
<1>10. /\ Cardinality({o}) = 1
       /\ Cardinality((m + 2)..(m + 1 + c)) = c
       /\ Cardinality((m + 2 + c)..(z - 1)) = N
  <2>1. (m + 2) + c - 1 = m + 1 + c /\ (m + 2 + c) + N - 1 = z - 1 /\ m + 2 \in Nat /\ m + 2 + c \in Nat
    BY <1>1
  <2>2. Cardinality((m + 2)..((m + 2) + c - 1)) = c
    BY <1>1, <2>1, Interval
  <2>3. Cardinality((m + 2 + c)..((m + 2 + c) + N - 1)) = N
    BY <1>1, <2>1, Interval
  <2> HIDE DEF m, c, N
  <2> QED
    BY <2>1, <2>2, <2>3, FS_Singleton
<1>11. \A j \in R : StepIn(r, j, e) = n + 1
  BY <1>3, <1>7
<1>12. StepIn(r, z, e) = n + 1
  <2>1. z \in o..Len(r)
    BY <1>1
  <2> QED
    BY <1>3, <2>1
<1> HIDE DEF m, N, o
<1>13. RhsIs(r, z, e, n + 1, c, N)
  BY <1>9, <1>10, <1>11 DEF RhsIs
<1> QED
  BY <1>5, <1>12, <1>13 DEF SolveSees, c, N, SourceCount

\* From then on its state is that of the new step; the others keep theirs.
LEMMA TurnStates ==
  ASSUME NEW q \in Seq(ThetaTask), NEW r \in Seq(ThetaTask), NEW e \in Elem, NEW z,
         Turned(q, r, e, z), tnow \in Int, NEW n \in Nat, StepIn(q, Len(q), e) = n
  PROVE  /\ \A i \in (z + 1)..(Len(r) + 1) : StateIs(r, i, e, n + 1)
         /\ \A x, s : x # e /\ StateIs(q, Len(q) + 1, x, s) => StateIs(r, Len(r) + 1, x, s)
<1> DEFINE m == Len(q)  p == Len(r) + 1
<1>1. /\ m \in Nat /\ Len(r) \in Nat /\ z \in Nat /\ m + 1 < z /\ z <= Len(r) /\ z \in Nat \ {0}
  BY TurnKinds
<1>2. \A i \in (m + 1)..Len(r) : \A x : Writes(r[i], sol_handle(x)) <=> i = z /\ x = e
  BY TurnWrites
<1>3. ASSUME NEW i \in (z + 1)..p
      PROVE  StateIs(r, i, e, n + 1)
  <2>1. z \in (m + 1)..Len(r)
    BY <1>1
  <2>2. Sets(r[z], sol_handle(e)) /\ StepIn(r, z, e) = n + 1
    BY <2>1, TurnWrites, TurnSteps
  <2>3. \A l \in (z + 1)..(i - 1) : l \in (m + 1)..Len(r) /\ l # z
    BY <1>1, <1>3
  <2>4. \A l \in (z + 1)..(i - 1) : ~ Writes(r[l], sol_handle(e)) /\ ~ Sets(r[l], sol_handle(e))
    BY <1>2, <2>3, SetIsWrite
  <2>5. i \in Nat /\ z < i /\ z \in 1..(i - 1) /\ n + 1 # 0
    BY <1>1, <1>3
  <2>6. Held(r, i, sol_handle(e))
          = {z} \cup {l \in (z + 1)..(i - 1) : Writes(r[l], sol_handle(e))}
    BY <1>1, <2>2, <2>4, <2>5, HeldSince
  <2>7. Held(r, i, sol_handle(e)) = {z}
    BY <2>4, <2>6
  <2>8. r[z].cl = "SolveSkyline"
    BY DEF Turned, SolveTask
  <2> QED
    BY <2>2, <2>5, <2>7, <2>8 DEF StateIs
<1>4. ASSUME NEW x, NEW s, x # e, StateIs(q, m + 1, x, s)
      PROVE  StateIs(r, p, x, s)
  <2> DEFINE o == m + 1
  <2>1. o \in Nat \ {0} /\ o \in Nat /\ o <= Len(q) + 1 /\ Len(q) \in Nat /\ p \in Nat /\ o <= p
    BY <1>1
  <2>2. \A l \in o..(p - 1) : ~ Writes(r[l], sol_handle(x))
    <3>1. \A l \in o..(p - 1) : l \in (m + 1)..Len(r)
      BY <1>1
    <3> QED
      BY <1>2, <1>4, <3>1
  <2>3. StateIs(q, o, x, s) /\ Prefix(q, r)
    BY <1>4 DEF Turned
  <2> HIDE DEF o, p
  <2>4. StateIs(r, o, x, s)
    BY <2>1, <2>3, StateKept
  <2> QED
    BY <2>1, <2>2, <2>4, StateOver
<1> QED
  BY <1>3, <1>4

\* The buffers of the arcs from e hold it; those of the other arcs are untouched.
LEMMA TurnFaces ==
  ASSUME NEW q \in Seq(ThetaTask), NEW r \in Seq(ThetaTask), NEW e \in Elem, NEW z,
         Turned(q, r, e, z), tnow \in Int, NEW n \in Nat, StepIn(q, Len(q), e) = n,
         NEW a \in InnerArc
  PROVE  /\ a.from = e => FaceHolds(r, a, n + 1)
         /\ \A l : a.from # e /\ FaceHolds(q, a, l) => FaceHolds(r, a, l)
<1> DEFINE m == Len(q)  p == Len(r) + 1
<1>1. /\ m \in Nat /\ Len(r) \in Nat /\ z \in Nat /\ m + 1 < z /\ z <= Len(r)
      /\ DOMAIN r = 1..Len(r) /\ DOMAIN q = 1..m
  BY TurnKinds
<1>2. \A i \in (m + 1)..Len(r) : Writes(r[i], FaceOf(a)) => z < i /\ a.from = e
  BY TurnWrites DEF InnerArc
<1>3. ASSUME a.from = e
      PROVE  FaceHolds(r, a, n + 1)
  <2>1. a \in DownwindArcs(e)
    BY <1>3, Graph DEF InnerArc, DownwindArcs, OutArcs
  <2>2. PICK i \in (z + 1)..Len(r) :
          /\ r[i] \in ExtractTask(FaceOf(a), e)
          /\ \A l \in (z + 1)..Len(r) : l # i => ~ Writes(r[l], FaceOf(a))
    BY <2>1 DEF Turned
  <2>3. /\ i \in Nat \ {0} /\ p \in Nat /\ i < p /\ i \in DOMAIN r /\ i \in (m + 1)..Len(r)
        /\ \A l \in (i + 1)..(p - 1) : l \in (z + 1)..Len(r) /\ l # i
    BY <1>1
  <2>4. \A l \in (i + 1)..(p - 1) : ~ Writes(r[l], FaceOf(a)) /\ ~ Sets(r[l], FaceOf(a))
    BY <2>2, <2>3, SetIsWrite
  <2>5. Sets(r[i], FaceOf(a))
    BY <2>2, ImplicitTasksWrite
  <2> HIDE DEF p
  <2>6. Held(r, p, FaceOf(a)) = {i} \cup {l \in (i + 1)..(p - 1) : Writes(r[l], FaceOf(a))}
    BY <2>3, <2>4, <2>5, HeldSince
  <2>7. Held(r, p, FaceOf(a)) = {i}
    BY <2>4, <2>6
  <2>8. r[i].cl = "ExtractInterface" /\ r[i].buf[2] = sol_handle(e)
    BY <2>2 DEF ExtractTask
  <2>9. StepIn(r, i, e) = n + 1
    BY <2>3, TurnSteps
  <2> QED
    BY <1>3, <2>3, <2>7, <2>8, <2>9 DEF FaceHolds, p
<1>4. ASSUME NEW l, a.from # e, FaceHolds(q, a, l)
      PROVE  FaceHolds(r, a, l)
  <2>1. PICK j \in DOMAIN q : /\ Held(q, m + 1, FaceOf(a)) = {j}
                              /\ q[j].cl = "ExtractInterface" /\ q[j].buf[2] = sol_handle(a.from)
                              /\ StepIn(q, j, a.from) = l
    BY <1>4 DEF FaceHolds
  <2>2. r[j] = q[j] /\ StepIn(r, j, a.from) = l
    BY <1>1, <2>1, TurnSteps
  <2> DEFINE o == m + 1
  <2>3. o \in Nat \ {0} /\ o \in Nat /\ o <= Len(q) + 1 /\ Len(q) \in Nat /\ p \in Nat /\ o <= p
    BY <1>1
  <2>4. \A x \in o..(p - 1) : ~ Writes(r[x], FaceOf(a))
    <3>1. \A x \in o..(p - 1) : x \in (m + 1)..Len(r)
      BY <1>1
    <3> QED
      BY <1>2, <1>4, <3>1
  <2>5. Held(q, o, FaceOf(a)) = {j} /\ Prefix(q, r)
    BY <2>1 DEF Turned
  <2>6. j \in DOMAIN r
    BY <1>1
  <2> HIDE DEF o, p
  <2>7. Held(r, o, FaceOf(a)) = {j}
    BY <2>3, <2>5, HeldKept
  <2>8. Held(r, p, FaceOf(a)) = {j}
    BY <2>3, <2>4, <2>7, HeldOver
  <2> QED
    BY <2>1, <2>2, <2>6, <2>8 DEF FaceHolds, p
<1> QED
  BY <1>3, <1>4

\* So a turn keeps the form of the queue, and its tasks see what they must.
LEMMA TurnKeepsViews ==
  ASSUME NEW q \in Seq(ThetaTask), NEW r \in Seq(ThetaTask), NEW e \in Elem, NEW z,
         Turned(q, r, e, z), tnow \in Int, NEW n \in Nat, MayTurn(q, e, n), ViewsOf(q),
         Cardinality(Ends(r, e)) = n + 1,
         \A x \in Elem : x # e => Ends(r, x) = Ends(q, x)
  PROVE  ViewsOf(r)
<1> DEFINE m == Len(q)
<1>1. /\ m \in Nat /\ Len(r) \in Nat /\ z \in Nat /\ m + 1 < z /\ z <= Len(r)
      /\ DOMAIN r = 1..Len(r) /\ DOMAIN q = 1..m
  BY TurnKinds
<1>2. StepIn(q, m, e) = n
  BY DEF ViewsOf, MayTurn
<1>3. /\ \A i \in (m + 1)..Len(r) : StepIn(r, i, e) = n + 1
      /\ \A x : x # e => StepIn(r, Len(r), x) = StepIn(q, m, x)
  BY <1>2, TurnSteps
<1>4. ASSUME NEW i \in DOMAIN q
      PROVE  Sees(r, i)
  <2> DEFINE f == Cardinality(InArcs(q[i].buf[1][2]))
  <2>1. ExtractSees(q, i, 0) /\ FluxSees(q, i) /\ SolveSees(q, i, f)
    BY DEF ViewsOf, Sees
  <2>2. Prefix(q, r) /\ i \in 1..Len(q) /\ r[i] = q[i] /\ Len(q) \in Nat
    BY <1>1 DEF Turned, Prefix
  <2> HIDE DEF f
  <2>3. ExtractSees(r, i, 0) /\ FluxSees(r, i) /\ SolveSees(r, i, f)
    BY <2>1, <2>2, SightKept
  <2> QED
    BY <2>2, <2>3 DEF Sees, f
<1>5. ASSUME NEW i \in (m + 1)..Len(r)
      PROVE  Sees(r, i)
  <2>1. CASE r[i] \in MatVectTask(e) \cup SourceTask(e)
    BY <2>1 DEF Sees, ExtractSees, FluxSees, SolveSees, MatVectTask, SourceTask
  <2>2. CASE i \in (m + 2 + SourceCount)..(z - 1) /\ r[i] \in RhsFluxTask(e)
    <3>1. FluxSees(r, i)
      BY <2>2, TurnFluxes
    <3> QED
      BY <2>2, <3>1 DEF Sees, ExtractSees, SolveSees, RhsFluxTask
  <2>3. CASE i = z /\ r[i] \in SolveTask(e)
    <3>1. SolveSees(r, z, Cardinality(InArcs(e)))
      BY <1>2, TurnSolve
    <3>2. r[i].buf[1][2] = e /\ r[i].cl = "SolveSkyline"
      BY <2>3 DEF SolveTask, sol_handle
    <3> QED
      BY <2>3, <3>1, <3>2 DEF Sees, ExtractSees, FluxSees
  <2>4. CASE i \in (z + 1)..Len(r) /\ \E a \in DownwindArcs(e) : r[i] \in ExtractTask(FaceOf(a), e)
    <3>1. r[i].cl = "ExtractInterface" /\ r[i].buf[2][2] = e
      BY <2>4 DEF ExtractTask, sol_handle
    <3>2. i \in (z + 1)..(Len(r) + 1)
      BY <1>1, <2>4
    <3>3. StateIs(r, i, e, n + 1)
      BY <1>2, <3>2, TurnStates
    <3>4. StepIn(r, i, e) - 0 = n + 1
      <4>1. StepIn(r, i, e) = n + 1
        BY <1>3
      <4> QED
        BY <4>1
    <3> QED
      BY <3>1, <3>3, <3>4 DEF Sees, ExtractSees, FluxSees, SolveSees
  <2> QED
    BY <2>1, <2>2, <2>3, <2>4, TurnKinds
<1>6. \A i \in DOMAIN r : i \in DOMAIN q \/ i \in (m + 1)..Len(r)
  BY <1>1
<1>7. ASSUME NEW x \in Elem
      PROVE  /\ StepIn(r, Len(r), x) = Cardinality(Ends(r, x))
             /\ StateIs(r, Len(r) + 1, x, Cardinality(Ends(r, x)))
  <2>1. CASE x = e
    <3>1. Len(r) \in (m + 1)..Len(r) /\ Len(r) + 1 \in (z + 1)..(Len(r) + 1)
      BY <1>1
    <3>2. StateIs(r, Len(r) + 1, e, n + 1)
      BY <1>2, <3>1, TurnStates
    <3> QED
      BY <1>3, <2>1, <3>1, <3>2
  <2>2. CASE x # e
    <3>1. /\ StepIn(q, m, x) = Cardinality(Ends(q, x))
          /\ StateIs(q, m + 1, x, Cardinality(Ends(q, x)))
      BY DEF ViewsOf
    <3>2. StateIs(r, Len(r) + 1, x, Cardinality(Ends(q, x)))
      BY <1>2, <2>2, <3>1, TurnStates
    <3> QED
      BY <1>3, <2>2, <3>1, <3>2
  <2> QED
    BY <2>1, <2>2
<1>8. ASSUME NEW a \in InnerArc, Cardinality(Ends(r, a.from)) # 0
      PROVE  FaceHolds(r, a, Cardinality(Ends(r, a.from)))
  <2>1. a.from \in Elem
    BY DEF InnerArc
  <2>2. CASE a.from = e
    BY <1>2, <2>2, TurnFaces
  <2>3. CASE a.from # e
    <3>1. Ends(r, a.from) = Ends(q, a.from)
      BY <2>1, <2>3
    <3>2. FaceHolds(q, a, Cardinality(Ends(q, a.from)))
      BY <1>8, <3>1 DEF ViewsOf
    <3> QED
      BY <1>2, <2>3, <3>1, <3>2, TurnFaces
  <2> QED
    BY <2>2, <2>3
<1> QED
  BY <1>4, <1>5, <1>6, <1>7, <1>8 DEF ViewsOf

\* The host submits nothing but such turns.
LEMMA ElemsViews == Inv /\ OrderInv /\ ViewInv /\ Elems => ViewInv'
<1> SUFFICES ASSUME Inv, OrderInv, ViewInv, Elems PROVE ViewInv'
  OBVIOUS
<1> DEFINE e == topo_order[k + 1]  q == queue  r == queue'
<1>1. e \in Elem /\ MayTurn(q, e, iter) /\ r = q \o ElemTasks(e)
  <2>1. e \in Elem /\ Submit(ElemTasks(e))
    BY SweepTurn DEF Inv
  <2> QED
    BY <2>1, ElemMayTurn DEF Submit
<1>2. /\ q \in Seq(ThetaTask) /\ SweepOrdered(q) /\ InnerArcsServed(q) /\ ViewsOf(q)
      /\ iter \in Nat /\ tnow \in Int
  BY DEF OrderInv, ViewInv, Inv, HostTypeOK
<1> HIDE DEF e, q, r
<1>3. r \in Seq(ThetaTask)
  BY <1>1, <1>2, TurnOf
<1>4. PICK z : Turned(q, r, e, z)
  BY <1>1, <1>2, TurnOf
<1>5. Cardinality(Ends(r, e)) = iter + 1
  BY <1>1, <1>2, TurnKeepsOrder
<1>6. \A x \in Elem : x # e => Ends(r, x) = Ends(q, x)
  BY <1>1, <1>2, TurnKeepsOrder
<1>7. ViewsOf(r)
  BY <1>1, <1>2, <1>3, <1>4, <1>5, <1>6, TurnKeepsViews
<1> QED
  BY <1>7 DEF ViewInv, r

\* In an empty queue nothing is seen, and every element has its initial state.
LEMMA ViewInit == Init => ViewInv
<1> SUFFICES ASSUME Init PROVE ViewInv
  OBVIOUS
<1>1. queue = << >> /\ DOMAIN queue = {} /\ Len(queue) = 0 /\ 0 + 1 = 1
  BY DEF Init, RTInit
<1>2. \A e : Cardinality(Ends(queue, e)) = 0
  <2>1. \A e : Ends(queue, e) = {}
    BY <1>1 DEF Ends
  <2> QED
    BY <2>1, FS_EmptySet
<1>3. \A e : StepIn(queue, 0, e) = 0
  <2>1. Cardinality({}) = 0 /\ 1..0 = {}
    BY FS_EmptySet
  <2> QED
    BY <2>1 DEF StepIn
<1>4. \A e : StateIs(queue, 1, e, 0)
  <2>1. 1..(1 - 1) = {}
    OBVIOUS
  <2> QED
    BY <2>1 DEF StateIs, Held
<1> QED
  BY <1>1, <1>2, <1>3, <1>4 DEF ViewInv, ViewsOf

\* Every task GraphThetaTimeScheme_SPU submits will see what it must, on every mesh: the
\* invariant of the queue that the next two theorems rest on.
THEOREM GraphThetaViews == Spec => []ViewInv
<1>1. ASSUME WhileLoop \/ FirstWait \/ FinalWait \/ WorkerStep \/ UNCHANGED vars
      PROVE  queue' = queue
  BY <1>1, WorkersLeave
     DEF WhileLoop, FirstWait, FinalWait, While, WaitForAll, vars, rtVars, hostVars
<1>2. ViewInv /\ queue' = queue => ViewInv'
  BY DEF ViewInv, ViewsOf
<1>3. Inv /\ OrderInv /\ ViewInv /\ [Next]_vars => ViewInv'
  BY <1>1, <1>2, ElemsViews DEF Next, Host, Returned
<1> QED
  BY <1>3, ViewInit, GraphThetaInvariant, GraphThetaOrder, PTL DEF Spec

-----------------------------------------------------------------------------
(* What running tasks see.                                                 *)

\* StepOf is StepIn of the queue.
LEMMA StepOfIsStepIn == \A i, e : StepOf(i, e) = StepIn(queue, i, e)
BY DEF StepOf, StepIn, Opens

\* The fluxes.
LEMMA FluxesSee == Inv /\ OrderInv /\ ViewInv => FluxSeesThisStep
<1> SUFFICES ASSUME Inv, OrderInv, ViewInv, NEW i \in Running,
                    queue[i].cl = "InterfaceExplicitFlux"
             PROVE  \E j \in 1..(i - 1) :
                      /\ view[i][queue[i].buf[1]] = {j}
                      /\ queue[j].cl = "ExtractInterface"
                      /\ queue[j].buf[2] = sol_handle(Across(queue[i]))
                      /\ StepOf(j, Across(queue[i])) = StepOf(i, Into(queue[i]))
  BY DEF FluxSeesThisStep, Across, Into
<1>1. FluxSees(queue, i)
  BY RunningViews DEF Inv, OrderInv, ViewInv, ViewsOf, Sees
<1> QED
  BY <1>1, RunningFlux, StepOfIsStepIn DEF Inv, OrderInv

\* The extractions.
LEMMA ExtractionsSee == Inv /\ OrderInv /\ ViewInv => ExtractLags(0)
<1> SUFFICES ASSUME Inv, OrderInv, ViewInv, NEW i \in Running,
                    queue[i].cl = "ExtractInterface"
             PROVE  IF StepOf(i, queue[i].buf[2][2]) - 0 = 0
                    THEN view[i][sol_handle(queue[i].buf[2][2])] = {}
                    ELSE \E j \in 1..(i - 1) :
                           /\ view[i][sol_handle(queue[i].buf[2][2])] = {j}
                           /\ queue[j].cl = "SolveSkyline"
                           /\ StepOf(j, queue[i].buf[2][2]) = StepOf(i, queue[i].buf[2][2]) - 0
  BY DEF ExtractLags
<1> DEFINE u == queue[i].buf[2][2]  s == StepOf(i, u) - 0
<1>1. u = queue[i].buf[2][2] /\ s = StepIn(queue, i, u) - 0
  BY StepOfIsStepIn
<1> HIDE DEF u, s
<1>2. ExtractSees(queue, i, 0)
  BY RunningViews DEF Inv, OrderInv, ViewInv, ViewsOf, Sees
<1>3. StateInView(i, u, s)
  BY <1>1, <1>2, RunningExtract DEF Inv, OrderInv
<1>4. IF s = 0 THEN view[i][sol_handle(u)] = {}
      ELSE \E j \in 1..(i - 1) : /\ view[i][sol_handle(u)] = {j}
                                 /\ queue[j].cl = "SolveSkyline" /\ StepOf(j, u) = s
  BY <1>3, StepOfIsStepIn DEF StateInView
<1> QED
  BY <1>4 DEF s, u

\* GraphThetaTimeScheme_SPU takes the upwind neighbours with the state they have at the
\* end of the same time step, on every mesh and however the runtime orders the tasks,
\* although a neighbour may already be several steps further: no flux reads a face that
\* still holds, or already holds, the state of another step.
THEOREM GraphThetaUpwindAtTheNewStep == Spec => []UpwindAtTheNewStep
<1>1. Inv /\ OrderInv /\ ViewInv => UpwindAtTheNewStep
  BY FluxesSee, ExtractionsSee DEF UpwindAtTheNewStep
<1> QED
  BY <1>1, GraphThetaInvariant, GraphThetaOrder, GraphThetaViews, PTL

\* The faces the flow enters an element by.
Inflow(e) == {f \in Face : \/ fL[f] = e /\ "in" \in flow[f]
                           \/ fR[f] = e /\ "out" \in flow[f]}

\* There is one for each arc into it, since the flow does not go round.
LEMMA InflowCounted ==
  ASSUME NEW e \in Elem, topo_order \in TopoOrders
  PROVE  Cardinality(InArcs(e)) = Cardinality(Inflow(e))
<1> DEFINE A == InArcs(e)  F == Inflow(e)  face == [a \in A |-> a.face]
<1>1. e # Null /\ e # downwind
  BY Graph DEF Null
<1>2. ASSUME NEW a \in A
      PROVE  /\ a \in connect_graph /\ a.to = e /\ a.face \in F /\ a.dir \in {0, 1}
             /\ a.dir = 0 => fR[a.face] = e /\ a.from = fL[a.face]
             /\ a.dir = 1 => fL[a.face] = e
  <2>1. PICK f \in Face : a \in FaceArcs(f)
    BY Graph DEF InArcs, connect_graph
  <2>2. a \in connect_graph /\ a.to = e
    BY DEF InArcs
  <2>3. a.face = f /\ (a.dir = 0 => "out" \in flow[f]) /\ (a.dir = 1 => "in" \in flow[f])
    BY <2>1 DEF FaceArcs, FlowArc
  <2>4. /\ a.dir \in {0, 1}
        /\ a.dir = 0 => fR[a.face] = e /\ a.from = fL[a.face]
        /\ a.dir = 1 => fL[a.face] = e
    BY <1>1, <2>2, Arcs
  <2> QED
    BY <2>2, <2>3, <2>4 DEF Inflow
<1>3. \A a \in A : a.from # e
  <2> SUFFICES ASSUME NEW a \in A, a.from = e PROVE FALSE
    OBVIOUS
  <2>1. PICK i \in 1..nbelems : topo_order[i] = e
    BY SweepOrder
  <2>2. i < i
    BY <1>2, <2>1, SweepOrder
  <2> QED
    BY <2>2
<1>4. ASSUME NEW a \in A, NEW b \in A, a.face = b.face
      PROVE  a = b
  <2>1. a.dir = b.dir
    BY <1>2, <1>3, <1>4
  <2> QED
    BY <1>2, <1>4, <2>1, OneArc
<1>5. ASSUME NEW f \in F
      PROVE  \E a \in A : a.face = f
  <2>1. f \in Face
    BY DEF Inflow
  <2>2. CASE fL[f] = e /\ "in" \in flow[f]
    <3> DEFINE a == FlowArc(IF fR[f] = -1 THEN upwind ELSE fR[f], fL[f], f, 1)
    <3>1. a \in FaceArcs(f) /\ a.to = e /\ a.face = f
      BY <2>2 DEF FaceArcs, FlowArc
    <3> HIDE DEF a
    <3> QED
      BY <2>1, <3>1, Graph DEF InArcs, connect_graph
  <2>3. CASE fR[f] = e /\ "out" \in flow[f]
    <3> DEFINE a == FlowArc(fL[f], IF fR[f] = -1 THEN downwind ELSE fR[f], f, 0)
    <3>1. a \in FaceArcs(f) /\ a.face = f
      BY <2>3 DEF FaceArcs, FlowArc
    <3>2. a.to = e
      BY <1>1, <2>3 DEF FlowArc, Null
    <3> HIDE DEF a
    <3> QED
      BY <2>1, <3>1, <3>2, Graph DEF InArcs, connect_graph
  <2> QED
    BY <2>2, <2>3 DEF Inflow
<1> HIDE DEF A, F
<1>6. face \in Bijection(A, F)
  <2>1. face \in [A -> F]
    BY <1>2
  <2>2. \A a, b \in A : face[a] = face[b] => a = b
    BY <1>4
  <2>3. \A f \in F : \E a \in A : face[a] = f
    BY <1>5
  <2> QED
    BY <2>1, <2>2, <2>3 DEF Bijection, Injection, Surjection, IsInjective
<1>7. IsFiniteSet(A)
  <2>1. A \in SUBSET connect_graph
    BY DEF A, InArcs
  <2> QED
    BY <2>1, Incident
<1>8. ExistsBijection(A, F)
  BY <1>6 DEF ExistsBijection
<1>9. Cardinality(F) = Cardinality(A)
  BY <1>7, <1>8, FS_Bijection
<1> QED
  BY <1>9 DEF A, F

\* A solve is of an element.
LEMMA SolveOfElement ==
  ASSUME NEW t \in ThetaTask, t.cl = "SolveSkyline"
  PROVE  t.buf[1][2] \in Elem
<1>1. t \notin RhsTask
  BY DEF RhsTask, IsRhsTask
<1>2. PICK e \in Elem : t.buf = << sol_handle(e), rhs_handle(e) >>
  BY <1>1 DEF ThetaTask, SolveTask
<1> QED
  BY <1>2 DEF sol_handle

\* The systems it solves are complete: a solve starts on the product with the old state,
\* the source if there is one, and one flux for each face the flow enters its element by,
\* all of the same time step, none missing and none twice.
THEOREM GraphThetaSolveSeesItsStep == Spec => []SolveSeesItsStep
<1>1. ASSUME Inv, OrderInv, ViewInv, NEW i \in Running,
             queue[i].cl = "SolveSkyline", NEW e, e = queue[i].buf[1][2],
             NEW rhs, rhs = view[i][rhs_handle(e)]
      PROVE  /\ \A j \in rhs : StepOf(j, e) = StepOf(i, e)
             /\ Cardinality(OfCodelet(rhs, "MatVectSkyline")) = 1
             /\ Cardinality(OfCodelet(rhs, "SourceLocalAssembly")) =
                  IF HasSource THEN 1 ELSE 0
             /\ Cardinality(OfCodelet(rhs, "InterfaceBoundaryFlux")
                              \cup OfCodelet(rhs, "InterfaceExplicitFlux")) =
                  Cardinality(Inflow(e))
  <2> DEFINE n == Cardinality(InArcs(e))
  <2>1. SolveSees(queue, i, n)
    BY <1>1, RunningViews DEF Inv, OrderInv, ViewInv, ViewsOf, Sees
  <2> HIDE DEF n
  <2>2. RhsInView(i, e, rhs, n)
    BY <1>1, <2>1, RunningSolve DEF Inv, OrderInv
  <2>3. n = Cardinality(Inflow(e))
    <3>1. i \in DOMAIN queue /\ queue[i] \in ThetaTask
      BY <1>1, RunningViews DEF Inv, OrderInv
    <3>2. e \in Elem
      BY <1>1, <3>1, SolveOfElement
    <3> QED
      BY <1>1, <3>2, InflowCounted DEF n, Inv, HostTypeOK
  <2> QED
    BY <2>2, <2>3, StepOfIsStepIn DEF RhsInView
<1>2. ASSUME Inv, OrderInv, ViewInv
      PROVE  SolveSeesItsStep
  <2> SUFFICES ASSUME NEW i \in Running, queue[i].cl = "SolveSkyline"
               PROVE  /\ \A j \in view[i][rhs_handle(queue[i].buf[1][2])] :
                           StepOf(j, queue[i].buf[1][2]) = StepOf(i, queue[i].buf[1][2])
                      /\ Cardinality({j \in view[i][rhs_handle(queue[i].buf[1][2])] :
                                       queue[j].cl = "MatVectSkyline"}) = 1
                      /\ Cardinality({j \in view[i][rhs_handle(queue[i].buf[1][2])] :
                                       queue[j].cl = "SourceLocalAssembly"}) =
                           IF HasSource THEN 1 ELSE 0
                      /\ Cardinality({j \in view[i][rhs_handle(queue[i].buf[1][2])] :
                                       queue[j].cl = "InterfaceBoundaryFlux"}
                                       \cup {j \in view[i][rhs_handle(queue[i].buf[1][2])] :
                                             queue[j].cl = "InterfaceExplicitFlux"}) =
                           Cardinality({f \in Face :
                             \/ fL[f] = queue[i].buf[1][2] /\ "in" \in flow[f]
                             \/ fR[f] = queue[i].buf[1][2] /\ "out" \in flow[f]})
    BY DEF SolveSeesItsStep, SolveIsComplete
  <2> DEFINE e == queue[i].buf[1][2]  rhs == view[i][rhs_handle(e)]
  <2>1. e = queue[i].buf[1][2] /\ rhs = view[i][rhs_handle(e)]
    OBVIOUS
  <2> HIDE DEF e, rhs
  <2>2. \A j \in rhs : StepOf(j, e) = StepOf(i, e)
    BY <1>1, <1>2, <2>1
  <2>3. /\ Cardinality(OfCodelet(rhs, "MatVectSkyline")) = 1
        /\ Cardinality(OfCodelet(rhs, "SourceLocalAssembly")) = IF HasSource THEN 1 ELSE 0
    BY <1>1, <1>2, <2>1
  <2>4. Cardinality(OfCodelet(rhs, "InterfaceBoundaryFlux")
                      \cup OfCodelet(rhs, "InterfaceExplicitFlux")) = Cardinality(Inflow(e))
    BY <1>1, <1>2, <2>1
  <2> QED
    BY <2>2, <2>3, <2>4 DEF OfCodelet, Inflow, e, rhs
<1> QED
  BY <1>2, GraphThetaInvariant, GraphThetaOrder, GraphThetaViews, PTL
=============================================================================
