---------------------------- MODULE ElementClock ----------------------------
(***************************************************************************)
(* What a scheme without global barriers promises of the order in which    *)
(* the elements of a mesh advance.  Along an arc << u, v >> the element v  *)
(* ends a level only when u is Ahead levels further, and u only when it is *)
(* less than Lead levels before v.  With Ahead = 0 and Lead = 1 an element *)
(* enters a level when its neighbours have all reached the one before, as  *)
(* in a scheme whose fluxes need their old state; with Ahead = 1 an        *)
(* element ends a level after those upwind of it, as in a sweep.           *)
(***************************************************************************)
EXTENDS Integers, TLAPS

CONSTANTS
  Vertex,   \* the elements
  Arc,      \* pairs of elements that share a face, upwind first if there is a flow
  Ahead,    \* 1 in a sweep, 0 in a scheme that needs the old state
  Lead      \* how many levels an element may be ahead along an arc

VARIABLE level   \* how many stages or time steps each element has gone through

Init == level = [v \in Vertex |-> 0]

Advance(v) ==
  /\ \A u \in Vertex : << u, v >> \in Arc => level[v] + Ahead <= level[u]
  /\ \A w \in Vertex : << v, w >> \in Arc => level[v] < level[w] + Lead
  /\ level' = [level EXCEPT ![v] = @ + 1]

Next == \E v \in Vertex : Advance(v)

Spec == Init /\ [][Next]_level

\* Elements that share a face stay close: in a sweep the level does not increase along an
\* arc; in a scheme that needs the old state it does by one at most; it drops by Lead at most.
LevelsAlongArcs ==
  \A u, v \in Vertex : << u, v >> \in Arc =>
    level[v] + Ahead <= level[u] + 1 /\ level[u] <= level[v] + Lead

-----------------------------------------------------------------------------
\* Every element has gone through some number of levels.
TypeOK == level \in [Vertex -> Nat]

\* On every graph, for every lead, whatever the order in which the elements advance: the
\* drift between elements of RK2_SPU and of the two implicit schemes is bounded.
THEOREM Levels ==
  ASSUME Ahead \in {0, 1}, Lead \in Nat \ {0}
  PROVE  Spec => [](TypeOK /\ LevelsAlongArcs)
<1> DEFINE Inv == TypeOK /\ LevelsAlongArcs
<1>1. Init => Inv
  BY DEF Init, TypeOK, LevelsAlongArcs
<1>2. Inv /\ [Next]_level => Inv'
  <2> SUFFICES ASSUME Inv, NEW x \in Vertex, Advance(x)
               PROVE  Inv'
    BY DEF Next, TypeOK, LevelsAlongArcs
  <2>1. /\ TypeOK'
        /\ level'[x] = level[x] + 1
        /\ \A y \in Vertex \ {x} : level'[y] = level[y]
    BY DEF Advance, TypeOK
  <2>2. ASSUME NEW u \in Vertex, NEW v \in Vertex, << u, v >> \in Arc
        PROVE  level'[v] + Ahead <= level'[u] + 1 /\ level'[u] <= level'[v] + Lead
    <3>1. /\ level[u] \in Nat /\ level[v] \in Nat
          /\ level[v] + Ahead <= level[u] + 1 /\ level[u] <= level[v] + Lead
      BY <2>2 DEF TypeOK, LevelsAlongArcs
    <3>2. CASE x = v /\ x # u
      <4>1. level[v] + Ahead <= level[u]
        BY <2>2, <3>2 DEF Advance
      <4> QED
        BY <3>1, <3>2, <4>1, <2>1
    <3>3. CASE x = u /\ x # v
      <4>1. level[u] < level[v] + Lead
        BY <2>2, <3>3 DEF Advance
      <4> QED
        BY <3>1, <3>3, <4>1, <2>1
    <3>4. CASE x = u /\ x = v
      BY <3>1, <3>4, <2>1
    <3>5. CASE x # u /\ x # v
      BY <3>1, <3>5, <2>1
    <3> QED
      BY <3>2, <3>3, <3>4, <3>5
  <2> QED
    BY <2>1, <2>2 DEF LevelsAlongArcs
<1> QED
  BY <1>1, <1>2, PTL DEF Spec
=============================================================================
