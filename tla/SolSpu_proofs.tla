---------------------------- MODULE SolSpu_proofs ----------------------------
(***************************************************************************)
(* With one worker, sol_spu stays in its arrays and leaves the solutions,  *)
(* whatever the number of systems, their size and their profiles.  With    *)
(* several, the static variables belong to nobody, and it does not.        *)
(***************************************************************************)
EXTENDS SolSpu, ResidueTheorems

\* What the static variables are at each label, for the element that is solved.
Loops(e) ==
  /\ at[e] \in {"forward", "L90", "L100", "L120", "L130", "column", "L150", "L9999", "enter"}
  /\ at[e] = "forward" =>
       static.ik \in 2..(neq + 1) /\ static.jhk = klds[e][static.ik] + 1
  /\ at[e] \in {"L90", "L100"} =>
       static.ik \in 2..neq /\ static.jhk1 = klds[e][static.ik + 1] + 1
  /\ at[e] = "L90" =>
       /\ static.jhk = klds[e][static.ik] + 1
       /\ static.lhk = Height(e, static.ik) /\ static.lhk >= 1
       /\ static.imin1 = static.ik - static.lhk
  /\ at[e] = "L130" =>
       static.ik \in 2..(neq + 1) /\ static.jhk1 = klds[e][static.ik] + 1
  /\ at[e] \in {"column", "L150"} =>
       static.ik \in 2..neq /\ static.jhk = klds[e][static.ik] + 1
  /\ at[e] = "column" =>
       /\ static.jbk = klds[e][static.ik + 1] /\ static.jhk <= static.jbk
       /\ static.ij = static.ik - static.jbk + static.jhk - 1

\* The invariant: at most one element is being solved, and the static variables
\* are its own.
SolInv ==
  /\ DOMAIN static = {"ik", "jhk", "jhk1", "lhk", "imin1", "c1", "jbk", "ij"}
  /\ \A i \in DOMAIN queue : ElemOf(i) \in Elem
  /\ \A i, j \in Running : i = j
  /\ \A i \in Running : i \in DOMAIN queue /\ ElemOf(i) \in DOMAIN at /\ Loops(ElemOf(i))

\* The columns of element e: where they begin and end in the arrays.
LEMMA Columns ==
  ASSUME NEW e \in Elem, NEW n \in 1..neq
  PROVE  /\ neq \in Nat /\ neq > 1
         /\ klds[e][n] \in Nat /\ klds[e][n + 1] \in Nat /\ klds[e][neq + 1] \in Nat
         /\ klds[e][n] <= klds[e][n + 1] /\ klds[e][n + 1] <= klds[e][neq + 1]
         /\ Height(e, n) = klds[e][n + 1] - klds[e][n] /\ Height(e, n) < n
         /\ Len(vkgs[e]) = klds[e][neq + 1] /\ Len(vkgi[e]) = klds[e][neq + 1]
<1>1. neq \in Nat /\ neq > 1
  BY SolSpuAssumption
<1>2. n \in 1..(neq + 1) /\ n + 1 \in 1..(neq + 1) /\ neq + 1 \in 1..(neq + 1)
  BY <1>1
<1>3. klds[e][n] \in Nat /\ klds[e][n + 1] \in Nat /\ klds[e][neq + 1] \in Nat
  BY <1>2, SolSpuAssumption
<1>4. klds[e][n] <= klds[e][n + 1] /\ klds[e][n + 1] <= klds[e][neq + 1]
  <2>1. n <= n + 1 /\ n + 1 <= neq + 1
    BY <1>1
  <2> QED
    BY <2>1, <1>2, SolSpuAssumption
<1>5. Height(e, n) = klds[e][n + 1] - klds[e][n] /\ Height(e, n) < n
  BY SolSpuAssumption DEF Height
<1>6. Len(vkgs[e]) = klds[e][neq + 1] /\ Len(vkgi[e]) = klds[e][neq + 1]
  BY SolSpuAssumption
<1> QED
  BY <1>1, <1>3, <1>4, <1>5, <1>6

\* Where the static variables are as Loops says, the next access is in the arrays.
LEMMA LoopsInBounds ==
  ASSUME NEW e \in Elem, Loops(e)
  PROVE  InBounds(e)
<1>1. CASE at[e] = "L90"
  <2>1. static.ik \in 2..neq
    BY <1>1 DEF Loops
  <2>2. static.ik \in 1..neq /\ neq \in Nat
    BY <2>1, SolSpuAssumption
  <2> DEFINE a == klds[e][static.ik]  b == klds[e][static.ik + 1]
  <2>3. /\ static.jhk = a + 1 /\ static.lhk = b - a /\ static.lhk >= 1
        /\ static.imin1 = static.ik - static.lhk
    BY <1>1, <2>2, Columns DEF Loops
  <2>4. /\ a \in Nat /\ b \in Nat /\ b - a < static.ik /\ b <= Len(vkgi[e])
    BY <2>2, Columns
  <2> HIDE DEF a, b
  <2>5. /\ static.imin1 >= 1 /\ static.imin1 + static.lhk - 1 <= neq
        /\ static.jhk >= 1 /\ static.jhk + static.lhk - 1 = b
    BY <2>2, <2>3, <2>4
  <2> QED
    BY <1>1, <2>2, <2>4, <2>5 DEF InBounds
<1>2. CASE at[e] = "column"
  <2>1. static.ik \in 1..neq /\ static.ik \in 2..neq /\ neq \in Nat
    BY <1>2, SolSpuAssumption DEF Loops
  <2> DEFINE a == klds[e][static.ik]  b == klds[e][static.ik + 1]
  <2>2. /\ static.jhk = a + 1 /\ static.jbk = b
        /\ static.ij = static.ik - static.jbk + static.jhk - 1
    BY <1>2 DEF Loops
  <2>3. /\ a \in Nat /\ b \in Nat /\ b - a < static.ik /\ b <= Len(vkgs[e])
    BY <2>1, Columns
  <2> HIDE DEF a, b
  <2>4. /\ static.ij >= 1 /\ static.ij + static.jbk - static.jhk <= neq
        /\ static.jhk >= 1 /\ static.jbk <= Len(vkgs[e])
    BY <2>1, <2>2, <2>3
  <2> QED
    BY <1>2, <2>4 DEF InBounds
<1>3. CASE at[e] = "forward"
  BY <1>3 DEF InBounds, Loops
<1>4. CASE at[e] = "L130"
  BY <1>4 DEF InBounds, Loops
<1>5. CASE at[e] \in {"L100", "L120", "L150", "L9999", "enter"}
  BY <1>5 DEF InBounds
<1> QED
  BY <1>1, <1>2, <1>3, <1>4, <1>5 DEF Loops

\* A step of a solve leads from a label to the next, the static variables with it.
LEMMA StepLoops ==
  ASSUME NEW e \in Elem, e \in DOMAIN at, Loops(e),
         DOMAIN static = {"ik", "jhk", "jhk1", "lhk", "imin1", "c1", "jbk", "ij"},
         \/ Enter(e) \/ Forward(e) \/ L90(e) \/ L100(e) \/ L120(e) \/ L130(e)
         \/ Column(e) \/ L150(e)
  PROVE  Loops(e)' /\ DOMAIN at' = DOMAIN at /\ DOMAIN static' = DOMAIN static
<1>0. /\ neq \in Nat /\ neq > 1
      /\ \A n \in 2..neq : n \in 1..neq /\ n + 1 \in 2..(neq + 1)
      /\ \A n \in 2..(neq + 1) : n - 1 \in 1..neq /\ (n - 1) + 1 = n
                                 /\ n \in Nat /\ (n <= neq => n \in 2..neq)
                                 /\ (n - 1 # 1 => n - 1 \in 2..neq)
  BY SolSpuAssumption
<1>1. CASE Enter(e)
  <2>1. at' = [at EXCEPT ![e] = "forward"] /\ static' = [static EXCEPT !.jhk = 1, !.ik = 2]
    BY <1>1 DEF Enter, Goto
  <2>2. klds[e][2] = 0
    <3>1. 1 \in 1..neq /\ 1 + 1 = 2 /\ klds[e][1] = 0
      BY <1>0, SolSpuAssumption
    <3>2. klds[e][2] \in Nat /\ klds[e][2] - klds[e][1] < 1
      BY <3>1, Columns
    <3> QED
      BY <3>1, <3>2
  <2>3. at'[e] = "forward" /\ static'.jhk = 1 /\ static'.ik = 2 /\ 2 \in 2..(neq + 1)
    BY <2>1, <1>0
  <2> QED
    BY <2>1, <2>2, <2>3 DEF Loops
<1>2. CASE Forward(e)
  <2>1. static.ik \in 2..(neq + 1) /\ static.jhk = klds[e][static.ik] + 1
    BY <1>2 DEF Forward, Loops
  <2>2. CASE static.ik <= neq
    <3> DEFINE jhk1 == ColumnStart(e, static.ik + 1)  lhk == jhk1 - static.jhk
    <3>1. /\ static' = [static EXCEPT !.jhk1 = jhk1, !.lhk = lhk, !.imin1 = static.ik - lhk]
          /\ at' = [at EXCEPT ![e] = IF lhk < 1 THEN "L100" ELSE "L90"]
      BY <1>2, <2>2 DEF Forward, Goto
    <3>2. /\ static.ik \in 2..neq
          /\ klds[e][static.ik] \in Nat /\ klds[e][static.ik + 1] \in Nat
          /\ Height(e, static.ik) = klds[e][static.ik + 1] - klds[e][static.ik]
      BY <1>0, <2>1, <2>2, Columns
    <3>3. jhk1 = klds[e][static.ik + 1] + 1 /\ lhk = Height(e, static.ik) /\ lhk \in Int
      BY <2>1, <3>2 DEF ColumnStart
    <3> HIDE DEF jhk1, lhk
    <3>4. /\ static'.ik = static.ik /\ static'.jhk = static.jhk /\ static'.jhk1 = jhk1
          /\ static'.lhk = lhk /\ static'.imin1 = static.ik - lhk
          /\ DOMAIN static' = DOMAIN static /\ DOMAIN at' = DOMAIN at
      BY <3>1
    <3>5. at'[e] = "L100" \/ (at'[e] = "L90" /\ lhk >= 1)
      BY <3>1, <3>3
    <3> QED
      BY <2>1, <3>2, <3>3, <3>4, <3>5 DEF Loops, Height
  <2>3. CASE ~(static.ik <= neq)
    <3>1. at' = [at EXCEPT ![e] = "L120"] /\ static' = static
      BY <1>2, <2>3 DEF Forward, Goto
    <3> QED
      BY <3>1 DEF Loops
  <2> QED
    BY <2>2, <2>3
<1>3. CASE L90(e)
  <2>1. at[e] = "L90" /\ at' = [at EXCEPT ![e] = "L100"] /\ static' = static
    BY <1>3 DEF L90, Goto
  <2> QED
    BY <2>1 DEF Loops
<1>4. CASE L100(e)
  <2>1. /\ at[e] = "L100" /\ at' = [at EXCEPT ![e] = "forward"]
        /\ static' = [static EXCEPT !.jhk = static.jhk1, !.ik = static.ik + 1]
    BY <1>4 DEF L100, Goto
  <2>2. static.ik \in 2..neq /\ static.jhk1 = klds[e][static.ik + 1] + 1
    BY <2>1 DEF Loops
  <2>3. at'[e] = "forward" /\ static'.ik = static.ik + 1 /\ static'.jhk = static.jhk1
        /\ static'.ik \in 2..(neq + 1)
    BY <1>0, <2>1, <2>2
  <2> QED
    BY <2>1, <2>2, <2>3 DEF Loops
<1>5. CASE L120(e)
  <2>1. /\ at' = [at EXCEPT ![e] = "L130"]
        /\ static' = [static EXCEPT !.ik = neq + 1, !.jhk1 = ColumnStart(e, neq + 1)]
    BY <1>5 DEF L120, Goto
  <2>2. /\ at'[e] = "L130" /\ static'.ik = neq + 1 /\ static'.jhk1 = klds[e][neq + 1] + 1
        /\ neq + 1 \in 2..(neq + 1)
    BY <1>0, <2>1 DEF ColumnStart
  <2> QED
    BY <2>1, <2>2 DEF Loops
<1>6. CASE L130(e)
  <2> DEFINE ik == static.ik - 1  x == Div(vu[e][ik], vkgd[e][ik])
             jhk == ColumnStart(e, ik)  jbk == static.jhk1 - 1
  <2>1. at[e] = "L130" /\ static.ik \in 2..(neq + 1) /\ static.jhk1 = klds[e][static.ik] + 1
    BY <1>6 DEF L130, Loops
  <2>2. CASE ik = 1
    <3>1. static' = [static EXCEPT !.ik = ik] /\ at' = [at EXCEPT ![e] = "L9999"]
      BY <1>6, <2>2 DEF L130, Goto
    <3> QED
      BY <3>1 DEF Loops
  <2>3. CASE ik # 1
    <3> DEFINE ij == IF jhk > jbk THEN static.ij ELSE ik - jbk + jhk - 1
    <3>1. /\ static' = [static EXCEPT !.ik = ik, !.c1 = x, !.jhk = jhk, !.jbk = jbk, !.ij = ij]
          /\ at' = [at EXCEPT ![e] = IF jhk > jbk THEN "L150" ELSE "column"]
      BY <1>6, <2>3 DEF L130, Goto
    <3>2. ik \in 2..neq /\ ik \in 1..neq /\ ik + 1 = static.ik
      BY <1>0, <2>1, <2>3
    <3>3. klds[e][ik] \in Nat /\ klds[e][ik + 1] \in Nat
      BY <3>2, Columns
    <3>4. jhk = klds[e][ik] + 1 /\ jbk = klds[e][ik + 1] /\ jhk \in Int /\ jbk \in Int
      <4>1. static.jhk1 = klds[e][ik + 1] + 1
        BY <2>1, <3>2
      <4> QED
        BY <3>3, <4>1 DEF ColumnStart
    <3> HIDE DEF ik, x, jhk, jbk
    <3>5. /\ static'.ik = ik /\ static'.jhk = jhk /\ static'.jbk = jbk /\ static'.ij = ij
          /\ DOMAIN static' = DOMAIN static /\ DOMAIN at' = DOMAIN at
      BY <3>1
    <3>6. \/ at'[e] = "L150"
          \/ at'[e] = "column" /\ jhk <= jbk /\ static'.ij = static'.ik - static'.jbk + static'.jhk - 1
      BY <3>1, <3>4, <3>5
    <3> QED
      BY <3>2, <3>4, <3>5, <3>6 DEF Loops
  <2> QED
    BY <2>2, <2>3
<1>7. CASE Column(e)
  <2>1. at[e] = "column" /\ at' = [at EXCEPT ![e] = "L150"] /\ static' = static
    BY <1>7 DEF Column, Goto
  <2> QED
    BY <2>1 DEF Loops
<1>8. CASE L150(e)
  <2>1. /\ at[e] = "L150" /\ at' = [at EXCEPT ![e] = "L130"]
        /\ static' = [static EXCEPT !.jhk1 = static.jhk]
    BY <1>8 DEF L150, Goto
  <2>2. static.ik \in 2..neq /\ static.jhk = klds[e][static.ik] + 1
    BY <2>1 DEF Loops
  <2>3. at'[e] = "L130" /\ static'.ik = static.ik /\ static'.jhk1 = static.jhk
        /\ static.ik \in 2..(neq + 1)
    BY <1>0, <2>1, <2>2
  <2> QED
    BY <2>1, <2>2, <2>3 DEF Loops
<1> QED
  BY <1>1, <1>2, <1>3, <1>4, <1>5, <1>6, <1>7, <1>8

-----------------------------------------------------------------------------
\* With one worker a task is started when no other runs.
LEMMA Alone ==
  ASSUME NWorkers = 1, SolInv, NEW i, Start(i)
  PROVE  Running = {} /\ i \in DOMAIN queue
<1>1. i \in DOMAIN queue /\ Cardinality(Running) < 1
  BY DEF Start, Ready
<1>2. ASSUME NEW j \in Running PROVE FALSE
  <2>1. Running = {j}
    BY DEF SolInv
  <2>2. Cardinality({j}) = 1
    BY FS_Singleton
  <2> QED
    BY <2>1, <2>2, <1>1
<1> QED
  BY <1>1, <1>2

LEMMA SolInvInductive ==
  ASSUME NWorkers = 1
  PROVE  /\ Init => SolInv
         /\ SolInv /\ [Next]_vars => SolInv'
         /\ SolInv => StaysInItsArrays
<1>1. ASSUME Init PROVE SolInv
  <2>1. \A i \in DOMAIN queue : ElemOf(i) \in Elem
    BY <1>1 DEF Init, ElemOf, Solve, Sol
  <2>2. Running = {}
    BY <1>1 DEF Init, Running
  <2>3. DOMAIN static = {"ik", "jhk", "jhk1", "lhk", "imin1", "c1", "jbk", "ij"}
    BY <1>1 DEF Init
  <2> QED
    BY <2>1, <2>2, <2>3 DEF SolInv
<1>2. ASSUME SolInv, NEW i \in DOMAIN queue, StartSolve(i) PROVE SolInv'
  <2>1. Running = {} /\ i \in DOMAIN queue
    BY <1>2, Alone DEF StartSolve
  <2>2. Running' = {i} /\ queue' = queue /\ static' = static
    BY <1>2, <2>1 DEF StartSolve, Start, Running
  <2>3. ElemOf(i) \in DOMAIN at' /\ at'[ElemOf(i)] = "enter"
    BY <1>2 DEF StartSolve
  <2>4. /\ \A j : ElemOf(j)' = ElemOf(j)
        /\ \A j, m \in Running' : j = m
    BY <2>2 DEF ElemOf
  <2>5. Loops(ElemOf(i))'
    BY <2>2, <2>3, <2>4 DEF Loops
  <2> QED
    BY <1>2, <2>2, <2>3, <2>4, <2>5 DEF SolInv
<1>3. ASSUME SolInv, NEW i \in DOMAIN queue, Step(i) PROVE SolInv'
  <2>0. PICK e \in Elem : e = ElemOf(i)
    BY <1>3 DEF SolInv
  <2>1. /\ i \in Running /\ UNCHANGED rtVars
        /\ Enter(e) \/ Forward(e) \/ L90(e) \/ L100(e) \/ L120(e) \/ L130(e) \/ Column(e) \/ L150(e)
    BY <1>3, <2>0 DEF Step
  <2>2. e \in Elem /\ e \in DOMAIN at /\ Loops(e)
    BY <1>3, <2>0, <2>1 DEF SolInv
  <2>3. DOMAIN static = {"ik", "jhk", "jhk1", "lhk", "imin1", "c1", "jbk", "ij"}
    BY <1>3 DEF SolInv
  <2>4. queue' = queue /\ Running' = Running
    BY <2>1 DEF rtVars, Running
  <2>5. \A j : ElemOf(j)' = ElemOf(j)
    BY <2>4 DEF ElemOf
  <2>6. Loops(e)' /\ DOMAIN at' = DOMAIN at /\ DOMAIN static' = DOMAIN static
    BY <2>1, <2>2, <2>3, StepLoops
  <2>7. Running = {i}
    BY <1>3, <2>1 DEF SolInv
  <2>8. \A j \in Running' : j \in DOMAIN queue' /\ ElemOf(j)' \in DOMAIN at' /\ Loops(ElemOf(j))'
    <3>1. Running' = {i} /\ i \in DOMAIN queue' /\ ElemOf(i)' = e
      BY <2>0, <2>4, <2>5, <2>7
    <3> QED
      BY <3>1, <2>2, <2>6 DEF Loops
  <2> QED
    BY <1>3, <2>3, <2>4, <2>5, <2>6, <2>8 DEF SolInv
<1>4. ASSUME SolInv, NEW i \in DOMAIN queue, FinishSolve(i) PROVE SolInv'
  <2>1. i \in Running /\ Finish(i) /\ UNCHANGED << vfg, vu, at, static >>
    BY <1>4 DEF FinishSolve
  <2>2. Running' = {} /\ queue' = queue
    BY <1>4, <2>1 DEF Finish, Running, SolInv
  <2>3. \A j : ElemOf(j)' = ElemOf(j)
    BY <2>2 DEF ElemOf
  <2> QED
    BY <1>4, <2>1, <2>2, <2>3 DEF SolInv
<1>5. ASSUME SolInv, UNCHANGED vars PROVE SolInv'
  BY <1>5 DEF vars, rtVars, SolInv, ElemOf, Running, Loops
<1>6. ASSUME SolInv PROVE StaysInItsArrays
  BY <1>6, LoopsInBounds DEF SolInv, StaysInItsArrays
<1> QED
  BY <1>1, <1>2, <1>3, <1>4, <1>5, <1>6 DEF Next, AllSolved

\* With one worker a solve never touches memory outside the arrays of its
\* system (sol_spu, skyline_spu.c), for every number of systems, every size and every profile.
THEOREM SolStaysInItsArrays ==
  ASSUME NWorkers = 1
  PROVE  Spec => []StaysInItsArrays
<1>1. Spec => []SolInv
  BY SolInvInductive, PTL DEF Spec
<1> QED
  BY <1>1, SolInvInductive, PTL

-----------------------------------------------------------------------------
(* The arithmetic of a solve, on vectors z of one system.                  *)

Vectors == [1..neq -> Int]

LEMMA Positive == P \in Nat /\ P > 0 /\ neq \in Nat /\ neq > 1
BY SolSpuAssumption

\* Adding the same number to two that are equal modulo P.
LEMMA SameResidue ==
  ASSUME NEW a \in Int, NEW b \in Int, NEW c \in Int, a % P = b % P
  PROVE  (a + c) % P = (b + c) % P
<1>1. ((a % P) + c) % P = (a + c) % P
  BY Positive, SumOfRemainders, Zenon
<1>2. ((b % P) + c) % P = (b + c) % P
  BY Positive, SumOfRemainders, Zenon
<1> QED
  BY <1>1, <1>2

\* A remainder is its own.
LEMMA Reduced ==
  ASSUME NEW a \in Int
  PROVE  a % P \in Int /\ (a % P) % P = a % P
<1>1. a % P \in Int
  BY Positive, DivisionBy
<1>2. \A b \in Int : ((a % P) + b) % P = (a + b) % P
  BY Positive, SumOfRemainders, Zenon
<1>3. (a % P) + 0 = a % P /\ a + 0 = a
  BY <1>1
<1> QED
  BY <1>1, <1>2, <1>3

\* Dividing by a term of the diagonal, modulo P.
LEMMA Quotients ==
  ASSUME NEW e \in Elem, NEW k \in 1..neq, NEW x \in Int
  PROVE  /\ Div(x, vkgd[e][k]) \in 0..(P - 1)
         /\ (Div(x, vkgd[e][k]) * vkgd[e][k]) % P = x % P
<1> DEFINE d == vkgd[e][k]
<1>1. d \in Int
  BY SolSpuAssumption
<1>2. PICK q \in 0..(P - 1) : (q * d) % P = 1
  BY SolSpuAssumption
<1> DEFINE r == (q * x) % P
<1>3. r \in 0..(P - 1)
  <2>1. q * x \in Int
    OBVIOUS
  <2> QED
    BY <2>1, Positive, DivisionBy
<1>4. (r * d) % P = x % P
  <2> HIDE DEF d
  <2> DEFINE u == q * x  v == q * d
  <2>1. u \in Int /\ v \in Int
    BY <1>1
  <2>2. ((u % P) * d) % P = (u * d) % P
    BY <1>1, <2>1, Positive, ProductOfRemainders, Zenon
  <2>3. ((v % P) * x) % P = (v * x) % P
    BY <2>1, Positive, ProductOfRemainders, Zenon
  <2>4. u * d = v * x
    BY <1>1
  <2>5. (v % P) * x = x
    BY <1>2
  <2> QED
    BY <2>2, <2>3, <2>4, <2>5
<1> HIDE DEF r, d
<1>5. \E s \in 0..(P - 1) : (s * d) % P = x % P
  BY <1>3, <1>4
<1>6. Div(x, d) \in 0..(P - 1) /\ (Div(x, d) * d) % P = x % P
  BY <1>5 DEF Div
<1> QED
  BY <1>6 DEF d

\* The terms of the two triangular matrices.
LEMMA Matrix ==
  ASSUME NEW e \in Elem, NEW i \in 1..neq, NEW j \in 1..neq
  PROVE  /\ LowerTerm(e, i, j) \in Int /\ UpperTerm(e, i, j) \in Int
         /\ LowerTerm(e, i, i) = 1 /\ UpperTerm(e, i, i) = vkgd[e][i]
         /\ j > i => LowerTerm(e, i, j) = 0
         /\ j < i => UpperTerm(e, i, j) = 0
<1>1. ASSUME j < i, i - j <= Height(e, i)
      PROVE  vkgi[e][klds[e][i + 1] + 1 - (i - j)] \in Int
  <2> DEFINE a == klds[e][i]  b == klds[e][i + 1]
  <2>1. a \in Nat /\ b \in Nat /\ i - j <= b - a /\ b <= Len(vkgi[e])
    BY <1>1, Columns
  <2>2. vkgi[e] \in Seq(Int)
    BY SolSpuAssumption
  <2> HIDE DEF a, b
  <2>3. b + 1 - (i - j) \in 1..Len(vkgi[e])
    BY <1>1, <2>1, <2>2
  <2>4. vkgi[e][b + 1 - (i - j)] \in Int
    BY <2>2, <2>3
  <2> QED
    BY <2>4 DEF b
<1>2. ASSUME i < j, j - i <= Height(e, j)
      PROVE  vkgs[e][klds[e][j + 1] + 1 - (j - i)] \in Int
  <2> DEFINE a == klds[e][j]  b == klds[e][j + 1]
  <2>1. a \in Nat /\ b \in Nat /\ j - i <= b - a /\ b <= Len(vkgs[e])
    BY <1>2, Columns
  <2>2. vkgs[e] \in Seq(Int)
    BY SolSpuAssumption
  <2> HIDE DEF a, b
  <2>3. b + 1 - (j - i) \in 1..Len(vkgs[e])
    BY <1>2, <2>1, <2>2
  <2>4. vkgs[e][b + 1 - (j - i)] \in Int
    BY <2>2, <2>3
  <2> QED
    BY <2>4 DEF b
<1>3. vkgd[e][i] \in Int
  BY SolSpuAssumption
<1> QED
  BY <1>1, <1>2, <1>3 DEF LowerTerm, UpperTerm

\* The terms of line i of L z, and of line n of U z.
LowerLine(e, i, z) == [n \in 1..neq |-> LowerTerm(e, i, n) * z[n]]
UpperLine(e, n, z) == [j \in 1..neq |-> UpperTerm(e, n, j) * z[j]]

LEMMA LinesAre ==
  ASSUME NEW e \in Elem, NEW z \in Vectors, NEW i \in 1..neq
  PROVE  /\ \A n \in 1..neq : LowerLine(e, i, z)[n] \in Int /\ UpperLine(e, i, z)[n] \in Int
         /\ Summable(LowerLine(e, i, z), 1..neq) /\ Summable(UpperLine(e, i, z), 1..neq)
         /\ LowerTimes(e, z)[i] = SumFunctionOnSet(LowerLine(e, i, z), 1..neq)
         /\ UpperTimes(e, z)[i] = SumFunctionOnSet(UpperLine(e, i, z), 1..neq)
         /\ LowerTimes(e, z)[i] \in Int /\ UpperTimes(e, z)[i] \in Int
<1>1. ASSUME NEW n \in 1..neq
      PROVE  LowerLine(e, i, z)[n] \in Int /\ UpperLine(e, i, z)[n] \in Int
  <2>1. z[n] \in Int /\ LowerTerm(e, i, n) \in Int /\ UpperTerm(e, i, n) \in Int
    BY Matrix DEF Vectors
  <2>2. LowerTerm(e, i, n) * z[n] \in Int /\ UpperTerm(e, i, n) * z[n] \in Int
    BY <2>1
  <2> QED
    BY <2>2 DEF LowerLine, UpperLine
<1>2. neq + 1 \in Nat /\ 1..neq \in SUBSET (0..((neq + 1) - 1))
  BY Positive
<1>3. Summable(LowerLine(e, i, z), 1..neq) /\ Summable(UpperLine(e, i, z), 1..neq)
  BY <1>1, <1>2 DEF Summable
<1>4. /\ LowerTimes(e, z)[i] = SumFunctionOnSet(LowerLine(e, i, z), 1..neq)
      /\ UpperTimes(e, z)[i] = SumFunctionOnSet(UpperLine(e, i, z), 1..neq)
  BY DEF LowerTimes, UpperTimes, LowerLine, UpperLine, SumFunction
<1>5. /\ SumFunctionOnSet(LowerLine(e, i, z), 1..neq) \in Int
      /\ SumFunctionOnSet(UpperLine(e, i, z), 1..neq) \in Int
  BY <1>3, SumIsNumber
<1> QED
  BY <1>1, <1>3, <1>4, <1>5

\* The scalar product of scal_spu, term by term.
Numeric(x, i, y, j, h) == h \in Nat /\ \A m \in 0..(h - 1) : x[i + m] * y[j + m] \in Int

LEMMA ScalIs ==
  ASSUME NEW x, NEW i, NEW y, NEW j, NEW h, Numeric(x, i, y, j, h)
  PROVE  /\ Scal(x, i, y, j, 0) = 0
         /\ \A m \in 0..h : Scal(x, i, y, j, m) \in Int
         /\ \A m \in 0..(h - 1) : Scal(x, i, y, j, m + 1) = Scal(x, i, y, j, m) + x[i + m] * y[j + m]
<1> DEFINE F == [m \in 0..(h - 1) |-> x[i + m] * y[j + m]]
           D == 0..(h - 1)
<1>0. h \in Nat
  BY DEF Numeric
<1>1. Summable(F, D)
  BY DEF Summable, Numeric
<1>2. ASSUME NEW m \in 0..h
      PROVE  Scal(x, i, y, j, m) = SumFunctionOnSet(F, 0..(m - 1)) /\ 0..(m - 1) \in SUBSET D
  <2> DEFINE G == [n \in 0..(m - 1) |-> x[i + n] * y[j + n]]
  <2>1. 0..(m - 1) \in SUBSET D
    BY <1>0
  <2>2. \A n \in 0..(m - 1) : G[n] = F[n]
    BY <2>1
  <2>3. SumFunctionOnSet(G, 0..(m - 1)) = SumFunctionOnSet(F, 0..(m - 1))
    <3> HIDE DEF F, G
    <3> QED
      BY <2>2, SumSame
  <2>4. Scal(x, i, y, j, m) = SumFunctionOnSet(G, 0..(m - 1))
    BY DEF Scal, SumFunction
  <2> QED
    BY <2>1, <2>3, <2>4
<1>3. Scal(x, i, y, j, 0) = 0
  <2>1. 0..(0 - 1) = {} /\ 0 \in 0..h
    BY <1>0
  <2>2. Scal(x, i, y, j, 0) = SumFunctionOnSet(F, {})
    BY <1>2, <2>1
  <2> HIDE DEF F
  <2> QED
    BY <1>1, <2>2, SumIsNumber
<1>4. ASSUME NEW m \in 0..h
      PROVE  Scal(x, i, y, j, m) \in Int
  <2> HIDE DEF F, D
  <2> QED
    BY <1>1, <1>2, SumIsNumber
<1>5. ASSUME NEW m \in 0..(h - 1)
      PROVE  Scal(x, i, y, j, m + 1) = Scal(x, i, y, j, m) + x[i + m] * y[j + m]
  <2> DEFINE S == 0..(m - 1)
  <2>1. m \in 0..h /\ m + 1 \in 0..h /\ 0..((m + 1) - 1) = S \cup {m} /\ m \in D \ S
    BY <1>0
  <2>2. F[m] = x[i + m] * y[j + m]
    OBVIOUS
  <2>3. /\ Scal(x, i, y, j, m) = SumFunctionOnSet(F, S) /\ S \in SUBSET D
        /\ Scal(x, i, y, j, m + 1) = SumFunctionOnSet(F, S \cup {m})
    BY <1>2, <2>1
  <2> HIDE DEF S, F, D
  <2>4. SumFunctionOnSet(F, S \cup {m}) = SumFunctionOnSet(F, S) + F[m]
    BY <1>1, <2>1, <2>3, SumGrows
  <2> QED
    BY <2>2, <2>3, <2>4
<1> QED
  BY <1>3, <1>4, <1>5

\* The product of sol_spu with line k is that of the unknowns the line begins at.
LineTail(e, k, z, m) == Scal(vkgi[e], klds[e][k] + 1, z, k - Height(e, k), m)

LEMMA Line ==
  ASSUME NEW e \in Elem, NEW z \in Vectors, NEW k \in 1..neq
  PROVE  /\ LowerTimes(e, z)[k] = z[k] + LineTail(e, k, z, Height(e, k))
         /\ LineTail(e, k, z, Height(e, k)) \in Int
         /\ Height(e, k) = 0 => LineTail(e, k, z, Height(e, k)) = 0
<1> DEFINE h == Height(e, k)
           F == LowerLine(e, k, z)
           T(m) == LineTail(e, k, z, m)
           a == klds[e][k]
           b == klds[e][k + 1]
           f == k - h
<1>1. a \in Nat /\ b \in Nat /\ h = b - a /\ h \in 0..(k - 1) /\ f \in 1..k /\ k \in 1..neq
      /\ neq \in Nat /\ f = k - h
  BY Columns
<1>2. ASSUME NEW n \in 1..neq
      PROVE  /\ F[n] \in Int
             /\ n < f => F[n] = 0
             /\ f <= n /\ n < k => F[n] = vkgi[e][(a + 1) + (n - f)] * z[f + (n - f)]
             /\ n = k => F[n] = z[k]
             /\ n > k => F[n] = 0
  <2>1. F[n] \in Int /\ F[n] = LowerTerm(e, k, n) * z[n] /\ z[n] \in Int
    BY LinesAre DEF LowerLine, Vectors
  <2>2. LowerTerm(e, k, n) = IF k = n THEN 1
                             ELSE IF n < k /\ k - n <= h THEN vkgi[e][b + 1 - (k - n)] ELSE 0
    BY DEF LowerTerm
  <2> HIDE DEF F, h, a, b, f
  <2>3. ASSUME f <= n, n < k
        PROVE  F[n] = vkgi[e][(a + 1) + (n - f)] * z[f + (n - f)]
    <3>1. k # n /\ k - n <= h /\ b + 1 - (k - n) = (a + 1) + (n - f) /\ f + (n - f) = n
      BY <1>1, <2>3
    <3> QED
      BY <2>1, <2>2, <2>3, <3>1
  <2>4. ASSUME n < f \/ n > k
        PROVE  F[n] = 0
    <3>1. k # n /\ ~ (n < k /\ k - n <= h)
      BY <1>1, <2>4
    <3>2. F[n] = 0 * z[n]
      BY <2>1, <2>2, <3>1
    <3> QED
      BY <2>1, <3>2
  <2>5. ASSUME n = k
        PROVE  F[n] = z[k]
    <3>1. F[n] = 1 * z[n]
      BY <2>1, <2>2, <2>5
    <3> QED
      BY <2>1, <2>5, <3>1
  <2> QED
    BY <2>1, <2>3, <2>4, <2>5
<1>3. /\ T(0) = 0 /\ \A m \in 0..h : T(m) \in Int
      /\ \A m \in 0..(h - 1) : T(m + 1) = T(m) + vkgi[e][(a + 1) + m] * z[f + m]
  <2> HIDE DEF F
  <2>1. ASSUME NEW m \in 0..(h - 1)
        PROVE  vkgi[e][(a + 1) + m] * z[f + m] \in Int
    <3> HIDE DEF a, b, h, f
    <3> DEFINE n == f + m
    <3>1. n \in 1..neq /\ f <= n /\ n < k /\ n - f = m
      BY <1>1
    <3> HIDE DEF n
    <3>2. F[n] \in Int /\ F[n] = vkgi[e][(a + 1) + m] * z[f + m]
      BY <1>1, <1>2, <3>1
    <3> QED
      BY <3>2
  <2>2. h \in Nat
    BY <1>1
  <2> DEFINE x == vkgi[e]  i == a + 1  S(m) == Scal(x, i, z, f, m)
  <2>3. \A m : T(m) = S(m)
    BY DEF LineTail
  <2> HIDE DEF a, b, h, f
  <2>4. Numeric(x, i, z, f, h)
    BY <2>1, <2>2 DEF Numeric
  <2> HIDE DEF x, i, T
  <2>5. /\ S(0) = 0 /\ \A m \in 0..h : S(m) \in Int
        /\ \A m \in 0..(h - 1) : S(m + 1) = S(m) + x[i + m] * z[f + m]
    BY <2>4, ScalIs
  <2> HIDE DEF S
  <2>6. /\ T(0) = 0 /\ \A m \in 0..h : T(m) \in Int
        /\ \A m \in 0..(h - 1) : T(m + 1) = T(m) + x[i + m] * z[f + m]
    BY <2>3, <2>5
  <2> QED
    BY <2>6 DEF x, i
<1> DEFINE g == [n \in 0..neq |-> IF n < f THEN 0 ELSE IF n < k THEN T(n - f + 1) ELSE T(h) + z[k]]
<1>4. SumFunctionOnSet(F, 1..neq) = g[neq]
  <2>1. g[0] = 0
    BY <1>1
  <2>2. ASSUME NEW n \in 0..(neq - 1)
        PROVE  g[n + 1] = g[n] + F[n + 1]
    <3> HIDE DEF F, h, T, a, b, f
    <3>0. n + 1 \in 1..neq /\ n \in 0..neq /\ n + 1 \in 0..neq
      BY <1>1
    <3>1. CASE n + 1 < f
      <4>1. n < f /\ F[n + 1] = 0
        BY <1>1, <1>2, <3>0, <3>1
      <4> QED
        BY <3>0, <3>1, <4>1
    <3>2. CASE f <= n + 1 /\ n + 1 < k
      <4> DEFINE m == (n + 1) - f
      <4>1. m \in 0..(h - 1) /\ m \in 0..h
        BY <1>1, <3>0, <3>2
      <4>2. F[n + 1] = vkgi[e][(a + 1) + m] * z[f + m]
        BY <1>2, <3>0, <3>2
      <4>3. T(m + 1) = T(m) + F[n + 1] /\ T(m) \in Int
        BY <1>3, <4>1, <4>2
      <4>4. g[n + 1] = T(m + 1)
        BY <1>1, <3>0, <3>2
      <4>5. g[n] = T(m)
        <5>1. CASE n < f
          <6>1. m = 0
            BY <1>1, <3>0, <3>2, <5>1
          <6>2. g[n] = 0
            BY <3>0, <5>1
          <6>3. T(m) = T(0)
            BY <6>1
          <6> QED
            BY <1>3, <6>2, <6>3
        <5>2. CASE ~(n < f)
          <6>1. n < k /\ n - f + 1 = m
            BY <1>1, <3>0, <3>2, <5>2
          <6>2. g[n] = T(n - f + 1)
            BY <3>0, <5>2, <6>1
          <6> QED
            BY <6>1, <6>2
        <5> QED
          BY <5>1, <5>2
      <4> QED
        BY <4>3, <4>4, <4>5
    <3>3. CASE n + 1 = k
      <4>1. g[n + 1] = T(h) + z[k] /\ F[n + 1] = z[k]
        BY <1>1, <1>2, <3>0, <3>3
      <4>2. g[n] = T(h)
        <5>1. CASE h = 0
          <6>1. n < f
            BY <1>1, <3>0, <3>3, <5>1
          <6>2. g[n] = 0
            BY <3>0, <6>1
          <6>3. T(h) = T(0)
            BY <5>1
          <6> QED
            BY <1>3, <6>2, <6>3
        <5>2. CASE h # 0
          <6>1. ~(n < f) /\ n < k /\ n - f + 1 = h
            BY <1>1, <3>0, <3>3, <5>2
          <6>2. g[n] = T(n - f + 1)
            BY <3>0, <6>1
          <6> QED
            BY <6>1, <6>2
        <5> QED
          BY <5>1, <5>2
      <4> QED
        BY <4>1, <4>2
    <3>4. CASE n + 1 > k
      <4>1. ~(n < f) /\ ~(n < k) /\ ~(n + 1 < f) /\ ~(n + 1 < k)
        BY <1>1, <3>0, <3>4
      <4>2. g[n] = T(h) + z[k] /\ g[n + 1] = T(h) + z[k]
        BY <3>0, <4>1
      <4>3. F[n + 1] = 0
        BY <1>2, <3>0, <3>4
      <4>4. T(h) \in Int /\ z[k] \in Int
        BY <1>1, <1>3 DEF Vectors
      <4> QED
        BY <4>2, <4>3, <4>4
    <3> QED
      BY <1>1, <3>0, <3>1, <3>2, <3>3, <3>4
  <2>3. \A n \in 1..neq : F[n] \in Int
    BY <1>2
  <2> HIDE DEF F, g
  <2> QED
    BY <1>1, <2>1, <2>2, <2>3, SumTelescopes
<1>5. g[neq] = z[k] + T(h) /\ T(h) \in Int
  <2> HIDE DEF F, T, a, b, h, f
  <2>1. neq \in 0..neq /\ ~(neq < f) /\ ~(neq < k)
    BY <1>1
  <2>2. g[neq] = T(h) + z[k]
    BY <2>1
  <2>3. T(h) \in Int /\ z[k] \in Int
    BY <1>1, <1>3 DEF Vectors
  <2> QED
    BY <2>2, <2>3
<1>6. h = 0 => T(h) = 0
  BY <1>3
<1>7. LowerTimes(e, z)[k] = SumFunctionOnSet(F, 1..neq)
  BY LinesAre
<1> HIDE DEF F, g
<1> QED
  BY <1>4, <1>5, <1>6, <1>7

-----------------------------------------------------------------------------
(* Where a solve is: the equations of L and the columns of U it has done.   *)

\* z solves L z = b.
Lower(e, b, z) == \A i \in 1..neq : LowerTimes(e, z)[i] % P = b[i] % P

\* The lines before m are done, the others hold the right-hand side.
Forwards(e, b, z, m) ==
  \A i \in 1..neq : IF i < m THEN LowerTimes(e, z)[i] % P = b[i] % P ELSE z[i] = b[i]

\* What the columns from m on give to line n of U z.
Behind(e, n, m, z) == SumFunctionOnSet(UpperLine(e, n, z), m..neq)

\* For some y with L y = b, the equations of U z = y from m on are done, and the
\* columns from c on have been subtracted from the others.
Backwards(e, b, z, m, c) ==
  \E y \in Vectors : Lower(e, b, y) /\ \A n \in 1..neq :
    (IF n < m THEN z[n] + Behind(e, n, c, z) ELSE Behind(e, n, m, z)) % P = y[n] % P

\* The first line has no term before the diagonal.
LEMMA FirstLine ==
  ASSUME NEW e \in Elem, NEW b \in Vectors
  PROVE  Forwards(e, b, b, 2)
<1>1. 1 \in 1..neq
  BY Positive
<1>2. Height(e, 1) = 0
  <2>1. klds[e][1] = 0
    BY SolSpuAssumption
  <2>2. klds[e][1 + 1] \in Nat /\ Height(e, 1) < 1 /\ Height(e, 1) = klds[e][1 + 1] - klds[e][1]
    BY <1>1, Columns
  <2> QED
    BY <2>1, <2>2
<1>3. LowerTimes(e, b)[1] = b[1]
  <2>1. /\ LowerTimes(e, b)[1] = b[1] + LineTail(e, 1, b, Height(e, 1))
        /\ LineTail(e, 1, b, Height(e, 1)) = 0
    BY <1>1, <1>2, Line
  <2>2. b[1] \in Int
    BY <1>1 DEF Vectors
  <2> QED
    BY <2>1, <2>2
<1>4. ASSUME NEW i \in 1..neq, i < 2
      PROVE  LowerTimes(e, b)[i] % P = b[i] % P
  <2>1. i = 1
    BY <1>4
  <2> QED
    BY <1>3, <2>1
<1> QED
  BY <1>4 DEF Forwards

\* A line of null height is done without a product,
LEMMA EmptyLine ==
  ASSUME NEW e \in Elem, NEW b \in Vectors, NEW z \in Vectors, NEW k \in 2..neq,
         Forwards(e, b, z, k), Height(e, k) = 0
  PROVE  Forwards(e, b, z, k + 1)
<1>1. k \in 1..neq /\ neq \in Nat
  BY Positive
<1>2. z[k] = b[k] /\ z[k] \in Int
  BY <1>1 DEF Forwards, Vectors
<1>3. LowerTimes(e, z)[k] = z[k]
  <2>1. /\ LowerTimes(e, z)[k] = z[k] + LineTail(e, k, z, Height(e, k))
        /\ LineTail(e, k, z, Height(e, k)) = 0
    BY <1>1, Line
  <2> QED
    BY <1>2, <2>1
<1>4. \A i \in 1..neq : i < k + 1 => i < k \/ i = k
  BY <1>1
<1>5. \A i \in 1..neq : ~(i < k + 1) => ~(i < k)
  BY <1>1
<1> QED
  BY <1>2, <1>3, <1>4, <1>5 DEF Forwards

\* and the others by subtracting the product with what has been done.
LEMMA ForwardLine ==
  ASSUME NEW e \in Elem, NEW b \in Vectors, NEW z \in Vectors, NEW k \in 2..neq,
         Forwards(e, b, z, k), NEW w \in Vectors,
         w[k] = (b[k] - LineTail(e, k, z, Height(e, k))) % P,
         \A n \in 1..neq : n # k => w[n] = z[n]
  PROVE  Forwards(e, b, w, k + 1)
<1> DEFINE h == Height(e, k)
           a == klds[e][k] + 1
           f == k - h
           x == vkgi[e]
<1>1. k \in 1..neq /\ neq \in Nat /\ h \in 0..(k - 1)
  BY Positive, Columns
<1>2. LineTail(e, k, w, h) = LineTail(e, k, z, h)
  <2> DEFINE F == [m \in 0..(h - 1) |-> x[a + m] * w[f + m]]
             G == [m \in 0..(h - 1) |-> x[a + m] * z[f + m]]
  <2>1. ASSUME NEW m \in 0..(h - 1)
        PROVE  w[f + m] = z[f + m]
    <3> HIDE DEF h
    <3>1. f + m \in 1..neq /\ f + m # k
      BY <1>1
    <3> QED
      BY <3>1
  <2>2. LineTail(e, k, w, h) = SumFunctionOnSet(F, 0..(h - 1))
    BY DEF LineTail, Scal, SumFunction
  <2>3. LineTail(e, k, z, h) = SumFunctionOnSet(G, 0..(h - 1))
    BY DEF LineTail, Scal, SumFunction
  <2>4. F = G
    <3> HIDE DEF h, x, a, f
    <3> QED
      BY <2>1
  <2> QED
    BY <2>2, <2>3, <2>4
<1>3. LowerTimes(e, w)[k] % P = b[k] % P
  <2> DEFINE t == LineTail(e, k, z, h)  v == b[k]
  <2>1. t \in Int /\ v \in Int /\ v - t \in Int
    <3>1. t \in Int
      BY <1>1, Line
    <3>2. v \in Int
      BY <1>1 DEF Vectors
    <3> QED
      BY <3>1, <3>2
  <2>2. LowerTimes(e, w)[k] = w[k] + t
    BY <1>1, <1>2, Line
  <2>3. w[k] = (v - t) % P
    OBVIOUS
  <2> HIDE DEF t, v
  <2>4. (((v - t) % P) + t) % P = ((v - t) + t) % P
    BY <2>1, Positive, SumOfRemainders, Zenon
  <2>5. (v - t) + t = v
    BY <2>1
  <2>6. LowerTimes(e, w)[k] % P = v % P
    BY <2>2, <2>3, <2>4, <2>5
  <2> QED
    BY <2>6 DEF v
<1>4. ASSUME NEW i \in 1..neq, i < k
      PROVE  LowerTimes(e, w)[i] = LowerTimes(e, z)[i]
  <2>1. \A n \in 1..neq : LowerLine(e, i, w)[n] = LowerLine(e, i, z)[n]
    <3>1. ASSUME NEW n \in 1..neq
          PROVE  LowerTerm(e, i, n) * w[n] = LowerTerm(e, i, n) * z[n]
      <4>1. CASE n = k
        <5>1. LowerTerm(e, i, n) = 0
          BY <1>4, <4>1, Matrix
        <5>2. w[n] \in Int /\ z[n] \in Int
          BY DEF Vectors
        <5> QED
          BY <5>1, <5>2
      <4>2. CASE n # k
        BY <4>2
      <4> QED
        BY <4>1, <4>2
    <3> QED
      BY <3>1 DEF LowerLine
  <2>2. SumFunctionOnSet(LowerLine(e, i, w), 1..neq) = SumFunctionOnSet(LowerLine(e, i, z), 1..neq)
    BY <2>1, SumSame
  <2> QED
    BY <2>2, LinesAre
<1>5. \A i \in 1..neq : i < k + 1 => i < k \/ i = k
  BY <1>1
<1>6. \A i \in 1..neq : ~(i < k + 1) => ~(i < k) /\ i # k
  BY <1>1
<1> QED
  BY <1>3, <1>4, <1>5, <1>6 DEF Forwards

\* All the lines done, the substitution goes back with no column subtracted.
LEMMA Turning ==
  ASSUME NEW e \in Elem, NEW b \in Vectors, NEW z \in Vectors, Forwards(e, b, z, neq + 1)
  PROVE  Backwards(e, b, z, neq + 1, neq + 1)
<1>1. neq \in Nat /\ \A i \in 1..neq : i < neq + 1
  BY Positive
<1>2. Lower(e, b, z)
  BY <1>1 DEF Lower, Forwards
<1>3. ASSUME NEW n \in 1..neq
      PROVE  z[n] + Behind(e, n, neq + 1, z) = z[n]
  <2>1. (neq + 1)..neq = {}
    BY <1>1
  <2>2. SumFunctionOnSet(UpperLine(e, n, z), {}) = 0
    BY LinesAre, SumIsNumber
  <2>3. Behind(e, n, neq + 1, z) = 0
    BY <2>1, <2>2 DEF Behind
  <2>4. z[n] \in Int
    BY DEF Vectors
  <2> QED
    BY <2>3, <2>4
<1> QED
  BY <1>1, <1>2, <1>3 DEF Backwards

\* A column counts the term on the line times the unknown.
LEMMA BehindIs ==
  ASSUME NEW e \in Elem, NEW z \in Vectors, NEW n \in 1..neq, NEW m \in 1..neq
  PROVE  /\ Behind(e, n, m, z) = Behind(e, n, m + 1, z) + UpperTerm(e, n, m) * z[m]
         /\ Behind(e, n, m + 1, z) \in Int /\ UpperTerm(e, n, m) * z[m] \in Int
<1> DEFINE F == UpperLine(e, n, z)  S == (m + 1)..neq
<1>1. S \in SUBSET (1..neq) /\ m \in (1..neq) \ S /\ S \cup {m} = m..neq
  BY Positive
<1>2. Summable(F, 1..neq) /\ F[m] = UpperTerm(e, n, m) * z[m] /\ F[m] \in Int
  BY LinesAre DEF UpperLine
<1> HIDE DEF F
<1>3. SumFunctionOnSet(F, S \cup {m}) = SumFunctionOnSet(F, S) + F[m]
  <2> DEFINE D == 1..neq
  <2>1. Summable(F, D) /\ S \in SUBSET D /\ m \in D \ S
    BY <1>1, <1>2
  <2> HIDE DEF S, D
  <2> QED
    BY <2>1, SumGrows
<1>4. SumFunctionOnSet(F, S) \in Int
  BY <1>1, <1>2, SumIsNumber
<1>5. Behind(e, n, m, z) = SumFunctionOnSet(F, S \cup {m})
  BY <1>1 DEF Behind, F
<1>6. Behind(e, n, m + 1, z) = SumFunctionOnSet(F, S)
  BY DEF Behind, F
<1> QED
  BY <1>2, <1>3, <1>4, <1>5, <1>6

\* It depends on the unknowns from the first column on.
LEMMA BehindSame ==
  ASSUME NEW e \in Elem, NEW z \in Vectors, NEW w \in Vectors, NEW n \in 1..neq,
         NEW m \in 1..(neq + 1), \A j \in m..neq : w[j] = z[j]
  PROVE  Behind(e, n, m, w) = Behind(e, n, m, z)
<1>1. m..neq \subseteq 1..neq
  BY Positive
<1>2. \A j \in m..neq : UpperLine(e, n, w)[j] = UpperLine(e, n, z)[j]
  BY <1>1 DEF UpperLine
<1> QED
  BY <1>2, SumSame DEF Behind

\* The unknown k is divided by the diagonal,
LEMMA BackDivide ==
  ASSUME NEW e \in Elem, NEW b \in Vectors, NEW z \in Vectors, NEW w \in Vectors, NEW k \in 1..neq,
         Backwards(e, b, z, k + 1, k + 1), w[k] = Div(z[k], vkgd[e][k]),
         \A n \in 1..neq : n # k => w[n] = z[n]
  PROVE  Backwards(e, b, w, k, k + 1)
<1>1. PICK y \in Vectors : Lower(e, b, y) /\ \A n \in 1..neq :
        (IF n < k + 1 THEN z[n] + Behind(e, n, k + 1, z) ELSE Behind(e, n, k + 1, z)) % P = y[n] % P
  BY DEF Backwards
<1>2. neq \in Nat /\ k + 1 \in 1..(neq + 1) /\ \A j \in (k + 1)..neq : j \in 1..neq /\ j # k
  BY Positive
<1>3. ASSUME NEW n \in 1..neq
      PROVE  Behind(e, n, k + 1, w) = Behind(e, n, k + 1, z)
  BY <1>2, BehindSame
<1>4. ASSUME NEW n \in 1..neq
      PROVE  (IF n < k THEN w[n] + Behind(e, n, k + 1, w) ELSE Behind(e, n, k, w)) % P = y[n] % P
  <2> DEFINE B == Behind(e, n, k + 1, w)  u == UpperTerm(e, n, k) * w[k]
  <2>1. Behind(e, n, k, w) = B + u /\ B \in Int /\ u \in Int
    BY BehindIs
  <2>2. CASE n < k
    <3>1. n < k + 1 /\ n # k
      BY <2>2
    <3> QED
      BY <1>1, <1>3, <2>2, <3>1
  <2>3. CASE n = k
    <3>1. (z[k] + Behind(e, k, k + 1, z)) % P = y[k] % P
      <4>1. k < k + 1
        OBVIOUS
      <4> QED
        BY <1>1, <4>1
    <3>2. z[k] \in Int /\ w[k] \in Int
      BY DEF Vectors
    <3>3. UpperTerm(e, k, k) = vkgd[e][k] /\ UpperTerm(e, k, k) \in Int
      BY Matrix
    <3>4. u % P = z[k] % P
      <4>1. (w[k] * vkgd[e][k]) % P = z[k] % P
        BY <3>2, Quotients
      <4>2. u = w[k] * vkgd[e][k]
        BY <2>3, <3>2, <3>3
      <4> QED
        BY <4>1, <4>2
    <3>5. (u + B) % P = (z[k] + B) % P
      BY <2>1, <3>2, <3>4, SameResidue
    <3>6. B + u = u + B
      BY <2>1
    <3>7. B = Behind(e, k, k + 1, z)
      BY <1>3, <2>3
    <3> QED
      BY <2>1, <2>3, <3>1, <3>5, <3>6, <3>7
  <2>4. CASE n > k
    <3>1. UpperTerm(e, n, k) = 0 /\ w[k] \in Int
      BY <2>4, Matrix DEF Vectors
    <3>2. Behind(e, n, k, w) = B
      BY <2>1, <3>1
    <3>3. ~(n < k + 1) /\ ~(n < k)
      BY <2>4
    <3> QED
      BY <1>1, <1>3, <3>2, <3>3
  <2> QED
    BY <2>2, <2>3, <2>4
<1> QED
  BY <1>1, <1>4 DEF Backwards

\* and column k, times it, is subtracted from what is above.
LEMMA BackColumn ==
  ASSUME NEW e \in Elem, NEW b \in Vectors, NEW z \in Vectors, NEW w \in Vectors, NEW k \in 1..neq,
         Backwards(e, b, z, k, k + 1),
         \A n \in 1..neq : IF n < k THEN w[n] % P = (z[n] - UpperTerm(e, n, k) * z[k]) % P
                           ELSE w[n] = z[n]
  PROVE  Backwards(e, b, w, k, k)
<1>1. PICK y \in Vectors : Lower(e, b, y) /\ \A n \in 1..neq :
        (IF n < k THEN z[n] + Behind(e, n, k + 1, z) ELSE Behind(e, n, k, z)) % P = y[n] % P
  BY DEF Backwards
<1>2. neq \in Nat /\ k \in 1..(neq + 1) /\ \A j \in k..neq : j \in 1..neq /\ ~(j < k)
  BY Positive
<1>3. ASSUME NEW n \in 1..neq
      PROVE  Behind(e, n, k, w) = Behind(e, n, k, z)
  BY <1>2, BehindSame
<1>4. ASSUME NEW n \in 1..neq
      PROVE  (IF n < k THEN w[n] + Behind(e, n, k, w) ELSE Behind(e, n, k, w)) % P = y[n] % P
  <2>1. CASE n < k
    <3> DEFINE B == Behind(e, n, k + 1, z)  u == UpperTerm(e, n, k) * z[k]  c == z[n]  d == w[n]
    <3>1. Behind(e, n, k, w) = B + u /\ B \in Int /\ u \in Int
      BY <1>3, BehindIs
    <3>2. c \in Int /\ d \in Int
      BY DEF Vectors
    <3>3. d % P = (c - u) % P /\ (c + B) % P = y[n] % P
      BY <1>1, <2>1
    <3> HIDE DEF B, u, c, d
    <3>4. (d + (B + u)) % P = ((c - u) + (B + u)) % P
      <4>1. c - u \in Int /\ B + u \in Int
        BY <3>1, <3>2
      <4> QED
        BY <3>2, <3>3, <4>1, SameResidue
    <3>5. (c - u) + (B + u) = c + B
      BY <3>1, <3>2
    <3>6. (d + Behind(e, n, k, w)) % P = y[n] % P
      BY <3>1, <3>3, <3>4, <3>5
    <3> QED
      BY <2>1, <3>6 DEF d
  <2>2. CASE ~(n < k)
    BY <1>1, <1>3, <2>2
  <2> QED
    BY <2>1, <2>2
<1> QED
  BY <1>1, <1>4 DEF Backwards

\* At the end z solves L U z = b.
LEMMA AtTheEnd ==
  ASSUME NEW e \in Elem, NEW b \in Vectors, NEW z \in Vectors, Backwards(e, b, z, 1, 1)
  PROVE  Product(e, z) = [n \in 1..neq |-> b[n] % P]
<1>1. PICK y \in Vectors : Lower(e, b, y) /\ \A n \in 1..neq :
        (IF n < 1 THEN z[n] + Behind(e, n, 1, z) ELSE Behind(e, n, 1, z)) % P = y[n] % P
  BY DEF Backwards
<1> DEFINE x == UpperTimes(e, z)
<1>2. x \in Vectors
  BY LinesAre DEF Vectors, UpperTimes
<1>3. ASSUME NEW n \in 1..neq
      PROVE  x[n] % P = y[n] % P
  <2>1. ~(n < 1)
    OBVIOUS
  <2>2. x[n] = Behind(e, n, 1, z)
    BY LinesAre DEF Behind
  <2> QED
    BY <1>1, <2>1, <2>2
<1> HIDE DEF x
<1>4. ASSUME NEW i \in 1..neq
      PROVE  LowerTimes(e, x)[i] % P = b[i] % P
  <2> DEFINE F == LowerLine(e, i, x)  G == LowerLine(e, i, y)
  <2>1. ASSUME NEW n \in 1..neq
        PROVE  F[n] \in Int /\ G[n] \in Int /\ F[n] % P = G[n] % P
    <3> DEFINE l == LowerTerm(e, i, n)  c == x[n]  d == y[n]
    <3>1. F[n] = l * c /\ G[n] = l * d
      BY DEF LowerLine
    <3>2. l \in Int /\ c \in Int /\ d \in Int /\ c % P = d % P
      BY <1>2, <1>3, Matrix DEF Vectors
    <3> HIDE DEF l, c, d, F, G
    <3>3. ((c % P) * l) % P = (c * l) % P /\ ((d % P) * l) % P = (d * l) % P
      BY <3>2, Positive, ProductOfRemainders, Zenon
    <3>4. l * c = c * l /\ l * d = d * l /\ c * l \in Int /\ d * l \in Int
      BY <3>2
    <3> QED
      BY <3>1, <3>2, <3>3, <3>4
  <2>2. LowerTimes(e, x)[i] = SumFunctionOnSet(F, 1..neq)
    BY <1>2, LinesAre
  <2>3. LowerTimes(e, y)[i] = SumFunctionOnSet(G, 1..neq)
    BY LinesAre
  <2> HIDE DEF F, G
  <2>4. SumFunctionOnSet(F, 1..neq) % P = SumFunctionOnSet(G, 1..neq) % P
    BY <2>1, Positive, SumsOfRemainders
  <2>5. LowerTimes(e, y)[i] % P = b[i] % P
    BY <1>1 DEF Lower
  <2> QED
    BY <2>2, <2>3, <2>4, <2>5
<1> QED
  BY <1>4 DEF Product, x

-----------------------------------------------------------------------------
(* What each label has done, and the steps.                                *)

\* A solve of L U z = b at label a, with the static variables s.
Place(e, a, s, b, z) ==
  /\ a \in {"forward", "L90"} => Forwards(e, b, z, s.ik)
  /\ a = "L100" => Forwards(e, b, z, s.ik + 1)
  /\ a = "L120" => Forwards(e, b, z, neq + 1)
  /\ a \in {"L130", "L150"} => Backwards(e, b, z, s.ik, s.ik)
  /\ a = "column" => Backwards(e, b, z, s.ik, s.ik + 1) /\ s.c1 = z[s.ik]
  /\ a = "L9999" => Backwards(e, b, z, 1, 1)

\* A step leads from what a label has done to what the next has.
LEMMA StepPlace ==
  ASSUME NEW e \in Elem, e \in DOMAIN at, Loops(e),
         DOMAIN static = {"ik", "jhk", "jhk1", "lhk", "imin1", "c1", "jbk", "ij"},
         vfg \in [Elem -> Vectors], vu \in [Elem -> Vectors],
         Place(e, at[e], static, vfg[e], vu[e]),
         \/ Enter(e) \/ Forward(e) \/ L90(e) \/ L100(e) \/ L120(e) \/ L130(e)
         \/ Column(e) \/ L150(e)
  PROVE  /\ Place(e, at'[e], static', vfg[e], vu'[e])
         /\ vu' \in [Elem -> Vectors]
         /\ \A u \in Elem \ {e} : vu'[u] = vu[u]
<1> DEFINE b == vfg[e]  z == vu[e]
<1>0. /\ neq \in Nat /\ neq > 1 /\ b \in Vectors /\ z \in Vectors
      /\ \A n \in 2..neq : n \in 1..neq
  BY Positive
<1>1. CASE Enter(e)
  <2>1. /\ at' = [at EXCEPT ![e] = "forward"] /\ static' = [static EXCEPT !.jhk = 1, !.ik = 2]
        /\ vu' = [vu EXCEPT ![e] = b]
    BY <1>1 DEF Enter, Goto
  <2>2. at'[e] = "forward" /\ static'.ik = 2 /\ vu'[e] = b
    BY <2>1
  <2>3. Forwards(e, b, b, 2)
    BY <1>0, FirstLine
  <2>4. vu' \in [Elem -> Vectors] /\ \A u \in Elem \ {e} : vu'[u] = vu[u]
    BY <1>0, <2>1
  <2> QED
    BY <2>2, <2>3, <2>4 DEF Place
<1>2. CASE Forward(e)
  <2>1. /\ at[e] = "forward" /\ static.ik \in 2..(neq + 1) /\ static.jhk = klds[e][static.ik] + 1
        /\ Forwards(e, b, z, static.ik) /\ vu' = vu
    BY <1>2 DEF Forward, Loops, Place
  <2>2. CASE static.ik <= neq
    <3> DEFINE jhk1 == ColumnStart(e, static.ik + 1)  lhk == jhk1 - static.jhk  k == static.ik
    <3>1. /\ static' = [static EXCEPT !.jhk1 = jhk1, !.lhk = lhk, !.imin1 = static.ik - lhk]
          /\ at' = [at EXCEPT ![e] = IF lhk < 1 THEN "L100" ELSE "L90"]
      BY <1>2, <2>2 DEF Forward, Goto
    <3>2. k \in 2..neq /\ k \in 1..neq
      BY <1>0, <2>1, <2>2
    <3>3. lhk = Height(e, k) /\ lhk \in Nat
      <4>1. /\ klds[e][k] \in Nat /\ klds[e][k + 1] \in Nat /\ klds[e][k] <= klds[e][k + 1]
            /\ Height(e, k) = klds[e][k + 1] - klds[e][k]
        BY <3>2, Columns
      <4> QED
        BY <2>1, <4>1 DEF ColumnStart
    <3> HIDE DEF jhk1, lhk
    <3>4. static'.ik = k /\ at'[e] = IF lhk < 1 THEN "L100" ELSE "L90"
      BY <3>1
    <3>5. lhk < 1 => Forwards(e, b, z, k + 1)
      BY <1>0, <2>1, <3>2, <3>3, EmptyLine
    <3> QED
      BY <2>1, <3>4, <3>5 DEF Place
  <2>3. CASE ~(static.ik <= neq)
    <3>1. at' = [at EXCEPT ![e] = "L120"] /\ static' = static /\ static.ik = neq + 1
      BY <1>0, <1>2, <2>1, <2>3 DEF Forward, Goto
    <3> QED
      BY <2>1, <3>1 DEF Place
  <2> QED
    BY <2>2, <2>3
<1>3. CASE L90(e)
  <2> DEFINE k == static.ik
             x == b[k] - Scal(vkgi[e], static.jhk, z, static.imin1, static.lhk)
  <2>1. /\ at[e] = "L90" /\ at' = [at EXCEPT ![e] = "L100"] /\ static' = static
        /\ vu' = [vu EXCEPT ![e][k] = x % P]
    BY <1>3 DEF L90, Goto, Set
  <2>2. /\ k \in 2..neq /\ k \in 1..neq /\ static.jhk = klds[e][k] + 1 /\ static.lhk = Height(e, k)
        /\ static.imin1 = k - Height(e, k) /\ Forwards(e, b, z, k)
    BY <1>0, <2>1 DEF Loops, Place
  <2>3. x = b[k] - LineTail(e, k, z, Height(e, k)) /\ x \in Int
    <3>1. x = b[k] - LineTail(e, k, z, Height(e, k))
      BY <2>2 DEF LineTail
    <3>2. b[k] \in Int /\ LineTail(e, k, z, Height(e, k)) \in Int
      BY <1>0, <2>2, Line DEF Vectors
    <3> QED
      BY <3>1, <3>2
  <2> HIDE DEF x
  <2> DEFINE w == [z EXCEPT ![k] = x % P]
  <2>4. x % P \in Int
    BY <2>3, Reduced
  <2>5. vu' = [vu EXCEPT ![e] = w] /\ w \in Vectors
    BY <1>0, <2>1, <2>2, <2>4 DEF Vectors
  <2>6. w[k] = (b[k] - LineTail(e, k, z, Height(e, k))) % P /\ \A n \in 1..neq : n # k => w[n] = z[n]
    BY <1>0, <2>2, <2>3 DEF Vectors
  <2> HIDE DEF w
  <2>7. Forwards(e, b, w, k + 1)
    BY <1>0, <2>2, <2>5, <2>6, ForwardLine
  <2>8. vu'[e] = w /\ vu' \in [Elem -> Vectors] /\ \A u \in Elem \ {e} : vu'[u] = vu[u]
    BY <2>5
  <2>9. at'[e] = "L100"
    BY <2>1
  <2> QED
    BY <2>1, <2>7, <2>8, <2>9 DEF Place
<1>4. CASE L100(e)
  <2>1. /\ at[e] = "L100" /\ at' = [at EXCEPT ![e] = "forward"] /\ vu' = vu
        /\ static' = [static EXCEPT !.jhk = static.jhk1, !.ik = static.ik + 1]
    BY <1>4 DEF L100, Goto
  <2>2. at'[e] = "forward" /\ static'.ik = static.ik + 1 /\ Forwards(e, b, z, static.ik + 1)
    BY <2>1 DEF Place
  <2> QED
    BY <2>1, <2>2 DEF Place
<1>5. CASE L120(e)
  <2>1. /\ at[e] = "L120" /\ at' = [at EXCEPT ![e] = "L130"] /\ vu' = vu
        /\ static' = [static EXCEPT !.ik = neq + 1, !.jhk1 = ColumnStart(e, neq + 1)]
    BY <1>5 DEF L120, Goto
  <2>2. at'[e] = "L130" /\ static'.ik = neq + 1 /\ Forwards(e, b, z, neq + 1)
    BY <2>1 DEF Place
  <2>3. Backwards(e, b, z, neq + 1, neq + 1)
    BY <1>0, <2>2, Turning
  <2> QED
    BY <2>1, <2>2, <2>3 DEF Place
<1>6. CASE L130(e)
  <2> DEFINE k == static.ik - 1  x == Div(z[k], vkgd[e][k])
             jhk == ColumnStart(e, k)  jbk == static.jhk1 - 1
             w == [z EXCEPT ![k] = x]
  <2>1. at[e] = "L130" /\ static.ik \in 2..(neq + 1) /\ static.jhk1 = klds[e][static.ik] + 1
        /\ Backwards(e, b, z, static.ik, static.ik)
    BY <1>6 DEF L130, Loops, Place
  <2>2. k \in 1..neq /\ k + 1 = static.ik
    BY <1>0, <2>1
  <2>3. vu' = [vu EXCEPT ![e] = w] /\ x \in Int
    <3>1. x \in 0..(P - 1)
      BY <1>0, <2>2, Quotients DEF Vectors
    <3>2. x % P = x
      BY <3>1, Positive
    <3>3. vu' = [vu EXCEPT ![e][k] = x % P]
      BY <1>6 DEF L130, Set
    <3>4. x \in Int
      BY <3>1
    <3> HIDE DEF x, k
    <3>5. vu' = [vu EXCEPT ![e] = [vu[e] EXCEPT ![k] = x]]
      BY <3>2, <3>3
    <3> QED
      BY <3>4, <3>5
  <2>4. w \in Vectors /\ w[k] = x /\ \A n \in 1..neq : n # k => w[n] = z[n]
    BY <1>0, <2>2, <2>3 DEF Vectors
  <2>5. IF k = 1
        THEN static' = [static EXCEPT !.ik = k] /\ at' = [at EXCEPT ![e] = "L9999"]
        ELSE /\ static' = [static EXCEPT !.ik = k, !.c1 = x, !.jhk = jhk, !.jbk = jbk,
                                         !.ij = IF jhk > jbk THEN static.ij ELSE k - jbk + jhk - 1]
             /\ at' = [at EXCEPT ![e] = IF jhk > jbk THEN "L150" ELSE "column"]
    BY <1>6 DEF L130, Goto
  <2> HIDE DEF w
  <2>6. vu'[e] = w /\ vu' \in [Elem -> Vectors] /\ \A u \in Elem \ {e} : vu'[u] = vu[u]
    BY <2>3, <2>4
  <2>7. Backwards(e, b, w, k, k + 1)
    <3>1. Backwards(e, b, z, k + 1, k + 1)
      BY <2>1, <2>2
    <3> HIDE DEF k
    <3> QED
      BY <1>0, <2>2, <2>4, <3>1, BackDivide
  <2>8. k = 1 \/ jhk > jbk => Backwards(e, b, w, k, k)
    <3> SUFFICES ASSUME k = 1 \/ jhk > jbk
                 PROVE  Backwards(e, b, w, k, k)
      OBVIOUS
    <3>1. ASSUME NEW n \in 1..neq, n < k
          PROVE  UpperTerm(e, n, k) = 0
      <4>1. jhk > jbk
        BY <3>1
      <4>2. /\ klds[e][k] \in Nat /\ klds[e][k + 1] \in Nat
            /\ Height(e, k) = klds[e][k + 1] - klds[e][k]
        BY <2>2, Columns
      <4>3. Height(e, k) < 1
        BY <2>1, <2>2, <4>1, <4>2 DEF ColumnStart
      <4>4. ~(k - n <= Height(e, k)) /\ n # k
        <5> HIDE DEF k
        <5> QED
          BY <2>2, <3>1, <4>2, <4>3
      <4> QED
        BY <4>4 DEF UpperTerm
    <3>2. ASSUME NEW n \in 1..neq, n < k
          PROVE  w[n] % P = (w[n] - UpperTerm(e, n, k) * w[k]) % P
      <4>1. w[n] \in Int /\ w[k] \in Int
        BY <2>2, <2>4 DEF Vectors
      <4>2. w[n] - 0 * w[k] = w[n]
        BY <4>1
      <4> QED
        BY <3>1, <3>2, <4>2
    <3> HIDE DEF k
    <3> QED
      BY <1>0, <2>2, <2>4, <2>7, <3>2, BackColumn
  <2> HIDE DEF x, jhk, jbk
  <2>9. CASE k = 1
    <3>1. at'[e] = "L9999" /\ Backwards(e, b, w, 1, 1)
      BY <2>5, <2>8, <2>9
    <3> QED
      BY <2>6, <3>1 DEF Place
  <2>10. CASE k # 1
    <3>1. static'.ik = k /\ static'.c1 = x /\ at'[e] = IF jhk > jbk THEN "L150" ELSE "column"
      BY <2>5, <2>10
    <3> HIDE DEF k
    <3> QED
      BY <2>4, <2>6, <2>7, <2>8, <3>1 DEF Place
  <2> QED
    BY <2>9, <2>10
<1>7. CASE Column(e)
  <2> DEFINE k == static.ik  first == static.ij  last == static.ij + static.jbk - static.jhk
             w == [n \in 1..neq |-> IF first <= n /\ n <= last
                                    THEN (z[n] - vkgs[e][static.jhk + n - first] * static.c1) % P
                                    ELSE z[n]]
  <2>1. /\ at[e] = "column" /\ at' = [at EXCEPT ![e] = "L150"] /\ static' = static
        /\ vu' = [vu EXCEPT ![e] = w]
    BY <1>7 DEF Column, Goto
  <2>2. /\ k \in 2..neq /\ k \in 1..neq /\ static.jhk = klds[e][k] + 1
        /\ static.jbk = klds[e][k + 1] /\ first = k - static.jbk + static.jhk - 1
        /\ Backwards(e, b, z, k, k + 1) /\ static.c1 = z[k]
    BY <1>0, <2>1 DEF Loops, Place
  <2> DEFINE h == Height(e, k)
  <2>3. /\ klds[e][k] \in Nat /\ klds[e][k + 1] \in Nat /\ h = klds[e][k + 1] - klds[e][k]
    BY <2>2, Columns
  <2>4. first = k - h /\ last = k - 1 /\ h \in Int
    BY <2>2, <2>3
  <2>5. ASSUME NEW n \in 1..neq
        PROVE  /\ w[n] \in Int
               /\ IF n < k THEN w[n] % P = (z[n] - UpperTerm(e, n, k) * z[k]) % P
                  ELSE w[n] = z[n]
    <3> DEFINE u == UpperTerm(e, n, k)
    <3>1. z[n] \in Int /\ z[k] \in Int /\ u \in Int
      BY <1>0, <2>2, Matrix DEF Vectors
    <3>2. CASE n < k /\ k - n <= h
      <4>1. first <= n /\ n <= last
        BY <2>2, <2>4, <3>2
      <4>2. static.jhk + n - first = klds[e][k + 1] + 1 - (k - n)
        BY <2>2, <2>3, <2>4
      <4>3. u = vkgs[e][static.jhk + n - first]
        <5>1. n # k
          BY <3>2
        <5> QED
          BY <3>2, <4>2, <5>1 DEF UpperTerm
      <4>4. w[n] = (z[n] - u * z[k]) % P
        BY <2>2, <4>1, <4>3
      <4>5. z[n] - u * z[k] \in Int
        BY <3>1
      <4> HIDE DEF w, u
      <4>6. w[n] \in Int /\ w[n] % P = (z[n] - u * z[k]) % P
        BY <4>4, <4>5, Reduced
      <4> QED
        BY <3>2, <4>6 DEF u
    <3>3. CASE n < k /\ ~(k - n <= h)
      <4>1. ~(first <= n)
        BY <2>2, <2>4, <3>3
      <4>2. u = 0
        <5>1. n # k
          BY <3>3
        <5> QED
          BY <3>3, <5>1 DEF UpperTerm
      <4>3. w[n] = z[n]
        BY <4>1
      <4>4. z[n] - u * z[k] = z[n]
        BY <3>1, <4>2
      <4> QED
        BY <3>1, <3>3, <4>3, <4>4
    <3>4. CASE ~(n < k)
      <4>1. ~(n <= last)
        BY <2>2, <2>4, <3>4
      <4>2. w[n] = z[n]
        BY <4>1
      <4> QED
        BY <3>1, <3>4, <4>2
    <3> QED
      BY <3>2, <3>3, <3>4
  <2>6. w \in Vectors
    <3>1. DOMAIN w = 1..neq /\ w = [n \in 1..neq |-> w[n]]
      OBVIOUS
    <3> HIDE DEF w
    <3> QED
      BY <2>5, <3>1 DEF Vectors
  <2> HIDE DEF w
  <2>7. Backwards(e, b, w, k, k)
    BY <1>0, <2>2, <2>5, <2>6, BackColumn
  <2>8. at'[e] = "L150" /\ vu'[e] = w /\ vu' \in [Elem -> Vectors] /\ \A u \in Elem \ {e} : vu'[u] = vu[u]
    BY <2>1, <2>6
  <2> QED
    BY <2>1, <2>7, <2>8 DEF Place
<1>8. CASE L150(e)
  <2>1. /\ at[e] = "L150" /\ at' = [at EXCEPT ![e] = "L130"] /\ vu' = vu
        /\ static' = [static EXCEPT !.jhk1 = static.jhk]
    BY <1>8 DEF L150, Goto
  <2>2. at'[e] = "L130" /\ static'.ik = static.ik /\ Backwards(e, b, z, static.ik, static.ik)
    BY <2>1 DEF Place
  <2> QED
    BY <2>1, <2>2 DEF Place
<1> QED
  BY <1>1, <1>2, <1>3, <1>4, <1>5, <1>6, <1>7, <1>8

\* The invariant: besides SolInv, the systems of two tasks are not the same, the running
\* solve is where its label says, and the finished ones are at the end.
SolvesInv ==
  /\ SolInv
  /\ vfg \in [Elem -> Vectors] /\ vu \in [Elem -> Vectors]
  /\ \A i, j \in DOMAIN queue : ElemOf(i) = ElemOf(j) => i = j
  /\ done \subseteq DOMAIN queue \ Running
  /\ \A i \in Running :
       LET e == ElemOf(i) IN Place(e, at[e], static, vfg[e], vu[e])
  /\ \A i \in done :
       LET e == ElemOf(i) IN Backwards(e, vfg[e], vu[e], 1, 1)

LEMMA SolvesInvInductive ==
  ASSUME NWorkers = 1
  PROVE  /\ Init => SolvesInv
         /\ SolvesInv /\ [Next]_vars => SolvesInv'
         /\ SolvesInv => SolvesItsSystem
<1>1. ASSUME Init PROVE SolvesInv
  <2>1. SolInv
    BY <1>1, SolInvInductive
  <2>2. \A i, j \in DOMAIN queue : ElemOf(i) = ElemOf(j) => i = j
    <3>1. ASSUME NEW i \in DOMAIN queue, NEW j \in DOMAIN queue, ElemOf(i) = ElemOf(j)
          PROVE  i = j
      <4>1. PICK d \in Elem : queue[i] = Solve(d)
        BY <1>1 DEF Init
      <4>2. PICK e \in Elem : queue[j] = Solve(e)
        BY <1>1 DEF Init
      <4>3. ElemOf(i) = d /\ ElemOf(j) = e
        BY <4>1, <4>2 DEF ElemOf, Solve, Sol
      <4>4. queue[i] = queue[j]
        BY <3>1, <4>1, <4>2, <4>3
      <4> QED
        BY <1>1, <4>4 DEF Init
    <3> QED
      BY <3>1
  <2>3. vfg \in [Elem -> Vectors]
    <3>1. RhsValue \subseteq Int
      BY SolSpuAssumption
    <3>2. vfg \in [Elem -> [1..neq -> RhsValue]]
      BY <1>1 DEF Init
    <3>3. [1..neq -> RhsValue] \subseteq [1..neq -> Int]
      BY <3>1
    <3> QED
      BY <3>2, <3>3 DEF Vectors
  <2>4. vu \in [Elem -> Vectors]
    BY <1>1 DEF Init, Vectors
  <2>5. done = {} /\ Running = {}
    BY <1>1 DEF Init, Running
  <2> QED
    BY <2>1, <2>2, <2>3, <2>4, <2>5 DEF SolvesInv
<1> SUFFICES /\ SolvesInv /\ [Next]_vars => SolvesInv'
             /\ SolvesInv => SolvesItsSystem
  BY <1>1
<1>2. ASSUME SolvesInv, [Next]_vars PROVE SolInv'
  BY <1>2, SolInvInductive DEF SolvesInv
<1>3. ASSUME SolvesInv, NEW i \in DOMAIN queue, StartSolve(i) PROVE SolvesInv'
  <2>1. Running = {}
    BY <1>3, Alone DEF StartSolve, SolvesInv
  <2>2. /\ Running' = {i} /\ queue' = queue /\ static' = static /\ done' = done /\ i \notin done
        /\ vfg' = vfg /\ vu' = vu
    BY <1>3, <2>1 DEF StartSolve, Start, Ready, Running
  <2>3. at'[ElemOf(i)] = "enter"
    BY <1>3 DEF StartSolve
  <2>4. \A j : ElemOf(j)' = ElemOf(j)
    BY <2>2 DEF ElemOf
  <2>5. SolInv'
    BY <1>2, <1>3 DEF Next
  <2>6. \A j \in Running' : LET e == ElemOf(j) IN Place(e, at'[e], static', vfg'[e], vu'[e])
    BY <2>2, <2>3 DEF Place
  <2>7. \A j \in done' : LET e == ElemOf(j) IN Backwards(e, vfg'[e], vu'[e], 1, 1)
    BY <1>3, <2>2 DEF SolvesInv
  <2> QED
    BY <1>3, <2>2, <2>4, <2>5, <2>6, <2>7 DEF SolvesInv
<1>4. ASSUME SolvesInv, NEW i \in DOMAIN queue, Step(i) PROVE SolvesInv'
  <2>0. PICK e \in Elem : e = ElemOf(i)
    BY <1>4 DEF SolvesInv, SolInv
  <2>1. /\ i \in Running /\ UNCHANGED rtVars /\ vfg' = vfg
        /\ Enter(e) \/ Forward(e) \/ L90(e) \/ L100(e) \/ L120(e) \/ L130(e) \/ Column(e) \/ L150(e)
    BY <1>4, <2>0 DEF Step
  <2>2. /\ e \in DOMAIN at /\ Loops(e) /\ Place(e, at[e], static, vfg[e], vu[e])
        /\ DOMAIN static = {"ik", "jhk", "jhk1", "lhk", "imin1", "c1", "jbk", "ij"}
        /\ vfg \in [Elem -> Vectors] /\ vu \in [Elem -> Vectors]
    BY <1>4, <2>0, <2>1 DEF SolvesInv, SolInv
  <2>3. /\ Place(e, at'[e], static', vfg[e], vu'[e])
        /\ vu' \in [Elem -> Vectors]
        /\ \A u \in Elem \ {e} : vu'[u] = vu[u]
    BY <2>1, <2>2, StepPlace
  <2>4. queue' = queue /\ Running' = Running /\ done' = done
    BY <2>1 DEF rtVars, Running
  <2>5. \A j : ElemOf(j)' = ElemOf(j)
    BY <2>4 DEF ElemOf
  <2>6. Running = {i}
    BY <1>4, <2>1 DEF SolvesInv, SolInv
  <2>7. SolInv'
    BY <1>2, <1>4 DEF Next
  <2>8. \A j \in Running' : LET u == ElemOf(j) IN Place(u, at'[u], static', vfg'[u], vu'[u])
    BY <2>0, <2>1, <2>3, <2>4, <2>6
  <2>9. ASSUME NEW j \in done
        PROVE  LET u == ElemOf(j) IN Backwards(u, vfg'[u], vu'[u], 1, 1)
    <3>1. j \in DOMAIN queue /\ j # i /\ ElemOf(j) \in Elem /\ ElemOf(j) # e
      BY <1>4, <2>0, <2>1 DEF SolvesInv, SolInv
    <3>2. vu'[ElemOf(j)] = vu[ElemOf(j)]
      BY <2>3, <3>1
    <3> QED
      BY <1>4, <2>1, <3>2 DEF SolvesInv
  <2> QED
    BY <1>4, <2>1, <2>2, <2>3, <2>4, <2>5, <2>7, <2>8, <2>9 DEF SolvesInv
<1>5. ASSUME SolvesInv, NEW i \in DOMAIN queue, FinishSolve(i) PROVE SolvesInv'
  <2>1. /\ i \in Running /\ at[ElemOf(i)] = "L9999" /\ Finish(i)
        /\ vfg' = vfg /\ vu' = vu /\ at' = at /\ static' = static
    BY <1>5 DEF FinishSolve
  <2>2. Running' = {} /\ queue' = queue /\ done' = done \cup {i}
    BY <1>5, <2>1 DEF Finish, Running, SolvesInv, SolInv
  <2>3. \A j : ElemOf(j)' = ElemOf(j)
    BY <2>2 DEF ElemOf
  <2>4. SolInv'
    BY <1>2, <1>5 DEF Next
  <2>5. LET e == ElemOf(i) IN Backwards(e, vfg[e], vu[e], 1, 1)
    BY <1>5, <2>1 DEF SolvesInv, Place
  <2>6. \A j \in done' : LET e == ElemOf(j) IN Backwards(e, vfg'[e], vu'[e], 1, 1)
    BY <1>5, <2>1, <2>2, <2>5 DEF SolvesInv
  <2> QED
    BY <1>5, <2>1, <2>2, <2>3, <2>4, <2>6 DEF SolvesInv
<1>6. ASSUME SolvesInv, UNCHANGED vars PROVE SolvesInv'
  <2>1. /\ queue' = queue /\ Running' = Running /\ done' = done
        /\ vfg' = vfg /\ vu' = vu /\ at' = at /\ static' = static
    BY <1>6 DEF vars, rtVars, Running
  <2>2. \A j : ElemOf(j)' = ElemOf(j)
    BY <2>1 DEF ElemOf
  <2>3. SolInv'
    BY <1>2, <1>6
  <2> QED
    BY <1>6, <2>1, <2>2, <2>3 DEF SolvesInv
<1>7. ASSUME SolvesInv PROVE SolvesItsSystem
  <2>1. ASSUME NEW i \in done
        PROVE  Product(ElemOf(i), vu[ElemOf(i)]) = [n \in 1..neq |-> vfg[ElemOf(i)][n] % P]
    <3>1. PICK e \in Elem : e = ElemOf(i)
      BY <1>7 DEF SolvesInv, SolInv
    <3>2. Backwards(e, vfg[e], vu[e], 1, 1) /\ vfg[e] \in Vectors /\ vu[e] \in Vectors
      BY <1>7, <3>1 DEF SolvesInv
    <3> QED
      BY <3>1, <3>2, AtTheEnd
  <2> QED
    BY <2>1 DEF SolvesItsSystem
<1> QED
  BY <1>3, <1>4, <1>5, <1>6, <1>7 DEF Next, AllSolved

\* With one worker a finished solve leaves in sol the solution of its own system
\* (sol_spu, skyline_spu.c), for every number of systems, every size, every profile and every
\* right-hand side; with two the static variables are those of both, and it does not.
THEOREM SolSolvesItsSystem ==
  ASSUME NWorkers = 1
  PROVE  Spec => []SolvesItsSystem
<1>1. Spec => []SolvesInv
  BY SolvesInvInductive, PTL DEF Spec
<1> QED
  BY <1>1, SolvesInvInductive, PTL
=============================================================================
