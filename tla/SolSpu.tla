------------------------------- MODULE SolSpu -------------------------------
(***************************************************************************)
(* sol_spu (skyline_spu.c) as SolveSkyline_C calls it: ifac = 0, isol = 1, *)
(* nsym = 1, the solution of L U x = b for a matrix that has already been  *)
(* factorised, run by StarPU workers on the systems of several elements.   *)
(*                                                                         *)
(* The loop variables and pointers of sol_spu are declared `static': every *)
(* worker that is inside the function uses the same ones.  The function is *)
(* cut at its labels and loop heads; a step uses the static variables as   *)
(* they are when it runs.  Reals are numbers modulo the prime P, in which  *)
(* division is exact.                                                      *)
(***************************************************************************)
EXTENDS StarPU, Functions

CONSTANTS
  Elem,      \* the elements, each with a system of its own
  P,         \* a prime
  neq,       \* the number of equations of a system
  klds,      \* the kld of each system: klds[e][k] terms in the columns before k, k in 1..neq+1
  vkgd,      \* the diagonal of U
  vkgs,      \* the terms of U above the diagonal, column by column
  vkgi,      \* the terms of L left of the diagonal, row by row
  RhsValue   \* the values a right-hand side may have

Sol(e) == << "sol", e >>
Rhs(e) == << "rhs", e >>

\* As AllocateSkyline_SPU leaves them: column k has less than k terms, and the arrays
\* hold those of all columns.  The factorisation has stopped at no null pivot: the
\* diagonal has an inverse modulo P.
ASSUME SolSpuAssumption ==
  /\ P \in Nat /\ P > 2 /\ neq \in Nat /\ neq > 1
  /\ klds \in [Elem -> [1..(neq + 1) -> Nat]]
  /\ \A e \in Elem : klds[e][1] = 0 /\ \A n \in 1..neq : klds[e][n + 1] - klds[e][n] < n
  /\ \A e \in Elem : \A m, n \in 1..(neq + 1) : m <= n => klds[e][m] <= klds[e][n]
  /\ \A e \in Elem : /\ vkgs[e] \in Seq(Int) /\ Len(vkgs[e]) = klds[e][neq + 1]
                      /\ vkgi[e] \in Seq(Int) /\ Len(vkgi[e]) = klds[e][neq + 1]
  /\ \A e \in Elem : \A n \in 1..neq : /\ vkgd[e][n] \in Int
                                       /\ \E q \in 0..(P - 1) : (q * vkgd[e][n]) % P = 1
  /\ RhsValue \subseteq Int
  /\ {Sol(e) : e \in Elem} \cup {Rhs(e) : e \in Elem} \subseteq Handle

VARIABLES
  vfg,      \* the right-hand side of each element
  vu,       \* the solution buffer of each element
  at,       \* for each running task, the label it is at
  static    \* the static variables of sol_spu

vars == << rtVars, vfg, vu, at, static >>

Solve(e) == [cl |-> "SolveSkyline", buf |-> << Sol(e), Rhs(e) >>, arg |-> 0]
ElemOf(i) == queue[i].buf[1][2]

Init ==
  /\ queue \in {s \in [1..Cardinality(Elem) -> {Solve(e) : e \in Elem}] :
                  \A i, j \in DOMAIN s : s[i] = s[j] => i = j}
  /\ done = {} /\ view = << >> /\ content = [h \in Handle |-> {}]
  /\ vfg \in [Elem -> [1..neq -> RhsValue]]
  /\ vu = [e \in Elem |-> [n \in 1..neq |-> 0]]
  /\ at = << >>
  /\ static = [ik |-> 0, jhk |-> 0, jhk1 |-> 0, lhk |-> 0, imin1 |-> 0,
               c1 |-> 0, jbk |-> 0, ij |-> 0]

-----------------------------------------------------------------------------
Div(x, d) == CHOOSE q \in 0..(P - 1) : (q * d) % P = x % P

\* scal_spu: the product of n terms of x from i and of y from j.
Scal(x, i, y, j, n) == SumFunction([m \in 0..(n - 1) |-> x[i + m] * y[j + m]])

\* Where column k begins in vkgs, and line k in vkgi: klds[k] + _Z.
\* Mutated form: without the shift from the C to the Fortran numbering.
ColumnStart_NoShift(e, k) == klds[e][k]

ColumnStart(e, k) == klds[e][k] + 1

\* The memory the step is about to use is that of the arrays: with one worker
\* it always is.
InBounds(e) ==
  LET s == static
  IN  CASE at[e] = "forward" -> s.ik >= 2
        [] at[e] = "L90"  -> /\ s.ik \in 1..neq
                             /\ s.imin1 >= 1 /\ s.imin1 + s.lhk - 1 <= neq
                             /\ s.jhk >= 1 /\ s.jhk + s.lhk - 1 <= Len(vkgi[e])
        [] at[e] = "L130" -> s.ik \in 2..(neq + 1)
        [] at[e] = "column" -> /\ s.ij >= 1 /\ s.ij + s.jbk - s.jhk <= neq
                               /\ s.jhk >= 1 /\ s.jbk <= Len(vkgs[e])
        [] OTHER -> TRUE

Goto(e, label) == at' = [at EXCEPT ![e] = label]
Set(e, n, x) == vu' = [vu EXCEPT ![e][n] = x % P]

\* Mutated form: the right-hand side is not copied.
Enter_NoCopy(e) ==
  /\ at[e] = "enter"
  /\ static' = [static EXCEPT !.jhk = 1, !.ik = 2]
  /\ Goto(e, "forward")
  /\ UNCHANGED vu

\* vu := vfg, and the loop variables are set for the forward substitution.
Enter(e) ==
  /\ at[e] = "enter"
  /\ vu' = [vu EXCEPT ![e] = vfg[e]]
  /\ static' = [static EXCEPT !.jhk = 1, !.ik = 2]
  /\ Goto(e, "forward")

\* For each column ik: its height lhk, and its first line imin1.
Forward(e) ==
  /\ at[e] = "forward"
  /\ IF static.ik <= neq
     THEN LET jhk1 == ColumnStart(e, static.ik + 1)
              lhk  == jhk1 - static.jhk
          IN  /\ static' = [static EXCEPT !.jhk1 = jhk1, !.lhk = lhk, !.imin1 = static.ik - lhk]
              /\ Goto(e, IF lhk < 1 THEN "L100" ELSE "L90")
     ELSE Goto(e, "L120") /\ UNCHANGED static
  /\ UNCHANGED vu

L90(e) ==
  /\ at[e] = "L90"
  /\ Set(e, static.ik,
         vfg[e][static.ik] - Scal(vkgi[e], static.jhk, vu[e], static.imin1, static.lhk))
  /\ Goto(e, "L100")
  /\ UNCHANGED static

L100(e) ==
  /\ at[e] = "L100"
  /\ static' = [static EXCEPT !.jhk = static.jhk1, !.ik = @ + 1]
  /\ Goto(e, "forward")
  /\ UNCHANGED vu

\* Backward substitution, from the last column.
L120(e) ==
  /\ at[e] = "L120"
  /\ static' = [static EXCEPT !.ik = neq + 1, !.jhk1 = ColumnStart(e, neq + 1)]
  /\ Goto(e, "L130")
  /\ UNCHANGED vu

L130(e) ==
  /\ at[e] = "L130"
  /\ LET ik  == static.ik - 1
         x   == Div(vu[e][ik], vkgd[e][ik])
         jhk == ColumnStart(e, ik)
         jbk == static.jhk1 - 1
     IN  /\ Set(e, ik, x)
         /\ IF ik = 1
            THEN static' = [static EXCEPT !.ik = ik] /\ Goto(e, "L9999")
            ELSE /\ static' = [static EXCEPT !.ik = ik, !.c1 = x, !.jhk = jhk, !.jbk = jbk,
                                             !.ij = IF jhk > jbk THEN @ ELSE ik - jbk + jhk - 1]
                 /\ Goto(e, IF jhk > jbk THEN "L150" ELSE "column")

\* vu[ij] -= vkgs[jck] * c1 for the terms jck of the column.
Column(e) ==
  /\ at[e] = "column"
  /\ LET first == static.ij
         last  == static.ij + static.jbk - static.jhk
     IN  vu' = [vu EXCEPT ![e] = [n \in 1..neq |->
                  IF first <= n /\ n <= last
                  THEN (@[n] - vkgs[e][static.jhk + n - first] * static.c1) % P
                  ELSE @[n]]]
  /\ Goto(e, "L150")
  /\ UNCHANGED static

L150(e) ==
  /\ at[e] = "L150"
  /\ static' = [static EXCEPT !.jhk1 = static.jhk]
  /\ Goto(e, "L130")
  /\ UNCHANGED vu

-----------------------------------------------------------------------------
StartSolve(i) ==
  /\ Start(i)
  /\ at' = [e \in DOMAIN at \cup {ElemOf(i)} |-> IF e = ElemOf(i) THEN "enter" ELSE at[e]]
  /\ UNCHANGED << vfg, vu, static >>

\* A step out of bounds has undefined behaviour: here, the kernel stops.
Step(i) ==
  /\ i \in Running
  /\ LET e == ElemOf(i)
     IN  /\ InBounds(e)
         /\ Enter(e) \/ Forward(e) \/ L90(e) \/ L100(e) \/ L120(e) \/ L130(e)
              \/ Column(e) \/ L150(e)
  /\ UNCHANGED << rtVars, vfg >>

FinishSolve(i) ==
  /\ i \in Running /\ at[ElemOf(i)] = "L9999"
  /\ Finish(i)
  /\ UNCHANGED << vfg, vu, at, static >>

AllSolved == AllDone /\ UNCHANGED vars

Next ==
  \/ \E i \in DOMAIN queue : StartSolve(i)
  \/ \E i \in DOMAIN queue : Step(i)
  \/ \E i \in DOMAIN queue : FinishSolve(i)
  \/ AllSolved

Spec == Init /\ [][Next]_vars

-----------------------------------------------------------------------------
(* Properties.                                                             *)

\* The matrix of element e, from the line-of-sky storage.
Height(e, k) == klds[e][k + 1] - klds[e][k]
LowerTerm(e, i, j) ==
  IF i = j THEN 1
  ELSE IF j < i /\ i - j <= Height(e, i) THEN vkgi[e][klds[e][i + 1] + 1 - (i - j)] ELSE 0
UpperTerm(e, i, j) ==
  IF i = j THEN vkgd[e][i]
  ELSE IF i < j /\ j - i <= Height(e, j) THEN vkgs[e][klds[e][j + 1] + 1 - (j - i)] ELSE 0

LowerTimes(e, x) == [i \in 1..neq |-> SumFunction([n \in 1..neq |-> LowerTerm(e, i, n) * x[n]])]
UpperTimes(e, x) == [n \in 1..neq |-> SumFunction([j \in 1..neq |-> UpperTerm(e, n, j) * x[j]])]
Product(e, x)    == [i \in 1..neq |-> LowerTimes(e, UpperTimes(e, x))[i] % P]

\* A finished solve leaves in sol the solution of its own system.
SolvesItsSystem ==
  \A i \in done : Product(ElemOf(i), vu[ElemOf(i)]) = [n \in 1..neq |-> vfg[ElemOf(i)][n] % P]

\* No kernel touches memory outside its arrays.
StaysInItsArrays == \A i \in Running : InBounds(ElemOf(i))
=============================================================================
