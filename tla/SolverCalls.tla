----------------------------- MODULE SolverCalls -----------------------------
(***************************************************************************)
(* One LinearSolver and the calls that its users make: IsNonZero for the   *)
(* terms it will have, AllocateLinearSolver, AddLinearSolver and           *)
(* SetLinearSolver on these terms, then MatVect and SolveLinearSolver, as  *)
(* often as wanted (implicit.c, solvercontinuous.c, lbm_timeschemes.c).    *)
(* No user writes a term once the matrix is used: is_lu would not notice.  *)
(*                                                                         *)
(* With SKYLINE_SPU the user writes a vector, submits the task, and reads  *)
(* the other vector after UnRegisterSkyline_SPU; the host factors the      *)
(* matrix in between, and multiplies no more (testskyline_spu.c).          *)
(*                                                                         *)
(* Terms are written in the order of their places, MaxWrites at most; the  *)
(* others stay as they are.  A system is solved only if no pivot is null,  *)
(* which is all that the factorisation without row exchanges asks for.     *)
(***************************************************************************)
EXTENDS LinearSolver

CONSTANTS Size, Storages, Values, Vectors, MaxWrites

VARIABLES lsol, phase, place, writes, call, result,
          task      \* the task of a SKYLINE_SPU: submitted, then done
vars == << lsol, phase, place, writes, call, result, task >>

Index == 0 .. Size - 1
PlaceOf(i, j) == Size * i + j

Init ==
  /\ \E storage \in Storages : lsol = InitLinearSolver(Size, storage, "LU")
  /\ phase = "pattern" /\ place = 0 /\ writes = 0
  /\ call = << "none" >> /\ result = Zeros(Size)
  /\ task = "none"

\* Every term in turn is switched on, or not; those of the diagonal always are.
Pattern ==
  /\ phase = "pattern" /\ place < Size * Size
  /\ LET i == place \div Size  j == place % Size
     IN  \/ lsol' = IsNonZero(lsol, i, j)
         \/ i # j /\ UNCHANGED lsol
  /\ place' = place + 1
  /\ UNCHANGED << phase, writes, call, result, task >>

Allocate ==
  /\ phase = "pattern" /\ place = Size * Size
  /\ lsol' = AllocateLinearSolver(lsol)
  /\ phase' = "fill" /\ place' = 0
  /\ UNCHANGED << writes, call, result, task >>

Write(i, j) ==
  /\ phase = "fill" /\ writes < MaxWrites
  /\ HasPlace(lsol, i, j) /\ PlaceOf(i, j) >= place
  /\ place' = PlaceOf(i, j) /\ writes' = writes + 1
  /\ UNCHANGED << phase, result, task >>
Add(i, j, v) == /\ Write(i, j)
                /\ lsol' = AddLinearSolver(lsol, i, j, v) /\ call' = << "add", i, j, v >>
Set(i, j, v) == /\ Write(i, j)
                /\ lsol' = SetLinearSolver(lsol, i, j, v) /\ call' = << "set", i, j, v >>

Tasks == lsol.storage_type = "SKYLINE_SPU"
MayUse == phase \in {"fill", "use"} /\ task = "none"

Product(x) ==
  /\ MayUse /\ ~Tasks
  /\ result' = MatVect(lsol, x) /\ call' = << "product", x >>
  /\ phase' = "use"
  /\ UNCHANGED << lsol, place, writes, task >>

Pivots(l) == IF l.storage_type = "KLU_CSR" THEN {l.matrix.numeric.a[k][k] : k \in 1..Size}
                                           ELSE {l.matrix.vkgd[k] : k \in 1..Size}
NoNullPivot ==
  0 \notin Pivots(IF lsol.matrix.is_lu THEN lsol ELSE LUDecompLinearSolver(lsol))

LUDecomp ==
  /\ MayUse /\ ~lsol.matrix.is_lu /\ NoNullPivot
  /\ lsol' = LUDecompLinearSolver(lsol) /\ phase' = "use"
  /\ UNCHANGED << place, writes, call, result, task >>

\* The matrix is factored in place at the first call.
Solve(b) ==
  /\ MayUse /\ ~Tasks /\ NoNullPivot
  /\ lsol' = SolveLinearSolver([lsol EXCEPT !.rhs = b])
  /\ result' = lsol'.sol /\ call' = << "solve", b >>
  /\ phase' = "use"
  /\ UNCHANGED << place, writes, task >>

\* The tasks.  A product asserts that the matrix is not factored, a solve that
\* it is.
SubmitProduct(x) ==
  /\ MayUse /\ Tasks /\ ~lsol.matrix.is_lu
  /\ lsol' = MatVectIn([lsol EXCEPT !.sol = x])
  /\ task' = "product" /\ phase' = "use"
  /\ UNCHANGED << place, writes, call, result >>
SubmitSolve(b) ==
  /\ MayUse /\ Tasks /\ lsol.matrix.is_lu
  /\ lsol' = SolveLinearSolver([lsol EXCEPT !.rhs = b])
  /\ task' = "solve"
  /\ UNCHANGED << phase, place, writes, call, result >>
Run ==
  /\ \/ task = "product" /\ lsol' = RunMatVect(lsol) /\ task' = "multiplied"
     \/ task = "solve" /\ lsol' = RunSolve(lsol) /\ task' = "solved"
  /\ UNCHANGED << phase, place, writes, call, result >>
UnRegister ==
  /\ \/ /\ task = "multiplied"
        /\ result' = lsol.rhs /\ call' = << "product", lsol.sol >>
     \/ /\ task = "solved"
        /\ result' = lsol.sol /\ call' = << "solve", lsol.rhs >>
  /\ lsol' = [lsol EXCEPT !.matrix = UnRegisterSkyline_SPU(@)] /\ task' = "none"
  /\ UNCHANGED << phase, place, writes >>

Next == \/ Pattern \/ Allocate
        \/ \E i, j \in Index, v \in Values : Add(i, j, v) \/ Set(i, j, v)
        \/ \E x \in Vectors : Product(x) \/ Solve(x) \/ SubmitProduct(x) \/ SubmitSolve(x)
        \/ LUDecomp \/ Run \/ UnRegister
Spec == Init /\ [][Next]_vars
-----------------------------------------------------------------------------
\* The matrix the solver stands for: after the factorisation of a skyline it is
\* the copy, after that of a SKYLINE_SPU the product of the factors.
Original(m) == [m EXCEPT !.vkgs = m.copy.vkgs, !.vkgi = m.copy.vkgi, !.vkgd = m.copy.vkgd]
Upper(m, i, j) == IF i <= j THEN GetSkyline_SPU(m, i, j) ELSE 0
Lower(m, i, j) == IF i > j THEN GetSkyline_SPU(m, i, j) ELSE IF i = j THEN 1 ELSE 0
Entry(i, j) ==
  IF ~lsol.is_alloc THEN 0
  ELSE IF lsol.matrix.is_lu /\ Tasks
       THEN Sum(0, Size - 1, LAMBDA k : Lower(lsol.matrix, i, k) * Upper(lsol.matrix, k, j))
  ELSE IF lsol.matrix.is_lu /\ lsol.storage_type = "SKYLINE"
       THEN GetSkyline(Original(lsol.matrix), i, j)
  ELSE GetLinearSolver(lsol, i, j)
Entries == [i \in Index |-> [j \in Index |-> Entry(i, j)]]

\* The calls implement LinearSystem: a product is that of the matrix that was
\* written and a solution that of its system, after as before the factorisation
\* that overwrites the arrays.
Abstract == INSTANCE LinearSystem WITH a <- Entries
ImplementsLinearSystem == Abstract!Spec

\* An allocated matrix is null until a term is written.
StartsEmpty ==
  phase = "fill" /\ writes = 0 => \A i, j \in Index : GetLinearSolver(lsol, i, j) = 0
=============================================================================
