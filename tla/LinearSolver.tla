---------------------------- MODULE LinearSolver ----------------------------
(***************************************************************************)
(* The linear solver of linear_solver.c: a matrix in one of three          *)
(* storages, its right-hand side and solution, and the flags that say      *)
(* which of them have been filled.  The storages are the two skylines and  *)
(* the compressed columns of klu_csr.c; klu_solve and drive_dgmres are     *)
(* external and solve exactly.                                             *)
(*                                                                         *)
(* The field stray is not in the code: it tells that a term that is not    *)
(* null was added where the matrix has no place for it, which the skyline  *)
(* reports on the terminal before it writes elsewhere ("problem of         *)
(* profil"), and the compressed columns drop in silence.                   *)
(***************************************************************************)
EXTENDS Residues

(***************************************************************************)
(* The skyline storage of skyline.c and its direct solver, for matrices    *)
(* that are not symmetric (is_sym is never set outside of tests).          *)
(*                                                                         *)
(* Column j of the upper part and row j of the lower part are kept from    *)
(* their first non null term, prof[j] places before the diagonal; kld      *)
(* says where they start.  Rows and columns are numbered from 0 as in the  *)
(* code, the three arrays of a matrix from 1 as in sol_ and mulku_.        *)
(***************************************************************************)
InitSkyline(n) ==
  [neq |-> n, nmem |-> 0, prof |-> Zeros(n), kld |-> Zeros(n + 1),
   vkgd |-> Zeros(n), vkgs |-> << >>, vkgi |-> << >>, copy |-> << >>,
   is_alloc |-> FALSE, copy_is_alloc |-> FALSE, is_lu |-> FALSE]

Higher(a, b) == IF a > b THEN a ELSE b

SwitchOn(sky, i, j) ==
  [sky EXCEPT !.prof[j + 1] = Higher(j - i, @), !.prof[i + 1] = Higher(i - j, @)]

AllocateSkyline(sky) ==
  LET kld == Loop(<< 0 >>, 1, sky.neq, LAMBDA k, i : Append(k, k[i] + sky.prof[i]))
      n   == kld[sky.neq + 1]
  IN  [sky EXCEPT !.kld = kld, !.nmem = n, !.vkgs = Zeros(n), !.vkgi = Zeros(n),
                  !.is_alloc = TRUE]

\* The product keeps using the matrix as it was before its factorisation.
AllocateCopySkyline(sky) ==
  [sky EXCEPT !.copy = [vkgs |-> sky.vkgs, vkgd |-> sky.vkgd, vkgi |-> sky.vkgi],
              !.copy_is_alloc = TRUE]

\* Where the term (i, j) is, or would be if it were in the profile.
InProfile(sky, i, j) == j - i <= sky.prof[j + 1] /\ i - j <= sky.prof[i + 1]
Place(sky, i, j)     == IF j > i THEN sky.kld[j + 2] - j + i + 1
                                 ELSE sky.kld[i + 2] - i + j + 1

\* A null term outside the profile is ignored.
Store(sky, i, j, Value(_)) ==
  IF i = j THEN [sky EXCEPT !.vkgd[i + 1] = Value(@)]
  ELSE IF j > i THEN [sky EXCEPT !.vkgs[Place(sky, i, j)] = Value(@)]
  ELSE [sky EXCEPT !.vkgi[Place(sky, i, j)] = Value(@)]
AddSkyline(sky, i, j, val) ==
  IF ~InProfile(sky, i, j) /\ val = 0 THEN sky
  ELSE Store(sky, i, j, LAMBDA old : (old + val) % P)
SetSkyline(sky, i, j, val) ==
  IF ~InProfile(sky, i, j) /\ val = 0 THEN sky ELSE Store(sky, i, j, LAMBDA old : val)
GetSkyline(sky, i, j) ==
  IF ~InProfile(sky, i, j) THEN 0
  ELSE IF i = j THEN sky.vkgd[i + 1]
  ELSE IF j > i THEN sky.vkgs[Place(sky, i, j)] ELSE sky.vkgi[Place(sky, i, j)]

(***************************************************************************)
(* The kernels, columns numbered from 1.                                   *)
(***************************************************************************)
Top(sky, ik)   == sky.kld[ik] + 1
Above(sky, ik) == sky.kld[ik + 1] - sky.kld[ik]
First(sky, ik) == ik - Above(sky, ik)

scal_(x, i, y, j, n) == Sum(0, n - 1, LAMBDA k : x[i + k] * y[j + k])

mulku_(sky, m, x) ==
  Loop(Zeros(sky.neq), 1, sky.neq, LAMBDA prod, ik :
       LET top == Top(sky, ik)  h == Above(sky, ik)  first == First(sky, ik)
           row == (m.vkgd[ik] * x[ik] + scal_(m.vkgi, top, x, first, h)) % P
       IN  Tuple(sky.neq, LAMBDA i :
                 IF i = ik THEN (prod[i] + row) % P
                 ELSE IF first <= i /\ i < ik THEN (prod[i] + m.vkgs[top + i - first] * x[ik]) % P
                 ELSE prod[i]))

MatVectSkyline(sky, x) == mulku_(sky, IF sky.is_lu THEN sky.copy ELSE sky, x)

\* The terms of column and of row ik that meet the pivot ij.
FactorTerm(sky, ik, ij) ==
  LET jck == Top(sky, ik) + ij - First(sky, ik)
      h   == Above(sky, ij)
      ic  == IF jck - Top(sky, ik) < h THEN jck - Top(sky, ik) ELSE h
      j1  == Top(sky, ij) + h - ic
      j2  == jck - ic
  IN  [sky EXCEPT
        !.vkgs[jck] = (@ - scal_(sky.vkgi, j1, sky.vkgs, j2, ic)) % P,
        !.vkgi[jck] = Quotient(@ - scal_(sky.vkgs, j1, sky.vkgi, j2, ic), sky.vkgd[ij])]

FactorColumn(sky, ik) ==
  LET s == Loop(sky, First(sky, ik), ik - 1, LAMBDA t, ij : FactorTerm(t, ik, ij))
  IN  [s EXCEPT !.vkgd[ik] = (@ - scal_(s.vkgs, Top(s, ik), s.vkgi, Top(s, ik), Above(s, ik))) % P]

\* A null pivot stops the factorisation; its error code is not looked at.
sol_factor(sky) ==
  IF sky.vkgd[1] = 0 THEN sky
  ELSE Loop([sky |-> sky, ier |-> FALSE], 2, sky.neq, LAMBDA s, ik :
            IF s.ier \/ Above(sky, ik) = 0 THEN s
            ELSE LET t == FactorColumn(s.sky, ik) IN [sky |-> t, ier |-> t.vkgd[ik] = 0]).sky

X_CopyFactors(sky) ==
  [AllocateCopySkyline(sol_factor(sky)) EXCEPT !.is_lu = TRUE]
FactoLU(sky) ==
  [sol_factor(IF sky.copy_is_alloc THEN sky ELSE AllocateCopySkyline(sky)) EXCEPT !.is_lu = TRUE]

sol_solve(sky, b) ==
  LET n   == sky.neq
      low == Loop(b, 2, n, LAMBDA x, ik :
                  [x EXCEPT ![ik] = (@ - scal_(sky.vkgi, Top(sky, ik), x, First(sky, ik),
                                               Above(sky, ik))) % P])
      Up(x, k) ==
        LET ik == n + 1 - k  c1 == Quotient(x[ik], sky.vkgd[ik])  first == First(sky, ik)
        IN  Tuple(n, LAMBDA i :
                  IF i = ik THEN c1
                  ELSE IF first <= i /\ i < ik
                       THEN (x[i] - sky.vkgs[Top(sky, ik) + i - first] * c1) % P
                  ELSE x[i])
  IN  Loop(low, 1, n, Up)

\* The solution, corrected by that of its residual until the correction is
\* null, twice at most.
Corrected(sky, vfg, x) ==
  Subtracted(x, sol_solve(sky, Subtracted(MatVectSkyline(sky, x), vfg)))
SolveSkyline(sky, vfg) ==
  LET x0 == sol_solve(sky, vfg)
      x1 == Corrected(sky, vfg, x0)
  IN  IF x1 = x0 THEN x0 ELSE Corrected(sky, vfg, x1)
-----------------------------------------------------------------------------
(* The matrix of skyline_spu.c, whose products and solves are StarPU tasks.  *)
(* Its storage has no copy made before the factorisation, no test of the     *)
(* profile when a term is written, and no correction of the solution.  The   *)
(* arrays belong to the host until RegisterSkyline_SPU gives them to StarPU, *)
(* and again after UnRegisterSkyline_SPU, which waits for the tasks.         *)
(* sol_spu and mulku_spu run alone here; SolSpu interleaves them.            *)

InitSkyline_SPU(n) ==
  [neq |-> n, nmem |-> 0, prof |-> Zeros(n), kld |-> Zeros(n + 1),
   vkgd |-> Zeros(n), vkgs |-> << >>, vkgi |-> << >>,
   is_alloc |-> FALSE, is_lu |-> FALSE, is_registered |-> FALSE]

SwitchOn_SPU(sky, i, j)       == SwitchOn(sky, i, j)
AllocateSkyline_SPU(sky)      == AllocateSkyline(sky)
AddSkyline_SPU(sky, i, j, val) == Store(sky, i, j, LAMBDA old : (old + val) % P)
SetSkyline_SPU(sky, i, j, val) == Store(sky, i, j, LAMBDA old : val)
GetSkyline_SPU(sky, i, j)     == GetSkyline(sky, i, j)

\* sol_spu and mulku_spu are sol_ and mulku_ over again.
sol_spu_factor(sky)   == sol_factor(sky)
sol_spu_solve(sky, b) == sol_solve(sky, b)
mulku_spu(sky, m, x)  == mulku_(sky, m, x)

\* By the host, in place.
FactoLU_SPU(sky) == [sol_spu_factor(sky) EXCEPT !.is_lu = TRUE]

RegisterSkyline_SPU(sky)   == [sky EXCEPT !.is_registered = TRUE]
UnRegisterSkyline_SPU(sky) == [sky EXCEPT !.is_registered = FALSE]

\* The kernels of the two tasks: rhs is set to zero, then the product is added;
\* sol is what the triangular systems give.
MatVectSkyline_C(sky, sol) == mulku_spu(sky, sky, sol)
SolveSkyline_C(sky, rhs)   == sol_spu_solve(sky, rhs)

(***************************************************************************)
(* Compressed columns: the positions switched on, first as triplets of     *)
(* value 1, which the allocation compresses and adds up (cs_di_entry,      *)
(* cs_di_compress, cs_di_dupl), and leaves as the values of the matrix.    *)
(***************************************************************************)
NullMatrix(n) == Tuple(n, LAMBDA i : Zeros(n))
InitKLU(n) == [neq |-> n, T |-> NullMatrix(n), A |-> {}, x |-> << >>, numeric |-> << >>,
               is_alloc |-> FALSE, is_lu |-> FALSE]
SwitchOnKLU(klu, i, j) == [klu EXCEPT !.T[i + 1][j + 1] = @ + 1]
AllocateKLU(klu) ==
  [klu EXCEPT !.A = {p \in (0 .. klu.neq - 1) \X (0 .. klu.neq - 1) :
                       klu.T[p[1] + 1][p[2] + 1] > 0},
              !.x = klu.T, !.is_alloc = TRUE]
GetKLU(klu, i, j)      == IF << i, j >> \in klu.A THEN klu.x[i + 1][j + 1] ELSE 0
AddKLU(klu, i, j, val) ==
  IF << i, j >> \in klu.A THEN [klu EXCEPT !.x[i + 1][j + 1] = (@ + val) % P] ELSE klu
SetKLU(klu, i, j, val) ==
  IF << i, j >> \in klu.A THEN [klu EXCEPT !.x[i + 1][j + 1] = val] ELSE klu
MatVectKLU(klu, x) ==
  Tuple(klu.neq, LAMBDA i : Sum(1, klu.neq, LAMBDA j : GetKLU(klu, i - 1, j - 1) * x[j]))
FactoKLU(klu) == [klu EXCEPT !.numeric = PLU_Square(klu.neq, klu.x), !.is_lu = TRUE]
klu_solve(klu, rhs) == PLU_Solve(klu.neq, klu.numeric.a, klu.numeric.sigma, rhs)
SolveKLU(klu, rhs) == klu_solve(klu, rhs)

(***************************************************************************)
(* The solver.                                                             *)
(***************************************************************************)
InitLinearSolver(n, matstor, solvtyp) ==
  [neq |-> n, storage_type |-> matstor, solver_type |-> solvtyp,
   matrix |-> CASE matstor = "SKYLINE"     -> InitSkyline(n)
                [] matstor = "SKYLINE_SPU" -> InitSkyline_SPU(n)
                [] matstor = "KLU_CSR"     -> InitKLU(n),
   rhs |-> Zeros(n), sol |-> Zeros(n),
   is_init |-> TRUE, is_alloc |-> FALSE,
   rhs_is_assembly |-> FALSE, mat_is_assembly |-> FALSE, stray |-> FALSE]

IsNonZero(lsol, i, j) ==
  [lsol EXCEPT !.matrix = CASE lsol.storage_type = "SKYLINE"     -> SwitchOn(@, i, j)
                            [] lsol.storage_type = "SKYLINE_SPU" -> SwitchOn_SPU(@, i, j)
                            [] lsol.storage_type = "KLU_CSR"     -> SwitchOnKLU(@, i, j)]

AllocateLinearSolver(lsol) ==
  [lsol EXCEPT !.matrix = CASE lsol.storage_type = "SKYLINE"     -> AllocateSkyline(@)
                            [] lsol.storage_type = "SKYLINE_SPU" -> AllocateSkyline_SPU(@)
                            [] lsol.storage_type = "KLU_CSR"     -> AllocateKLU(@),
               !.is_alloc = TRUE]

HasPlace(lsol, i, j) ==
  IF lsol.storage_type = "KLU_CSR" THEN << i, j >> \in lsol.matrix.A
                                   ELSE InProfile(lsol.matrix, i, j)

SetLinearSolver(lsol, i, j, val) ==
  [lsol EXCEPT !.matrix = CASE lsol.storage_type = "SKYLINE"     -> SetSkyline(@, i, j, val)
                            [] lsol.storage_type = "SKYLINE_SPU" -> SetSkyline_SPU(@, i, j, val)
                            [] lsol.storage_type = "KLU_CSR"     -> SetKLU(@, i, j, val)]

AddLinearSolver(lsol, i, j, val) ==
  [lsol EXCEPT !.matrix = CASE lsol.storage_type = "SKYLINE"     -> AddSkyline(@, i, j, val)
                            [] lsol.storage_type = "SKYLINE_SPU" -> AddSkyline_SPU(@, i, j, val)
                            [] lsol.storage_type = "KLU_CSR"     -> AddKLU(@, i, j, val),
               !.stray = @ \/ (val # 0 /\ ~HasPlace(lsol, i, j))]

GetLinearSolver(lsol, i, j) ==
  CASE lsol.storage_type = "SKYLINE"     -> GetSkyline(lsol.matrix, i, j)
    [] lsol.storage_type = "SKYLINE_SPU" -> GetSkyline_SPU(lsol.matrix, i, j)
    [] lsol.storage_type = "KLU_CSR"     -> GetKLU(lsol.matrix, i, j)

MatVect(lsol, x) ==
  CASE lsol.storage_type = "SKYLINE" -> MatVectSkyline(lsol.matrix, x)
    [] lsol.storage_type = "KLU_CSR" -> MatVectKLU(lsol.matrix, x)

\* With SKYLINE_SPU a product and a solve are submitted; the tasks then work on
\* the vectors of the matrix, which are those of the solver.
MatVectIn(lsol)  == [lsol EXCEPT !.matrix = RegisterSkyline_SPU(@)]
RunMatVect(lsol) == [lsol EXCEPT !.rhs = MatVectSkyline_C(lsol.matrix, lsol.sol)]
RunSolve(lsol)   == [lsol EXCEPT !.sol = SolveSkyline_C(lsol.matrix, lsol.rhs)]

LUDecompLinearSolver(lsol) ==
  [lsol EXCEPT !.matrix = CASE lsol.storage_type = "SKYLINE"     -> FactoLU(@)
                            [] lsol.storage_type = "SKYLINE_SPU" -> FactoLU_SPU(@)
                            [] lsol.storage_type = "KLU_CSR"     -> FactoKLU(@)]

\* An iterative solver only sees the product of the matrix with a vector.
drive_dgmres(n, Product(_), b) ==
  LET column == Tuple(n, LAMBDA j : Product(UnitVector(n, j)))
  IN  DenseSolve(n, Tuple(n, LAMBDA i : Tuple(n, LAMBDA j : column[j][i])), b)

GMRESSolver(lsol) ==
  [lsol EXCEPT !.sol = drive_dgmres(lsol.neq, LAMBDA x : MatVect(lsol, x), lsol.rhs)]

\* The matrix is factored in place before its first solve, but a SKYLINE_SPU,
\* which must be factored before.
SolveLinearSolver(lsol) ==
  IF lsol.solver_type = "GMRES" THEN GMRESSolver(lsol)
  ELSE IF lsol.storage_type = "SKYLINE_SPU"
       THEN [lsol EXCEPT !.matrix = RegisterSkyline_SPU(@)]
  ELSE LET f == IF lsol.matrix.is_lu THEN lsol ELSE LUDecompLinearSolver(lsol)
       IN  [f EXCEPT !.sol = IF f.storage_type = "SKYLINE" THEN SolveSkyline(f.matrix, f.rhs)
                                                           ELSE SolveKLU(f.matrix, f.rhs)]
Advanced_SolveLinearSolver(lsol) == SolveLinearSolver(lsol)
=============================================================================
