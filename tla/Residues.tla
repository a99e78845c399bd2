------------------------------ MODULE Residues ------------------------------
(***************************************************************************)
(* Real numbers as residues modulo a prime: sums, products and quotients   *)
(* are exact, so that what the code computes up to rounding (the solution  *)
(* of a system, the balance of a scheme) can be checked with equalities.   *)
(* The order of the numbers is lost, but for the few that fluxes compare.  *)
(***************************************************************************)
EXTENDS Integers, Sequences

CONSTANT P
ASSUME PAssumption == P \in Nat /\ P > 5 /\ \A k \in 2 .. P - 1 : P % k # 0

Power(a, n) ==
  LET p[k \in 0..n] == IF k = 0 THEN 1
                       ELSE LET h == p[k \div 2]
                            IN  (((h * h) % P) * (IF k % 2 = 1 THEN a ELSE 1)) % P
  IN  p[n]


\* Computed once (a function constructor is evaluated at each use).
Tuple(n, F(_)) == [i \in 1..n |-> F(i)] \o << >>

\* By Fermat's theorem.  A null divisor gives 0 here, and an infinity or a
\* NaN in the code.
Reciprocal == Tuple(P - 1, LAMBDA a : Power(a, P - 2))
Quotient(a, b) == IF b % P = 0 THEN 0 ELSE (a * Reciprocal[b % P]) % P

Zeros(n)       == Tuple(n, LAMBDA i : 0)
UnitVector(n, k) == Tuple(n, LAMBDA i : IF i = k THEN 1 ELSE 0)

Sum(a, b, F(_)) ==
  LET s[k \in a - 1 .. b] == IF k < a THEN 0 ELSE (s[k - 1] + F(k)) % P
  IN  IF b < a THEN 0 ELSE s[b]

\* The state after the iterations a .. b of a loop (TLC computes the old state
\* before it evaluates the body: a state used lazily would nest all the bodies).
Loop(state, a, b, Body(_, _)) ==
  LET s[k \in a - 1 .. b] == IF k < a THEN state
                             ELSE CHOOSE new \in {Body(old, k) : old \in {s[k - 1]}} : TRUE
  IN  IF b < a THEN state ELSE s[b]

Added(x, y)      == Tuple(Len(x), LAMBDA i : (x[i] + y[i]) % P)
Subtracted(x, y) == Tuple(Len(x), LAMBDA i : (x[i] - y[i]) % P)
Scaled(a, x)     == Tuple(Len(x), LAMBDA i : (a * x[i]) % P)

(***************************************************************************)
(* Dense matrices, as tuples of rows: factorisation with row exchanges     *)
(* (any pivot that is not null will do) and solution.                      *)
(***************************************************************************)
EliminateIn(n, a, p) ==
  Loop(a, p + 1, n, LAMBDA b, i :
       LET c == Quotient(b[i][p], b[p][p])
       IN  [b EXCEPT ![i] = Tuple(n, LAMBDA j : IF j < p THEN b[i][j]
                                                ELSE IF j = p THEN c
                                                ELSE (b[i][j] - c * b[p][j]) % P)])

PLU_Square(n, a) ==
  Loop([a |-> a, sigma |-> Tuple(n, LAMBDA i : i)], 1, n - 1, LAMBDA s, p :
       LET sup  == CHOOSE v \in {s.a[i][p] : i \in p..n} : \A i \in p..n : s.a[i][p] <= v
           pmax == CHOOSE i \in p..n : s.a[i][p] = sup /\ \A k \in i+1 .. n : s.a[k][p] # sup
           Swap(t) == [t EXCEPT ![p] = t[pmax], ![pmax] = t[p]]
       IN  [a |-> EliminateIn(n, Swap(s.a), p), sigma |-> Swap(s.sigma)])

PLU_Solve(n, lu, sigma, b) ==
  LET low  == Loop(Zeros(n), 1, n, LAMBDA x, i :
                   [x EXCEPT ![i] = (b[sigma[i]] - Sum(1, i - 1, LAMBDA j : lu[i][j] * x[j])) % P])
      Up(x, k) == LET i == n + 1 - k
                  IN  [x EXCEPT ![i] = Quotient(x[i] - Sum(i + 1, n, LAMBDA j : lu[i][j] * x[j]),
                                                lu[i][i])]
  IN  Loop(low, 1, n, Up)

DenseSolve(n, a, b) ==
  LET f == PLU_Square(n, a) IN PLU_Solve(n, f.a, f.sigma, b)

-----------------------------------------------------------------------------
(* What the numerical fluxes of the physical models are written with.  The   *)
(* numbers they compare or take the root of are, in the states enumerated,   *)
(* multiples of a quarter between -P / 8 and P / 8, so that their order is   *)
(* exact.  A state, a flux and a velocity are tuples, vnorm has three        *)
(* components.                                                               *)

\* F at the value of an expression, computed once.
Given(x, F(_)) == CHOOSE r \in {F(y) : y \in {x}} : TRUE

a ** b == (a * b) % P
a // b == Quotient(a % P, b % P)

Signed(a)   == IF 2 * (a % P) > P THEN (a % P) - P ELSE a % P
Positive(a) == Signed(4 * a) > 0
Negative(a) == Signed(4 * a) < 0
Larger(a, b)  == IF Positive(a - b) THEN a ELSE b
Smaller(a, b) == IF Positive(a - b) THEN b ELSE a
Absolute(a)   == IF Negative(a) THEN -a ELSE a
Root(a)       == CHOOSE s \in 0 .. P \div 8 : s ** s = a % P

Along(v, n)   == (v[1] ** n[1] + v[2] ** n[2] + v[3] ** n[3]) % P
Opposite(n)   == << -n[1], -n[2], -n[3] >>
Norm(n)       == Root(Along(n, n))
Mean(a, b)    == (a + b) // 2
Jump(a, b)    == (b - a) // 2

\* The upwind flux of a quantity that is carried at the velocity v.
Upwind(v, wL, wR, n) ==
  Given(Along(v, n), LAMBDA vn :
    LET vnp == IF Positive(vn) THEN vn ELSE 0
        vnm == vn - vnp
    IN  (vnp ** wL + vnm ** wR) % P)
=============================================================================
