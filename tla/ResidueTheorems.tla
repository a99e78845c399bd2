-------------------------- MODULE ResidueTheorems --------------------------
(***************************************************************************)
(* The arithmetic the proofs about fields and systems need: induction,     *)
(* recursion and sums over numbers, and calculations modulo P.             *)
(***************************************************************************)
EXTENDS Integers, Functions, FiniteSetTheorems, TLAPS

-----------------------------------------------------------------------------
(* Induction and recursion over the numbers, from the facts the library has *)
(* of finite sets.                                                         *)

\* A set that holds 0, and n + 1 with n, holds every number.  The strict subsets of a
\* finite set are well founded: of the numbers left out one would be the least.
LEMMA NaturalInduction ==
  ASSUME NEW A, 0 \in A, \A n \in Nat : n \in A => n + 1 \in A
  PROVE  Nat \subseteq A
<1> SUFFICES ASSUME NEW n \in Nat, n \notin A PROVE FALSE
  OBVIOUS
<1> DEFINE S == 0..n
<1> DEFINE T == {0..m : m \in S \ A}
<1>1. IsFiniteSet(S) 
  BY FS_Interval
<1>2. IsWellFoundedOn(StrictSubsetOrdering(S), SUBSET S)
  BY <1>1, FS_StrictSubsetOrderingWellFounded, FS_FiniteSubsetsOfFinite
<1>3. T \subseteq SUBSET S
  OBVIOUS
<1>4. T # {}
  OBVIOUS
<1>5. PICK x \in T : \A y \in T : ~ (<< y, x >> \in StrictSubsetOrdering(S))
  <2> HIDE DEF T, S
  <2> QED
    BY <1>2, <1>3, <1>4, WFMin
<1>6. PICK m \in S \ A : x = 0..m
  BY <1>5
<1>7. m \in Nat /\ m # 0 /\ m - 1 \in S \ A
  <2>1. m \in Nat /\ m # 0 /\ m - 1 \in Nat /\ m - 1 \in S /\ (m - 1) + 1 = m
    BY <1>6
  <2> QED
    BY <2>1, <1>6
<1>8. 0..(m - 1) \in T
  BY <1>7
<1>9. << 0..(m - 1), 0..m >> \in StrictSubsetOrdering(S)
  <2>1. 0..(m - 1) \subseteq 0..m /\ 0..(m-1) # 0..m /\ 0..m \in SUBSET S /\ 0..(m-1) \in SUBSET S
    <3>1. m \in 0..m /\ m \notin 0..(m - 1)
      BY <1>7
    <3>2. 0..(m - 1) \subseteq 0..m /\ 0..m \in SUBSET S /\ 0..(m-1) \in SUBSET S
      BY <1>7, <1>6
    <3> HIDE DEF S
    <3> QED
      BY <3>1, <3>2
  <2> HIDE DEF S
  <2> QED
    BY <2>1 DEF StrictSubsetOrdering
<1> QED
  BY <1>5, <1>6, <1>8, <1>9

\* The first n + 1 terms of the sequence that starts with a and goes on with F.
Terms(W, a, F, n) ==
  {g \in [0..n -> W] : g[0] = a /\ \A i \in 0..(n - 1) : g[i + 1] = F[<< i, g[i] >>]}

\* Two of them agree on the terms they share.
LEMMA TermsAgree ==
  ASSUME NEW W, NEW a, NEW F, NEW n \in Nat, NEW m \in Nat,
         NEW g \in Terms(W, a, F, n), NEW h \in Terms(W, a, F, m), NEW i \in Nat, i <= n, i <= m
  PROVE  g[i] = h[i]
<1> DEFINE A == {x \in Nat : x <= n /\ x <= m => g[x] = h[x]}
<1>1. 0 \in A
  BY DEF Terms
<1>2. ASSUME NEW x \in Nat, x \in A PROVE x + 1 \in A
  <2> SUFFICES ASSUME x + 1 <= n, x + 1 <= m PROVE g[x + 1] = h[x + 1]
    OBVIOUS
  <2>1. g[x] = h[x] /\ x \in 0..(n - 1) /\ x \in 0..(m - 1)
    BY <1>2
  <2> QED
    BY <2>1 DEF Terms
<1>3. Nat \subseteq A
  <2> HIDE DEF A
  <2> QED
    BY <1>1, <1>2, NaturalInduction
<1> QED
  BY <1>3

\* They exist, whatever n.
LEMMA TermsExist ==
  ASSUME NEW W, NEW a \in W, NEW F \in [Nat \X W -> W], NEW n \in Nat
  PROVE  Terms(W, a, F, n) # {}
<1> DEFINE A == {x \in Nat : Terms(W, a, F, x) # {}}
<1>1. 0 \in A
  <2>1. [i \in 0..0 |-> a] \in Terms(W, a, F, 0)
    BY DEF Terms
  <2> QED
    BY <2>1
<1>2. ASSUME NEW x \in Nat, x \in A PROVE x + 1 \in A
  <2>1. PICK g : g \in Terms(W, a, F, x)
    BY <1>2
  <2>2. g \in [0..x -> W] /\ g[0] = a /\ \A i \in 0..(x - 1) : g[i + 1] = F[<< i, g[i] >>]
    BY <2>1 DEF Terms
  <2> DEFINE h == [i \in 0..(x + 1) |-> IF i = x + 1 THEN F[<< x, g[x] >>] ELSE g[i]]
  <2>3. h \in [0..(x + 1) -> W]
    <3>1. g[x] \in W /\ F[<< x, g[x] >>] \in W
      BY <2>2
    <3>2. \A i \in 0..(x + 1) : i = x + 1 \/ i \in 0..x
      OBVIOUS
    <3> QED
      BY <2>2, <3>1, <3>2
  <2>4. h[0] = a
    BY <2>2
  <2>5. ASSUME NEW i \in 0..x PROVE h[i + 1] = F[<< i, h[i] >>]
    <3>1. h[i] = g[i] /\ i \in 0..(x + 1) /\ i + 1 \in 0..(x + 1)
      OBVIOUS
    <3>2. CASE i = x
      BY <3>1, <3>2
    <3>3. CASE i # x
      <4>1. i \in 0..(x - 1) /\ i + 1 # x + 1
        BY <3>3
      <4> QED
        BY <3>1, <4>1, <2>2
    <3> QED
      BY <3>2, <3>3
  <2> HIDE DEF h
  <2>6. (x + 1) - 1 = x
    OBVIOUS
  <2>7. h \in Terms(W, a, F, x + 1)
    BY <2>3, <2>4, <2>5, <2>6 DEF Terms
  <2> QED
    BY <2>7
<1>3. Nat \subseteq A
  <2> HIDE DEF A
  <2> QED
    BY <1>1, <1>2, NaturalInduction
<1> QED
  BY <1>3

\* f starts with a and goes on with F.
Recurs(f, W, a, F) ==
  f \in [Nat -> W] /\ f[0] = a /\ \A n \in Nat : f[n + 1] = F[<< n, f[n] >>]

\* Definition by recursion.
LEMMA Recursion ==
  ASSUME NEW W, NEW a \in W, NEW F \in [Nat \X W -> W]
  PROVE  \E f : Recurs(f, W, a, F)
<1> DEFINE g(n) == CHOOSE g : g \in Terms(W, a, F, n)
           f == [n \in Nat |-> g(n)[n]]
<1>1. \A n \in Nat : g(n) \in Terms(W, a, F, n)
  BY TermsExist
<1> HIDE DEF g
<1>2. \A n \in Nat : g(n) \in [0..n -> W]
  BY <1>1 DEF Terms
<1>3. f \in [Nat -> W]
  BY <1>2
<1>4. f[0] = a
  BY <1>1 DEF Terms
<1>5. ASSUME NEW n \in Nat PROVE f[n + 1] = F[<< n, f[n] >>]
  <2>1. n + 1 \in Nat /\ n <= n /\ n <= n + 1 /\ n \in 0..((n + 1) - 1)
    OBVIOUS
  <2>2. g(n + 1)[n] = g(n)[n]
    BY <1>1, <2>1, TermsAgree
  <2>3. g(n + 1)[n + 1] = F[<< n, g(n + 1)[n] >>]
    BY <1>1, <2>1 DEF Terms
  <2> QED
    BY <2>1, <2>2, <2>3
<1>6. Recurs(f, W, a, F)
  BY <1>3, <1>4, <1>5 DEF Recurs
<1> QED
  BY <1>6

\* A sum over the subsets of 0..n-1.
Adds(g, F, n) ==
  /\ g \in [SUBSET (0..(n - 1)) -> Int] /\ g[{}] = 0
  /\ \A s \in SUBSET (0..(n - 1)) : \A x \in s : g[s] = F[x] + g[s \ {x}]

\* It exists: over the subsets of 0..m, from those of 0..m-1.
LEMMA SumsExist ==
  ASSUME NEW n \in Nat, NEW F \in [0..(n - 1) -> Int]
  PROVE  \E g : Adds(g, F, n)
<1> DEFINE A == {m \in Nat : m <= n => \E g : Adds(g, F, m)}
<1>1. 0 \in A
  <2>1. SUBSET (0..(0 - 1)) = {{}}
    OBVIOUS
  <2>2. Adds([s \in {{}} |-> 0], F, 0)
    BY <2>1 DEF Adds
  <2> QED
    BY <2>2
<1>2. ASSUME NEW m \in Nat, m \in A PROVE m + 1 \in A
  <2> SUFFICES ASSUME m + 1 <= n PROVE \E g : Adds(g, F, m + 1)
    OBVIOUS
  <2>1. PICK g : Adds(g, F, m)
    BY <1>2
  <2> DEFINE T == 0..(m - 1)
             U == 0..((m + 1) - 1)
             c(s) == IF m \in s THEN F[m] ELSE 0
             h == [s \in SUBSET U |-> g[s \ {m}] + c(s)]
  <2>2. /\ U = T \cup {m} /\ m \notin T /\ F[m] \in Int
        /\ \A s \in SUBSET U : s \ {m} \in SUBSET T
    OBVIOUS
  <2>3. \A x \in T : F[x] \in Int
    OBVIOUS
  <2>4. /\ g \in [SUBSET T -> Int] /\ g[{}] = 0
        /\ \A s \in SUBSET T : \A x \in s : g[s] = F[x] + g[s \ {x}]
    BY <2>1 DEF Adds
  <2> HIDE DEF T, U
  <2>5. \A s : c(s) \in Int
    BY <2>2
  <2>6. h \in [SUBSET U -> Int]
    BY <2>2, <2>4, <2>5
  <2>7. h[{}] = 0
    <3>1. {} \in SUBSET U /\ {} \ {m} = {}
      OBVIOUS
    <3> QED
      BY <3>1, <2>4
  <2>8. ASSUME NEW s \in SUBSET U, NEW x \in s
        PROVE  h[s] = F[x] + h[s \ {x}]
    <3>1. s \ {x} \in SUBSET U
      OBVIOUS
    <3>2. CASE x = m
      <4>1. (s \ {x}) \ {m} = s \ {m} /\ m \in s /\ m \notin s \ {x}
        BY <3>2
      <4>2. h[s] = g[s \ {m}] + F[m] /\ h[s \ {x}] = g[s \ {m}] + 0
        BY <3>1, <4>1, <3>2
      <4>3. g[s \ {m}] \in Int
        BY <2>2, <2>4
      <4> QED
        BY <4>2, <4>3, <2>2, <3>2
    <3>3. CASE x # m
      <4>1. (s \ {x}) \ {m} = (s \ {m}) \ {x} /\ (m \in s <=> m \in s \ {x}) /\ x \in T
            /\ x \in s \ {m} /\ s \ {m} \in SUBSET T /\ (s \ {m}) \ {x} \in SUBSET T
        BY <3>3, <2>2
      <4>2. g[s \ {m}] = F[x] + g[(s \ {m}) \ {x}]
        BY <4>1, <2>4
      <4>3. h[s] = g[s \ {m}] + c(s)
        OBVIOUS
      <4>4. h[s \ {x}] = g[(s \ {m}) \ {x}] + c(s)
        BY <3>1, <4>1
      <4>5. g[(s \ {m}) \ {x}] \in Int /\ F[x] \in Int /\ c(s) \in Int
        BY <4>1, <2>3, <2>4, <2>5
      <4> HIDE DEF h, c
      <4> QED
        BY <4>2, <4>3, <4>4, <4>5
    <3> QED
      BY <3>2, <3>3
  <2> HIDE DEF h
  <2>9. Adds(h, F, m + 1)
    BY <2>6, <2>7, <2>8 DEF Adds, U
  <2> QED
    BY <2>9
<1>3. Nat \subseteq A
  <2> HIDE DEF A
  <2> QED
    BY <1>1, <1>2, NaturalInduction
<1> QED
  BY <1>3

\* A finite set of numbers has a greatest one.
LEMMA GreatestOne ==
  ASSUME NEW n \in Nat, NEW S \in SUBSET (1..n), S # {}
  PROVE  \E a \in S : \A j \in S : j <= a
<1> DEFINE A == {m \in Nat : \A R \in SUBSET (1..m) : R # {} => \E a \in R : \A j \in R : j <= a}
<1>1. 0 \in A
  <2>1. 1..0 = {}
    OBVIOUS
  <2> QED
    BY <2>1
<1>2. ASSUME NEW m \in Nat, m \in A
      PROVE  m + 1 \in A
  <2>1. ASSUME NEW R \in SUBSET (1..(m + 1)), R # {}
        PROVE  \E a \in R : \A j \in R : j <= a
    <3>1. CASE m + 1 \in R
      BY <3>1
    <3>2. CASE m + 1 \notin R
      <4>1. R \in SUBSET (1..m)
        BY <3>2
      <4> QED
        BY <1>2, <2>1, <4>1
    <3> QED
      BY <3>1, <3>2
  <2> QED
    BY <2>1
<1>3. Nat \subseteq A
  <2> HIDE DEF A
  <2> QED
    BY <1>1, <1>2, NaturalInduction
<1> QED
  BY <1>3

-----------------------------------------------------------------------------
(* The sums of the community modules.                                      *)

\* What SumFunctionOnSet unfolds to: it holds the sum over each subset of S.
First(s) == CHOOSE x \in s : TRUE
Folds(it, F, S) ==
  it = [s \in SUBSET S |-> IF s = {} THEN 0 ELSE F[First(s)] + it[s \ {First(s)}]]

\* The sum is a fold.
LEMMA SumFolds ==
  ASSUME NEW F, NEW S
  PROVE  SumFunctionOnSet(F, S) = (CHOOSE it : Folds(it, F, S))[S]
BY DEF SumFunctionOnSet, FoldFunctionOnSet, MapThenFoldSet, Folds, First

\* It depends on the terms it adds only.
LEMMA SumSame ==
  ASSUME NEW S, NEW F, NEW G, \A x \in S : F[x] = G[x]
  PROVE  SumFunctionOnSet(F, S) = SumFunctionOnSet(G, S)
<1>1. ASSUME NEW it
      PROVE  Folds(it, F, S) <=> Folds(it, G, S)
  <2> DEFINE body(H) == [s \in SUBSET S |-> IF s = {} THEN 0 ELSE H[First(s)] + it[s \ {First(s)}]]
  <2>1. ASSUME NEW s \in SUBSET S, s # {}
        PROVE  F[First(s)] = G[First(s)]
    <3>1. First(s) \in s
      BY <2>1 DEF First
    <3> QED
      BY <3>1
  <2>2. body(F) = body(G)
    BY <2>1
  <2> QED
    BY <2>2 DEF Folds
<1>2. (CHOOSE it : Folds(it, F, S)) = (CHOOSE it : Folds(it, G, S))
  BY <1>1
<1> QED
  BY <1>2, SumFolds

\* The fold is the sum that Adds describes.
LEMMA FoldIsSum ==
  ASSUME NEW n \in Nat, NEW F \in [0..(n - 1) -> Int], NEW g, Adds(g, F, n),
         NEW S \in SUBSET (0..(n - 1))
  PROVE  SumFunctionOnSet(F, S) = g[S]
<1> DEFINE it == CHOOSE i : Folds(i, F, S)
           N  == 0..(n - 1)
<1>1. SumFunctionOnSet(F, S) = it[S]
  BY SumFolds
<1>2. /\ \A s \in SUBSET N : s # {} => First(s) \in s
      /\ \A s \in SUBSET N : \A x \in s : g[s] = F[x] + g[s \ {x}]
      /\ g[{}] = 0
  BY DEF Adds, First
<1>3. Folds([s \in SUBSET S |-> g[s]], F, S)
  <2> DEFINE h == [s \in SUBSET S |-> g[s]]
  <2>1. ASSUME NEW s \in SUBSET S
        PROVE  h[s] = IF s = {} THEN 0 ELSE F[First(s)] + h[s \ {First(s)}]
    <3>1. CASE s = {}
      BY <3>1, <1>2
    <3>2. CASE s # {}
      <4>1. First(s) \in s /\ s \in SUBSET N
        BY <1>2, <3>2
      <4>2. g[s] = F[First(s)] + g[s \ {First(s)}]
        BY <4>1, <1>2
      <4> QED
        BY <4>2, <3>2
    <3> QED
      BY <3>1, <3>2
  <2>2. h = [s \in SUBSET S |-> h[s]]
    OBVIOUS
  <2> HIDE DEF h
  <2>3. h = [s \in SUBSET S |-> IF s = {} THEN 0 ELSE F[First(s)] + h[s \ {First(s)}]]
    BY <2>1, <2>2
  <2> QED
    BY <2>3 DEF Folds, h
<1>4. Folds(it, F, S)
  BY <1>3
<1> HIDE DEF it
<1>5. ASSUME NEW s \in SUBSET S
      PROVE  /\ s = {} => it[s] = 0
             /\ s # {} => it[s] = F[First(s)] + it[s \ {First(s)}]
  BY <1>4 DEF Folds
<1> DEFINE T == {s \in SUBSET S : it[s] # g[s]}
<1>6. T = {}
  <2> SUFFICES ASSUME T # {} PROVE FALSE
    OBVIOUS
  <2>1. IsFiniteSet(S)
    <3>1. IsFiniteSet(N)
      <4>1. 0 \in Int /\ n - 1 \in Int
        OBVIOUS
      <4> QED
        BY <4>1, FS_Interval
    <3> QED
      BY <3>1, FS_Subset
  <2>2. IsWellFoundedOn(StrictSubsetOrdering(S), SUBSET S) /\ T \subseteq SUBSET S
    BY <2>1, FS_StrictSubsetOrderingWellFounded, FS_FiniteSubsetsOfFinite
  <2>3. PICK s \in T : \A y \in T : ~ (<< y, s >> \in StrictSubsetOrdering(S))
    <3> HIDE DEF T
    <3> QED
      BY <2>2, WFMin
  <2>4. s # {} /\ s \in SUBSET S /\ it[s] # g[s]
    BY <1>2, <1>5
  <2>5. First(s) \in s /\ s \in SUBSET N
    BY <1>2, <2>4
  <2>6. it[s \ {First(s)}] # g[s \ {First(s)}]
    <3>1. g[s] = F[First(s)] + g[s \ {First(s)}]
      BY <1>2, <2>5
    <3> QED
      BY <2>4, <3>1, <1>5
  <2>7. s \ {First(s)} \in T
    BY <2>6, <2>4
  <2>8. << s \ {First(s)}, s >> \in StrictSubsetOrdering(S)
    <3> HIDE DEF T
    <3>1. s \ {First(s)} \in SUBSET S /\ s \in SUBSET S /\ s \ {First(s)} # s
          /\ s \ {First(s)} \subseteq s
      BY <2>4, <2>5
    <3> QED
      BY <3>1 DEF StrictSubsetOrdering
  <2> QED
    BY <2>3, <2>7, <2>8
<1> QED
  BY <1>1, <1>6

\* The terms of a sum: finitely many integers.
Summable(F, D) ==
  /\ \E n \in Nat : D \in SUBSET (0..(n - 1))
  /\ \A x \in D : F[x] \in Int

\* A sum of integers is one,
LEMMA SumIsNumber ==
  ASSUME NEW D, NEW F, Summable(F, D)
  PROVE  /\ SumFunctionOnSet(F, {}) = 0
         /\ \A S \in SUBSET D : SumFunctionOnSet(F, S) \in Int
<1> PICK n \in Nat : D \in SUBSET (0..(n - 1))
  BY DEF Summable
<1> DEFINE N == 0..(n - 1)
           G == [x \in N |-> IF x \in D THEN F[x] ELSE 0]
<1>1. G \in [N -> Int] /\ \A x \in D : F[x] = G[x]
  BY DEF Summable
<1> HIDE DEF G
<1>2. PICK g : Adds(g, G, n)
  BY <1>1, SumsExist
<1>3. ASSUME NEW S \in SUBSET D
      PROVE  SumFunctionOnSet(F, S) = g[S]
  <2>1. SumFunctionOnSet(F, S) = SumFunctionOnSet(G, S)
    BY <1>1, SumSame
  <2>2. S \in SUBSET N
    OBVIOUS
  <2> QED
    BY <1>1, <1>2, <2>1, <2>2, FoldIsSum
<1>4. {} \in SUBSET D /\ g[{}] = 0
  BY <1>2 DEF Adds
<1>5. \A S \in SUBSET D : g[S] \in Int
  BY <1>2 DEF Adds
<1> QED
  BY <1>3, <1>4, <1>5

\* which grows term by term.
LEMMA SumGrows ==
  ASSUME NEW D, NEW F, Summable(F, D), NEW S \in SUBSET D, NEW x \in D \ S
  PROVE  SumFunctionOnSet(F, S \cup {x}) = SumFunctionOnSet(F, S) + F[x]
<1> PICK n \in Nat : D \in SUBSET (0..(n - 1))
  BY DEF Summable
<1> DEFINE N == 0..(n - 1)
           G == [y \in N |-> IF y \in D THEN F[y] ELSE 0]
           T == S \cup {x}
           a == F[x]
<1>1. G \in [N -> Int] /\ \A y \in D : F[y] = G[y]
  BY DEF Summable
<1> HIDE DEF G
<1>2. PICK g : Adds(g, G, n)
  BY <1>1, SumsExist
<1>3. ASSUME NEW R \in SUBSET D
      PROVE  SumFunctionOnSet(F, R) = g[R]
  <2>1. SumFunctionOnSet(F, R) = SumFunctionOnSet(G, R)
    BY <1>1, SumSame
  <2>2. R \in SUBSET N
    OBVIOUS
  <2> QED
    BY <1>1, <1>2, <2>1, <2>2, FoldIsSum
<1>4. T \in SUBSET D /\ T \in SUBSET N /\ x \in T /\ T \ {x} = S
  OBVIOUS
<1>5. g[T] = a + g[T \ {x}]
  <2>1. g[T] = G[x] + g[T \ {x}]
    BY <1>2, <1>4 DEF Adds
  <2>2. G[x] = a
    BY <1>1
  <2> QED
    BY <2>1, <2>2
<1>6. g[S] \in Int /\ a \in Int
  BY <1>2, <1>4 DEF Adds, Summable
<1>7. SumFunctionOnSet(F, S) = g[S] /\ SumFunctionOnSet(F, T) = g[T]
  BY <1>3, <1>4
<1> HIDE DEF T, a
<1>8. g[T] = g[S] + a
  <2>1. g[T] = a + g[S]
    BY <1>4, <1>5, Zenon
  <2> QED
    BY <2>1, <1>6
<1>9. SumFunctionOnSet(F, T) = SumFunctionOnSet(F, S) + a
  BY <1>7, <1>8
<1> QED
  BY <1>9 DEF T, a

\* Changing one term changes it by the difference.
LEMMA SumDiffers ==
  ASSUME NEW D, NEW F, NEW G, Summable(F, D), Summable(G, D), NEW x \in D,
         \A y \in D \ {x} : F[y] = G[y]
  PROVE  SumFunctionOnSet(G, D) = SumFunctionOnSet(F, D) + (G[x] - F[x])
<1> DEFINE S == D \ {x}
<1>1. S \in SUBSET D /\ x \in D \ S /\ S \cup {x} = D
  OBVIOUS
<1>2. SumFunctionOnSet(F, S) = SumFunctionOnSet(G, S)
  BY SumSame
<1>3. SumFunctionOnSet(F, S \cup {x}) = SumFunctionOnSet(F, S) + F[x]
  BY <1>1, SumGrows
<1>4. SumFunctionOnSet(G, S \cup {x}) = SumFunctionOnSet(G, S) + G[x]
  BY <1>1, SumGrows
<1>5. SumFunctionOnSet(F, S) \in Int /\ F[x] \in Int /\ G[x] \in Int
  BY <1>1, SumIsNumber DEF Summable
<1> DEFINE a == SumFunctionOnSet(F, S)  b == SumFunctionOnSet(F, D)  c == SumFunctionOnSet(G, D)
<1>6. b = a + F[x] /\ c = a + G[x] /\ a \in Int
  BY <1>1, <1>2, <1>3, <1>4, <1>5
<1> HIDE DEF a, b, c
<1>7. c = b + (G[x] - F[x])
  BY <1>5, <1>6
<1> QED
  BY <1>7 DEF b, c

\* The terms from 1 to n in turn.
LEMMA SumNext ==
  ASSUME NEW n \in Nat, NEW F, \A i \in 1..n : F[i] \in Int
  PROVE  /\ SumFunctionOnSet(F, 1..0) = 0
         /\ \A m \in 0..n : SumFunctionOnSet(F, 1..m) \in Int
         /\ \A m \in 0..(n - 1) : SumFunctionOnSet(F, 1..(m + 1)) = SumFunctionOnSet(F, 1..m) + F[m + 1]
<1>1. Summable(F, 1..n)
  <2>1. n + 1 \in Nat /\ 1..n \in SUBSET (0..((n + 1) - 1))
    OBVIOUS
  <2> QED
    BY <2>1 DEF Summable
<1>2. 1..0 = {}
  OBVIOUS
<1>3. ASSUME NEW m \in 0..n
      PROVE  SumFunctionOnSet(F, 1..m) \in Int
  <2>1. 1..m \in SUBSET (1..n)
    OBVIOUS
  <2> QED
    BY <1>1, <2>1, SumIsNumber
<1>4. ASSUME NEW m \in 0..(n - 1)
      PROVE  SumFunctionOnSet(F, 1..(m + 1)) = SumFunctionOnSet(F, 1..m) + F[m + 1]
  <2> DEFINE S == 1..m  x == m + 1  D == 1..n
  <2>1. S \in SUBSET D /\ x \in D \ S /\ S \cup {x} = 1..x
    OBVIOUS
  <2>2. Summable(F, D)
    BY <1>1
  <2> HIDE DEF S, x, D
  <2>3. SumFunctionOnSet(F, S \cup {x}) = SumFunctionOnSet(F, S) + F[x]
    BY <2>1, <2>2, SumGrows
  <2>4. SumFunctionOnSet(F, 1..x) = SumFunctionOnSet(F, S) + F[x]
    BY <2>1, <2>3
  <2> QED
    BY <2>4 DEF S, x
<1> QED
  BY <1>1, <1>2, <1>3, <1>4, SumIsNumber

\* A function that grows by the terms is the sum of them.
LEMMA SumTelescopes ==
  ASSUME NEW n \in Nat, NEW F, \A i \in 1..n : F[i] \in Int,
         NEW g, g[0] = 0, \A i \in 0..(n - 1) : g[i + 1] = g[i] + F[i + 1]
  PROVE  SumFunctionOnSet(F, 1..n) = g[n]
<1> DEFINE h(m) == SumFunctionOnSet(F, 1..m)
           A == {m \in Nat : m <= n => h(m) = g[m]}
<1>1. h(0) = 0 /\ \A m \in 0..(n - 1) : h(m + 1) = h(m) + F[m + 1]
  BY SumNext
<1> HIDE DEF h
<1>2. 0 \in A
  BY <1>1
<1>3. ASSUME NEW m \in Nat, m \in A
      PROVE  m + 1 \in A
  <2> SUFFICES ASSUME m + 1 <= n
               PROVE  h(m + 1) = g[m + 1]
    OBVIOUS
  <2>1. m \in 0..(n - 1) /\ h(m) = g[m]
    BY <1>3
  <2> QED
    BY <1>1, <2>1
<1>4. Nat \subseteq A
  <2> HIDE DEF A
  <2> QED
    BY <1>2, <1>3, NaturalInduction
<1>5. h(n) = g[n]
  BY <1>4
<1> QED
  BY <1>5 DEF h

-----------------------------------------------------------------------------
(* Arithmetic modulo P.                                                    *)

\* Quotient and remainder,
LEMMA DivisionBy ==
  ASSUME NEW P \in Nat, P > 0, NEW a \in Int
  PROVE a = P * (a \div P) + (a % P) /\ a % P \in 0..(P-1) /\ a \div P \in Int
OBVIOUS

\* of which there is one pair,
LEMMA UniqueRemainder ==
  ASSUME NEW P \in Nat, P > 0, NEW q \in Int, NEW r \in 0..(P - 1), NEW a \in Int, a = P * q + r
  PROVE a % P = r
<1>1. a % P \in 0..(P-1) /\ a \div P \in Int /\ a = P * (a \div P) + (a % P)
  BY DivisionBy
<1> DEFINE d == q - (a \div P)
<1>2. d \in Int /\ P * d = (a % P) - r
  BY <1>1
<1> HIDE DEF d
<1>3. d < 1
  <2>1. SUFFICES ASSUME d >= 1 PROVE FALSE
    BY <1>2
  <2>2. P * d >= P
    BY <2>1, <1>2
  <2> QED
    BY <2>2, <1>1, <1>2
<1>4. d > -1
  <2>1. SUFFICES ASSUME d <= -1 PROVE FALSE
    BY <1>2
  <2>2. P * d <= -P
    BY <2>1, <1>2
  <2> QED
    BY <2>2, <1>1, <1>2
<1>5. d = 0
  BY <1>2, <1>3, <1>4
<1> QED
  BY <1>5, <1>2, <1>1

\* so that multiples of P do not count,
LEMMA MultiplesDoNotCount ==
  ASSUME NEW P \in Nat, P > 0, NEW a \in Int, NEW q \in Int
  PROVE  (a + P * q) % P = a % P
<1>1. a = P * (a \div P) + (a % P) /\ a % P \in 0..(P-1) /\ a \div P \in Int
  BY DivisionBy
<1> DEFINE d == a \div P
           r == a % P
<1>2. d \in Int /\ r \in 0..(P - 1) /\ a = P * d + r
  BY <1>1
<1> HIDE DEF d, r
<1>3. a + P * q = P * (d + q) + r /\ d + q \in Int /\ a + P * q \in Int
  BY <1>2
<1>4. (a + P * q) % P = r
  BY <1>2, <1>3, UniqueRemainder
<1> QED
  BY <1>4 DEF r

\* nor does reducing a term of a sum,
LEMMA SumOfRemainders ==
  ASSUME NEW P \in Nat, P > 0, NEW a \in Int, NEW b \in Int
  PROVE ((a % P) + b) % P = (a + b) % P
<1>1. a = P * (a \div P) + (a % P) /\ a % P \in 0..(P-1) /\ a \div P \in Int
  BY DivisionBy
<1>2. a + b = ((a % P) + b) + P * (a \div P) /\ (a % P) + b \in Int
  BY <1>1
<1> QED
  BY <1>1, <1>2, MultiplesDoNotCount

\* or a factor of a product.
LEMMA ProductOfRemainders ==
  ASSUME NEW P \in Nat, P > 0, NEW a \in Int, NEW b \in Int
  PROVE ((a % P) * b) % P = (a * b) % P
<1>1. a = P * (a \div P) + (a % P) /\ a % P \in 0..(P-1) /\ a \div P \in Int
  BY DivisionBy
<1> DEFINE d == a \div P
           r == a % P
<1>2. d \in Int /\ r \in Int /\ a = P * d + r
  BY <1>1
<1> HIDE DEF d, r
<1>3. a * b = r * b + P * (d * b) /\ r * b \in Int /\ d * b \in Int
  BY <1>2
<1>4. (a * b) % P = (r * b) % P
  BY <1>3, MultiplesDoNotCount
<1> QED
  BY <1>4 DEF r

\* Sums of terms equal modulo P are equal modulo P.
LEMMA SumsOfRemainders ==
  ASSUME NEW P \in Nat, P > 0, NEW n \in Nat, NEW F, NEW G,
         \A i \in 1..n : F[i] \in Int /\ G[i] \in Int /\ F[i] % P = G[i] % P
  PROVE  SumFunctionOnSet(F, 1..n) % P = SumFunctionOnSet(G, 1..n) % P
<1> DEFINE h(m) == SumFunctionOnSet(F, 1..m)
           k(m) == SumFunctionOnSet(G, 1..m)
           A == {m \in Nat : m <= n => h(m) % P = k(m) % P}
<1>1. /\ h(0) = 0 /\ \A m \in 0..(n - 1) : h(m + 1) = h(m) + F[m + 1]
      /\ \A m \in 0..n : h(m) \in Int
  BY SumNext
<1>2. /\ k(0) = 0 /\ \A m \in 0..(n - 1) : k(m + 1) = k(m) + G[m + 1]
      /\ \A m \in 0..n : k(m) \in Int
  BY SumNext
<1> HIDE DEF h, k
<1>3. 0 \in A
  BY <1>1, <1>2
<1>4. ASSUME NEW m \in Nat, m \in A
      PROVE  m + 1 \in A
  <2> SUFFICES ASSUME m + 1 <= n
               PROVE  h(m + 1) % P = k(m + 1) % P
    OBVIOUS
  <2>1. m \in 0..(n - 1) /\ m \in 0..n /\ m + 1 \in 1..n /\ h(m) % P = k(m) % P
    BY <1>4
  <2> DEFINE a == h(m)  b == k(m)  c == F[m + 1]  d == G[m + 1]
  <2>2. a \in Int /\ b \in Int /\ c \in Int /\ d \in Int /\ a % P = b % P /\ c % P = d % P
    BY <1>1, <1>2, <2>1
  <2>3. h(m + 1) = a + c /\ k(m + 1) = b + d
    BY <1>1, <1>2, <2>1
  <2> HIDE DEF a, b, c, d
  <2>4. /\ ((a % P) + c) % P = (a + c) % P /\ ((b % P) + c) % P = (b + c) % P
        /\ ((c % P) + b) % P = (c + b) % P /\ ((d % P) + b) % P = (d + b) % P
    BY <2>2, SumOfRemainders, Zenon
  <2>5. b + c = c + b /\ b + d = d + b
    BY <2>2
  <2> QED
    BY <2>2, <2>3, <2>4, <2>5, Zenon
<1>5. Nat \subseteq A
  <2> HIDE DEF A
  <2> QED
    BY <1>3, <1>4, NaturalInduction
<1>6. h(n) % P = k(n) % P
  BY <1>5
<1> QED
  BY <1>6 DEF h, k
=============================================================================
