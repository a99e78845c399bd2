------------------------- MODULE OpenCLField_proofs -------------------------
(***************************************************************************)
(* On every mesh, in one to three dimensions, with any set of refined      *)
(* directions: whenever it is looked at, the field on the device is that   *)
(* of the serial scheme after the steps the device has finished, and RK4   *)
(* as simulation.c arranges it is the classical scheme.                    *)
(***************************************************************************)
EXTENDS OpenCLField, ResidueTheorems, SequenceTheorems

-----------------------------------------------------------------------------
(* Arithmetic modulo the P of the kernels.                                 *)

LEMMA Positive == P \in Nat /\ P > 0
BY PAssumption

LEMMA Division ==
  ASSUME NEW a \in Int
  PROVE  a = P * (a \div P) + (a % P) /\ a % P \in 0..(P-1) /\ a \div P \in Int
BY Positive, DivisionBy, Zenon

LEMMA Unique ==
  ASSUME NEW q \in Int, NEW r \in 0..(P - 1), NEW a \in Int, a = P * q + r
  PROVE  a % P = r
BY Positive, UniqueRemainder, Zenon

LEMMA Shift ==
  ASSUME NEW a \in Int, NEW q \in Int
  PROVE  (a + P * q) % P = a % P
BY Positive, MultiplesDoNotCount, Zenon

LEMMA SumMod ==
  ASSUME NEW a \in Int, NEW b \in Int
  PROVE  ((a % P) + b) % P = (a + b) % P
BY Positive, SumOfRemainders, Zenon

LEMMA ProdMod ==
  ASSUME NEW a \in Int, NEW b \in Int
  PROVE  ((a % P) * b) % P = (a * b) % P
BY Positive, ProductOfRemainders, Zenon

-----------------------------------------------------------------------------
Value  == 0..(P - 1)
Fields == [Elem -> Value]

-----------------------------------------------------------------------------
(* The serial scheme.                                                      *)

LEMMA Residue ==
  ASSUME NEW a \in Int
  PROVE  a % P \in Value
BY Division DEF Value

LEMMA Numbers == P \in Nat /\ Value \subseteq Int /\ InverseMass \in Int
BY PAssumption DEF Value, InverseMass

\* The callbacks of the model return numbers.
LEMMA CallbackNumbers ==
  ASSUME NEW a \in Int, NEW b \in Int
  PROVE  /\ NumFlux(a, b, 1) \in Int /\ BoundaryFlux(a, b) \in Int /\ SubCellFlux(a) \in Int
         /\ VolumeFlux(a) \in Int /\ Source(a, b) \in Int
BY DEF NumFlux, BoundaryFlux, SubCellFlux, VolumeFlux, Source

\* The simulations are those ConfType describes.
LEMMA ConfIs ==
  ASSUME conf \in Confs
  PROVE  /\ conf.scheme \in {"RK2", "RK4"}
         /\ conf.ndim \in 1..3 /\ conf.raf \subseteq 0..(conf.ndim - 1)
         /\ conf.nbelems \in Nat \ {0}
         /\ conf.fL \in Seq(Elem) /\ conf.fR \in [DOMAIN conf.fL -> {-1} \cup Elem] /\ -1 \notin Elem
         /\ Lists(conf.macrointerface, {f \in DOMAIN conf.fL : conf.fR[f] # -1})
         /\ Lists(conf.boundaryface, {f \in DOMAIN conf.fL : conf.fR[f] = -1})
         /\ conf.w0 \in Fields
<1>1. ConfType(conf)
  BY OpenCLAssumption
<1>2. -1..(conf.nbelems - 1) = {-1} \cup Elem /\ -1 \notin Elem
  BY <1>1 DEF ConfType, Elem
<1> QED
  BY <1>1, <1>2 DEF ConfType, Elem, Fields, Value

\* The flux of a face is a number.
LEMMA FluxIsNumber ==
  ASSUME conf \in Confs, NEW w \in Fields, NEW t \in Int, NEW f \in DOMAIN conf.fL
  PROVE  FaceFlux(w, t)[f] \in Int
<1>1. conf.fL[f] \in Elem /\ (conf.fR[f] # -1 => conf.fR[f] \in Elem)
  BY ConfIs
<1>2. \A e \in Elem : w[e] \in Int
  BY Numbers DEF Fields
<1>3. w[conf.fL[f]] \in Int /\ (conf.fR[f] # -1 => w[conf.fR[f]] \in Int)
  BY <1>1, <1>2
<1> QED
  BY <1>3, CallbackNumbers DEF FaceFlux

\* The fluxes can be added up.
LEMMA FluxesAddUp ==
  ASSUME conf \in Confs, NEW w \in Fields, NEW t \in Int
  PROVE  Summable(FaceFlux(w, t), DOMAIN conf.fL)
<1>1. Len(conf.fL) + 1 \in Nat /\ DOMAIN conf.fL \in SUBSET (0..((Len(conf.fL) + 1) - 1))
  BY ConfIs
<1> QED
  BY <1>1, FluxIsNumber DEF Summable

\* What the faces of F bring to an element, modulo P.
Into(F, e) == {f \in F : conf.fR[f] = e}
OutOf(F, e) == {f \in F : conf.fL[f] = e}
Net(F, w, t, e) ==
  SumFunctionOnSet(FaceFlux(w, t), Into(F, e)) - SumFunctionOnSet(FaceFlux(w, t), OutOf(F, e))

\* It is a number and grows face by face.
LEMMA NetIsNumber ==
  ASSUME conf \in Confs, NEW w \in Fields, NEW t \in Int, NEW F \in SUBSET DOMAIN conf.fL, NEW e
  PROVE  Net(F, w, t, e) \in Int
<1>1. Summable(FaceFlux(w, t), DOMAIN conf.fL)
  BY FluxesAddUp
<1>2. \A S \in SUBSET DOMAIN conf.fL : SumFunctionOnSet(FaceFlux(w, t), S) \in Int
  BY <1>1, SumIsNumber
<1>3. Into(F, e) \in SUBSET DOMAIN conf.fL /\ OutOf(F, e) \in SUBSET DOMAIN conf.fL
  BY DEF Into, OutOf
<1> QED
  BY <1>2, <1>3 DEF Net

LEMMA NetOfNone ==
  ASSUME conf \in Confs, NEW w \in Fields, NEW t \in Int, NEW e
  PROVE  Net({}, w, t, e) = 0
<1>1. Summable(FaceFlux(w, t), DOMAIN conf.fL)
  BY FluxesAddUp
<1>2. SumFunctionOnSet(FaceFlux(w, t), {}) = 0
  BY <1>1, SumIsNumber
<1>3. Into({}, e) = {} /\ OutOf({}, e) = {}
  BY DEF Into, OutOf
<1> QED
  BY <1>2, <1>3 DEF Net

LEMMA NetGrows ==
  ASSUME conf \in Confs, NEW w \in Fields, NEW t \in Int, NEW e,
         NEW F \in SUBSET DOMAIN conf.fL, NEW f \in DOMAIN conf.fL \ F
  PROVE  Net(F \cup {f}, w, t, e)
           = Net(F, w, t, e) + (IF conf.fR[f] = e THEN FaceFlux(w, t)[f] ELSE 0)
                             - (IF conf.fL[f] = e THEN FaceFlux(w, t)[f] ELSE 0)
<1> DEFINE D == DOMAIN conf.fL
           S(R) == SumFunctionOnSet(FaceFlux(w, t), R)
           x == FaceFlux(w, t)[f]
<1>1. Summable(FaceFlux(w, t), D) /\ x \in Int
  BY FluxesAddUp, FluxIsNumber
<1>2. \A R \in SUBSET D : S(R) \in Int
  BY <1>1, SumIsNumber
<1>3. ASSUME NEW R \in SUBSET D, f \notin R
      PROVE  S(R \cup {f}) = S(R) + x
  BY <1>1, <1>3, SumGrows
<1>4. /\ Into(F, e) \in SUBSET D /\ OutOf(F, e) \in SUBSET D
      /\ f \notin Into(F, e) /\ f \notin OutOf(F, e)
  BY DEF Into, OutOf
<1>5. S(Into(F \cup {f}, e)) = S(Into(F, e)) + (IF conf.fR[f] = e THEN x ELSE 0)
  <2>1. CASE conf.fR[f] = e
    <3>1. Into(F \cup {f}, e) = Into(F, e) \cup {f}
      BY <2>1 DEF Into
    <3>2. S(Into(F, e) \cup {f}) = S(Into(F, e)) + x
      BY <1>3, <1>4
    <3> HIDE DEF S, x
    <3> QED
      BY <2>1, <3>1, <3>2
  <2>2. CASE conf.fR[f] # e
    <3>1. Into(F \cup {f}, e) = Into(F, e)
      BY <2>2 DEF Into
    <3>2. S(Into(F, e)) \in Int
      BY <1>2, <1>4
    <3> HIDE DEF S, x
    <3> QED
      BY <2>2, <3>1, <3>2
  <2> QED
    BY <2>1, <2>2
<1>6. S(OutOf(F \cup {f}, e)) = S(OutOf(F, e)) + (IF conf.fL[f] = e THEN x ELSE 0)
  <2>1. CASE conf.fL[f] = e
    <3>1. OutOf(F \cup {f}, e) = OutOf(F, e) \cup {f}
      BY <2>1 DEF OutOf
    <3>2. S(OutOf(F, e) \cup {f}) = S(OutOf(F, e)) + x
      BY <1>3, <1>4
    <3> HIDE DEF S, x
    <3> QED
      BY <2>1, <3>1, <3>2
  <2>2. CASE conf.fL[f] # e
    <3>1. OutOf(F \cup {f}, e) = OutOf(F, e)
      BY <2>2 DEF OutOf
    <3>2. S(OutOf(F, e)) \in Int
      BY <1>2, <1>4
    <3> HIDE DEF S, x
    <3> QED
      BY <2>2, <3>1, <3>2
  <2> QED
    BY <2>1, <2>2
<1>7. x \in Int /\ S(Into(F, e)) \in Int /\ S(OutOf(F, e)) \in Int
  BY <1>1, <1>2, <1>4
<1>8. \A R : Net(R, w, t, e) = S(Into(R, e)) - S(OutOf(R, e))
  BY DEF Net
<1> HIDE DEF S, x
<1>9. Net(F \cup {f}, w, t, e) = S(Into(F \cup {f}, e)) - S(OutOf(F \cup {f}, e))
  BY <1>8
<1>10. Net(F, w, t, e) = S(Into(F, e)) - S(OutOf(F, e))
  BY <1>8
<1>11. Net(F \cup {f}, w, t, e)
         = Net(F, w, t, e) + (IF conf.fR[f] = e THEN x ELSE 0) - (IF conf.fL[f] = e THEN x ELSE 0)
  BY <1>5, <1>6, <1>7, <1>9, <1>10
<1> QED
  BY <1>11 DEF x

\* The fluxes of the refined directions, the terms of the sum and the sum.
Dims == 0..2
SubTerm(a) == [d \in Dims |-> (d + 1) * SubCellFlux(a)]
SubFlux(R, a) == SumFunctionOnSet(SubTerm(a), R)

LEMMA SubFluxes ==
  ASSUME NEW a \in Int
  PROVE  /\ SubFlux({}, a) = 0
         /\ \A R \in SUBSET Dims : SubFlux(R, a) \in Int
         /\ \A R \in SUBSET Dims : \A d \in Dims \ R :
              SubFlux(R \cup {d}, a) = SubFlux(R, a) + (d + 1) * SubCellFlux(a)
<1>1. \A d \in Dims : SubTerm(a)[d] = (d + 1) * SubCellFlux(a) /\ SubTerm(a)[d] \in Int
  BY CallbackNumbers DEF SubTerm, Dims
<1>2. Summable(SubTerm(a), Dims)
  <2>1. 3 \in Nat /\ Dims \in SUBSET (0..(3 - 1))
    BY DEF Dims
  <2> QED
    BY <1>1, <2>1 DEF Summable
<1>3. ASSUME NEW R \in SUBSET Dims, NEW d \in Dims \ R
      PROVE  SubFlux(R \cup {d}, a) = SubFlux(R, a) + SubTerm(a)[d]
  <2>1. SumFunctionOnSet(SubTerm(a), R \cup {d}) = SumFunctionOnSet(SubTerm(a), R) + SubTerm(a)[d]
    BY <1>2, SumGrows
  <2> QED
    BY <2>1 DEF SubFlux
<1>4. SubFlux({}, a) = 0 /\ \A R \in SUBSET Dims : SubFlux(R, a) \in Int
  BY <1>2, SumIsNumber DEF SubFlux
<1> QED
  BY <1>1, <1>3, <1>4

\* What the volume and the source bring to an element.
SourceTerm(a, t) == IF conf.use_source_cl THEN Source(t, a) ELSE 0

\* The serial time derivative, from these terms.
LEMMA DtFieldsIs ==
  ASSUME conf \in Confs, NEW w \in Fields, NEW t \in Int, NEW e \in Elem
  PROVE  /\ DtFields(w, t)[e] = ((Net(DOMAIN conf.fL, w, t, e) - SubFlux(conf.raf, w[e])
                                  + VolumeFlux(w[e]) + SourceTerm(w[e], t)) * InverseMass) % P
         /\ DtFields(w, t)[e] \in Value
         /\ w[e] \in Int /\ SubFlux(conf.raf, w[e]) \in Int /\ SourceTerm(w[e], t) \in Int
<1> DEFINE s == SourceTerm(w[e], t)
<1>1. conf.raf \in SUBSET Dims
  BY ConfIs DEF Dims
<1>2. w[e] \in Int
  BY Numbers DEF Fields
<1>3. SubFlux(conf.raf, w[e]) \in Int /\ s \in Int /\ VolumeFlux(w[e]) \in Int
  <2>1. VolumeFlux(w[e]) \in Int /\ Source(t, w[e]) \in Int
    BY <1>2, CallbackNumbers
  <2>2. SubFlux(conf.raf, w[e]) \in Int
    BY <1>1, <1>2, SubFluxes
  <2> QED
    BY <2>1, <2>2 DEF SourceTerm
<1>4. Net(DOMAIN conf.fL, w, t, e) \in Int
  BY NetIsNumber
<1>5. DtFields(w, t)[e] = ((Net(DOMAIN conf.fL, w, t, e) - SubFlux(conf.raf, w[e])
                            + VolumeFlux(w[e]) + s) * InverseMass) % P
  BY DEF DtFields, Net, Into, OutOf, SubFlux, SubTerm, SourceTerm, Dims
<1>6. DtFields(w, t)[e] \in Value
  <2> DEFINE n == Net(DOMAIN conf.fL, w, t, e)  u == SubFlux(conf.raf, w[e])  v == VolumeFlux(w[e])
  <2>1. n \in Int /\ u \in Int /\ v \in Int /\ s \in Int /\ InverseMass \in Int
    BY <1>3, <1>4, Numbers
  <2>2. DtFields(w, t)[e] = ((n - u + v + s) * InverseMass) % P
    BY <1>5
  <2> HIDE DEF n, u, v, s
  <2>3. (n - u + v + s) * InverseMass \in Int
    BY <2>1
  <2> QED
    BY <2>2, <2>3, Residue
<1> QED
  BY <1>2, <1>3, <1>5, <1>6

LEMMA DtFieldsType ==
  ASSUME conf \in Confs, NEW w \in Fields, NEW t \in Int
  PROVE  DtFields(w, t) \in Fields
BY DtFieldsIs DEF DtFields, Fields

-----------------------------------------------------------------------------
(* The Runge-Kutta schemes.                                                *)

\* Tabulating a function does not change it.
LEMMA OutIs ==
  \A w, d, x : Serial!RK_out(w, d, x) = [e \in Elem |-> (w[e] + d * x[e]) % P]
BY DEF Serial!RK_out, Serial!Table

LEMMA OutType ==
  ASSUME NEW w \in Fields, NEW d \in Int, NEW x \in Fields
  PROVE  Serial!RK_out(w, d, x) \in Fields
<1>1. ASSUME NEW e \in Elem
      PROVE  (w[e] + d * x[e]) % P \in Value
  <2>1. w[e] \in Int /\ x[e] \in Int
    BY Numbers DEF Fields
  <2>2. w[e] + d * x[e] \in Int
    BY <2>1
  <2> QED
    BY <2>2, Residue
<1> QED
  BY <1>1, OutIs DEF Fields

\* Modulo P there is a third of 1.
LEMMA Third == Serial!Inverse(3) \in 1..(P - 1) /\ (Serial!Inverse(3) * 3) % P = 1
<1>1. P \in Nat /\ P > 2 /\ P % 3 # 0
  BY PAssumption, OpenCLAssumption
<1>2. \E i \in 1..(P - 1) : (i * 3) % P = 1
  <2>1. PICK q \in Nat : P = 3 * q + 1 \/ P = 3 * q + 2
    <3>1. P = 3 * (P \div 3) + (P % 3) /\ P % 3 \in 0..2 /\ P \div 3 \in Nat
      BY <1>1
    <3> QED
      BY <3>1, <1>1
  <2>2. CASE P = 3 * q + 1
    <3>1. 2 * q + 1 \in 1..(P - 1) /\ (2 * q + 1) * 3 = P * 2 + 1
      BY <2>2, <1>1
    <3>2. ((2 * q + 1) * 3) % P = 1
      <4>1. (2 * q + 1) * 3 \in Int /\ 1 \in 0..(P - 1)
        BY <1>1
      <4> QED
        BY <3>1, <4>1, Unique
    <3> QED
      BY <3>1, <3>2
  <2>3. CASE P = 3 * q + 2
    <3>1. q + 1 \in 1..(P - 1) /\ (q + 1) * 3 = P * 1 + 1
      BY <2>3, <1>1
    <3>2. ((q + 1) * 3) % P = 1
      <4>1. (q + 1) * 3 \in Int /\ 1 \in 0..(P - 1)
        BY <1>1
      <4> QED
        BY <3>1, <4>1, Unique
    <3> QED
      BY <3>1, <3>2
  <2> QED
    BY <2>1, <2>2, <2>3
<1> QED
  BY <1>2 DEF Serial!Inverse

\* The last combination of simulation.c and that of the classical scheme, from a value
\* and its four slopes.
Rearranged(w, k1, k2, k3, k4) ==
  ((((w + 1 * k1) % P) - w + 2 * ((w + 1 * k2) % P) + ((w + 2 * k3) % P) + k4) * Serial!Inverse(3)) % P
Classical(w, k1, k2, k3, k4) ==
  (w + (k1 + 2 * k2 + 2 * k3 + k4) * Serial!Inverse(3)) % P

\* The weights of simulation.c add up to those of the classical scheme.
LEMMA Weights ==
  ASSUME NEW w \in Int, NEW k1 \in Int, NEW k2 \in Int, NEW k3 \in Int, NEW k4 \in Int
  PROVE  Rearranged(w, k1, k2, k3, k4) = Classical(w, k1, k2, k3, k4)
<1> DEFINE i == Serial!Inverse(3)
<1>1. P \in Nat /\ i \in Int
  BY Numbers, Third
<1>2. PICK q \in Int : i * 3 = P * q + 1
  <2>1. i * 3 \in Int
    BY <1>1
  <2>2. i * 3 = P * ((i * 3) \div P) + ((i * 3) % P) /\ (i * 3) \div P \in Int
    BY <2>1, Division
  <2> QED
    BY <2>2, Third
<1> HIDE DEF i
<1>3. \A a \in Int : \E p \in Int : a % P = a + P * p
  <2>1. ASSUME NEW a \in Int
        PROVE  \E p \in Int : a % P = a + P * p
    <3>1. a = P * (a \div P) + (a % P) /\ a % P \in 0..(P-1) /\ a \div P \in Int
      BY Division
    <3>2. a % P = a + P * (- (a \div P)) /\ - (a \div P) \in Int
      BY <3>1, <1>1
    <3> QED
      BY <3>2
  <2> QED
    BY <2>1
<1>4. PICK p1 \in Int : (w + 1 * k1) % P = (w + 1 * k1) + P * p1
  BY <1>3
<1>5. PICK p2 \in Int : (w + 1 * k2) % P = (w + 1 * k2) + P * p2
  BY <1>3
<1>6. PICK p3 \in Int : (w + 2 * k3) % P = (w + 2 * k3) + P * p3
  BY <1>3
<1> DEFINE s == k1 + 2 * k2 + 2 * k3 + k4
           l == ((w + 1 * k1) % P) - w + 2 * ((w + 1 * k2) % P) + ((w + 2 * k3) % P) + k4
           p == p1 + 2 * p2 + p3
<1>7. s \in Int /\ p \in Int /\ l = 3 * w + s + P * p
  BY <1>1, <1>4, <1>5, <1>6
<1> HIDE DEF s, l, p
<1>8. l * i = (w + s * i) + P * (q * w + p * i)
  <2>1. l * i = (i * 3) * w + s * i + P * (p * i)
    BY <1>1, <1>7
  <2>2. (i * 3) * w = w + P * (q * w)
    BY <1>1, <1>2
  <2> QED
    BY <1>1, <1>2, <1>7, <2>1, <2>2
<1>9. w + s * i \in Int /\ q * w + p * i \in Int
  BY <1>1, <1>2, <1>7
<1>10. (l * i) % P = (w + s * i) % P
  BY <1>8, <1>9, Shift
<1> QED
  BY <1>10 DEF l, s, i, Rearranged, Classical

\* A field and its four slopes give the field of the classical scheme,
Averaged(w, k1, k2, k3, k4) ==
  [e \in Elem |-> (w[e] + (k1[e] + 2 * k2[e] + 2 * k3[e] + k4[e]) * Serial!Inverse(3)) % P]

LEMMA FinalIs ==
  ASSUME NEW w \in Fields, NEW k1 \in Fields, NEW k2 \in Fields, NEW k3 \in Fields, NEW k4 \in Fields
  PROVE  Serial!RK4_final_inplace(w, Serial!RK_out(w, 1, k1), Serial!RK_out(w, 1, k2),
                                  Serial!RK_out(w, 2, k3), k4)
           = Averaged(w, k1, k2, k3, k4)
<1> DEFINE l2 == Serial!RK_out(w, 1, k1)
           l3 == Serial!RK_out(w, 1, k2)
           l4 == Serial!RK_out(w, 2, k3)
<1>1. \A e \in Elem : /\ l2[e] = (w[e] + 1 * k1[e]) % P
                      /\ l3[e] = (w[e] + 1 * k2[e]) % P
                      /\ l4[e] = (w[e] + 2 * k3[e]) % P
  BY OutIs
<1> HIDE DEF l2, l3, l4
<1>2. Serial!RK4_final_inplace(w, l2, l3, l4, k4)
        = [e \in Elem |-> ((l2[e] - w[e] + 2 * l3[e] + l4[e] + k4[e]) * Serial!Inverse(3)) % P]
  BY DEF Serial!RK4_final_inplace, Serial!Table
<1>3. ASSUME NEW e \in Elem
      PROVE  ((l2[e] - w[e] + 2 * l3[e] + l4[e] + k4[e]) * Serial!Inverse(3)) % P
               = (w[e] + (k1[e] + 2 * k2[e] + 2 * k3[e] + k4[e]) * Serial!Inverse(3)) % P
  <2> DEFINE a == w[e]  a1 == k1[e]  a2 == k2[e]  a3 == k3[e]  a4 == k4[e]
  <2>1. a \in Int /\ a1 \in Int /\ a2 \in Int /\ a3 \in Int /\ a4 \in Int
    BY Numbers DEF Fields
  <2>2. /\ l2[e] = (a + 1 * a1) % P
        /\ l3[e] = (a + 1 * a2) % P
        /\ l4[e] = (a + 2 * a3) % P
    BY <1>1
  <2> HIDE DEF a, a1, a2, a3, a4
  <2>3. Rearranged(a, a1, a2, a3, a4) = Classical(a, a1, a2, a3, a4)
    BY <2>1, Weights
  <2>4. ((l2[e] - a + 2 * l3[e] + l4[e] + a4) * Serial!Inverse(3)) % P
          = (a + (a1 + 2 * a2 + 2 * a3 + a4) * Serial!Inverse(3)) % P
    BY <2>2, <2>3 DEF Rearranged, Classical
  <2> QED
    BY <2>4 DEF a, a1, a2, a3, a4
<1> QED
  BY <1>2, <1>3 DEF l2, l3, l4, Averaged

\* and a field.
LEMMA FinalType ==
  ASSUME NEW w \in Fields, NEW k1 \in Fields, NEW k2 \in Fields, NEW k3 \in Fields, NEW k4 \in Fields
  PROVE  Averaged(w, k1, k2, k3, k4) \in Fields
<1>1. ASSUME NEW e \in Elem
      PROVE  (w[e] + (k1[e] + 2 * k2[e] + 2 * k3[e] + k4[e]) * Serial!Inverse(3)) % P \in Value
  <2>1. w[e] \in Int /\ k1[e] \in Int /\ k2[e] \in Int /\ k3[e] \in Int /\ k4[e] \in Int
    BY Numbers DEF Fields
  <2>2. Serial!Inverse(3) \in Int
    BY Numbers, Third
  <2> DEFINE i == Serial!Inverse(3)
  <2> HIDE DEF i
  <2>3. i \in Int
    BY <2>2 DEF i
  <2>4. w[e] + (k1[e] + 2 * k2[e] + 2 * k3[e] + k4[e]) * i \in Int
    BY <2>1, <2>3
  <2>5. (w[e] + (k1[e] + 2 * k2[e] + 2 * k3[e] + k4[e]) * i) % P \in Value
    BY <2>4, Residue
  <2> QED
    BY <2>5 DEF i
<1> QED
  BY <1>1 DEF Fields, Averaged

\* The scheme simulation.c arranges is the classical one, from every field and at
\* every time.
LEMMA Rearranging ==
  ASSUME conf \in Confs, NEW w \in Fields, NEW t \in Int
  PROVE  Serial!RK4Step(w, t) = Serial!ClassicalRK4(w, t)
<1> DEFINE k1 == DtFields(w, t)
           l2 == Serial!RK_out(w, 1, k1)
           k2 == DtFields(l2, t + 1)
           l3 == Serial!RK_out(w, 1, k2)
           k3 == DtFields(l3, t + 1)
           l4 == Serial!RK_out(w, 2, k3)
           k4 == DtFields(l4, t + 2)
<1>1. t + 1 \in Int /\ t + 2 \in Int /\ 1 \in Int /\ 2 \in Int
  OBVIOUS
<1>2. k1 \in Fields
  BY DtFieldsType
<1>3. l2 \in Fields
  BY <1>1, <1>2, OutType
<1>4. k2 \in Fields
  BY <1>1, <1>3, DtFieldsType
<1>5. l3 \in Fields
  BY <1>1, <1>4, OutType
<1>6. k3 \in Fields
  BY <1>1, <1>5, DtFieldsType
<1>7. l4 \in Fields
  BY <1>1, <1>6, OutType
<1>8. k4 \in Fields
  BY <1>1, <1>7, DtFieldsType
<1>9. Serial!RK4Step(w, t) = Serial!RK4_final_inplace(w, l2, l3, l4, k4)
  BY DEF Serial!RK4Step
<1>10. Serial!ClassicalRK4(w, t)
         = Averaged(w, k1, k2, k3, k4)
  BY DEF Serial!ClassicalRK4, Serial!Table, Averaged
<1> HIDE DEF k1, k2, k3, k4
<1> QED
  BY <1>2, <1>4, <1>6, <1>8, <1>9, <1>10, FinalIs

\* The states the stages start from: all take the derivatives of RK4 at the time of
\* the beginning of the step, as RK4_CL does.
Stage1(w, t) == Serial!RK_out(w, 1, DtFields(w, t))
Stage2(w, t) == Serial!RK_out(w, 1, DtFields(Stage1(w, t), t))
Stage3(w, t) == Serial!RK_out(w, 2, DtFields(Stage2(w, t), t))

LEMMA StagesType ==
  ASSUME conf \in Confs, NEW w \in Fields, NEW t \in Int
  PROVE  Stage1(w, t) \in Fields /\ Stage2(w, t) \in Fields /\ Stage3(w, t) \in Fields
<1>1. Stage1(w, t) \in Fields
  <2>1. DtFields(w, t) \in Fields
    BY DtFieldsType
  <2> QED
    BY <2>1, OutType DEF Stage1
<1>2. Stage2(w, t) \in Fields
  <2>1. DtFields(Stage1(w, t), t) \in Fields
    BY <1>1, DtFieldsType
  <2> QED
    BY <2>1, OutType DEF Stage2
<1>3. Stage3(w, t) \in Fields
  <2>1. DtFields(Stage2(w, t), t) \in Fields
    BY <1>2, DtFieldsType
  <2> QED
    BY <2>1, OutType DEF Stage3
<1> QED
  BY <1>1, <1>2, <1>3

\* A step, from these states.
LEMMA StepIs ==
  ASSUME conf \in Confs, NEW w \in Fields, NEW t \in Int
  PROVE  /\ conf.scheme = "RK2" =>
              StepFrom(w, t) = Serial!RK_in(w, 2, DtFields(Stage1(w, t), t + 1))
         /\ conf.scheme = "RK4" =>
              StepFrom(w, t) = Serial!RK4_final_inplace(w, Stage1(w, t), Stage2(w, t), Stage3(w, t),
                                                        DtFields(Stage3(w, t), t))
         /\ StepFrom(w, t) \in Fields
<1> DEFINE k1 == DtFields(w, t)
           k2 == DtFields(Stage1(w, t), t)
           k3 == DtFields(Stage2(w, t), t)
           k4 == DtFields(Stage3(w, t), t)
           r2 == DtFields(Stage1(w, t), t + 1)
<1>1. Stage1(w, t) \in Fields /\ Stage2(w, t) \in Fields /\ Stage3(w, t) \in Fields /\ t + 1 \in Int
  BY StagesType
<1>2. k1 \in Fields /\ k2 \in Fields /\ k3 \in Fields /\ k4 \in Fields
  BY <1>1, DtFieldsType
<1>3. r2 \in Fields
  BY <1>1, DtFieldsType
<1>4. CASE conf.scheme = "RK2"
  <2>1. StepFrom(w, t) = Serial!RK_out(w, 2, r2)
    BY <1>4 DEF StepFrom, Serial!RK2Step, Stage1, Serial!RK_in
  <2>2. Serial!RK_in(w, 2, r2) = Serial!RK_out(w, 2, r2)
    BY DEF Serial!RK_in
  <2>3. Serial!RK_out(w, 2, r2) \in Fields
    <3> HIDE DEF r2
    <3> QED
      BY <1>3, OutType
  <2> QED
    BY <1>4, <2>1, <2>2, <2>3
<1>5. CASE conf.scheme = "RK4"
  <2>1. StepFrom(w, t) = Frozen(t)!ClassicalRK4(w, t)
    BY <1>5 DEF StepFrom
  <2>2. Frozen(t)!ClassicalRK4(w, t)
          = Averaged(w, k1, k2, k3, k4)
    BY DEF Frozen!ClassicalRK4, Frozen!RK_out, Frozen!Table, Frozen!Inverse, Serial!Inverse,
           Stage1, Stage2, Stage3, Serial!RK_out, Serial!Table, Averaged
  <2>3. /\ Stage1(w, t) = Serial!RK_out(w, 1, k1)
        /\ Stage2(w, t) = Serial!RK_out(w, 1, k2)
        /\ Stage3(w, t) = Serial!RK_out(w, 2, k3)
    BY DEF Stage1, Stage2, Stage3
  <2> HIDE DEF k1, k2, k3, k4
  <2>4. Serial!RK4_final_inplace(w, Stage1(w, t), Stage2(w, t), Stage3(w, t), k4)
          = Averaged(w, k1, k2, k3, k4)
    BY <1>2, <2>3, FinalIs
  <2>5. Averaged(w, k1, k2, k3, k4) \in Fields
    BY <1>2, FinalType
  <2> QED
    BY <1>5, <2>1, <2>2, <2>4, <2>5 DEF k4
<1>6. conf.scheme \in {"RK2", "RK4"}
  BY ConfIs
<1> QED
  BY <1>4, <1>5, <1>6

\* The states of the serial scheme.
LEMMA StateAfterIs ==
  ASSUME conf \in Confs
  PROVE  /\ \A n \in Nat : StateAfter[n] \in Fields
         /\ StateAfter[0] = conf.w0
         /\ \A n \in Nat : StateAfter[n + 1] = StepFrom(StateAfter[n], 2 * n)
<1> DEFINE F == [x \in Nat \X Fields |-> StepFrom(x[2], 2 * x[1])]
<1>1. F \in [Nat \X Fields -> Fields]
  <2>1. ASSUME NEW x \in Nat \X Fields
        PROVE  StepFrom(x[2], 2 * x[1]) \in Fields
    <3>1. x[2] \in Fields /\ 2 * x[1] \in Int
      OBVIOUS
    <3> QED
      BY <3>1, StepIs
  <2> QED
    BY <2>1
<1>2. conf.w0 \in Fields
  BY ConfIs
<1>3. \A n \in Nat, w \in Fields : F[<< n, w >>] = StepFrom(w, 2 * n)
  OBVIOUS
<1> DEFINE Is(h) == h = [n \in Nat |-> IF n = 0 THEN conf.w0 ELSE StepFrom(h[n - 1], 2 * (n - 1))]
<1>4. PICK g : Recurs(g, Fields, conf.w0, F)
  <2> HIDE DEF F
  <2> QED
    BY <1>1, <1>2, Recursion
<1>5. /\ g \in [Nat -> Fields] /\ g[0] = conf.w0
      /\ \A n \in Nat : g[n + 1] = StepFrom(g[n], 2 * n)
  <2>1. g \in [Nat -> Fields] /\ g[0] = conf.w0 /\ \A n \in Nat : g[n + 1] = F[<< n, g[n] >>]
    BY <1>4 DEF Recurs
  <2> HIDE DEF F
  <2> QED
    BY <1>3, <2>1
<1>6. Is(g)
  <2>1. ASSUME NEW n \in Nat
        PROVE  g[n] = IF n = 0 THEN conf.w0 ELSE StepFrom(g[n - 1], 2 * (n - 1))
    <3>1. CASE n = 0
      BY <3>1, <1>5
    <3>2. CASE n # 0
      <4>1. n - 1 \in Nat /\ (n - 1) + 1 = n
        BY <3>2
      <4>2. g[(n - 1) + 1] = StepFrom(g[n - 1], 2 * (n - 1))
        BY <4>1, <1>5
      <4> QED
        BY <3>2, <4>1, <4>2
    <3> QED
      BY <3>1, <3>2
  <2> QED
    BY <1>5, <2>1
<1>7. StateAfter = CHOOSE h : Is(h)
  BY DEF StateAfter
<1>8. Is(StateAfter)
  <2> HIDE DEF Is
  <2> QED
    BY <1>6, <1>7
<1>9. ASSUME NEW n \in Nat
      PROVE  StateAfter[n] = IF n = 0 THEN conf.w0 ELSE StepFrom(StateAfter[n - 1], 2 * (n - 1))
  <2> DEFINE h == StateAfter
  <2>1. h = [i \in Nat |-> IF i = 0 THEN conf.w0 ELSE StepFrom(h[i - 1], 2 * (i - 1))]
    BY <1>8
  <2> HIDE DEF h
  <2>2. h[n] = IF n = 0 THEN conf.w0 ELSE StepFrom(h[n - 1], 2 * (n - 1))
    BY <2>1
  <2> QED
    BY <2>2 DEF h
<1>10. StateAfter[0] = conf.w0
  BY <1>9
<1>11. ASSUME NEW n \in Nat
       PROVE  StateAfter[n + 1] = StepFrom(StateAfter[n], 2 * n)
  <2>1. n + 1 \in Nat /\ n + 1 # 0 /\ (n + 1) - 1 = n
    OBVIOUS
  <2> QED
    BY <2>1, <1>9
<1> DEFINE A == {n \in Nat : StateAfter[n] \in Fields}
<1>12. 0 \in A /\ \A n \in Nat : n \in A => n + 1 \in A
  <2>1. ASSUME NEW n \in Nat, StateAfter[n] \in Fields
        PROVE  StateAfter[n + 1] \in Fields
    <3>1. StepFrom(StateAfter[n], 2 * n) \in Fields
      <4>1. 2 * n \in Int
        OBVIOUS
      <4> QED
        BY <2>1, <4>1, StepIs
    <3> QED
      BY <3>1, <1>11
  <2>2. StateAfter[0] \in Fields
    BY <1>2, <1>10
  <2> DEFINE h == StateAfter
  <2>3. h[0] \in Fields /\ \A n \in Nat : h[n] \in Fields => h[n + 1] \in Fields
    BY <2>1, <2>2
  <2> HIDE DEF h
  <2>4. 0 \in {n \in Nat : h[n] \in Fields}
    BY <2>3
  <2>5. \A n \in Nat : n \in {i \in Nat : h[i] \in Fields} => n + 1 \in {i \in Nat : h[i] \in Fields}
    BY <2>3
  <2> QED
    BY <2>4, <2>5 DEF h
<1>13. Nat \subseteq A
  <2> HIDE DEF A
  <2> QED
    BY <1>12, NaturalInduction
<1> QED
  BY <1>10, <1>11, <1>13

-----------------------------------------------------------------------------
(* What the queue still has to do.                                         *)

\* The commands of q from the i-th on that end a step.
Ends(q, i) == {n \in i..Len(q) : q[n].run.k \in LastStages}

\* The commands of q take the buffers from m to M: R holds them before each command.
\* The field is always that of the serial scheme, after N steps at the end.
Passes(R, q, m, N, M) ==
  /\ R[1] = m /\ R[Len(q) + 1] = M
  /\ \A i \in 1..Len(q) : R[i + 1] = memAfter(q[i].run, R[i])
  /\ \A i \in 1..(Len(q) + 1) : R[i]["w"] = StateAfter[N - Cardinality(Ends(q, i))]

Leads(s, m, N, M) ==
  /\ "queue" \in DOMAIN s
  /\ \E C : s.queue \in Seq(C)
  /\ \E R : Passes(R, s.queue, m, N, M)

LEMMA EndsFinite ==
  ASSUME NEW C, NEW q \in Seq(C), NEW i \in Nat \ {0}
  PROVE  /\ Cardinality(Ends(q, i)) \in Nat /\ IsFiniteSet(Ends(q, i))
         /\ i > Len(q) => Cardinality(Ends(q, i)) = 0
<1>1. Len(q) \in Nat
  OBVIOUS
<1>2. IsFiniteSet(i..Len(q))
  BY <1>1, FS_Interval
<1>3. Ends(q, i) \subseteq i..Len(q)
  BY DEF Ends
<1>4. IsFiniteSet(Ends(q, i)) /\ Cardinality(Ends(q, i)) \in Nat
  BY <1>2, <1>3, FS_Subset, FS_CardinalityType
<1>5. ASSUME i > Len(q)
      PROVE  Cardinality(Ends(q, i)) = 0
  <2>1. i..Len(q) = {}
    BY <1>1, <1>5
  <2>2. Ends(q, i) = {}
    BY <1>3, <2>1
  <2> QED
    BY <2>2, FS_EmptySet
<1> QED
  BY <1>4, <1>5

\* A command goes behind those of the queue,
LEMMA Behind ==
  ASSUME NEW C, NEW q \in Seq(C), NEW x
  PROVE  /\ Append(q, x) \in Seq(C \cup {x}) /\ Len(Append(q, x)) = Len(q) + 1
         /\ Append(q, x)[Len(q) + 1] = x /\ \A i \in 1..Len(q) : Append(q, x)[i] = q[i]
<1>1. q \in Seq(C \cup {x})
  <2>1. C \subseteq C \cup {x}
    OBVIOUS
  <2> QED
    BY <2>1, SeqDef
<1> QED
  BY <1>1

LEMMA EnqueuedQueue ==
  ASSUME NEW s, "queue" \in DOMAIN s, NEW c, NEW wait, NEW slot
  PROVE  /\ "queue" \in DOMAIN clEnqueueNDRangeKernel(s, c, wait, slot)
         /\ \E x : x.run = c /\ clEnqueueNDRangeKernel(s, c, wait, slot).queue = Append(s.queue, x)
<1> DEFINE t == clEnqueueNDRangeKernel(s, c, wait, slot)
           x == [run |-> c, wait |-> {s.ev[y] : y \in wait}]
<1>1. "queue" \in DOMAIN t /\ t.queue = Append(s.queue, x)
  BY DEF clEnqueueNDRangeKernel
<1>2. x.run = c
  OBVIOUS
<1> HIDE DEF x, t
<1>3. \E y : y.run = c /\ t.queue = Append(s.queue, y)
  BY <1>1, <1>2
<1> QED
  BY <1>1, <1>3 DEF t

LEMMA CompletedQueue ==
  ASSUME NEW s, "queue" \in DOMAIN s, NEW slot
  PROVE  /\ "queue" \in DOMAIN clSetUserEventStatus(s, slot)
         /\ clSetUserEventStatus(s, slot).queue = s.queue
BY DEF clSetUserEventStatus

LEMMA ExecutedQueue ==
  ASSUME NEW s, "queue" \in DOMAIN s
  PROVE  /\ "queue" \in DOMAIN [s EXCEPT !.queue = Tail(@)]
         /\ [s EXCEPT !.queue = Tail(@)].queue = Tail(s.queue)
OBVIOUS

\* and those that end a step are one more, or not.
LEMMA EndsBehind ==
  ASSUME NEW C, NEW q \in Seq(C), NEW x, NEW i \in 1..(Len(q) + 1)
  PROVE  Cardinality(Ends(Append(q, x), i))
           = Cardinality(Ends(q, i)) + (IF x.run.k \in LastStages THEN 1 ELSE 0)
<1> DEFINE p == Append(q, x)
           n == Len(q)
<1>1. n \in Nat /\ Len(p) = n + 1 /\ p[n + 1] = x /\ \A j \in 1..n : p[j] = q[j]
  BY Behind
<1>2. i \in Nat \ {0} /\ i <= n + 1
  BY <1>1
<1>3. Cardinality(Ends(q, i)) \in Nat /\ IsFiniteSet(Ends(q, i))
  BY <1>2, EndsFinite
<1> HIDE DEF p, n
<1>4. i..(n + 1) = (i..n) \cup {n + 1} /\ i..n \subseteq 1..n /\ n + 1 \notin i..n
  BY <1>1, <1>2
<1>5. \A S : Ends(p, i) = {j \in i..(n + 1) : p[j].run.k \in LastStages}
  BY <1>1 DEF Ends
<1>6. Ends(q, i) = {j \in i..n : q[j].run.k \in LastStages}
  BY DEF Ends, n
<1>7. CASE x.run.k \in LastStages
  <2>1. Ends(p, i) = Ends(q, i) \cup {n + 1} /\ n + 1 \notin Ends(q, i)
    BY <1>1, <1>4, <1>5, <1>6, <1>7
  <2>2. Cardinality(Ends(q, i) \cup {n + 1}) = Cardinality(Ends(q, i)) + 1
    BY <1>3, <2>1, FS_AddElement
  <2> QED
    BY <1>7, <2>1, <2>2 DEF p
<1>8. CASE x.run.k \notin LastStages
  <2>1. Ends(p, i) = Ends(q, i)
    BY <1>1, <1>4, <1>5, <1>6, <1>8
  <2> QED
    BY <1>3, <1>8, <2>1 DEF p
<1> QED
  BY <1>7, <1>8

\* A command of the host.
LEMMA Enqueued ==
  ASSUME NEW s, NEW m, NEW N \in Nat, NEW M, Leads(s, m, N, M), NEW c, NEW wait, NEW slot, NEW N2,
         \/ c.k \notin LastStages /\ N2 = N
         \/ c.k \in LastStages /\ N2 = N + 1,
         memAfter(c, M)["w"] = StateAfter[N2]
  PROVE  Leads(clEnqueueNDRangeKernel(s, c, wait, slot), m, N2, memAfter(c, M))
<1> DEFINE q == s.queue
           n == Len(q)
           s2 == clEnqueueNDRangeKernel(s, c, wait, slot)
           M2 == memAfter(c, M)
<1>1. "queue" \in DOMAIN s
  BY DEF Leads
<1>2. PICK C : q \in Seq(C)
  BY DEF Leads
<1>3. PICK R : Passes(R, q, m, N, M)
  BY DEF Leads
<1>4. PICK x : x.run = c /\ s2.queue = Append(q, x)
  BY <1>1, EnqueuedQueue
<1>5. "queue" \in DOMAIN s2
  BY <1>1, EnqueuedQueue
<1> HIDE DEF q, s2
<1>6. /\ n \in Nat /\ Append(q, x) \in Seq(C \cup {x}) /\ Len(Append(q, x)) = n + 1
      /\ Append(q, x)[n + 1] = x /\ \A i \in 1..n : Append(q, x)[i] = q[i]
  BY <1>2, Behind
<1> DEFINE p == Append(q, x)
           T == [i \in 1..(n + 2) |-> IF i = n + 2 THEN M2 ELSE R[i]]
<1>7. /\ R[1] = m /\ R[n + 1] = M
      /\ \A i \in 1..n : R[i + 1] = memAfter(q[i].run, R[i])
      /\ \A i \in 1..(n + 1) : R[i]["w"] = StateAfter[N - Cardinality(Ends(q, i))]
  BY <1>3 DEF Passes
<1>8. n + 2 \in 1..(n + 2) /\ \A i \in 1..(n + 1) : i \in 1..(n + 2) /\ i # n + 2
  BY <1>6
<1>9. T[n + 2] = M2 /\ \A i \in 1..(n + 1) : T[i] = R[i]
  BY <1>8
<1>10. \A i \in 1..(n + 1) :
         Cardinality(Ends(p, i)) = Cardinality(Ends(q, i)) + (IF c.k \in LastStages THEN 1 ELSE 0)
  BY <1>2, <1>4, EndsBehind
<1>11. Cardinality(Ends(p, n + 2)) = 0
  <2>1. n + 2 \in Nat \ {0} /\ n + 2 > Len(p)
    BY <1>6
  <2> QED
    BY <1>6, <2>1, EndsFinite
<1>12. \A i \in 1..(n + 1) : Cardinality(Ends(q, i)) \in Nat
  <2>1. \A i \in 1..(n + 1) : i \in Nat \ {0}
    BY <1>6
  <2> QED
    BY <1>2, <2>1, EndsFinite
<1> HIDE DEF T, M2, n, p
<1>13. T[1] = m /\ T[(n + 1) + 1] = M2
  <2>1. 1 \in 1..(n + 1) /\ (n + 1) + 1 = n + 2
    BY <1>6
  <2> QED
    BY <1>7, <1>9, <2>1
<1>14. ASSUME NEW i \in 1..(n + 1)
       PROVE  T[i + 1] = memAfter(p[i].run, T[i])
  <2>1. CASE i = n + 1
    <3>1. i + 1 = n + 2 /\ T[i] = M /\ p[i] = x
      BY <1>6, <1>7, <1>9, <2>1 DEF p
    <3> QED
      BY <1>4, <1>9, <3>1 DEF M2
  <2>2. CASE i # n + 1
    <3>1. i \in 1..n /\ i + 1 \in 1..(n + 1)
      BY <1>6, <2>2
    <3>2. p[i] = q[i] /\ T[i] = R[i] /\ T[i + 1] = R[i + 1]
      BY <1>6, <1>9, <3>1 DEF p
    <3> QED
      BY <1>7, <3>1, <3>2
  <2> QED
    BY <2>1, <2>2
<1>15. ASSUME NEW i \in 1..(n + 2)
       PROVE  T[i]["w"] = StateAfter[N2 - Cardinality(Ends(p, i))]
  <2>1. CASE i = n + 2
    <3>1. N2 - 0 = N2
      OBVIOUS
    <3> QED
      BY <1>9, <1>11, <2>1, <3>1 DEF M2
  <2>2. CASE i # n + 2
    <3>1. i \in 1..(n + 1)
      BY <1>6, <2>2
    <3>2. N2 - Cardinality(Ends(p, i)) = N - Cardinality(Ends(q, i))
      BY <1>10, <1>12, <3>1
    <3> QED
      BY <1>7, <1>9, <3>1, <3>2
  <2> QED
    BY <2>1, <2>2
<1>16. Passes(T, p, m, N2, M2)
  <2>1. Len(p) = n + 1 /\ (n + 1) + 1 = n + 2
    BY <1>6 DEF p
  <2> QED
    BY <1>13, <1>14, <1>15, <2>1 DEF Passes
<1>17. s2.queue = p /\ p \in Seq(C \cup {x})
  BY <1>4, <1>6 DEF p
<1>18. Leads(s2, m, N2, M2)
  BY <1>5, <1>16, <1>17 DEF Leads
<1> QED
  BY <1>18 DEF s2, M2

\* The status of a user event does not disturb it.
LEMMA Completed ==
  ASSUME NEW s, NEW m, NEW N, NEW M, Leads(s, m, N, M), NEW slot
  PROVE  Leads(clSetUserEventStatus(s, slot), m, N, M)
<1>1. "queue" \in DOMAIN s
  BY DEF Leads
<1>2. /\ "queue" \in DOMAIN clSetUserEventStatus(s, slot)
      /\ clSetUserEventStatus(s, slot).queue = s.queue
  BY <1>1, CompletedQueue
<1> QED
  BY <1>2 DEF Leads

\* Without its head, the queue leads on from the buffers after that command.
LEMMA Executed ==
  ASSUME NEW s, NEW m, NEW N, NEW M, Leads(s, m, N, M), s.queue # << >>
  PROVE  Leads([s EXCEPT !.queue = Tail(@)], memAfter(Head(s.queue).run, m), N, M)
<1> DEFINE q == s.queue
           n == Len(q)
           p == Tail(q)
<1>1. PICK C : q \in Seq(C)
  BY DEF Leads
<1>2. PICK R : Passes(R, q, m, N, M)
  BY DEF Leads
<1>3. "queue" \in DOMAIN [s EXCEPT !.queue = Tail(@)] /\ [s EXCEPT !.queue = Tail(@)].queue = Tail(s.queue)
  <2>1. "queue" \in DOMAIN s
    BY DEF Leads
  <2> QED
    BY <2>1, ExecutedQueue
<1>4. q # << >>
  OBVIOUS
<1> HIDE DEF q
<1>5. /\ n \in Nat \ {0} /\ p \in Seq(C) /\ Len(p) = n - 1 /\ Head(q) = q[1]
      /\ \A i \in 1..(n - 1) : p[i] = q[i + 1]
  BY <1>1, <1>4, HeadTailProperties
<1> DEFINE T == [i \in 1..n |-> R[i + 1]]
<1> HIDE DEF n, p
<1>6. /\ R[1] = m /\ R[n + 1] = M
      /\ \A i \in 1..n : R[i + 1] = memAfter(q[i].run, R[i])
      /\ \A i \in 1..(n + 1) : R[i]["w"] = StateAfter[N - Cardinality(Ends(q, i))]
  BY <1>2 DEF Passes, n
<1>7. ASSUME NEW i \in 1..n
      PROVE  Cardinality(Ends(p, i)) = Cardinality(Ends(q, i + 1))
  <2> DEFINE A == Ends(p, i)
             B == Ends(q, i + 1)
             f == [j \in A |-> j + 1]
  <2>1. i \in Nat \ {0} /\ i + 1 \in Nat \ {0}
    BY <1>5
  <2>2. IsFiniteSet(A)
    BY <1>5, <2>1, EndsFinite
  <2>3. A = {j \in i..(n - 1) : p[j].run.k \in LastStages}
    BY <1>5 DEF Ends
  <2>4. B = {j \in (i + 1)..n : q[j].run.k \in LastStages}
    BY DEF Ends, n
  <2>5. \A j \in i..(n - 1) : j \in Int /\ p[j] = q[j + 1] /\ j + 1 \in (i + 1)..n
    BY <1>5
  <2>6. \A j \in (i + 1)..n : j \in Int /\ j - 1 \in i..(n - 1) /\ (j - 1) + 1 = j
    BY <1>5
  <2> HIDE DEF A, B
  <2>7. f \in [A -> B]
    BY <2>3, <2>4, <2>5
  <2>8. \A x \in A, y \in A : f[x] = f[y] => x = y
    BY <2>3, <2>5
  <2>9. \A y \in B : \E x \in A : f[x] = y
    <3>1. ASSUME NEW y \in B
          PROVE  \E x \in A : f[x] = y
      <4>1. y \in (i + 1)..n /\ q[y].run.k \in LastStages
        BY <2>4
      <4>2. y - 1 \in i..(n - 1) /\ (y - 1) + 1 = y
        BY <2>6, <4>1
      <4>3. p[y - 1] = q[y]
        BY <2>5, <4>2
      <4>4. y - 1 \in A
        BY <2>3, <4>1, <4>2, <4>3
      <4> QED
        BY <4>2, <4>4
    <3> QED
      BY <3>1
  <2>10. f \in Bijection(A, B)
    BY <2>7, <2>8, <2>9 DEF Bijection, Injection, Surjection, IsInjective
  <2>11. Cardinality(B) = Cardinality(A)
    BY <2>2, <2>10, FS_Bijection DEF ExistsBijection
  <2> QED
    BY <2>11 DEF A, B
<1>8. Passes(T, p, memAfter(Head(q).run, m), N, M)
  <2>1. T[1] = memAfter(Head(q).run, m)
    BY <1>5, <1>6
  <2>2. T[n] = M /\ n = (n - 1) + 1
    BY <1>5, <1>6
  <2>3. ASSUME NEW i \in 1..(n - 1)
        PROVE  T[i + 1] = memAfter(p[i].run, T[i])
    <3>1. i \in 1..n /\ i + 1 \in 1..n /\ p[i] = q[i + 1]
      BY <1>5
    <3> QED
      BY <1>6, <3>1
  <2>4. ASSUME NEW i \in 1..n
        PROVE  T[i]["w"] = StateAfter[N - Cardinality(Ends(p, i))]
    <3>1. i + 1 \in 1..(n + 1)
      BY <1>5
    <3> QED
      BY <1>6, <1>7, <3>1
  <2> HIDE DEF T
  <2> QED
    BY <1>5, <2>1, <2>2, <2>3, <2>4 DEF Passes
<1>9. [s EXCEPT !.queue = Tail(@)].queue = p
  BY <1>3 DEF p, q
<1> QED
  BY <1>3, <1>5, <1>8, <1>9 DEF Leads, q

\* The field is that of n steps.
At(M, n) == M["w"] = StateAfter[n]

\* Where it stands.
Ending(q) == {n \in DOMAIN q : q[n].run.k \in LastStages}

LEMMA OnTheWay ==
  ASSUME NEW s, NEW m, NEW N \in Nat, NEW M, Leads(s, m, N, M)
  PROVE  /\ At(m, N - Cardinality(Ending(s.queue)))
         /\ At(M, N)
         /\ s.queue = << >> => m = M
<1> DEFINE q == s.queue
<1>1. PICK C : q \in Seq(C)
  BY DEF Leads
<1>2. PICK R : Passes(R, q, m, N, M)
  BY DEF Leads
<1>3. DOMAIN q = 1..Len(q) /\ Len(q) \in Nat
  BY <1>1
<1>4. 1 \in 1..(Len(q) + 1) /\ Len(q) + 1 \in 1..(Len(q) + 1)
  BY <1>3
<1>5. Ending(q) = Ends(q, 1)
  BY <1>3 DEF Ends, Ending
<1>6. Cardinality(Ends(q, Len(q) + 1)) = 0
  <2>1. Len(q) + 1 \in Nat \ {0} /\ Len(q) + 1 > Len(q)
    BY <1>3
  <2> QED
    BY <1>1, <2>1, EndsFinite
<1>7. R[1] = m /\ R[Len(q) + 1] = M /\ \A i \in 1..(Len(q) + 1) : R[i]["w"] = StateAfter[N - Cardinality(Ends(q, i))]
  BY <1>2 DEF Passes
<1> HIDE DEF q
<1>8. m["w"] = StateAfter[N - Cardinality(Ends(q, 1))] /\ M["w"] = StateAfter[N - 0]
  BY <1>4, <1>6, <1>7
<1>9. N - 0 = N
  OBVIOUS
<1>10. q = << >> => m = M
  <2>1. Len(<< >>) = 0
    OBVIOUS
  <2> QED
    BY <1>7, <2>1
<1> QED
  BY <1>5, <1>8, <1>9, <1>10 DEF q, At

\* At the beginning there is nothing in it.
LEMMA NothingToDo ==
  ASSUME NEW s, "queue" \in DOMAIN s, s.queue = << >>, NEW m, NEW N \in Nat, m["w"] = StateAfter[N]
  PROVE  Leads(s, m, N, m)
<1> DEFINE R == [i \in 1..1 |-> m]
<1>1. << >> \in Seq({}) /\ Len(<< >>) = 0
  OBVIOUS
<1>2. Cardinality(Ends(<< >>, 1)) = 0
  <2>1. 1 \in Nat \ {0} /\ 1 > 0
    OBVIOUS
  <2> QED
    BY <1>1, <2>1, EndsFinite
<1>3. R[1] = m /\ 1..0 = {} /\ 1..(0 + 1) = {1} /\ 0 + 1 = 1 /\ N - 0 = N
  OBVIOUS
<1> HIDE DEF R
<1>4. Passes(R, << >>, m, N, m)
  BY <1>1, <1>2, <1>3 DEF Passes
<1> QED
  BY <1>1, <1>4 DEF Leads

-----------------------------------------------------------------------------
(* The kernels on the buffers.                                             *)

Memory == [Buffer -> Fields]

\* The buffers with another time derivative.
With(M, d) == [M EXCEPT !["dtw"] = d]

LEMMA WithIs ==
  ASSUME NEW M \in Memory, NEW d \in Fields
  PROVE  /\ With(M, d) \in Memory /\ With(M, d)["dtw"] = d
         /\ \A b \in Buffer \ {"dtw"} : With(M, d)[b] = M[b]
         /\ \A d2 : With(With(M, d), d2) = With(M, d2)
BY DEF With, Memory, Buffer

LEMMA BuffersAre ==
  ASSUME NEW M \in Memory
  PROVE  /\ M["w"] \in Fields /\ M["dtw"] \in Fields /\ M["l1"] \in Fields
         /\ M["l2"] \in Fields /\ M["l3"] \in Fields
BY DEF Memory, Buffer

\* A kernel that computes the derivative keeps the field.
LEMMA Derived ==
  ASSUME NEW s, NEW m, NEW N \in Nat, NEW M \in Memory, Leads(s, m, N, M), NEW c, NEW wait, NEW slot,
         NEW d \in Fields, dtwAfter(c, M[c.w], M["dtw"]) = d,
         c.k \in {"set_buffer_to_zero", "DGMacroCellInterface", "DGBoundary", "DGFlux", "DGVolume",
                  "DGMass", "DGSource"}
  PROVE  Leads(clEnqueueNDRangeKernel(s, c, wait, slot), m, N, With(M, d))
<1>1. memAfter(c, M) = [M EXCEPT !["dtw"] = dtwAfter(c, M[c.w], @)]
  BY DEF memAfter
<1>2. M = [b \in Buffer |-> M[b]] /\ "dtw" \in Buffer /\ "w" \in Buffer
  BY DEF Memory, Buffer
<1>3. memAfter(c, M) = With(M, d)
  BY <1>1, <1>2 DEF With
<1>4. With(M, d)["w"] = M["w"]
  BY <1>2, WithIs
<1>5. M["w"] = StateAfter[N]
  <2>1. At(M, N)
    BY OnTheWay
  <2> QED
    BY <2>1 DEF At
<1>6. c.k \notin LastStages
  BY DEF LastStages
<1>7. memAfter(c, M)["w"] = StateAfter[N]
  BY <1>3, <1>4, <1>5
<1>8. Leads(clEnqueueNDRangeKernel(s, c, wait, slot), m, N, memAfter(c, M))
  BY <1>6, <1>7, Enqueued
<1> QED
  BY <1>3, <1>8

\* The buffer a stage starts from.
LEMMA StageInputIs ==
  ASSUME stage \in 0..3
  PROVE  /\ StageInput \in Buffer \ {"dtw"}
         /\ stage = 0 => StageInput = "w"
         /\ stage = 1 => StageInput = "l1"
         /\ stage = 2 => StageInput = "l2"
         /\ stage = 3 => StageInput = "l3"
BY DEF StageInput, Buffer

\* What the faces of F bring to every element.
FluxIn(F, w, t) == [e \in Elem |-> Net(F, w, t, e) % P]

LEMMA FluxInType ==
  ASSUME conf \in Confs, NEW w \in Fields, NEW t \in Int, NEW F \in SUBSET DOMAIN conf.fL
  PROVE  FluxIn(F, w, t) \in Fields
<1>1. \A e \in Elem : Net(F, w, t, e) % P \in Value
  BY NetIsNumber, Residue
<1> QED
  BY <1>1 DEF FluxIn, Fields

\* Nothing at first,
LEMMA ZeroKernel ==
  ASSUME conf \in Confs, NEW w \in Fields, NEW t \in Int
  PROVE  set_buffer_to_zero = FluxIn({}, w, t)
<1>1. \A e \in Elem : Net({}, w, t, e) = 0
  BY NetOfNone
<1>2. 0 % P = 0
  BY PAssumption
<1> QED
  BY <1>1, <1>2 DEF FluxIn, set_buffer_to_zero

\* then one more face at a time.
LEMMA InterfaceKernel ==
  ASSUME conf \in Confs, NEW w \in Fields, NEW t \in Int, NEW F \in SUBSET DOMAIN conf.fL,
         NEW f \in DOMAIN conf.fL \ F, conf.fR[f] # -1, NEW c, c.f = f
  PROVE  DGMacroCellInterface(c, w, FluxIn(F, w, t)) = FluxIn(F \cup {f}, w, t)
<1> DEFINE x == FaceFlux(w, t)[f]
           l == conf.fL[f]
           r == conf.fR[f]
           d == FluxIn(F, w, t)
           n(e) == Net(F, w, t, e)
<1>1. l \in Elem /\ r \in Elem
  BY ConfIs
<1>2. x = NumFlux(w[l], w[r], 1)
  BY DEF FaceFlux
<1>3. x \in Int
  BY FluxIsNumber
<1>4. \A e \in Elem : n(e) \in Int
  BY NetIsNumber
<1>5. \A e \in Elem : Net(F \cup {f}, w, t, e) = n(e) + (IF r = e THEN x ELSE 0) - (IF l = e THEN x ELSE 0)
  BY NetGrows
<1>6. DGMacroCellInterface(c, w, d) = Add(Add(d, l, - x), r, x)
  BY <1>2 DEF DGMacroCellInterface
<1>7. d = [e \in Elem |-> n(e) % P]
  BY DEF FluxIn
<1> DEFINE u == Add(d, l, - x)
<1>8. u = [e \in Elem |-> IF e = l THEN ((n(e) % P) + (- x)) % P ELSE n(e) % P]
  BY <1>1, <1>7 DEF Add
<1> HIDE DEF d, x, l, r, n, u
<1>9. Add(u, r, x) = [e \in Elem |-> IF e = r THEN (u[e] + x) % P ELSE u[e]]
  BY <1>1, <1>8 DEF Add
<1>10. ASSUME NEW e \in Elem
       PROVE  (IF e = r THEN (u[e] + x) % P ELSE u[e]) = Net(F \cup {f}, w, t, e) % P
  <2> DEFINE a == n(e)
  <2>1. a \in Int /\ - x \in Int /\ a + (- x) \in Int /\ a + (- x) = a - x
    BY <1>3, <1>4
  <2>2. Net(F \cup {f}, w, t, e) = a + (IF r = e THEN x ELSE 0) - (IF l = e THEN x ELSE 0)
    BY <1>5
  <2>3. u[e] = IF e = l THEN ((a % P) + (- x)) % P ELSE a % P
    BY <1>8
  <2> HIDE DEF a
  <2>4. ((a % P) + (- x)) % P = (a - x) % P
    BY <2>1, SumMod
  <2>5. ((a % P) + x) % P = (a + x) % P
    BY <2>1, <1>3, SumMod
  <2>6. (((a - x) % P) + x) % P = ((a - x) + x) % P
    BY <2>1, <1>3, SumMod
  <2>7. CASE e = r
    <3>1. CASE e = l
      <4>1. Net(F \cup {f}, w, t, e) = (a - x) + x
        BY <2>1, <2>2, <2>7, <3>1, <1>3
      <4> QED
        BY <2>3, <2>4, <2>6, <2>7, <3>1, <4>1
    <3>2. CASE e # l
      <4>1. Net(F \cup {f}, w, t, e) = a + x
        BY <2>1, <2>2, <2>7, <3>2, <1>3
      <4> QED
        BY <2>3, <2>5, <2>7, <3>2, <4>1
    <3> QED
      BY <3>1, <3>2
  <2>8. CASE e # r
    <3>1. CASE e = l
      <4>1. Net(F \cup {f}, w, t, e) = a - x
        BY <2>1, <2>2, <2>8, <3>1, <1>3
      <4> QED
        BY <2>3, <2>4, <2>8, <3>1, <4>1
    <3>2. CASE e # l
      <4>1. Net(F \cup {f}, w, t, e) = a
        BY <2>1, <2>2, <2>8, <3>2, <1>3
      <4> QED
        BY <2>3, <2>8, <3>2, <4>1
    <3> QED
      BY <3>1, <3>2
  <2> QED
    BY <2>7, <2>8
<1>11. Add(u, r, x) = [e \in Elem |-> Net(F \cup {f}, w, t, e) % P]
  BY <1>9, <1>10
<1> QED
  BY <1>6, <1>11 DEF FluxIn, d, u

LEMMA BoundaryKernel ==
  ASSUME conf \in Confs, NEW w \in Fields, NEW t \in Int, NEW F \in SUBSET DOMAIN conf.fL,
         NEW f \in DOMAIN conf.fL \ F, conf.fR[f] = -1, NEW c, c.f = f, c.t = t
  PROVE  DGBoundary(c, w, FluxIn(F, w, t)) = FluxIn(F \cup {f}, w, t)
<1> DEFINE x == FaceFlux(w, t)[f]
           l == conf.fL[f]
           d == FluxIn(F, w, t)
           n(e) == Net(F, w, t, e)
<1>1. l \in Elem /\ -1 \notin Elem
  BY ConfIs
<1>2. x = BoundaryFlux(t, w[l])
  BY DEF FaceFlux
<1>3. x \in Int
  BY FluxIsNumber
<1>4. \A e \in Elem : n(e) \in Int
  BY NetIsNumber
<1>5. \A e \in Elem : Net(F \cup {f}, w, t, e)
                        = n(e) + (IF conf.fR[f] = e THEN x ELSE 0) - (IF l = e THEN x ELSE 0)
  BY NetGrows
<1>6. DGBoundary(c, w, d) = Add(d, l, - x)
  BY <1>2 DEF DGBoundary
<1>7. d = [e \in Elem |-> n(e) % P]
  BY DEF FluxIn
<1>8. Add(d, l, - x) = [e \in Elem |-> IF e = l THEN ((n(e) % P) + (- x)) % P ELSE n(e) % P]
  BY <1>1, <1>7 DEF Add
<1> HIDE DEF d, x, l, n
<1>9. ASSUME NEW e \in Elem
      PROVE  (IF e = l THEN ((n(e) % P) + (- x)) % P ELSE n(e) % P) = Net(F \cup {f}, w, t, e) % P
  <2> DEFINE a == n(e)
  <2>1. a \in Int /\ - x \in Int /\ a + (- x) = a - x
    BY <1>3, <1>4
  <2>2. Net(F \cup {f}, w, t, e) = a + 0 - (IF l = e THEN x ELSE 0)
    BY <1>1, <1>5
  <2> HIDE DEF a
  <2>3. ((a % P) + (- x)) % P = (a - x) % P
    BY <2>1, SumMod
  <2>4. Net(F \cup {f}, w, t, e) = IF e = l THEN a - x ELSE a
    BY <2>1, <2>2, <1>3
  <2>5. (IF e = l THEN ((a % P) + (- x)) % P ELSE a % P) = Net(F \cup {f}, w, t, e) % P
    BY <2>3, <2>4
  <2> QED
    BY <2>5 DEF a
<1>10. Add(d, l, - x) = [e \in Elem |-> Net(F \cup {f}, w, t, e) % P]
  BY <1>8, <1>9
<1> QED
  BY <1>6, <1>10 DEF FluxIn, d

\* The buffers with another time derivative of one element.
Cell(M, e, v) == With(M, [M["dtw"] EXCEPT ![e] = v])

\* A kernel of an element takes its derivative from v to u.
LEMMA CellDerived ==
  ASSUME NEW s, NEW m, NEW N \in Nat, NEW M \in Memory, NEW e \in Elem, NEW v \in Value,
         Leads(s, m, N, Cell(M, e, v)), NEW c, NEW wait, NEW slot, NEW u \in Value,
         c.k \in {"DGFlux", "DGVolume", "DGMass", "DGSource"}, c.w \in Buffer \ {"dtw"},
         dtwAfter(c, M[c.w], [M["dtw"] EXCEPT ![e] = v]) = [[M["dtw"] EXCEPT ![e] = v] EXCEPT ![e] = u]
  PROVE  Leads(clEnqueueNDRangeKernel(s, c, wait, slot), m, N, Cell(M, e, u))
<1> DEFINE d == M["dtw"]
           dv == [d EXCEPT ![e] = v]
           du == [d EXCEPT ![e] = u]
           K == Cell(M, e, v)
<1>1. d \in Fields
  BY BuffersAre
<1>2. dv \in Fields /\ du \in Fields /\ [dv EXCEPT ![e] = u] = du
  BY <1>1 DEF Fields
<1>3. K = With(M, dv)
  BY DEF Cell
<1>4. K \in Memory /\ K["dtw"] = dv /\ K[c.w] = M[c.w] /\ With(K, du) = With(M, du)
  <2> HIDE DEF dv, du, K
  <2> QED
    BY <1>2, <1>3, WithIs
<1>5. dtwAfter(c, M[c.w], dv) = du
  BY <1>2
<1>6. Leads(s, m, N, K)
  OBVIOUS
<1>7. With(M, du) = Cell(M, e, u)
  BY DEF Cell
<1> HIDE DEF dv, du, K
<1>8. dtwAfter(c, K[c.w], K["dtw"]) = du
  BY <1>4, <1>5
<1>9. Leads(clEnqueueNDRangeKernel(s, c, wait, slot), m, N, With(K, du))
  BY <1>2, <1>4, <1>6, <1>8, Derived
<1> QED
  BY <1>4, <1>7, <1>9

\* The flux of one direction.
LEMMA FluxDerived ==
  ASSUME conf \in Confs, stage \in 0..3, NEW s, NEW m, NEW N \in Nat, NEW M \in Memory, NEW e \in Elem,
         NEW n \in Int, NEW i \in Dims,
         Leads(s, m, N, Cell(M, e, (n - SubFlux({x \in conf.raf : x < i}, M[StageInput][e])) % P))
  PROVE  Leads(DGFlux_CL(s, i, e), m, N,
               Cell(M, e, (n - SubFlux({x \in conf.raf : x < i + 1}, M[StageInput][e])) % P))
<1> DEFINE a == M[StageInput][e]
           R == {x \in conf.raf : x < i}
           R2 == {x \in conf.raf : x < i + 1}
           v == (n - SubFlux(R, a)) % P
           u == (n - SubFlux(R2, a)) % P
<1>1. conf.raf \subseteq Dims /\ conf.raf \subseteq 0..(conf.ndim - 1) /\ conf.ndim \in 1..3
  BY ConfIs DEF Dims
<1>2. a \in Int
  <2>1. StageInput \in Buffer
    BY StageInputIs
  <2>2. M[StageInput] \in Fields
    BY <2>1 DEF Memory
  <2> QED
    BY <2>2, Numbers DEF Fields
<1>3. R \in SUBSET Dims /\ R2 \in SUBSET Dims
  BY <1>1
<1>4. SubFlux(R, a) \in Int /\ SubFlux(R2, a) \in Int /\ SubCellFlux(a) \in Int
  <2> HIDE DEF R, R2, a
  <2> QED
    BY <1>2, <1>3, SubFluxes, CallbackNumbers
<1>5. v \in Value /\ u \in Value
  <2> HIDE DEF R, R2, a
  <2>1. n - SubFlux(R, a) \in Int /\ n - SubFlux(R2, a) \in Int
    BY <1>4
  <2> QED
    BY <2>1, Residue
<1>6. Leads(s, m, N, Cell(M, e, v))
  OBVIOUS
<1>7. CASE i \notin conf.raf
  <2>1. R2 = R
    <3>1. \A x \in conf.raf : x \in Int /\ x # i /\ i \in Int
      BY <1>1, <1>7 DEF Dims
    <3> QED
      BY <3>1
  <2>2. DGFlux_CL(s, i, e) = s \/ DGFlux_CL(s, i, e) = clSetUserEventStatus(s, << fluxevent(i), e >>)
    BY <1>7 DEF DGFlux_CL
  <2>3. Leads(s, m, N, Cell(M, e, u))
    BY <1>6, <2>1
  <2> HIDE DEF u
  <2>4. Leads(clSetUserEventStatus(s, << fluxevent(i), e >>), m, N, Cell(M, e, u))
    BY <2>3, Completed
  <2>5. Leads(DGFlux_CL(s, i, e), m, N, Cell(M, e, u))
    BY <2>2, <2>3, <2>4
  <2> QED
    BY <2>5 DEF u
<1>8. CASE i \in conf.raf
  <2>1. i < conf.ndim /\ i \in Int
    BY <1>1, <1>8
  <2> DEFINE c == [k |-> "DGFlux", e |-> e, dim |-> i, w |-> StageInput]
             wait == {IF i = 0 THEN startmacroloop ELSE << fluxevent(i - 1), e >>}
             slot == << fluxevent(i), e >>
             x == - (i + 1) * SubCellFlux(a)
  <2>2. DGFlux_CL(s, i, e) = clEnqueueNDRangeKernel(s, c, wait, slot)
    BY <1>1, <1>8, <2>1 DEF DGFlux_CL, FluxKernel
  <2>3. R2 = R \cup {i} /\ i \in Dims \ R
    <3>1. \A y \in conf.raf : y \in Int /\ (y < i + 1 <=> y < i \/ y = i)
      BY <1>1, <2>1 DEF Dims
    <3> QED
      BY <3>1, <1>8, <2>1
  <2>4. SubFlux(R2, a) = SubFlux(R, a) + (i + 1) * SubCellFlux(a)
    <3> HIDE DEF R, R2, a
    <3> QED
      BY <1>2, <1>3, <2>3, SubFluxes
  <2>5. (v + x) % P = u
    <3> DEFINE y == SubFlux(R, a)
               z == (i + 1) * SubCellFlux(a)
    <3>1. y \in Int /\ z \in Int /\ x = - z
      <4> HIDE DEF a, R
      <4> QED
        BY <1>4, <2>1
    <3>2. u = (n - (y + z)) % P /\ v = (n - y) % P
      BY <2>4
    <3> HIDE DEF y, z, u, v, x
    <3>3. n - y \in Int /\ - z \in Int /\ (n - y) + (- z) = n - (y + z)
      BY <3>1
    <3>4. (((n - y) % P) + (- z)) % P = ((n - y) + (- z)) % P
      BY <3>3, SumMod
    <3> QED
      BY <3>1, <3>2, <3>3, <3>4
  <2>6. dtwAfter(c, M[c.w], [M["dtw"] EXCEPT ![e] = v]) = [[M["dtw"] EXCEPT ![e] = v] EXCEPT ![e] = u]
    <3>1. dtwAfter(c, M[c.w], [M["dtw"] EXCEPT ![e] = v]) = Add([M["dtw"] EXCEPT ![e] = v], e, x)
      BY DEF dtwAfter, DGFlux
    <3>2. M["dtw"] \in Fields
      BY BuffersAre
    <3>3. Add([M["dtw"] EXCEPT ![e] = v], e, x) = [[M["dtw"] EXCEPT ![e] = v] EXCEPT ![e] = (v + x) % P]
      <4> DEFINE d == M["dtw"]
      <4>1. d \in Fields
        BY <3>2
      <4> HIDE DEF v, x, d
      <4>2. Add([d EXCEPT ![e] = v], e, x) = [[d EXCEPT ![e] = v] EXCEPT ![e] = (v + x) % P]
        BY <4>1 DEF Add, Fields
      <4> QED
        BY <4>2 DEF d
    <3> HIDE DEF v, x, u, c
    <3> QED
      BY <2>5, <3>1, <3>3
  <2>7. c.k \in {"DGFlux", "DGVolume", "DGMass", "DGSource"} /\ c.w \in Buffer \ {"dtw"}
    BY StageInputIs
  <2> HIDE DEF c, wait, slot, v, u
  <2>8. Leads(clEnqueueNDRangeKernel(s, c, wait, slot), m, N, Cell(M, e, u))
    BY <1>5, <1>6, <2>6, <2>7, CellDerived
  <2>9. Leads(DGFlux_CL(s, i, e), m, N, Cell(M, e, u))
    BY <2>2, <2>8
  <2> QED
    BY <2>9 DEF u
<1> QED
  BY <1>7, <1>8

\* The kernels of an element give it the derivative of the serial scheme.
LEMMA CellDone ==
  ASSUME conf \in Confs, stage \in 0..3, tnow \in Int, NEW s, NEW m, NEW N \in Nat, NEW M \in Memory,
         NEW e \in Elem, Leads(s, m, N, M),
         M["dtw"][e] = Net(DOMAIN conf.fL, M[StageInput], tnow, e) % P
  PROVE  Leads(MacroCell(s, e), m, N, Cell(M, e, DtFields(M[StageInput], tnow)[e]))
<1> DEFINE w == M[StageInput]
           a == M[StageInput][e]
           n == Net(DOMAIN conf.fL, w, tnow, e)
           R(i) == {x \in conf.raf : x < i}
           u == SubFlux(conf.raf, a)
           vol == VolumeFlux(a)
           src == Source(tnow, a)
           s1 == DGFlux_CL(s, 0, e)
           s2 == DGFlux_CL(s1, 1, e)
           s3 == DGFlux_CL(s2, 2, e)
           s4 == DGVolume_CL(s3, e)
           s5 == DGMass_CL(s4, e)
           v3 == (n - u) % P
           v4 == (v3 + vol) % P
           v5 == (v4 * InverseMass) % P
           v6 == DtFields(w, tnow)[e]
<1>1. StageInput \in Buffer /\ StageInput \in Buffer \ {"dtw"}
  BY StageInputIs
<1>2. w \in Fields
  BY <1>1 DEF Memory
<1>3. a \in Int
  BY <1>2, Numbers DEF Fields
<1>4. n \in Int
  <2>1. DOMAIN conf.fL \in SUBSET DOMAIN conf.fL
    OBVIOUS
  <2> HIDE DEF w
  <2> QED
    BY <1>2, <2>1, NetIsNumber
<1>5. /\ v6 = ((n - u + vol + SourceTerm(a, tnow)) * InverseMass) % P
      /\ v6 \in Value /\ u \in Int /\ SourceTerm(a, tnow) \in Int
  <2> HIDE DEF w
  <2>1. /\ v6 = ((n - SubFlux(conf.raf, w[e]) + VolumeFlux(w[e]) + SourceTerm(w[e], tnow)) * InverseMass) % P
        /\ v6 \in Value /\ SubFlux(conf.raf, w[e]) \in Int /\ SourceTerm(w[e], tnow) \in Int
    BY <1>2, DtFieldsIs
  <2> QED
    BY <2>1 DEF w
<1>6. vol \in Int /\ src \in Int /\ InverseMass \in Int
  <2> HIDE DEF a
  <2> QED
    BY <1>3, CallbackNumbers, Numbers
<1>7. SubFlux(R(0), a) = 0 /\ R(2 + 1) = conf.raf
  <2>1. \A x \in conf.raf : x \in Int /\ ~ (x < 0) /\ x < 2 + 1
    BY ConfIs
  <2>2. R(0) = {} /\ R(2 + 1) = conf.raf
    BY <2>1
  <2>3. SubFlux({}, a) = 0
    <3> HIDE DEF a
    <3> QED
      BY <1>3, SubFluxes
  <2> HIDE DEF R
  <2> QED
    BY <2>2, <2>3
<1>8. Leads(s, m, N, Cell(M, e, (n - SubFlux(R(0), a)) % P))
  <2>1. M["dtw"] \in Fields
    BY BuffersAre
  <2>2. [M["dtw"] EXCEPT ![e] = M["dtw"][e]] = M["dtw"]
    BY <2>1 DEF Fields
  <2>3. With(M, M["dtw"]) = M
    BY DEF With, Memory
  <2>4. M["dtw"][e] = n % P
    OBVIOUS
  <2>5. n - 0 = n
    BY <1>4
  <2>6. Cell(M, e, M["dtw"][e]) = M
    BY <2>2, <2>3 DEF Cell
  <2> HIDE DEF n, R, a
  <2>7. (n - SubFlux(R(0), a)) % P = M["dtw"][e]
    BY <1>7, <2>4, <2>5
  <2> QED
    BY <2>6, <2>7
<1>9. 0 \in Dims /\ 1 \in Dims /\ 2 \in Dims /\ 0 + 1 = 1 /\ 1 + 1 = 2
  BY DEF Dims
<1>10. Leads(s1, m, N, Cell(M, e, (n - SubFlux(R(0 + 1), a)) % P))
  BY <1>4, <1>8, <1>9, FluxDerived
<1>11. Leads(s2, m, N, Cell(M, e, (n - SubFlux(R(1 + 1), a)) % P))
  <2>1. Leads(s1, m, N, Cell(M, e, (n - SubFlux(R(1), a)) % P))
    BY <1>9, <1>10
  <2> HIDE DEF s1, n
  <2> QED
    BY <1>4, <1>9, <2>1, FluxDerived
<1>12. Leads(s3, m, N, Cell(M, e, (n - SubFlux(R(2 + 1), a)) % P))
  <2>1. Leads(s2, m, N, Cell(M, e, (n - SubFlux(R(2), a)) % P))
    BY <1>9, <1>11
  <2> HIDE DEF s2, n
  <2> QED
    BY <1>4, <1>9, <2>1, FluxDerived
<1>13. Leads(s3, m, N, Cell(M, e, v3))
  <2> HIDE DEF s3, R
  <2> QED
    BY <1>7, <1>12
<1> DEFINE x == n - u + vol
<1>14. v3 \in Value /\ v4 \in Value /\ v5 \in Value /\ v4 = x % P /\ v5 = (x * InverseMass) % P /\ x \in Int
  <2> HIDE DEF n, u, vol
  <2>1. n - u \in Int /\ x \in Int /\ x = (n - u) + vol
    BY <1>4, <1>5, <1>6
  <2>2. v3 \in Value
    BY <2>1, Residue
  <2>3. v4 = x % P
    <3>1. (((n - u) % P) + vol) % P = ((n - u) + vol) % P
      BY <2>1, <1>6, SumMod
    <3> QED
      BY <3>1, <2>1
  <2>4. v4 \in Value
    <3> HIDE DEF x, v4
    <3> QED
      BY <2>1, <2>3, Residue
  <2>5. v5 = (x * InverseMass) % P
    <3> HIDE DEF x
    <3>1. ((x % P) * InverseMass) % P = (x * InverseMass) % P
      BY <2>1, <1>6, ProdMod
    <3> QED
      BY <2>3, <3>1
  <2>6. v5 \in Value
    <3>1. x * InverseMass \in Int
      BY <2>1, <1>6
    <3> HIDE DEF x, v5
    <3> QED
      BY <2>5, <3>1, Residue
  <2> QED
    BY <2>1, <2>2, <2>3, <2>4, <2>5, <2>6
<1> DEFINE D(v) == [M["dtw"] EXCEPT ![e] = v]
<1>15. /\ \A v, y : Add(D(v), e, y) = [D(v) EXCEPT ![e] = (v + y) % P]
       /\ \A v : D(v)[e] = v
  <2> DEFINE d == M["dtw"]
  <2>1. d \in Fields
    BY BuffersAre
  <2> HIDE DEF d
  <2>2. \A v, y : LET dv == [d EXCEPT ![e] = v] IN Add(dv, e, y) = [dv EXCEPT ![e] = (v + y) % P] /\ dv[e] = v
    BY <2>1 DEF Add, Fields
  <2> QED
    BY <2>2 DEF d
<1>16. Leads(s4, m, N, Cell(M, e, v4))
  <2> DEFINE c == [k |-> "DGVolume", e |-> e, w |-> StageInput]
             wait == {<< fluxevent(conf.ndim - 1), e >>}
             slot == << "volume", e >>
  <2>1. s4 = clEnqueueNDRangeKernel(s3, c, wait, slot)
    BY DEF DGVolume_CL
  <2>2. dtwAfter(c, M[c.w], D(v3)) = Add(D(v3), e, vol)
    BY DEF dtwAfter, DGVolume
  <2>3. c.k \in {"DGFlux", "DGVolume", "DGMass", "DGSource"} /\ c.w \in Buffer \ {"dtw"}
    BY <1>1
  <2> HIDE DEF c, wait, slot, v3, s3, vol, s4
  <2>4. dtwAfter(c, M[c.w], D(v3)) = [D(v3) EXCEPT ![e] = v4]
    BY <1>15, <2>2
  <2> HIDE DEF v4
  <2> QED
    BY <1>13, <1>14, <2>1, <2>3, <2>4, CellDerived
<1>17. Leads(s5, m, N, Cell(M, e, v5))
  <2> DEFINE c == [k |-> "DGMass", e |-> e, w |-> StageInput]
             wait == {<< "volume", e >>}
             slot == << "mass", e >>
  <2>1. s5 = clEnqueueNDRangeKernel(s4, c, wait, slot)
    BY DEF DGMass_CL
  <2>2. dtwAfter(c, M[c.w], D(v4)) = [D(v4) EXCEPT ![e] = (D(v4)[e] * InverseMass) % P]
    BY DEF dtwAfter, DGMass
  <2>3. c.k \in {"DGFlux", "DGVolume", "DGMass", "DGSource"} /\ c.w \in Buffer \ {"dtw"}
    BY <1>1
  <2> HIDE DEF c, wait, slot, v4, s4, s5
  <2>4. dtwAfter(c, M[c.w], D(v4)) = [D(v4) EXCEPT ![e] = v5]
    BY <1>15, <2>2
  <2> HIDE DEF v5
  <2> QED
    BY <1>14, <1>16, <2>1, <2>3, <2>4, CellDerived
<1>18. MacroCell(s, e) = DGSource_CL(s5, e)
  BY DEF MacroCell
<1>19. CASE ~ conf.use_source_cl
  <2>1. DGSource_CL(s5, e) = s5
    BY <1>19 DEF DGSource_CL
  <2>2. SourceTerm(a, tnow) = 0
    BY <1>19 DEF SourceTerm
  <2>3. v6 = v5
    <3> HIDE DEF n, u, vol, v5, v6
    <3>1. n - u + vol + 0 = x
      BY <1>4, <1>5, <1>6
    <3> QED
      BY <1>5, <1>14, <2>2, <3>1
  <2> QED
    BY <1>17, <1>18, <2>1, <2>3
<1>20. CASE conf.use_source_cl
  <2> DEFINE c == [k |-> "DGSource", e |-> e, w |-> StageInput, t |-> tnow]
             wait == {<< "mass", e >>}
             slot == << "source", e >>
             y == src * InverseMass
  <2>1. DGSource_CL(s5, e) = clEnqueueNDRangeKernel(s5, c, wait, slot)
    BY <1>20 DEF DGSource_CL
  <2>2. dtwAfter(c, M[c.w], D(v5)) = Add(D(v5), e, y)
    BY DEF dtwAfter, DGSource
  <2>3. c.k \in {"DGFlux", "DGVolume", "DGMass", "DGSource"} /\ c.w \in Buffer \ {"dtw"}
    BY <1>1
  <2>4. (v5 + y) % P = v6
    <3>1. SourceTerm(a, tnow) = src
      BY <1>20 DEF SourceTerm
    <3> HIDE DEF src, v5, v6, n, u, vol
    <3>2. n - u + vol + src = x + src
      BY <1>4, <1>5, <1>6
    <3> HIDE DEF x
    <3>3. x * InverseMass \in Int /\ y \in Int /\ (x * InverseMass) + y = (x + src) * InverseMass
      BY <1>6, <1>14
    <3> HIDE DEF y
    <3>4. (((x * InverseMass) % P) + y) % P = ((x * InverseMass) + y) % P
      BY <3>3, SumMod
    <3> QED
      BY <1>5, <1>14, <3>1, <3>2, <3>3, <3>4 DEF x
  <2> HIDE DEF c, wait, slot, v5, s5, y
  <2>5. dtwAfter(c, M[c.w], D(v5)) = [D(v5) EXCEPT ![e] = v6]
    BY <1>15, <2>2, <2>4
  <2> HIDE DEF v6
  <2>6. Leads(clEnqueueNDRangeKernel(s5, c, wait, slot), m, N, Cell(M, e, v6))
    BY <1>5, <1>14, <1>17, <2>3, <2>5, CellDerived
  <2>7. Leads(MacroCell(s, e), m, N, Cell(M, e, v6))
    BY <1>18, <2>1, <2>6
  <2> QED
    BY <2>7 DEF v6
<1> QED
  BY <1>19, <1>20

-----------------------------------------------------------------------------
(* The invariant.                                                          *)

\* The steps the host has enqueued the last stage of.
Steps(p, i) == IF p = "timers" THEN i + 1 ELSE i

\* The host's counters: the time it gives the kernels, and how far it is.
Inside == {"zbuf", "mci", "boundary", "macro", "wait", "stage"}

Counts(p, j, g, t, i) ==
  /\ p \in Inside \cup {"while", "timers", "copy", "return"}
  /\ g \in 0..(Nbstages - 1) /\ i \in Nat /\ j \in Nat \ {0}
  /\ t = 2 * Steps(p, i) + (IF conf.scheme = "RK2" THEN g ELSE 0)
  /\ p \notin Inside => g = 0
  /\ p = "mci" => j <= ninterfaces \/ j = 1
  /\ p = "boundary" => j <= nboundaryfaces \/ j = 1
  /\ p = "macro" => j <= conf.nbelems
  /\ p \in {"copy", "return"} => tmax <= 2 * i
  /\ 2 * i < (IF p \in Inside \cup {"timers"} THEN tmax ELSE tmax + 2)

\* The buffers once the queue is empty: the states of the stages,
Stages(M, n, g) ==
  /\ g >= 1 => M["l1"] = Stage1(M["w"], 2 * n)
  /\ g >= 2 => M["l2"] = Stage2(M["w"], 2 * n)
  /\ g >= 3 => M["l3"] = Stage3(M["w"], 2 * n)

\* and the derivative, of which the host has enqueued some of the kernels.
Input(g) == << "w", "l1", "l2", "l3" >>[g + 1]
Inner(j) == {conf.macrointerface[i] : i \in 1..(j - 1)}
Outer(j) == {conf.boundaryface[i] : i \in 1..(j - 1)}

Derivative(d, p, j, w, t) ==
  /\ p = "mci" => d = FluxIn(Inner(j), w, t)
  /\ p = "boundary" => d = FluxIn(Inner(ninterfaces + 1) \cup Outer(j), w, t)
  /\ p = "macro" => \A e \in Elem : d[e] = IF e < j - 1 THEN DtFields(w, t)[e]
                                           ELSE Net(DOMAIN conf.fL, w, t, e) % P
  /\ p \in {"wait", "stage"} => d = DtFields(w, t)

Shown(h) == h = << >> \/ h = StateAfter[(tmax + 1) \div 2]

Good(s, m, p, j, g, t, i, h) ==
  /\ conf \in Confs
  /\ Counts(p, j, g, t, i)
  /\ Shown(h)
  /\ \E M \in Memory : /\ Leads(s, m, Steps(p, i), M)
                       /\ Stages(M, Steps(p, i), g)
                       /\ Derivative(M["dtw"], p, j, M[Input(g)], t)

-----------------------------------------------------------------------------
(* The lists of faces.                                                     *)

LEMMA InnerFaces ==
  ASSUME conf \in Confs
  PROVE  /\ ninterfaces \in Nat /\ Inner(1) = {}
         /\ \A j \in 1..(ninterfaces + 1) : Inner(j) \in SUBSET DOMAIN conf.fL
         /\ \A j \in 1..ninterfaces :
              /\ conf.macrointerface[j] \in DOMAIN conf.fL \ Inner(j)
              /\ conf.fR[conf.macrointerface[j]] # -1
              /\ Inner(j + 1) = Inner(j) \cup {conf.macrointerface[j]}
         /\ Inner(ninterfaces + 1) = {f \in DOMAIN conf.fL : conf.fR[f] # -1}
<1> DEFINE S == {f \in DOMAIN conf.fL : conf.fR[f] # -1}
           q == conf.macrointerface
           n == ninterfaces
<1>1. Lists(q, S)
  BY ConfIs
<1>2. q \in Seq(S) /\ IsInjective(q) /\ Range(q) = S
  BY <1>1 DEF Lists
<1>3. n \in Nat /\ DOMAIN q = 1..n /\ \A j \in 1..n : q[j] \in S
  BY <1>2 DEF ninterfaces
<1>4. \A i, j \in 1..n : q[i] = q[j] => i = j
  BY <1>2, <1>3 DEF IsInjective
<1>5. S = {q[i] : i \in 1..n}
  BY <1>2, <1>3 DEF Range
<1>6. \A j : Inner(j) = {q[i] : i \in 1..(j - 1)}
  BY DEF Inner
<1>7. 1..(1 - 1) = {} /\ (n + 1) - 1 = n
  BY <1>3
<1>8. Inner(1) = {} /\ Inner(n + 1) = S
  <2> HIDE DEF S, n, q
  <2> QED
    BY <1>5, <1>6, <1>7
<1>9. ASSUME NEW j \in 1..(n + 1)
      PROVE  Inner(j) \in SUBSET DOMAIN conf.fL
  <2>1. \A i \in 1..(j - 1) : i \in 1..n
    BY <1>3
  <2> QED
    BY <1>3, <1>6, <2>1
<1>10. ASSUME NEW j \in 1..n
       PROVE  q[j] \in DOMAIN conf.fL \ Inner(j) /\ conf.fR[q[j]] # -1 /\ Inner(j + 1) = Inner(j) \cup {q[j]}
  <2>1. \A i \in 1..(j - 1) : i \in 1..n /\ i # j
    BY <1>3
  <2>2. 1..((j + 1) - 1) = (1..(j - 1)) \cup {j}
    BY <1>3
  <2>3. Inner(j + 1) = Inner(j) \cup {q[j]}
    <3> HIDE DEF q
    <3> QED
      BY <1>6, <2>2
  <2>4. q[j] \in S
    BY <1>3
  <2>5. q[j] \notin Inner(j)
    <3> HIDE DEF q
    <3> QED
      BY <1>4, <1>6, <2>1
  <2> QED
    BY <2>3, <2>4, <2>5
<1> QED
  BY <1>3, <1>8, <1>9, <1>10

LEMMA OuterFaces ==
  ASSUME conf \in Confs
  PROVE  LET In == Inner(ninterfaces + 1)
         IN  /\ nboundaryfaces \in Nat /\ Outer(1) = {}
             /\ \A j \in 1..(nboundaryfaces + 1) : In \cup Outer(j) \in SUBSET DOMAIN conf.fL
             /\ \A j \in 1..nboundaryfaces :
                  /\ conf.boundaryface[j] \in DOMAIN conf.fL \ (In \cup Outer(j))
                  /\ conf.fR[conf.boundaryface[j]] = -1
                  /\ Outer(j + 1) = Outer(j) \cup {conf.boundaryface[j]}
             /\ In \cup Outer(nboundaryfaces + 1) = DOMAIN conf.fL
<1> DEFINE S == {f \in DOMAIN conf.fL : conf.fR[f] = -1}
           T == {f \in DOMAIN conf.fL : conf.fR[f] # -1}
           q == conf.boundaryface
           n == nboundaryfaces
<1>1. Lists(q, S)
  BY ConfIs
<1>2. q \in Seq(S) /\ IsInjective(q) /\ Range(q) = S
  BY <1>1 DEF Lists
<1>3. n \in Nat /\ DOMAIN q = 1..n /\ \A j \in 1..n : q[j] \in S
  BY <1>2 DEF nboundaryfaces
<1>4. \A i, j \in 1..n : q[i] = q[j] => i = j
  BY <1>2, <1>3 DEF IsInjective
<1>5. S = {q[i] : i \in 1..n}
  BY <1>2, <1>3 DEF Range
<1>6. \A j : Outer(j) = {q[i] : i \in 1..(j - 1)}
  BY DEF Outer
<1>7. 1..(1 - 1) = {} /\ (n + 1) - 1 = n
  BY <1>3
<1>8. Outer(1) = {} /\ Outer(n + 1) = S
  <2> HIDE DEF S, n, q
  <2> QED
    BY <1>5, <1>6, <1>7
<1>9. Inner(ninterfaces + 1) = T
  BY InnerFaces
<1>10. ASSUME NEW j \in 1..(n + 1)
       PROVE  T \cup Outer(j) \in SUBSET DOMAIN conf.fL
  <2>1. \A i \in 1..(j - 1) : i \in 1..n
    BY <1>3
  <2> QED
    BY <1>3, <1>6, <2>1
<1>11. ASSUME NEW j \in 1..n
       PROVE  /\ q[j] \in DOMAIN conf.fL \ (T \cup Outer(j)) /\ conf.fR[q[j]] = -1
              /\ Outer(j + 1) = Outer(j) \cup {q[j]}
  <2>1. \A i \in 1..(j - 1) : i \in 1..n /\ i # j
    BY <1>3
  <2>2. 1..((j + 1) - 1) = (1..(j - 1)) \cup {j}
    BY <1>3
  <2>3. Outer(j + 1) = Outer(j) \cup {q[j]}
    <3> HIDE DEF q
    <3> QED
      BY <1>6, <2>2
  <2>4. q[j] \in S
    BY <1>3
  <2>5. q[j] \notin Outer(j)
    <3> HIDE DEF q
    <3> QED
      BY <1>4, <1>6, <2>1
  <2> QED
    BY <2>3, <2>4, <2>5
<1>12. T \cup S = DOMAIN conf.fL
  OBVIOUS
<1> QED
  BY <1>3, <1>8, <1>9, <1>10, <1>11, <1>12

\* The stages do not disturb each other.
LEMMA InputIs ==
  ASSUME NEW g \in 0..3
  PROVE  Input(g) \in Buffer \ {"dtw"}
BY DEF Input, Buffer

LEMMA WithStages ==
  ASSUME NEW M \in Memory, NEW d \in Fields, NEW n, NEW g \in 0..3, Stages(M, n, g)
  PROVE  /\ Stages(With(M, d), n, g) /\ With(M, d)[Input(g)] = M[Input(g)]
         /\ With(M, d) \in Memory /\ With(M, d)["dtw"] = d /\ M[Input(g)] \in Fields
<1>1. \A b \in Buffer \ {"dtw"} : With(M, d)[b] = M[b]
  BY WithIs
<1>2. With(M, d)["w"] = M["w"] /\ With(M, d)["l1"] = M["l1"] /\ With(M, d)["l2"] = M["l2"]
      /\ With(M, d)["l3"] = M["l3"]
  BY <1>1 DEF Buffer
<1>3. Stages(With(M, d), n, g)
  BY <1>2 DEF Stages
<1>4. With(M, d)[Input(g)] = M[Input(g)]
  BY <1>1, InputIs
<1>5. M[Input(g)] \in Fields
  BY InputIs DEF Memory
<1>6. With(M, d) \in Memory /\ With(M, d)["dtw"] = d
  BY WithIs
<1> QED
  BY <1>3, <1>4, <1>5, <1>6

LEMMA CountsIs ==
  ASSUME conf \in Confs, NEW p, NEW j, NEW g, NEW t, NEW i, Counts(p, j, g, t, i)
  PROVE  /\ g \in 0..3 /\ t \in Nat /\ Steps(p, i) \in Nat /\ i \in Nat /\ j \in Nat \ {0}
         /\ Nbstages \in {2, 4}
<1>1. Nbstages \in {2, 4}
  BY DEF Nbstages
<1>2. i \in Nat /\ Steps(p, i) \in Nat /\ g \in 0..(Nbstages - 1) /\ j \in Nat \ {0}
  BY DEF Counts, Steps
<1> QED
  BY <1>1, <1>2 DEF Counts

-----------------------------------------------------------------------------
(* The steps.                                                              *)

Inv == Good(cl, mem, pc, k, stage, tnow, iter, hostw)

InvAfter == Good(cl', mem', pc', k', stage', tnow', iter', hostw')

\* The kernels of the derivative.
LEMMA DerivativeEnqueued ==
  ASSUME conf \in Confs, NEW s, NEW m, NEW p, NEW j, NEW g, NEW t, NEW i, NEW h,
         Counts(p, j, g, t, i), Shown(h), NEW M \in Memory, NEW d \in Fields,
         Leads(s, m, Steps(p, i), With(M, d)), Stages(M, Steps(p, i), g),
         Derivative(d, p, j, M[Input(g)], t)
  PROVE  Good(s, m, p, j, g, t, i, h)
<1>1. g \in 0..3
  BY CountsIs
<1> DEFINE K == With(M, d)
<1>2. Stages(K, Steps(p, i), g) /\ K[Input(g)] = M[Input(g)] /\ K \in Memory /\ K["dtw"] = d
  BY <1>1, WithStages
<1>3. Leads(s, m, Steps(p, i), K) /\ Derivative(K["dtw"], p, j, K[Input(g)], t)
  BY <1>2
<1> HIDE DEF K
<1> QED
  BY <1>2, <1>3 DEF Good

\* What holds of the buffers in the middle of a step.
LEMMA InvInside ==
  ASSUME Inv, pc \in Inside
  PROVE  /\ conf \in Confs /\ Counts(pc, k, stage, tnow, iter) /\ Shown(hostw)
         /\ stage \in 0..3 /\ tnow \in Int /\ k \in Nat \ {0} /\ iter \in Nat
         /\ Steps(pc, iter) = iter
         /\ StageInput = Input(stage) /\ Input(stage) \in Buffer \ {"dtw"}
         /\ \E M \in Memory : /\ Leads(cl, mem, iter, M) /\ Stages(M, iter, stage)
                              /\ Derivative(M["dtw"], pc, k, M[Input(stage)], tnow)
                              /\ M["dtw"] \in Fields /\ M[Input(stage)] \in Fields
<1>1. conf \in Confs /\ Counts(pc, k, stage, tnow, iter) /\ Shown(hostw)
  BY DEF Inv, Good
<1>2. stage \in 0..3 /\ tnow \in Int /\ k \in Nat \ {0} /\ iter \in Nat
  BY <1>1, CountsIs
<1>3. Steps(pc, iter) = iter
  BY DEF Steps, Inside
<1>4. StageInput = Input(stage)
  BY DEF StageInput, Input
<1>5. Input(stage) \in Buffer \ {"dtw"}
  BY <1>2, InputIs
<1>6. PICK M \in Memory : /\ Leads(cl, mem, Steps(pc, iter), M)
                          /\ Stages(M, Steps(pc, iter), stage)
                          /\ Derivative(M["dtw"], pc, k, M[Input(stage)], tnow)
  BY DEF Inv, Good
<1>7. M["dtw"] \in Fields
  BY BuffersAre
<1>8. M[Input(stage)] \in Fields
  BY <1>5 DEF Memory
<1>9. \E L \in Memory : /\ Leads(cl, mem, iter, L) /\ Stages(L, iter, stage)
                        /\ Derivative(L["dtw"], pc, k, L[Input(stage)], tnow)
                        /\ L["dtw"] \in Fields /\ L[Input(stage)] \in Fields
  BY <1>3, <1>6, <1>7, <1>8
<1> QED
  BY <1>1, <1>2, <1>3, <1>4, <1>5, <1>9

LEMMA ZeroStep ==
  ASSUME Inv, set_buf_to_zero_cl
  PROVE  InvAfter
<1>1. pc \in Inside /\ pc = "zbuf"
  BY DEF set_buf_to_zero_cl, Inside
<1>2. /\ conf \in Confs /\ Counts(pc, k, stage, tnow, iter) /\ Shown(hostw)
      /\ stage \in 0..3 /\ tnow \in Int /\ k \in Nat \ {0} /\ iter \in Nat
      /\ Steps(pc, iter) = iter
      /\ StageInput = Input(stage) /\ Input(stage) \in Buffer \ {"dtw"}
  BY <1>1, InvInside
<1>3. PICK M \in Memory : /\ Leads(cl, mem, iter, M) /\ Stages(M, iter, stage)
                          /\ M["dtw"] \in Fields /\ M[Input(stage)] \in Fields
  BY <1>1, InvInside
<1> DEFINE w == M[Input(stage)]
           c == [k |-> "set_buffer_to_zero", w |-> StageInput]
           d == FluxIn({}, w, tnow)
<1>4. d \in Fields
  <2>1. {} \in SUBSET DOMAIN conf.fL
    OBVIOUS
  <2> QED
    BY <1>2, <1>3, <2>1, FluxInType
<1>5. dtwAfter(c, M[c.w], M["dtw"]) = d
  <2>1. set_buffer_to_zero = d
    BY <1>2, <1>3, ZeroKernel
  <2> QED
    BY <2>1 DEF dtwAfter
<1>6. Leads(cl', mem', iter, With(M, d))
  <2>1. cl' = clEnqueueNDRangeKernel(cl, c, {StageBefore}, << "zbuf" >>) /\ mem' = mem
    BY DEF set_buf_to_zero_cl
  <2>2. c.k = "set_buffer_to_zero"
    OBVIOUS
  <2> HIDE DEF c, d
  <2> QED
    BY <1>2, <1>3, <1>4, <1>5, <2>1, <2>2, Derived
<1>7. pc' = "mci" /\ k' = 1 /\ stage' = stage /\ tnow' = tnow /\ iter' = iter /\ hostw' = hostw
  BY DEF set_buf_to_zero_cl
<1>8. Counts("mci", 1, stage, tnow, iter) /\ Steps("mci", iter) = iter
  BY <1>1, <1>2 DEF Counts, Steps, Inside
<1>9. Derivative(d, "mci", 1, w, tnow)
  BY <1>2, InnerFaces DEF Derivative
<1>10. Good(cl', mem', "mci", 1, stage, tnow, iter, hostw)
  <2> HIDE DEF d
  <2> QED
    BY <1>2, <1>3, <1>4, <1>6, <1>8, <1>9, DerivativeEnqueued
<1> QED
  BY <1>7, <1>10 DEF InvAfter

LEMMA InterfaceStep ==
  ASSUME Inv, DGMacroCellInterface_CL
  PROVE  InvAfter
<1>1. pc \in Inside /\ pc = "mci"
  BY DEF DGMacroCellInterface_CL, Loop, Inside
<1>2. /\ conf \in Confs /\ Counts(pc, k, stage, tnow, iter) /\ Shown(hostw)
      /\ stage \in 0..3 /\ tnow \in Int /\ k \in Nat \ {0} /\ iter \in Nat
      /\ Steps(pc, iter) = iter
      /\ StageInput = Input(stage) /\ Input(stage) \in Buffer \ {"dtw"}
  BY <1>1, InvInside
<1>3. PICK M \in Memory : /\ Leads(cl, mem, iter, M) /\ Stages(M, iter, stage)
                          /\ Derivative(M["dtw"], pc, k, M[Input(stage)], tnow)
                          /\ M["dtw"] \in Fields /\ M[Input(stage)] \in Fields
  BY <1>1, InvInside
<1> DEFINE w == M[Input(stage)]
           n == ninterfaces
<1>4. M["dtw"] = FluxIn(Inner(k), w, tnow)
  BY <1>1, <1>3 DEF Derivative
<1>5. stage' = stage /\ tnow' = tnow /\ iter' = iter /\ hostw' = hostw /\ mem' = mem
  BY DEF DGMacroCellInterface_CL
<1>6. n \in Nat /\ (k <= n \/ k = 1)
  <2>1. n \in Nat
    BY <1>2, InnerFaces
  <2> QED
    BY <1>1, <1>2, <2>1 DEF Counts
<1>7. Outer(1) = {}
  BY <1>2, OuterFaces
<1>8. CASE n = 0
  <2>1. cl' = cl /\ k = 1 /\ ~ (k < n)
    BY <1>2, <1>6, <1>8 DEF DGMacroCellInterface_CL
  <2>2. pc' = "boundary" /\ k' = 1
    BY <2>1 DEF DGMacroCellInterface_CL, Loop
  <2>3. Counts("boundary", 1, stage, tnow, iter) /\ Steps("boundary", iter) = iter
    BY <1>1, <1>2 DEF Counts, Steps, Inside
  <2>4. Inner(n + 1) \cup Outer(1) = Inner(k)
    BY <1>7, <1>8, <2>1
  <2>5. Derivative(M["dtw"], "boundary", 1, w, tnow)
    <3> HIDE DEF w
    <3> QED
      BY <1>4, <2>4 DEF Derivative
  <2>6. Leads(cl', mem', iter, M)
    BY <1>3, <1>5, <2>1
  <2>7. Good(cl', mem', "boundary", 1, stage, tnow, iter, hostw)
    BY <1>2, <1>3, <2>3, <2>5, <2>6 DEF Good
  <2> QED
    BY <1>5, <2>2, <2>7 DEF InvAfter
<1>9. CASE n # 0
  <2> DEFINE f == conf.macrointerface[k]
             c == [k |-> "DGMacroCellInterface", f |-> f, w |-> StageInput]
             wait == {IF k = 1 THEN << "zbuf" >> ELSE << "mci", k - 1 >>}
             slot == << "mci", k >>
             d == FluxIn(Inner(k + 1), w, tnow)
  <2>1. k \in 1..n /\ k \in 1..(n + 1) /\ k + 1 \in 1..(n + 1)
    BY <1>2, <1>6, <1>9
  <2>2. /\ f \in DOMAIN conf.fL \ Inner(k) /\ conf.fR[f] # -1
        /\ Inner(k + 1) = Inner(k) \cup {f}
    BY <1>2, <2>1, InnerFaces
  <2>3. Inner(k) \in SUBSET DOMAIN conf.fL /\ Inner(k + 1) \in SUBSET DOMAIN conf.fL
    BY <1>2, <2>1, InnerFaces
  <2>4. d \in Fields
    BY <1>2, <1>3, <2>3, FluxInType
  <2>5. dtwAfter(c, M[c.w], M["dtw"]) = d
    <3>1. dtwAfter(c, M[c.w], M["dtw"]) = DGMacroCellInterface(c, w, FluxIn(Inner(k), w, tnow))
      BY <1>2, <1>4 DEF dtwAfter
    <3>2. c.f = f
      OBVIOUS
    <3> HIDE DEF c, w, f
    <3>3. w \in Fields
      BY <1>3 DEF w
    <3>4. DGMacroCellInterface(c, w, FluxIn(Inner(k), w, tnow)) = FluxIn(Inner(k) \cup {f}, w, tnow)
      BY <1>2, <2>2, <2>3, <3>2, <3>3, InterfaceKernel
    <3> QED
      BY <2>2, <3>1, <3>4
  <2>6. Leads(cl', mem', iter, With(M, d))
    <3>1. cl' = clEnqueueNDRangeKernel(cl, c, wait, slot)
      BY <1>9 DEF DGMacroCellInterface_CL
    <3>2. c.k = "DGMacroCellInterface"
      OBVIOUS
    <3> HIDE DEF c, d, wait, slot
    <3> QED
      BY <1>2, <1>3, <1>5, <2>4, <2>5, <3>1, <3>2, Derived
  <2>7. CASE k < n
    <3>1. pc' = "mci" /\ k' = k + 1
      BY <1>1, <2>7 DEF DGMacroCellInterface_CL, Loop
    <3>2. Counts("mci", k + 1, stage, tnow, iter) /\ Steps("mci", iter) = iter
      <4>1. k + 1 <= n /\ k + 1 \in Nat \ {0}
        BY <1>2, <1>6, <2>7
      <4> QED
        BY <1>1, <1>2, <4>1 DEF Counts, Steps, Inside
    <3>3. Derivative(d, "mci", k + 1, w, tnow)
      BY DEF Derivative
    <3>4. Good(cl', mem', "mci", k + 1, stage, tnow, iter, hostw)
      <4> HIDE DEF d
      <4> QED
        BY <1>2, <1>3, <2>4, <2>6, <3>2, <3>3, DerivativeEnqueued
    <3> QED
      BY <1>5, <3>1, <3>4 DEF InvAfter
  <2>8. CASE ~ (k < n)
    <3>1. pc' = "boundary" /\ k' = 1
      BY <2>8 DEF DGMacroCellInterface_CL, Loop
    <3>2. Counts("boundary", 1, stage, tnow, iter) /\ Steps("boundary", iter) = iter
      BY <1>1, <1>2 DEF Counts, Steps, Inside
    <3>3. k = n
      BY <2>1, <2>8, <1>6
    <3>4. Inner(n + 1) \cup Outer(1) = Inner(k + 1)
      <4> HIDE DEF n
      <4> QED
        BY <1>7, <3>3
    <3>5. Derivative(d, "boundary", 1, w, tnow)
      <4> HIDE DEF w
      <4> QED
        BY <3>4 DEF Derivative
    <3>6. Good(cl', mem', "boundary", 1, stage, tnow, iter, hostw)
      <4> HIDE DEF d
      <4> QED
        BY <1>2, <1>3, <2>4, <2>6, <3>2, <3>5, DerivativeEnqueued
    <3> QED
      BY <1>5, <3>1, <3>6 DEF InvAfter
  <2> QED
    BY <2>7, <2>8
<1> QED
  BY <1>8, <1>9

\* No element is complete yet.
LEMMA NoElementYet ==
  ASSUME NEW d, NEW w, NEW t, d = FluxIn(DOMAIN conf.fL, w, t)
  PROVE  Derivative(d, "macro", 1, w, t)
<1>1. \A e \in Elem : ~ (e < 1 - 1)
  BY DEF Elem
<1>2. \A e \in Elem : d[e] = Net(DOMAIN conf.fL, w, t, e) % P
  BY DEF FluxIn
<1> QED
  BY <1>1, <1>2 DEF Derivative

LEMMA BoundaryStep ==
  ASSUME Inv, DGBoundary_CL
  PROVE  InvAfter
<1>1. pc \in Inside /\ pc = "boundary"
  BY DEF DGBoundary_CL, Loop, Inside
<1>2. /\ conf \in Confs /\ Counts(pc, k, stage, tnow, iter) /\ Shown(hostw)
      /\ stage \in 0..3 /\ tnow \in Int /\ k \in Nat \ {0} /\ iter \in Nat
      /\ Steps(pc, iter) = iter
      /\ StageInput = Input(stage) /\ Input(stage) \in Buffer \ {"dtw"}
  BY <1>1, InvInside
<1>3. PICK M \in Memory : /\ Leads(cl, mem, iter, M) /\ Stages(M, iter, stage)
                          /\ Derivative(M["dtw"], pc, k, M[Input(stage)], tnow)
                          /\ M["dtw"] \in Fields /\ M[Input(stage)] \in Fields
  BY <1>1, InvInside
<1> DEFINE w == M[Input(stage)]
           n == nboundaryfaces
           F(j) == Inner(ninterfaces + 1) \cup Outer(j)
<1>4. M["dtw"] = FluxIn(F(k), w, tnow)
  BY <1>1, <1>3 DEF Derivative
<1>5. stage' = stage /\ tnow' = tnow /\ iter' = iter /\ hostw' = hostw /\ mem' = mem
  BY DEF DGBoundary_CL
<1>6. n \in Nat /\ (k <= n \/ k = 1)
  <2>1. n \in Nat
    BY <1>2, OuterFaces
  <2> QED
    BY <1>1, <1>2, <2>1 DEF Counts
<1>7. Outer(1) = {} /\ F(n + 1) = DOMAIN conf.fL
  BY <1>2, OuterFaces
<1>8. CASE n = 0
  <2>1. cl' = cl /\ k = 1 /\ ~ (k < n)
    BY <1>2, <1>6, <1>8 DEF DGBoundary_CL
  <2>2. pc' = "macro" /\ k' = 1
    BY <2>1 DEF DGBoundary_CL, Loop
  <2>3. Counts("macro", 1, stage, tnow, iter) /\ Steps("macro", iter) = iter
    BY <1>1, <1>2, ConfIs DEF Counts, Steps, Inside
  <2>4. M["dtw"] = FluxIn(DOMAIN conf.fL, w, tnow)
    <3> HIDE DEF F, w, n
    <3> QED
      BY <1>4, <1>7, <1>8, <2>1
  <2>5. Derivative(M["dtw"], "macro", 1, w, tnow)
    <3> HIDE DEF w
    <3> QED
      BY <2>4, NoElementYet
  <2>6. Leads(cl', mem', iter, M)
    BY <1>3, <1>5, <2>1
  <2>7. Good(cl', mem', "macro", 1, stage, tnow, iter, hostw)
    BY <1>2, <1>3, <2>3, <2>5, <2>6 DEF Good
  <2> QED
    BY <1>5, <2>2, <2>7 DEF InvAfter
<1>9. CASE n # 0
  <2> DEFINE f == conf.boundaryface[k]
             c == [k |-> "DGBoundary", f |-> f, w |-> StageInput, t |-> tnow]
             wait == {IF k = 1 THEN startboundary ELSE << "boundary", k - 1 >>}
             slot == << "boundary", k >>
             d == FluxIn(F(k + 1), w, tnow)
  <2>1. k \in 1..n /\ k \in 1..(n + 1) /\ k + 1 \in 1..(n + 1)
    BY <1>2, <1>6, <1>9
  <2>2. /\ f \in DOMAIN conf.fL \ F(k) /\ conf.fR[f] = -1
        /\ F(k + 1) = F(k) \cup {f}
    BY <1>2, <2>1, OuterFaces
  <2>3. F(k) \in SUBSET DOMAIN conf.fL /\ F(k + 1) \in SUBSET DOMAIN conf.fL
    BY <1>2, <2>1, OuterFaces
  <2>4. d \in Fields
    BY <1>2, <1>3, <2>3, FluxInType
  <2>5. dtwAfter(c, M[c.w], M["dtw"]) = d
    <3>1. dtwAfter(c, M[c.w], M["dtw"]) = DGBoundary(c, w, FluxIn(F(k), w, tnow))
      BY <1>2, <1>4 DEF dtwAfter
    <3>2. c.f = f /\ c.t = tnow
      OBVIOUS
    <3> HIDE DEF c, w, f
    <3>3. w \in Fields
      BY <1>3 DEF w
    <3>4. DGBoundary(c, w, FluxIn(F(k), w, tnow)) = FluxIn(F(k) \cup {f}, w, tnow)
      BY <1>2, <2>2, <2>3, <3>2, <3>3, BoundaryKernel
    <3> QED
      BY <2>2, <3>1, <3>4
  <2>6. Leads(cl', mem', iter, With(M, d))
    <3>1. cl' = clEnqueueNDRangeKernel(cl, c, wait, slot)
      BY <1>9 DEF DGBoundary_CL
    <3>2. c.k = "DGBoundary"
      OBVIOUS
    <3> HIDE DEF c, d, wait, slot
    <3> QED
      BY <1>2, <1>3, <1>5, <2>4, <2>5, <3>1, <3>2, Derived
  <2>7. CASE k < n
    <3>1. pc' = "boundary" /\ k' = k + 1
      BY <1>1, <2>7 DEF DGBoundary_CL, Loop
    <3>2. Counts("boundary", k + 1, stage, tnow, iter) /\ Steps("boundary", iter) = iter
      <4>1. k + 1 <= n /\ k + 1 \in Nat \ {0}
        BY <1>2, <1>6, <2>7
      <4> QED
        BY <1>1, <1>2, <4>1 DEF Counts, Steps, Inside
    <3>3. Derivative(d, "boundary", k + 1, w, tnow)
      BY DEF Derivative
    <3>4. Good(cl', mem', "boundary", k + 1, stage, tnow, iter, hostw)
      <4> HIDE DEF d
      <4> QED
        BY <1>2, <1>3, <2>4, <2>6, <3>2, <3>3, DerivativeEnqueued
    <3> QED
      BY <1>5, <3>1, <3>4 DEF InvAfter
  <2>8. CASE ~ (k < n)
    <3>1. pc' = "macro" /\ k' = 1
      BY <2>8 DEF DGBoundary_CL, Loop
    <3>2. Counts("macro", 1, stage, tnow, iter) /\ Steps("macro", iter) = iter
      BY <1>1, <1>2, ConfIs DEF Counts, Steps, Inside
    <3>3. k = n
      BY <2>1, <2>8, <1>6
    <3>4. d = FluxIn(DOMAIN conf.fL, w, tnow)
      <4> HIDE DEF n, F, w
      <4> QED
        BY <1>7, <3>3
    <3>5. Derivative(d, "macro", 1, w, tnow)
      <4> HIDE DEF w, d
      <4> QED
        BY <3>4, NoElementYet
    <3>6. Good(cl', mem', "macro", 1, stage, tnow, iter, hostw)
      <4> HIDE DEF d
      <4> QED
        BY <1>2, <1>3, <2>4, <2>6, <3>2, <3>5, DerivativeEnqueued
    <3> QED
      BY <1>5, <3>1, <3>6 DEF InvAfter
  <2> QED
    BY <2>7, <2>8
<1> QED
  BY <1>8, <1>9

LEMMA MacroStep ==
  ASSUME Inv, MacroLoop
  PROVE  InvAfter
<1>1. pc \in Inside /\ pc = "macro"
  BY DEF MacroLoop, Loop, Inside
<1>2. /\ conf \in Confs /\ Counts(pc, k, stage, tnow, iter) /\ Shown(hostw)
      /\ stage \in 0..3 /\ tnow \in Int /\ k \in Nat \ {0} /\ iter \in Nat
      /\ Steps(pc, iter) = iter
      /\ StageInput = Input(stage) /\ Input(stage) \in Buffer \ {"dtw"}
  BY <1>1, InvInside
<1>3. PICK M \in Memory : /\ Leads(cl, mem, iter, M) /\ Stages(M, iter, stage)
                          /\ Derivative(M["dtw"], pc, k, M[Input(stage)], tnow)
                          /\ M["dtw"] \in Fields /\ M[Input(stage)] \in Fields
  BY <1>1, InvInside
<1> DEFINE w == M[Input(stage)]
           z == k - 1
           v == DtFields(w, tnow)
           d == [M["dtw"] EXCEPT ![z] = v[z]]
<1>4. stage' = stage /\ tnow' = tnow /\ iter' = iter /\ hostw' = hostw /\ mem' = mem
  BY DEF MacroLoop
<1>5. conf.nbelems \in Nat /\ k <= conf.nbelems
  BY <1>1, <1>2, ConfIs DEF Counts
<1>6. z \in Elem /\ \A e \in Elem : e \in Int /\ (e < k <=> e < z \/ e = z) /\ ~ (z < z)
  BY <1>2, <1>5 DEF Elem
<1>7. v \in Fields
  BY <1>2, <1>3, DtFieldsType
<1>8. d \in Fields
  <2> HIDE DEF v, z
  <2> QED
    BY <1>3, <1>6, <1>7 DEF Fields
<1>9. \A e \in Elem : M["dtw"][e] = IF e < z THEN v[e] ELSE Net(DOMAIN conf.fL, w, tnow, e) % P
  BY <1>1, <1>3 DEF Derivative
<1>10. Leads(cl', mem', iter, With(M, d))
  <2>1. M["dtw"][z] = Net(DOMAIN conf.fL, M[StageInput], tnow, z) % P
    <3> HIDE DEF z, v
    <3> QED
      BY <1>2, <1>6, <1>9
  <2>2. cl' = MacroCell(cl, z)
    BY DEF MacroLoop
  <2> HIDE DEF z
  <2>3. Leads(MacroCell(cl, z), mem, iter, Cell(M, z, DtFields(M[StageInput], tnow)[z]))
    BY <1>2, <1>3, <1>6, <2>1, CellDone
  <2> QED
    BY <1>2, <1>4, <2>2, <2>3 DEF Cell
<1>11. \A e \in Elem : d[e] = IF e < k THEN v[e] ELSE Net(DOMAIN conf.fL, w, tnow, e) % P
  <2>1. \A e \in Elem : d[e] = IF e = z THEN v[z] ELSE M["dtw"][e]
    BY <1>3 DEF Fields
  <2> HIDE DEF d, v, z
  <2> QED
    BY <1>6, <1>9, <2>1
<1>12. CASE k < conf.nbelems
  <2>1. pc' = "macro" /\ k' = k + 1
    BY <1>1, <1>12 DEF MacroLoop, Loop
  <2>2. Counts("macro", k + 1, stage, tnow, iter) /\ Steps("macro", iter) = iter
    <3>1. k + 1 <= conf.nbelems /\ k + 1 \in Nat \ {0}
      BY <1>2, <1>5, <1>12
    <3> QED
      BY <1>1, <1>2, <3>1 DEF Counts, Steps, Inside
  <2>3. Derivative(d, "macro", k + 1, w, tnow)
    <3>1. (k + 1) - 1 = k
      BY <1>2
    <3> HIDE DEF d, w
    <3> QED
      BY <1>11, <3>1 DEF Derivative
  <2>4. Good(cl', mem', "macro", k + 1, stage, tnow, iter, hostw)
    <3> HIDE DEF d
    <3> QED
      BY <1>2, <1>3, <1>8, <1>10, <2>2, <2>3, DerivativeEnqueued
  <2> QED
    BY <1>4, <2>1, <2>4 DEF InvAfter
<1>13. CASE ~ (k < conf.nbelems)
  <2>1. pc' = "wait" /\ k' = 1
    BY <1>13 DEF MacroLoop, Loop
  <2>2. Counts("wait", 1, stage, tnow, iter) /\ Steps("wait", iter) = iter
    BY <1>1, <1>2 DEF Counts, Steps, Inside
  <2>3. d = v
    <3>1. \A e \in Elem : e < k
      BY <1>2, <1>5, <1>13 DEF Elem
    <3> HIDE DEF d, v
    <3>2. \A e \in Elem : d[e] = v[e]
      BY <1>11, <3>1
    <3> QED
      BY <1>7, <1>8, <3>2 DEF Fields
  <2>4. Derivative(d, "wait", 1, w, tnow)
    <3> HIDE DEF d, w
    <3> QED
      BY <2>3 DEF Derivative
  <2>5. Good(cl', mem', "wait", 1, stage, tnow, iter, hostw)
    <3> HIDE DEF d
    <3> QED
      BY <1>2, <1>3, <1>8, <1>10, <2>2, <2>4, DerivativeEnqueued
  <2> QED
    BY <1>4, <2>1, <2>5 DEF InvAfter
<1> QED
  BY <1>12, <1>13

LEMMA DoneStep ==
  ASSUME Inv, dtfieldDone
  PROVE  InvAfter
<1>1. pc \in Inside /\ pc = "wait"
  BY DEF dtfieldDone, Inside
<1>2. /\ conf \in Confs /\ Counts(pc, k, stage, tnow, iter) /\ Shown(hostw)
      /\ Steps(pc, iter) = iter
  BY <1>1, InvInside
<1>3. PICK M \in Memory : /\ Leads(cl, mem, iter, M) /\ Stages(M, iter, stage)
                          /\ Derivative(M["dtw"], pc, k, M[Input(stage)], tnow)
  BY <1>1, InvInside
<1>4. pc' = "stage" /\ UNCHANGED << mem, k, stage, tnow, iter, hostw >>
      /\ cl' = clSetUserEventStatus(cl, << "rksource", stage >>)
  BY DEF dtfieldDone
<1>5. Leads(cl', mem', iter, M)
  BY <1>3, <1>4, Completed
<1>6. Counts("stage", k, stage, tnow, iter) /\ Steps("stage", iter) = iter
  BY <1>1, <1>2 DEF Counts, Steps, Inside
<1>7. Derivative(M["dtw"], "stage", k, M[Input(stage)], tnow)
  BY <1>1, <1>3 DEF Derivative
<1>8. Good(cl', mem', "stage", k, stage, tnow, iter, hostw)
  BY <1>2, <1>3, <1>5, <1>6, <1>7 DEF Good
<1> QED
  BY <1>4, <1>8 DEF InvAfter

LEMMA WhileStep ==
  ASSUME Inv, WhileLoop
  PROVE  InvAfter
<1>1. conf \in Confs /\ Counts(pc, k, stage, tnow, iter) /\ Shown(hostw) /\ pc = "while"
  BY DEF Inv, Good, WhileLoop
<1>2. PICK M \in Memory : Leads(cl, mem, Steps(pc, iter), M) /\ Stages(M, Steps(pc, iter), stage)
  BY DEF Inv, Good
<1>3. /\ pc' = IF tnow < tmax THEN "zbuf" ELSE "copy"
      /\ UNCHANGED << cl, mem, k, stage, tnow, iter, hostw >>
  BY DEF WhileLoop
<1>4. pc' \in {"zbuf", "copy"} /\ Steps(pc', iter) = Steps(pc, iter)
  BY <1>1, <1>3 DEF Steps
<1>5. Counts(pc', k, stage, tnow, iter)
  <2>1. stage = 0 /\ iter \in Nat /\ tnow = 2 * iter /\ tmax \in Nat
    <3>1. stage = 0 /\ iter \in Nat /\ Steps(pc, iter) = iter
      BY <1>1 DEF Counts, Inside, Steps
    <3>2. tnow = 2 * Steps(pc, iter) + (IF conf.scheme = "RK2" THEN stage ELSE 0)
      BY <1>1 DEF Counts
    <3> QED
      BY <3>1, <3>2, OpenCLAssumption
  <2>2. CASE tnow < tmax
    <3>1. pc' = "zbuf"
      BY <1>3, <2>2
    <3> QED
      BY <1>1, <2>1, <2>2, <3>1 DEF Counts, Inside, Steps
  <2>3. CASE ~ (tnow < tmax)
    <3>1. pc' = "copy"
      BY <1>3, <2>3
    <3> QED
      BY <1>1, <2>1, <2>3, <3>1 DEF Counts, Inside, Steps
  <2> QED
    BY <2>2, <2>3
<1>6. Derivative(M["dtw"], pc', k, M[Input(stage)], tnow)
  BY <1>4 DEF Derivative
<1>7. Good(cl, mem, pc', k, stage, tnow, iter, hostw)
  BY <1>1, <1>2, <1>4, <1>5, <1>6 DEF Good
<1> QED
  BY <1>3, <1>7 DEF InvAfter

LEMMA TimersStep ==
  ASSUME Inv, StageTimers
  PROVE  InvAfter
<1>1. conf \in Confs /\ Counts(pc, k, stage, tnow, iter) /\ Shown(hostw) /\ pc = "timers"
  BY DEF Inv, Good, StageTimers
<1>2. PICK M \in Memory : Leads(cl, mem, Steps(pc, iter), M) /\ Stages(M, Steps(pc, iter), stage)
  BY DEF Inv, Good
<1>3. pc' = "while" /\ iter' = iter + 1 /\ UNCHANGED << cl, mem, k, stage, tnow, hostw >>
  BY DEF StageTimers
<1>4. Steps("while", iter + 1) = Steps(pc, iter)
  BY <1>1 DEF Steps
<1>5. Counts("while", k, stage, tnow, iter + 1)
  <2>1. iter \in Nat /\ tmax \in Nat /\ 2 * iter < tmax /\ stage = 0
    BY <1>1, OpenCLAssumption DEF Counts, Inside
  <2>2. iter + 1 \in Nat /\ 2 * (iter + 1) < tmax + 2
    BY <2>1
  <2> QED
    BY <1>1, <1>4, <2>1, <2>2 DEF Counts, Inside
<1>6. Derivative(M["dtw"], "while", k, M[Input(stage)], tnow)
  BY DEF Derivative
<1>7. Good(cl, mem, "while", k, stage, tnow, iter + 1, hostw)
  BY <1>1, <1>2, <1>4, <1>5, <1>6 DEF Good
<1> QED
  BY <1>3, <1>7 DEF InvAfter

LEMMA CopyStep ==
  ASSUME Inv, CopyfieldtoCPU
  PROVE  InvAfter
<1>1. conf \in Confs /\ Counts(pc, k, stage, tnow, iter) /\ pc = "copy"
  BY DEF Inv, Good, CopyfieldtoCPU
<1>2. PICK M \in Memory : Leads(cl, mem, Steps(pc, iter), M) /\ Stages(M, Steps(pc, iter), stage)
  BY DEF Inv, Good
<1>3. pc' = "return" /\ hostw' = mem["w"] /\ cl.queue = << >>
      /\ UNCHANGED << cl, mem, k, stage, tnow, iter >>
  BY DEF CopyfieldtoCPU
<1>4. Steps(pc, iter) = iter /\ Steps("return", iter) = iter
  BY <1>1 DEF Steps
<1>5. iter = (tmax + 1) \div 2 /\ iter \in Nat
  <2>1. iter \in Nat /\ tmax \in Nat /\ tmax <= 2 * iter /\ 2 * iter < tmax + 2
    BY <1>1, OpenCLAssumption DEF Counts, Inside
  <2> QED
    BY <2>1
<1>6. Shown(hostw')
  <2>1. Leads(cl, mem, iter, M)
    BY <1>2, <1>4
  <2>2. At(M, iter) /\ mem = M
    BY <1>3, <1>5, <2>1, OnTheWay
  <2> QED
    BY <1>3, <1>5, <2>2 DEF At, Shown
<1>7. Counts("return", k, stage, tnow, iter)
  BY <1>1, <1>4 DEF Counts, Inside
<1>8. Derivative(M["dtw"], "return", k, M[Input(stage)], tnow)
  BY DEF Derivative
<1>9. Good(cl, mem, "return", k, stage, tnow, iter, hostw')
  BY <1>1, <1>2, <1>4, <1>6, <1>7, <1>8 DEF Good
<1> QED
  BY <1>3, <1>9 DEF InvAfter

LEMMA DeviceStep ==
  ASSUME Inv, Device
  PROVE  InvAfter
<1>1. PICK M \in Memory : /\ Leads(cl, mem, Steps(pc, iter), M) /\ Stages(M, Steps(pc, iter), stage)
                          /\ Derivative(M["dtw"], pc, k, M[Input(stage)], tnow)
  BY DEF Inv, Good
<1>2. /\ cl.queue # << >> /\ mem' = memAfter(Head(cl.queue).run, mem)
      /\ cl' = [cl EXCEPT !.queue = Tail(@)] /\ UNCHANGED << pc, k, stage, tnow, iter, hostw >>
  BY DEF Device
<1>3. Leads(cl', mem', Steps(pc, iter), M)
  BY <1>1, <1>2, Executed
<1>4. Good(cl', mem', pc, k, stage, tnow, iter, hostw)
  BY <1>1, <1>3 DEF Inv, Good
<1> QED
  BY <1>2, <1>4 DEF InvAfter

\* The kernel of a stage gives the next one its state,
Out(M, b, dt) == [M EXCEPT ![b] = Serial!RK_out(M["w"], dt, M["dtw"])]
OutKernel(b, dt) == [k |-> "RK_out_CL", out |-> b, w |-> "w", dt |-> dt]

LEMMA OutMemory ==
  ASSUME NEW M \in Memory, NEW b \in {"l1", "l2", "l3"}, NEW dt \in Int
  PROVE  /\ Out(M, b, dt) \in Memory
         /\ Out(M, b, dt)[b] = Serial!RK_out(M["w"], dt, M["dtw"])
         /\ \A x \in Buffer \ {b} : Out(M, b, dt)[x] = M[x]
<1> DEFINE v == Serial!RK_out(M["w"], dt, M["dtw"])
<1>1. v \in Fields
  <2>1. M["w"] \in Fields /\ M["dtw"] \in Fields
    BY BuffersAre
  <2> QED
    BY <2>1, OutType
<1>2. b \in Buffer
  BY DEF Buffer
<1>3. Out(M, b, dt) = [M EXCEPT ![b] = v]
  BY DEF Out
<1> HIDE DEF v
<1>4. /\ Out(M, b, dt) \in Memory /\ Out(M, b, dt)[b] = v
      /\ \A x \in Buffer \ {b} : Out(M, b, dt)[x] = M[x]
  BY <1>1, <1>2, <1>3 DEF Memory
<1> QED
  BY <1>4 DEF v

LEMMA StageOut ==
  ASSUME NEW s, NEW m, NEW N \in Nat, NEW M \in Memory, Leads(s, m, N, M), NEW b \in {"l1", "l2", "l3"},
         NEW dt \in Int, NEW wait, NEW slot
  PROVE  Leads(clEnqueueNDRangeKernel(s, OutKernel(b, dt), wait, slot), m, N, Out(M, b, dt))
<1> DEFINE c == OutKernel(b, dt)
<1>1. "w" \in Buffer \ {b}
  BY DEF Buffer
<1>2. memAfter(c, M) = Out(M, b, dt)
  BY DEF memAfter, Out, OutKernel
<1>3. Out(M, b, dt)["w"] = M["w"]
  BY <1>1, OutMemory
<1>4. At(M, N)
  BY OnTheWay
<1>5. memAfter(c, M)["w"] = StateAfter[N]
  BY <1>2, <1>3, <1>4 DEF At
<1>6. c.k \notin LastStages
  BY DEF LastStages, OutKernel
<1> HIDE DEF c
<1>7. Leads(clEnqueueNDRangeKernel(s, c, wait, slot), m, N, memAfter(c, M))
  BY <1>5, <1>6, Enqueued
<1> QED
  BY <1>2, <1>7 DEF c

\* the last one the step of the serial scheme.
Final(M, v) == [M EXCEPT !["w"] = v]

LEMMA StageFinal ==
  ASSUME conf \in Confs, NEW s, NEW m, NEW N \in Nat, NEW M \in Memory, Leads(s, m, N, M), NEW c,
         c.k \in LastStages, memAfter(c, M) = Final(M, StepFrom(M["w"], 2 * N)), NEW wait, NEW slot
  PROVE  /\ Leads(clEnqueueNDRangeKernel(s, c, wait, slot), m, N + 1, Final(M, StepFrom(M["w"], 2 * N)))
         /\ Final(M, StepFrom(M["w"], 2 * N)) \in Memory
<1> DEFINE v == StepFrom(M["w"], 2 * N)
<1>1. M["w"] \in Fields /\ 2 * N \in Int
  BY BuffersAre
<1>2. v \in Fields
  BY <1>1, StepIs
<1>3. At(M, N)
  BY OnTheWay
<1>4. v = StateAfter[N + 1]
  BY <1>3, StateAfterIs DEF At
<1> HIDE DEF v
<1>5. Final(M, v) \in Memory /\ Final(M, v)["w"] = v
  BY <1>2 DEF Final, Memory, Buffer
<1>6. memAfter(c, M) = Final(M, v)
  BY DEF v
<1>7. memAfter(c, M)["w"] = StateAfter[N + 1]
  BY <1>4, <1>5, <1>6
<1>8. Leads(clEnqueueNDRangeKernel(s, c, wait, slot), m, N + 1, memAfter(c, M))
  BY <1>7, Enqueued
<1> QED
  BY <1>5, <1>6, <1>8 DEF v

LEMMA StageStep ==
  ASSUME Inv, Stage
  PROVE  InvAfter
<1>1. pc \in Inside /\ pc = "stage"
  BY DEF Stage, Inside
<1>2. /\ conf \in Confs /\ Counts(pc, k, stage, tnow, iter) /\ Shown(hostw)
      /\ stage \in 0..3 /\ tnow \in Int /\ k \in Nat \ {0} /\ iter \in Nat
      /\ Steps(pc, iter) = iter
  BY <1>1, InvInside
<1>3. PICK M \in Memory : /\ Leads(cl, mem, iter, M) /\ Stages(M, iter, stage)
                          /\ Derivative(M["dtw"], pc, k, M[Input(stage)], tnow)
  BY <1>1, InvInside
<1> DEFINE w == M["w"]
           wait == {<< "rksource", stage >>}
           slot == << "rkstage", stage >>
<1>4. M["dtw"] = DtFields(M[Input(stage)], tnow)
  BY <1>1, <1>3 DEF Derivative
<1>5. /\ cl' = clEnqueueNDRangeKernel(cl, StageKernel, wait, slot)
      /\ tnow' = tnow + StageTime
      /\ pc' = IF stage = Nbstages - 1 THEN "timers" ELSE "zbuf"
      /\ stage' = (stage + 1) % Nbstages
      /\ UNCHANGED << conf, mem, k, iter, hostw >>
  BY DEF Stage
<1>6. /\ stage \in 0..(Nbstages - 1) /\ 2 * iter < tmax
      /\ tnow = 2 * iter + (IF conf.scheme = "RK2" THEN stage ELSE 0)
  BY <1>1, <1>2 DEF Counts
<1>7. tmax \in Nat /\ w \in Fields /\ 2 * iter \in Int
  BY <1>2, OpenCLAssumption, BuffersAre
<1> HIDE DEF w, wait, slot
<1>8. \A g, t : Counts("zbuf", k, g, t, iter) <=>
                  g \in 0..(Nbstages - 1) /\ t = 2 * iter + (IF conf.scheme = "RK2" THEN g ELSE 0)
  BY <1>2, <1>6 DEF Counts, Inside, Steps
<1>9. \A t : Counts("timers", k, 0, t, iter) <=> t = 2 * (iter + 1)
  <2>1. 0 \in 0..(Nbstages - 1) /\ 2 * (iter + 1) + 0 = 2 * (iter + 1)
    BY <1>2 DEF Nbstages
  <2> QED
    BY <1>2, <1>6, <2>1 DEF Counts, Inside, Steps
<1>10. Steps("zbuf", iter) = iter /\ Steps("timers", iter) = iter + 1
  BY DEF Steps
<1>11. \A d, j, x, t, p : p \in {"zbuf", "timers"} => Derivative(d, p, j, x, t)
  BY DEF Derivative
\* Before the last stage of either scheme.
<1>12. ASSUME NEW b \in {"l1", "l2", "l3"}, NEW dt \in Int, StageKernel = OutKernel(b, dt),
              stage < Nbstages - 1, tnow' = 2 * iter + (IF conf.scheme = "RK2" THEN stage + 1 ELSE 0),
              stage' = stage + 1, Stages(Out(M, b, dt), iter, stage + 1)
       PROVE  InvAfter
  <2> DEFINE K == Out(M, b, dt)
  <2>1. Leads(cl', mem', iter, K) /\ K \in Memory
    BY <1>2, <1>3, <1>5, <1>12, StageOut, OutMemory
  <2>2. pc' = "zbuf" /\ stage + 1 \in 0..(Nbstages - 1)
    BY <1>2, <1>5, <1>12 DEF Nbstages
  <2>3. Counts("zbuf", k, stage + 1, tnow', iter)
    BY <1>8, <1>12, <2>2
  <2> HIDE DEF K
  <2>4. Stages(K, iter, stage + 1)
    BY <1>12 DEF K
  <2>5. Derivative(K["dtw"], "zbuf", k, K[Input(stage + 1)], tnow')
    BY <1>11
  <2>6. Good(cl', mem', "zbuf", k, stage + 1, tnow', iter, hostw)
    BY <1>2, <1>10, <2>1, <2>3, <2>4, <2>5 DEF Good
  <2> QED
    BY <1>5, <1>12, <2>2, <2>6 DEF InvAfter
\* At the last one.
<1>13. ASSUME NEW c, StageKernel = c, c.k \in LastStages, memAfter(c, M) = Final(M, StepFrom(w, 2 * iter)),
              stage = Nbstages - 1, tnow' = 2 * (iter + 1), stage' = 0
       PROVE  InvAfter
  <2> DEFINE K == Final(M, StepFrom(w, 2 * iter))
  <2>1. Leads(cl', mem', iter + 1, K) /\ K \in Memory
    BY <1>2, <1>3, <1>5, <1>13, StageFinal DEF w
  <2>2. pc' = "timers"
    BY <1>5, <1>13
  <2>3. Counts("timers", k, 0, tnow', iter)
    BY <1>9, <1>13
  <2> HIDE DEF K
  <2>4. Stages(K, iter + 1, 0)
    BY DEF Stages
  <2>5. Derivative(K["dtw"], "timers", k, K[Input(0)], tnow')
    BY <1>11
  <2>6. Good(cl', mem', "timers", k, 0, tnow', iter, hostw)
    BY <1>2, <1>10, <2>1, <2>3, <2>4, <2>5 DEF Good
  <2> QED
    BY <1>5, <1>13, <2>2, <2>6 DEF InvAfter
<1>14. CASE conf.scheme = "RK2"
  <2>1. Nbstages = 2 /\ StageTime = 1 /\ tnow = 2 * iter + stage
    BY <1>6, <1>14 DEF Nbstages, StageTime
  <2>2. CASE stage = 0
    <3>1. StageKernel = OutKernel("l1", 1)
      BY <1>14, <2>2 DEF StageKernel, OutKernel
    <3>2. tnow = 2 * iter /\ tnow' = 2 * iter + 1 /\ stage' = 1 /\ stage + 1 = 1
      BY <1>2, <1>5, <2>1, <2>2
    <3>3. Stages(Out(M, "l1", 1), iter, 1)
      <4>1. Out(M, "l1", 1)["l1"] = Serial!RK_out(w, 1, M["dtw"]) /\ Out(M, "l1", 1)["w"] = w
        <5>1. "w" \in Buffer \ {"l1"} /\ "l1" \in {"l1", "l2", "l3"} /\ 1 \in Int
          BY DEF Buffer
        <5> QED
          BY <1>2, <1>3, <5>1, OutMemory DEF w
      <4>2. M["dtw"] = DtFields(w, 2 * iter)
        BY <1>4, <2>2, <3>2 DEF Input, w
      <4> QED
        BY <4>1, <4>2 DEF Stages, Stage1
    <3>4. stage < Nbstages - 1 /\ "l1" \in {"l1", "l2", "l3"} /\ 1 \in Int
      BY <2>1, <2>2
    <3>5. tnow' = 2 * iter + (IF conf.scheme = "RK2" THEN stage + 1 ELSE 0) /\ stage' = stage + 1
      BY <1>14, <3>2
    <3>6. Stages(Out(M, "l1", 1), iter, stage + 1)
      BY <3>2, <3>3
    <3> QED
      BY <1>12, <3>1, <3>4, <3>5, <3>6
  <2>3. CASE stage = 1
    <3> DEFINE c == [k |-> "RK_in_CL", dt |-> 2]
    <3>1. StageKernel = c /\ c.k \in LastStages
      BY <1>14, <2>3 DEF StageKernel, LastStages
    <3>2. tnow = 2 * iter + 1 /\ tnow' = 2 * (iter + 1) /\ stage' = 0
      BY <1>2, <1>5, <2>1, <2>3
    <3>3. M["dtw"] = DtFields(Stage1(w, 2 * iter), 2 * iter + 1)
      BY <1>3, <1>4, <2>3, <3>2 DEF Input, Stages, w
    <3>4. StepFrom(w, 2 * iter) = Serial!RK_in(w, 2, DtFields(Stage1(w, 2 * iter), 2 * iter + 1))
      BY <1>2, <1>7, <1>14, StepIs
    <3>5. memAfter(c, M) = [M EXCEPT !["w"] = Serial!RK_in(w, 2, M["dtw"])]
      <4>1. M = [x \in Buffer |-> M[x]]
        BY <1>3 DEF Memory
      <4> QED
        BY <4>1 DEF memAfter, w
    <3>6. memAfter(c, M) = Final(M, StepFrom(w, 2 * iter))
      BY <3>3, <3>4, <3>5 DEF Final
    <3> HIDE DEF c
    <3> QED
      BY <1>13, <2>1, <2>3, <3>1, <3>2, <3>6
  <2> QED
    BY <1>6, <2>1, <2>2, <2>3
<1>15. CASE conf.scheme = "RK4"
  <2>1. Nbstages = 4 /\ tnow = 2 * iter
    BY <1>2, <1>6, <1>15 DEF Nbstages
  <2>2. ASSUME NEW b \in {"l1", "l2", "l3"}
        PROVE  "w" \in Buffer \ {b} /\ b \in Buffer
    BY DEF Buffer
  <2>3. ASSUME stage \in 0..2
        PROVE  InvAfter
    <3> DEFINE b == << "l1", "l2", "l3" >>[stage + 1]
               dt == << 1, 1, 2 >>[stage + 1]
               K == Out(M, b, dt)
    <3>1. stage = 0 \/ stage = 1 \/ stage = 2
      BY <2>3
    <3>2. b \in {"l1", "l2", "l3"} /\ dt \in Int /\ StageKernel = OutKernel(b, dt)
      BY <1>15, <3>1 DEF StageKernel, OutKernel
    <3>3. StageTime = 0 /\ tnow' = 2 * iter /\ stage' = stage + 1 /\ stage < Nbstages - 1
      <4>1. StageTime = 0
        BY <1>15, <3>1 DEF StageTime
      <4>2. (stage + 1) % 4 = stage + 1
        BY <3>1
      <4> QED
        BY <1>2, <1>5, <2>1, <3>1, <4>1, <4>2
    <3>4. K[b] = Serial!RK_out(w, dt, M["dtw"]) /\ \A x \in Buffer \ {b} : K[x] = M[x]
      <4> HIDE DEF b, dt
      <4> QED
        BY <1>2, <1>3, <3>2, OutMemory DEF w
    <3>5. Stages(K, iter, stage + 1)
      <4> HIDE DEF K
      <4>1. CASE stage = 0
        <5>1. b = "l1" /\ dt = 1 /\ stage + 1 = 1
          BY <4>1
        <5> HIDE DEF b, dt
        <5>2. K["w"] = w /\ K["l1"] = Serial!RK_out(w, 1, M["dtw"])
          BY <3>4, <5>1 DEF Buffer, w
        <5>3. M["dtw"] = DtFields(w, 2 * iter)
          BY <1>4, <2>1, <4>1 DEF Input, w
        <5> QED
          BY <5>1, <5>2, <5>3 DEF Stages, Stage1
      <4>2. CASE stage = 1
        <5>1. b = "l2" /\ dt = 1 /\ stage + 1 = 2
          BY <4>2
        <5> HIDE DEF b, dt
        <5>2. K["w"] = w /\ K["l1"] = M["l1"] /\ K["l2"] = Serial!RK_out(w, 1, M["dtw"])
          BY <3>4, <5>1 DEF Buffer, w
        <5>3. M["l1"] = Stage1(w, 2 * iter)
          BY <1>3, <4>2 DEF Stages, w
        <5>4. M["dtw"] = DtFields(Stage1(w, 2 * iter), 2 * iter)
          BY <1>4, <2>1, <4>2, <5>3 DEF Input
        <5> QED
          BY <5>1, <5>2, <5>3, <5>4 DEF Stages, Stage2
      <4>3. CASE stage = 2
        <5>1. b = "l3" /\ dt = 2 /\ stage + 1 = 3
          BY <4>3
        <5> HIDE DEF b, dt
        <5>2. /\ K["w"] = w /\ K["l1"] = M["l1"] /\ K["l2"] = M["l2"]
              /\ K["l3"] = Serial!RK_out(w, 2, M["dtw"])
          BY <3>4, <5>1 DEF Buffer, w
        <5>3. M["l1"] = Stage1(w, 2 * iter) /\ M["l2"] = Stage2(w, 2 * iter)
          BY <1>3, <4>3 DEF Stages, w
        <5>4. M["dtw"] = DtFields(Stage2(w, 2 * iter), 2 * iter)
          BY <1>4, <2>1, <4>3, <5>3 DEF Input
        <5> QED
          BY <5>1, <5>2, <5>3, <5>4 DEF Stages, Stage3
      <4> QED
        BY <3>1, <4>1, <4>2, <4>3
    <3>6. tnow' = 2 * iter + (IF conf.scheme = "RK2" THEN stage + 1 ELSE 0)
      BY <1>2, <1>15, <3>3
    <3>7. Stages(Out(M, b, dt), iter, stage + 1)
      BY <3>5
    <3> HIDE DEF b, dt
    <3> QED
      BY <1>12, <3>2, <3>3, <3>6, <3>7
  <2>4. CASE stage = 3
    <3> DEFINE c == [k |-> "RK4_final_stage"]
    <3>1. StageKernel = c /\ c.k \in LastStages
      BY <1>15, <2>4 DEF StageKernel, LastStages
    <3>2. StageTime = 2 /\ tnow' = 2 * (iter + 1) /\ stage' = 0
      <4>1. StageTime = 2
        BY <1>15, <2>4 DEF StageTime
      <4>2. (stage + 1) % 4 = 0
        BY <2>4
      <4> QED
        BY <1>2, <1>5, <2>1, <4>1, <4>2
    <3>3. /\ M["l1"] = Stage1(w, 2 * iter) /\ M["l2"] = Stage2(w, 2 * iter)
          /\ M["l3"] = Stage3(w, 2 * iter)
      BY <1>3, <2>4 DEF Stages, w
    <3>4. M["dtw"] = DtFields(Stage3(w, 2 * iter), 2 * iter)
      BY <1>4, <2>1, <2>4, <3>3 DEF Input
    <3>5. StepFrom(w, 2 * iter)
            = Serial!RK4_final_inplace(w, Stage1(w, 2 * iter), Stage2(w, 2 * iter), Stage3(w, 2 * iter),
                                       DtFields(Stage3(w, 2 * iter), 2 * iter))
      BY <1>2, <1>7, <1>15, StepIs
    <3>6. memAfter(c, M)
            = [M EXCEPT !["w"] = Serial!RK4_final_inplace(w, M["l1"], M["l2"], M["l3"], M["dtw"])]
      <4>1. M = [x \in Buffer |-> M[x]]
        BY <1>3 DEF Memory
      <4> QED
        BY <4>1 DEF memAfter, w
    <3>7. memAfter(c, M) = Final(M, StepFrom(w, 2 * iter))
      BY <3>3, <3>4, <3>5, <3>6 DEF Final
    <3> HIDE DEF c
    <3> QED
      BY <1>13, <2>1, <2>4, <3>1, <3>2, <3>7
  <2>5. stage \in 0..2 \/ stage = 3
    BY <1>2
  <2> QED
    BY <2>3, <2>4, <2>5
<1>16. conf.scheme \in {"RK2", "RK4"}
  BY <1>2, ConfIs
<1> QED
  BY <1>14, <1>15, <1>16

\* What depends on the simulation only stays what it is.
LEMMA SerialStays ==
  ASSUME conf' = conf
  PROVE  StateAfter' = StateAfter
<1>1. Elem' = Elem
  BY DEF Elem
<1>2. \A w, t : FaceFlux(w, t)' = FaceFlux(w, t)
  BY DEF FaceFlux
<1>3. \A w, t : DtFields(w, t)' = DtFields(w, t)
  BY <1>1, <1>2 DEF DtFields
<1>4. \A w, t : Serial!RK2Step(w, t)' = Serial!RK2Step(w, t)
  BY <1>1, <1>3 DEF Serial!RK2Step, Serial!RK_in, Serial!RK_out, Serial!Table
<1>5. ASSUME NEW w, NEW t
      PROVE  Frozen(t)!ClassicalRK4(w, t)' = Frozen(t)!ClassicalRK4(w, t)
  <2> DEFINE k1 == DtFields(w, t)
             k2 == DtFields(Frozen(t)!RK_out(w, 1, k1), t)
             k3 == DtFields(Frozen(t)!RK_out(w, 1, k2), t)
             k4 == DtFields(Frozen(t)!RK_out(w, 2, k3), t)
             i == Frozen(t)!Inverse(3)
             all == [e \in Elem |-> (w[e] + (k1[e] + 2 * k2[e] + 2 * k3[e] + k4[e]) * i) % P]
  <2>1. \A v, d, x : Frozen(t)!RK_out(v, d, x)' = Frozen(t)!RK_out(v, d, x)
    BY <1>1 DEF Frozen!RK_out, Frozen!Table
  <2>2. i' = i
    BY DEF Frozen!Inverse
  <2>3. k1' = k1
    BY <1>3
  <2>4. k2' = k2
    <3> HIDE DEF k1
    <3> QED
      BY <1>3, <2>1, <2>3
  <2>5. k3' = k3
    <3> HIDE DEF k2
    <3> QED
      BY <1>3, <2>1, <2>4
  <2>6. k4' = k4
    <3> HIDE DEF k3
    <3> QED
      BY <1>3, <2>1, <2>5
  <2>7. Frozen(t)!ClassicalRK4(w, t) = all
    BY DEF Frozen!ClassicalRK4, Frozen!Table
  <2>8. Frozen(t)!ClassicalRK4(w, t)' = all'
    BY DEF Frozen!ClassicalRK4, Frozen!Table
  <2>9. all' = all
    <3> HIDE DEF k1, k2, k3, k4, i
    <3> QED
      BY <1>1, <2>2, <2>3, <2>4, <2>5, <2>6
  <2> QED
    BY <2>7, <2>8, <2>9
<1>6. \A w, t : StepFrom(w, t)' = StepFrom(w, t)
  BY <1>4, <1>5 DEF StepFrom
<1> QED
  BY <1>6 DEF StateAfter

LEMMA KernelsStay ==
  ASSUME conf' = conf, NEW c, NEW m
  PROVE  memAfter(c, m)' = memAfter(c, m)
<1>1. Elem' = Elem
  BY DEF Elem
<1>2. \A x, w, d : dtwAfter(x, w, d)' = dtwAfter(x, w, d)
  BY <1>1 DEF dtwAfter, set_buffer_to_zero, DGMacroCellInterface, DGBoundary, DGFlux, DGVolume,
              DGMass, DGSource, Add
<1>3. \A w, d, x : Serial!RK_out(w, d, x)' = Serial!RK_out(w, d, x)
  BY <1>1 DEF Serial!RK_out, Serial!Table
<1>4. \A w, l2, l3, l4, d : Serial!RK4_final_inplace(w, l2, l3, l4, d)' = Serial!RK4_final_inplace(w, l2, l3, l4, d)
  BY <1>1 DEF Serial!RK4_final_inplace, Serial!Table, Serial!Inverse
<1> QED
  BY <1>2, <1>3, <1>4 DEF memAfter, Serial!RK_in

LEMMA LeadsStays ==
  ASSUME conf' = conf, NEW s, NEW m, NEW N, NEW M
  PROVE  Leads(s, m, N, M)' <=> Leads(s, m, N, M)
<1>1. StateAfter' = StateAfter
  BY SerialStays
<1>2. \A c, b : memAfter(c, b)' = memAfter(c, b)
  BY KernelsStay
<1>3. \A R, q : Passes(R, q, m, N, M)' <=> Passes(R, q, m, N, M)
  BY <1>1, <1>2 DEF Passes
<1> QED
  BY <1>3 DEF Leads

LEMMA DerivativeStays ==
  ASSUME conf' = conf
  PROVE  /\ Memory' = Memory
         /\ \A M, n, g : Stages(M, n, g)' <=> Stages(M, n, g)
         /\ \A d, p, j, w, t : Derivative(d, p, j, w, t)' <=> Derivative(d, p, j, w, t)
<1>1. Elem' = Elem /\ ninterfaces' = ninterfaces
  BY DEF Elem, ninterfaces
<1>2. Memory' = Memory
  BY <1>1 DEF Memory, Fields
<1>3. \A w, t : FaceFlux(w, t)' = FaceFlux(w, t)
  BY DEF FaceFlux
<1>4. \A w, t : DtFields(w, t)' = DtFields(w, t)
  BY <1>1, <1>3 DEF DtFields
<1>5. \A w, d, x : Serial!RK_out(w, d, x)' = Serial!RK_out(w, d, x)
  BY <1>1 DEF Serial!RK_out, Serial!Table
<1>6. \A w, t : Stage1(w, t)' = Stage1(w, t)
  BY <1>4, <1>5 DEF Stage1
<1>7. \A w, t : Stage2(w, t)' = Stage2(w, t)
  BY <1>4, <1>5, <1>6 DEF Stage2
<1>8. \A w, t : Stage3(w, t)' = Stage3(w, t)
  BY <1>4, <1>5, <1>7 DEF Stage3
<1>9. \A M, n, g : Stages(M, n, g)' <=> Stages(M, n, g)
  BY <1>6, <1>7, <1>8 DEF Stages
<1>10. \A F, w, t, e : Net(F, w, t, e)' = Net(F, w, t, e)
  BY <1>3 DEF Net, Into, OutOf
<1>11. \A F, w, t : FluxIn(F, w, t)' = FluxIn(F, w, t)
  BY <1>1, <1>10 DEF FluxIn
<1>12. \A j : Inner(j)' = Inner(j) /\ Outer(j)' = Outer(j)
  BY DEF Inner, Outer
<1>13. \A d, p, j, w, t : Derivative(d, p, j, w, t)' <=> Derivative(d, p, j, w, t)
  <2>1. ASSUME NEW d, NEW p, NEW j, NEW w, NEW t
        PROVE  Derivative(d, p, j, w, t)' <=> Derivative(d, p, j, w, t)
    <3> DEFINE F == Inner(ninterfaces + 1) \cup Outer(j)
               C == \A e \in Elem : d[e] = IF e < j - 1 THEN DtFields(w, t)[e]
                                           ELSE Net(DOMAIN conf.fL, w, t, e) % P
    <3>1. F' = F
      BY <1>1, <1>12
    <3>2. FluxIn(Inner(j), w, t)' = FluxIn(Inner(j), w, t)
      BY <1>11, <1>12
    <3>3. FluxIn(F, w, t)' = FluxIn(F, w, t)
      <4> HIDE DEF F
      <4> QED
        BY <1>11, <3>1
    <3>4. C' <=> C
      <4>1. \A e : Net(DOMAIN conf.fL, w, t, e)' = Net(DOMAIN conf.fL, w, t, e)
        BY <1>10
      <4> QED
        BY <1>1, <1>4, <4>1
    <3>5. DtFields(w, t)' = DtFields(w, t)
      BY <1>4
    <3>6. Derivative(d, p, j, w, t) <=>
            /\ p = "mci" => d = FluxIn(Inner(j), w, t)
            /\ p = "boundary" => d = FluxIn(F, w, t)
            /\ p = "macro" => C
            /\ p \in {"wait", "stage"} => d = DtFields(w, t)
      BY DEF Derivative
    <3>7. Derivative(d, p, j, w, t)' <=>
            /\ p = "mci" => d = FluxIn(Inner(j), w, t)'
            /\ p = "boundary" => d = FluxIn(F, w, t)'
            /\ p = "macro" => C'
            /\ p \in {"wait", "stage"} => d = DtFields(w, t)'
      BY DEF Derivative
    <3> HIDE DEF F, C
    <3> QED
      BY <3>2, <3>3, <3>4, <3>5, <3>6, <3>7
  <2> QED
    BY <2>1
<1> QED
  BY <1>2, <1>9, <1>13

LEMMA GoodStays ==
  ASSUME conf' = conf, NEW s, NEW m, NEW p, NEW j, NEW g, NEW t, NEW i, NEW h
  PROVE  Good(s, m, p, j, g, t, i, h)' <=> Good(s, m, p, j, g, t, i, h)
<1>1. Counts(p, j, g, t, i)' <=> Counts(p, j, g, t, i)
  BY DEF Counts, Nbstages, ninterfaces, nboundaryfaces
<1>2. Shown(h)' <=> Shown(h)
  BY SerialStays DEF Shown
<1>3. \A N, M : Leads(s, m, N, M)' <=> Leads(s, m, N, M)
  BY LeadsStays
<1> QED
  BY <1>1, <1>2, <1>3, DerivativeStays DEF Good

LEMMA InvStays ==
  ASSUME conf' = conf, InvAfter
  PROVE  Inv'
<1>1. \A s, m, p, j, g, t, i, h : Good(s, m, p, j, g, t, i, h)' <=> Good(s, m, p, j, g, t, i, h)
  BY GoodStays
<1> QED
  BY <1>1 DEF Inv, InvAfter

LEMMA InitInv ==
  ASSUME Init
  PROVE  Inv
<1>1. /\ conf \in Confs /\ "queue" \in DOMAIN cl /\ cl.queue = << >>
      /\ mem = [b \in Buffer |-> IF b = "w" THEN conf.w0 ELSE [e \in Elem |-> 0]]
      /\ pc = "while" /\ k = 1 /\ stage = 0 /\ tnow = 0 /\ iter = 0 /\ hostw = << >>
  BY DEF Init
<1>2. conf.w0 \in Fields /\ [e \in Elem |-> 0] \in Fields
  <2>1. 0 \in Value
    BY PAssumption DEF Value
  <2> QED
    BY <1>1, <2>1, ConfIs DEF Fields
<1>3. mem \in Memory /\ mem["w"] = conf.w0
  BY <1>1, <1>2 DEF Memory, Buffer
<1>4. StateAfter[0] = conf.w0
  BY <1>1, StateAfterIs
<1>5. Steps("while", 0) = 0 /\ 0 \in Nat
  BY DEF Steps
<1>6. Leads(cl, mem, 0, mem)
  BY <1>1, <1>3, <1>4, <1>5, NothingToDo
<1>7. Counts("while", 1, 0, 0, 0)
  <2>1. tmax \in Nat
    BY OpenCLAssumption
  <2>2. 0 \in 0..(Nbstages - 1)
    BY DEF Nbstages
  <2> QED
    BY <1>5, <2>1, <2>2 DEF Counts, Inside
<1>8. Stages(mem, 0, 0) /\ Derivative(mem["dtw"], "while", 1, mem[Input(0)], 0) /\ Shown(<< >>)
  BY DEF Stages, Derivative, Shown
<1>9. Good(cl, mem, "while", 1, 0, 0, 0, << >>)
  BY <1>1, <1>3, <1>5, <1>6, <1>7, <1>8 DEF Good
<1> QED
  BY <1>1, <1>9 DEF Inv

LEMMA Invariance == Spec => []Inv
<1>1. Init => Inv
  BY InitInv
<1>2. Inv /\ [Next]_vars => Inv'
  <2> SUFFICES ASSUME Inv, [Next]_vars
               PROVE  Inv'
    OBVIOUS
  <2>1. conf' = conf
    BY DEF Next, Host, Device, Returned, WhileLoop, set_buf_to_zero_cl, DGMacroCellInterface_CL,
           DGBoundary_CL, MacroLoop, dtfieldDone, Stage, StageTimers, CopyfieldtoCPU, vars
  <2>2. CASE UNCHANGED vars
    <3>1. /\ cl' = cl /\ mem' = mem /\ pc' = pc /\ k' = k /\ stage' = stage /\ tnow' = tnow
          /\ iter' = iter /\ hostw' = hostw
      BY <2>2 DEF vars
    <3>2. InvAfter
      BY <3>1 DEF Inv, InvAfter
    <3> QED
      BY <2>1, <3>2, InvStays
  <2> QED
    BY <2>1, <2>2, WhileStep, ZeroStep, InterfaceStep, BoundaryStep, MacroStep, DoneStep, StageStep,
       TimersStep, CopyStep, DeviceStep, InvStays DEF Next, Host, Returned
<1> QED
  BY <1>1, <1>2, PTL DEF Spec

\* Whenever it is looked at, the field on the device is that of the serial scheme
\* after the steps it has finished, and the caller gets the last one: on every mesh,
\* in any number of dimensions, with any of them refined, for RK2 and RK4.
THEOREM DeviceFollowsSchedule == Spec => []DeviceOnSchedule
<1>1. Inv => DeviceOnSchedule
  <2> SUFFICES ASSUME Inv
               PROVE  DeviceOnSchedule
    OBVIOUS
  <2>1. conf \in Confs /\ Counts(pc, k, stage, tnow, iter) /\ Shown(hostw)
    BY DEF Inv, Good
  <2>2. Steps(pc, iter) \in Nat
    BY <2>1, CountsIs
  <2>3. PICK M : Leads(cl, mem, Steps(pc, iter), M)
    BY DEF Inv, Good
  <2>4. At(mem, Steps(pc, iter) - Cardinality(Ending(cl.queue)))
    BY <2>2, <2>3, OnTheWay
  <2>5. StepsDone = Steps(pc, iter) - Cardinality(Ending(cl.queue))
    BY DEF StepsDone, Steps, Ending
  <2>6. mem["w"] = StateAfter[StepsDone]
    BY <2>4, <2>5 DEF At
  <2> QED
    BY <2>1, <2>6 DEF DeviceOnSchedule, Shown
<1> QED
  BY <1>1, Invariance, PTL

\* RK4 as simulation.c arranges it is the classical scheme, on every mesh and at
\* every time.
THEOREM RK4IsTheClassicalScheme == Spec => []RK4IsClassical
<1>1. Inv => RK4IsClassical
  <2> SUFFICES ASSUME Inv, NEW t \in 0..tmax
               PROVE  Serial!RK4Step(conf.w0, t) = Serial!ClassicalRK4(conf.w0, t)
    BY DEF RK4IsClassical
  <2>1. conf \in Confs
    BY DEF Inv, Good
  <2>2. t \in Int /\ conf.w0 \in Fields
    BY <2>1, ConfIs
  <2> QED
    BY <2>1, <2>2, Rearranging
<1> QED
  BY <1>1, Invariance, PTL
=============================================================================
