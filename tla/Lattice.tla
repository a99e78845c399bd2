------------------------------- MODULE Lattice -------------------------------
(***************************************************************************)
(* The lattice Boltzmann models: velocities, conserved moments and         *)
(* equilibria of lbm_generic.c and lbm_models_data.h, and of lattice.c.    *)
(*                                                                         *)
(* A descriptor lb has its velocities vi (integers: cref is one), the node *)
(* opposite to each, and for each moment that is kept its polynomial and   *)
(* the nodes it is a sum over.  The temperature theta is a third.          *)
(* LBM_Set_D2Q3_TEST_model is left out: its weights are those of the nodes *)
(* 0, -1, 1 and its nodes are -1, 0, 1, so that it conserves nothing.      *)
(***************************************************************************)
EXTENDS Residues

LBM_D2Q9_nodes == << <<0,0>>, <<1,0>>, <<0,1>>, <<-1,0>>, <<0,-1>>,
                     <<1,1>>, <<-1,1>>, <<-1,-1>>, <<1,-1>> >>
LBM_D2Q5_nodes == << <<0,0>>, <<1,0>>, <<0,1>>, <<-1,0>>, <<0,-1>> >>
LBM_D2Q9_iopposite == << 1, 4, 5, 2, 3, 8, 9, 6, 7 >>
LBM_D2Q5_iopposite == << 1, 4, 5, 2, 3 >>
\* In 36ths and in sixths.
LBM_WEIGHTS_D2Q9_ISOTH(i) == Quotient(<< 16, 4, 4, 4, 4, 1, 1, 1, 1 >>[i], 36)
LBM_WEIGHTS_D2Q5_ISOTH(i) == Quotient(<< 2, 1, 1, 1, 1 >>[i], 6)
invtheta == 3
rho0     == 1

Scalar(a, b) == a[1] * b[1] + a[2] * b[2]
Half(a)      == Quotient(a % P, 2)

(***************************************************************************)
(* Descriptors.  A moment is << exponents, first node, last node >>.       *)
(***************************************************************************)
rho2D(a, b) == << << 0, 0 >>, a, b >>
jx2D(a, b)  == << << 1, 0 >>, a, b >>
jy2D(a, b)  == << << 0, 1 >>, a, b >>

LBM_Set_D2Q9_ISOTH_model ==
  [feq |-> "ISOTH", q |-> 9, vi |-> LBM_D2Q9_nodes, iopposite |-> LBM_D2Q9_iopposite,
   moments |-> << rho2D(1, 9), jx2D(1, 9), jy2D(1, 9) >>]
LBM_Set_D2Q9_ISOTH_INC_model        == [LBM_Set_D2Q9_ISOTH_model EXCEPT !.feq = "INC"]
LBM_Set_D2Q9_ISOTH_LINEARIZED_model == [LBM_Set_D2Q9_ISOTH_model EXCEPT !.feq = "LINEARIZED"]
LBM_Set_MHD_D2Q9_2D2Q5_model ==
  [feq |-> "MHD", q |-> 19, vi |-> LBM_D2Q9_nodes \o LBM_D2Q5_nodes \o LBM_D2Q5_nodes,
   iopposite |-> LBM_D2Q9_iopposite \o Tuple(5, LAMBDA i : 9 + LBM_D2Q5_iopposite[i])
                                    \o Tuple(5, LAMBDA i : 14 + LBM_D2Q5_iopposite[i]),
   moments |-> << rho2D(1, 9), jx2D(1, 9), jy2D(1, 9), rho2D(10, 14), rho2D(15, 19) >>]

\* The lattice of lattice.c has the nine nodes and weights of D2Q9.
InitLatticeData(feq) == [LBM_Set_D2Q9_ISOTH_model EXCEPT !.feq = feq]

\* The terms of the moment matrix: zero outside the nodes of the moment.
EvaluatePoly(e, v) ==
  LET factor(d) == IF e[d] = 0 THEN 1 ELSE v[d] ^ e[d] IN factor(1) * factor(2)
MomentTerm(lb, r, i) ==
  LET m == lb.moments[r]
  IN  IF m[2] <= i /\ i <= m[3] THEN EvaluatePoly(m[1], lb.vi[i]) ELSE 0
Moments(lb, f) ==
  Tuple(Len(lb.moments), LAMBDA r : Sum(1, lb.q, LAMBDA i : f[i] * MomentTerm(lb, r, i)))

\* Density, velocity (momentum in the linearised model), magnetic field.
f_to_macro(lb, f) ==
  LET m == Moments(lb, f)
      d == CASE lb.feq = "LINEARIZED" -> 1 [] lb.feq = "INC" -> rho0 [] OTHER -> m[1]
  IN  IF m[1] = 0 THEN m
      ELSE Tuple(Len(m), LAMBDA r : IF r \in {2, 3} THEN Quotient(m[r], d) ELSE m[r])

(***************************************************************************)
(* Equilibria: what node i holds when the moments are w.                   *)
(***************************************************************************)
feq_ISOTH(i, v, w) ==
  LET u  == << w[2], w[3] >>
      u2 == (Scalar(u, u) * invtheta) % P
      uv == (Scalar(u, v) * invtheta) % P
  IN  LBM_WEIGHTS_D2Q9_ISOTH(i) * ((w[1] * ((1 + uv + Half(uv * uv - u2)) % P)) % P)
feq_INC(i, v, w) ==
  LET u  == << w[2], w[3] >>
      u2 == (Scalar(u, u) * invtheta) % P
      uv == (Scalar(u, v) * invtheta) % P
  IN  LBM_WEIGHTS_D2Q9_ISOTH(i) * ((w[1] + rho0 * (uv + Half(uv * uv - u2))) % P)
feq_LINEARIZED(i, v, w) ==
  LBM_WEIGHTS_D2Q9_ISOTH(i) * ((w[1] + Scalar(<< w[2], w[3] >>, v) * invtheta) % P)

\* The Lorentz force in the nodes of the fluid, then the two components of the
\* field, each moved along the other axis.
feq_MHD(i, v, w) ==
  LET B  == << w[4], w[5] >>
      v2 == Scalar(v, v) * invtheta
      B2 == (Scalar(B, B) * invtheta) % P
      vB == (Scalar(v, B) * invtheta) % P
      e  == (w[3] * B[1] - w[2] * B[2]) % P
  IN  IF i <= 9 THEN feq_ISOTH(i, v, w)
                     + LBM_WEIGHTS_D2Q9_ISOTH(i) * Half(Half(B2 * v2) - vB * vB)
      ELSE IF i <= 14 THEN LBM_WEIGHTS_D2Q5_ISOTH(i - 9) * ((B[1] + invtheta * v[2] * e) % P)
      ELSE LBM_WEIGHTS_D2Q5_ISOTH(i - 14) * ((B[2] - invtheta * v[1] * e) % P)

\* Those of lattice.c: w has the velocity, also in the linear model.
feq_isothermal_D2Q9(i, v, w) == feq_ISOTH(i, v, w)
feq_isothermal_linearwave_D2Q9(i, v, w) ==
  LBM_WEIGHTS_D2Q9_ISOTH(i) * (w[1] * (1 + Scalar(<< w[2], w[3] >>, v) * invtheta) % P)

feq_i(lb, i, w) ==
  LET v == lb.vi[i]
  IN  (CASE lb.feq = "ISOTH"      -> feq_ISOTH(i, v, w)
         [] lb.feq = "INC"        -> feq_INC(i, v, w)
         [] lb.feq = "LINEARIZED" -> feq_LINEARIZED(i, v, w)
         [] lb.feq = "MHD"        -> feq_MHD(i, v, w)
         [] lb.feq = "isothermal" -> feq_isothermal_D2Q9(i, v, w)
         [] lb.feq = "linearwave" -> feq_isothermal_linearwave_D2Q9(i, v, w)) % P
=============================================================================
