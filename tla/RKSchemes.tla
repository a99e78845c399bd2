----------------------------- MODULE RKSchemes -----------------------------
(***************************************************************************)
(* The Runge-Kutta schemes of simulation.c as functions of the state, the  *)
(* time and a time derivative, modulo the prime P.  Times and steps are in *)
(* units of dt / 2.                                                        *)
(***************************************************************************)
EXTENDS Integers

CONSTANTS
  P,               \* a prime above 3
  Elem,            \* the macro-elements
  DtFields(_, _)   \* DtFields(w, t): the time derivative of the state w at t

Inverse(n) == CHOOSE i \in 1..(P - 1) : (i * n) % P = 1

\* f, with its values computed once: a comparison computes them.
Table(f) == CHOOSE g \in {f} : g = f

RK_out(wn, dt, dtw) == Table([e \in Elem |-> (wn[e] + dt * dtw[e]) % P])
RK_in(w, dt, dtw)   == RK_out(w, dt, dtw)

X_Weights(l1, l2, l3, l4, dtw) ==
  Table([e \in Elem |-> ((2 * l2[e] - l1[e] + l3[e] + l4[e] + dtw[e]) * Inverse(3)) % P])

\* w = - l1 / 3 + l2 / 3 + 2 l3 / 3 + l4 / 3 + dt dtw / 6, for the step dt = 2.
RK4_final_inplace(l1, l2, l3, l4, dtw) ==
  Table([e \in Elem |-> ((l2[e] - l1[e] + 2 * l3[e] + l4[e] + dtw[e]) * Inverse(3)) % P])

RK2Step(wn, t) ==
  LET w == RK_in(wn, 1, DtFields(wn, t))
  IN  RK_out(wn, 2, DtFields(w, t + 1))

\* RK4 and RK4_old, which differ in where they keep the four states only.
RK4Step(l1, t) ==
  LET l2 == RK_out(l1, 1, DtFields(l1, t))
      l3 == RK_out(l1, 1, DtFields(l2, t + 1))
      l4 == RK_out(l1, 2, DtFields(l3, t + 1))
  IN  RK4_final_inplace(l1, l2, l3, l4, DtFields(l4, t + 2))

\* The schemes of the textbooks, which simulation.c rearranges: the slopes k1 to
\* k4 are weighed 1, 2, 2, 1 over 6.
ClassicalRK4(w, t) ==
  LET k1 == DtFields(w, t)
      k2 == DtFields(RK_out(w, 1, k1), t + 1)
      k3 == DtFields(RK_out(w, 1, k2), t + 1)
      k4 == DtFields(RK_out(w, 2, k3), t + 2)
  IN  Table([e \in Elem |-> (w[e] + (k1[e] + 2 * k2[e] + 2 * k3[e] + k4[e]) * Inverse(3)) % P])
=============================================================================
