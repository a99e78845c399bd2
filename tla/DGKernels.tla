----------------------------- MODULE DGKernels -----------------------------
(***************************************************************************)
(* What the DG kernels compute.  A buffer of a macro-element or of a face  *)
(* is abstracted to one number modulo the prime P: enough to tell apart    *)
(* two orders of the same kernels, a missing or repeated contribution, a   *)
(* weight and a time, and exact (dtw / 2 and the mass division are the     *)
(* inverses modulo P).  The physics is abstracted to a numerical flux, a   *)
(* boundary flux, volume and source terms that depend on everything they   *)
(* depend on in the source.  Times and steps are in units of dt / 2.       *)
(***************************************************************************)
EXTENDS Codelets

CONSTANT P    \* an odd prime above 2
ASSUME PAssumption == P \in Nat /\ P > 2 /\ P % 2 = 1

Half(x) == (x * ((P + 1) \div 2)) % P

\* Model callbacks.  NumFlux(wL, wR, vn) = - NumFlux(wR, wL, - vn), which every
\* numerical flux of model.c satisfies: the two sides of a face, computed
\* apart, cancel.
NumFlux(wL, wR, vn)    == vn * 2 * (wL + wR) + 3 * (wL - wR)
BoundaryFlux(t, wL)    == 5 * wL + 7 * t + 1
SubCellFlux(w)         == 11 * w
VolumeFlux(w)          == 13 * w * w
Source(t, w)           == 17 * w + 19 * t + 2
InverseMass            == 3

\* Each kernel maps the values of its buffers to their values on return.
ZeroBuffer_C(v)            == << 0 >>
AddBuffer_C(alpha, v)      == << v[1], (v[2] + alpha * v[1]) % P >>
DGSubCellInterface_C(v)    == << v[1], (v[2] - SubCellFlux(v[1])) % P >>
DGVolume_C(v)              == << v[1], (v[2] + VolumeFlux(v[1])) % P >>
DGSource_C(t, v)           == << v[1], (v[2] + Source(t, v[1])) % P >>
DGMass_C(v)                == << v[1], (v[1] * InverseMass - Half(v[2])) % P >>
DGMacroCellInterface_C(sign, v) ==
  << v[1], v[2], (v[3] - NumFlux(v[1], v[2], sign)) % P >>
DGMacroCellBoundaryFlux_C(t, v) == << v[1], (v[2] - BoundaryFlux(t, v[1])) % P >>
ExtractInterface_C(v)      == << v[2], v[2] >>

Kernel(t, v) ==
  CASE t.cl = "ZeroBuffer"              -> ZeroBuffer_C(v)
    [] t.cl = "AddBuffer"               -> AddBuffer_C(t.arg, v)
    [] t.cl = "DGSubCellInterface"      -> DGSubCellInterface_C(v)
    [] t.cl = "DGVolume"                -> DGVolume_C(v)
    [] t.cl = "DGSource"                -> DGSource_C(t.arg, v)
    [] t.cl = "DGMass"                  -> DGMass_C(v)
    [] t.cl = "DGMacroCellInterface"    -> DGMacroCellInterface_C(t.arg, v)
    [] t.cl = "DGMacroCellBoundaryFlux" -> DGMacroCellBoundaryFlux_C(t.arg, v)
    [] t.cl = "ExtractInterface"        -> ExtractInterface_C(v)
=============================================================================
