-------------------------- MODULE MCLocalThetaSpu --------------------------
(* LocalThetaTimeScheme_SPU on two elements that share face 0; face 1 is on *)
(* the boundary of element 1.                                              *)
EXTENDS LocalThetaSpu

MCfL == [f \in 0..1 |-> << 0, 1 >>[f + 1]]
MCfR == [f \in 0..1 |-> << 1, -1 >>[f + 1]]
MCHandle == MeshHandle
=============================================================================
