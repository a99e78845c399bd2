-------------------------- MODULE MCGraphThetaSpu --------------------------
(* A sweep over three elements: 0 is upwind of 1 and 2, which do not touch  *)
(* each other.  Face 0 is between 0 and 1, face 1 between 2 and 0; face 2   *)
(* is an inflow face of 0, faces 3 and 4 are outflow faces of 1 and 2, and  *)
(* on face 5 the flow is tangent to the boundary.                          *)
EXTENDS GraphThetaSpu

MCfL   == [f \in 0..5 |-> << 0, 2, 0, 1, 2, 1 >>[f + 1]]
MCfR   == [f \in 0..5 |-> << 1, 0, -1, -1, -1, -1 >>[f + 1]]
MCflow == [f \in 0..5 |-> << {"out"}, {"in"}, {"in"}, {"out"}, {"out"}, {} >>[f + 1]]
MCHandle == MeshHandle
=============================================================================
