----------------------------- MODULE MCRK2Spu -----------------------------
(* RK2_SPU on a mesh of two macro-elements that share face 0; faces 1 and 2 *)
(* are on the boundary.  Element 1 has subcells, element 0 has not.        *)
EXTENDS RK2Spu

MCfL == [f \in 0..2 |-> << 0, 0, 1 >>[f + 1]]
MCfR == [f \in 0..2 |-> << 1, -1, -1 >>[f + 1]]
MCHandle == MeshHandle
MCw0 == [e \in 0..1 |-> 5 + 4 * e]
=============================================================================
