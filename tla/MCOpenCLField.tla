--------------------------- MODULE MCOpenCLField ---------------------------
(* Two elements between two boundaries, one element, and two elements on a *)
(* periodic mesh (no boundary), in one, two and three dimensions.          *)
EXTENDS OpenCLField, TLC

Line     == [nbelems |-> 2, fL |-> << 0, 0, 1 >>, fR |-> << 1, -1, -1 >>,
             macrointerface |-> << 1 >>, boundaryface |-> << 2, 3 >>,
             w0 |-> [e \in 0..1 |-> 5 + 4 * e]]
Single   == [nbelems |-> 1, fL |-> << 0, 0 >>, fR |-> << -1, -1 >>,
             macrointerface |-> << >>, boundaryface |-> << 1, 2 >>,
             w0 |-> [e \in {0} |-> 7]]
Periodic == [nbelems |-> 2, fL |-> << 0, 1 >>, fR |-> << 1, 0 >>,
             macrointerface |-> << 1, 2 >>, boundaryface |-> << >>,
             w0 |-> [e \in 0..1 |-> 8 - 3 * e]]

MCConfs ==
  {[scheme |-> s, ndim |-> r[1], raf |-> r[2], use_source_cl |-> u] @@ m :
     s \in {"RK2", "RK4"}, u \in BOOLEAN, m \in {Line, Single, Periodic},
     r \in {<< 1, {} >>, << 2, {0} >>, << 2, {1} >>, << 3, {0, 2} >>}}
=============================================================================
