---------------------------- MODULE LinearSystem ----------------------------
(***************************************************************************)
(* What linear_solver.h promises, whatever the storage and the method: a   *)
(* matrix that is null when it is allocated, to which terms are added or   *)
(* set, which multiplies vectors, and for which systems are solved, in any *)
(* order, as often as wanted, without the matrix changing.                 *)
(***************************************************************************)
EXTENDS Residues

CONSTANTS Size, Values, Vectors

VARIABLES a,        \* the matrix
          call,     \* the last call and its arguments
          result    \* the last vector that was returned
vars == << a, call, result >>

Index == 0 .. Size - 1
Row(x, i) == Sum(1, Size, LAMBDA j : a[i][j - 1] * x[j])

Init == /\ a = [i \in Index |-> [j \in Index |-> 0]]
        /\ call = << "none" >> /\ result = Zeros(Size)

Add(i, j, v) == /\ a' = [a EXCEPT ![i][j] = (@ + v) % P]
                /\ call' = << "add", i, j, v >> /\ UNCHANGED result
Set(i, j, v) == /\ a' = [a EXCEPT ![i][j] = v]
                /\ call' = << "set", i, j, v >> /\ UNCHANGED result
Product(x)   == /\ result' = Tuple(Size, LAMBDA i : Row(x, i - 1))
                /\ call' = << "product", x >> /\ UNCHANGED a
Solve(b)     == /\ \A i \in Index : Row(result', i) = b[i + 1]
                /\ call' = << "solve", b >> /\ UNCHANGED a

Next == \/ \E i, j \in Index, v \in Values : Add(i, j, v) \/ Set(i, j, v)
        \/ \E x \in Vectors : Product(x) \/ Solve(x)
Spec == Init /\ [][Next]_vars
=============================================================================
