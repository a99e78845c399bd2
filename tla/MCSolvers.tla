----------------------------- MODULE MCSolvers -----------------------------
(***************************************************************************)
(* The two modules of the solvers, one or the other running.  SolSpu: two  *)
(* systems of three equations with different profiles; element 0 has a     *)
(* full matrix, the second column of element 1 has no term off the         *)
(* diagonal.  SolverCalls: matrices of three rows, and two vectors to      *)
(* multiply and to solve for.                                              *)
(***************************************************************************)
EXTENDS SolSpu

MCElem   == 0..1
MCHandle == {<< b, e >> : b \in {"sol", "rhs"}, e \in MCElem}
MCkld    == [e \in MCElem |-> IF e = 0 THEN << 0, 0, 1, 3 >> ELSE << 0, 0, 0, 1 >>]
MCvkgd   == [e \in MCElem |-> IF e = 0 THEN << 2, 3, 5 >> ELSE << 4, 1, 3 >>]
MCvkgs   == [e \in MCElem |-> IF e = 0 THEN << 1, 4, 2 >> ELSE << 3 >>]
MCvkgi   == [e \in MCElem |-> IF e = 0 THEN << 3, 1, 6 >> ELSE << 5 >>]

CONSTANT Storages      \* of the solvers that are called
VARIABLES part,        \* which of the two runs
          lsol, phase, place, writes, call, result, task
callvars == << lsol, phase, place, writes, call, result, task >>
Calls == INSTANCE SolverCalls
  WITH Size <- 3, Values <- {2}, MaxWrites <- 4, Vectors <- {<< 1, 0, 2 >>, << 0, 3, 1 >>}

NoTask ==
  /\ queue = << >> /\ done = {} /\ view = << >> /\ content = << >>
  /\ vfg = << >> /\ vu = << >> /\ at = << >> /\ static = << >>
BothInit ==
  /\ Calls!Init
  /\ \/ part = "tasks" /\ Init
     \/ part = "calls" /\ NoTask
BothNext ==
  \/ part = "tasks" /\ Next /\ UNCHANGED << part, callvars >>
  \/ part = "calls" /\ Calls!Next /\ UNCHANGED << part, vars >>
  \/ part = "calls" /\ UNCHANGED << part, vars, callvars >>   \* the user calls no more
BothSpec == BothInit /\ [][BothNext]_<< part, vars, callvars >>

\* The properties of SolverCalls, stated there: the calls implement an abstract
\* linear system, and an allocated matrix is null until a term is written.
ImplementsLinearSystem == Calls!ImplementsLinearSystem
StartsEmpty == Calls!StartsEmpty
=============================================================================
