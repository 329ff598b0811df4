---------------------------- MODULE MCSetCommands ----------------------------
(***************************************************************************)
(* Small instances of SetCommands for TLC: two duplicate sets, one of      *)
(* three files and one of two, a LIST_IDX from 0 to one past the longest   *)
(* list.                                                                   *)
(***************************************************************************)
EXTENDS SetCommands

CONSTANTS p1, p2, p3, q1, q2, A, B

MCPaths == {p1, p2, p3, q1, q2}
MCContentOf == [p \in MCPaths |-> IF p \in {p1, p2, p3} THEN A ELSE B]
MCReport == <<<<p1, p2, p3>>, <<q1, q2>>>>

\* One duplicate set only, for the run with liveness and other programs on the disk.
MCPathsOne == {p1, p2, p3}
MCContentOfOne == [p \in MCPathsOne |-> A]
MCReportOne == <<<<p1, p2, p3>>>>
=============================================================================
