----------------------------- MODULE MCSsuSdup -----------------------------
(***************************************************************************)
(* A small instance of SsuSdup for TLC: up to four processes.              *)
(***************************************************************************)
EXTENDS SsuSdup

CONSTANTS p1, p2, p3, p4

MCPids == {p1, p2, p3, p4}
=============================================================================
