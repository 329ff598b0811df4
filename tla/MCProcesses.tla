------------------------------ MODULE MCProcesses ------------------------------
(***************************************************************************)
(* The process exercises, with one process more than wait1 needs for its   *)
(* three children, one after another, and wait3 for two failing execs.     *)
(***************************************************************************)
EXTENDS Processes
=============================================================================
