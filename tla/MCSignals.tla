------------------------------- MODULE MCSignals -------------------------------
(***************************************************************************)
(* The signal exercises with signals that others send: enough for one in a *)
(* handler and one more while it is blocked.                               *)
(***************************************************************************)
EXTENDS Signals

MCSent == {"INT", "QUIT", "USR1"}
=============================================================================
