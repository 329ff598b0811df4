----------------------------- MODULE MCLineDiff -----------------------------
(***************************************************************************)
(* Small instances of LineDiff for TLC.                                    *)
(***************************************************************************)
EXTENDS LineDiff

CONSTANTS a, b, c

MCThree == {a, b, c}
=============================================================================
