------------------------------- MODULE MCTrash -------------------------------
(***************************************************************************)
(* Small instances of Trash for TLC.  The names are a, a_1 and -a (which   *)
(* sorts first in a directory), written with the ASCII codes.              *)
(***************************************************************************)
EXTENDS Trash

CONSTANTS s1, s2, x, y, z

a == 97
dash == 45
under == 95
one == 49

MCPaths == {x, y, z}

\* Two files named a in different directories, and one named a_1.
MCNameOf == [p \in MCPaths |-> IF p = z THEN <<a, under, one>> ELSE <<a>>]

MCTwoSessions == {s1, s2}
MCJobsTwo == [s \in {s1, s2} |-> IF s = s1 THEN <<x, y, z>> ELSE <<z, y>>]

\* What may be in the trash: -a, which is the first entry, a and a_1.
MCTrashed == {<<dash, a>>, <<a>>, <<a, under, one>>}
=============================================================================
