----------------------------- MODULE MCDupSearch -----------------------------
(***************************************************************************)
(* Small instances of DupSearch for TLC: three directories, contents of    *)
(* the same and of different sizes, an empty file, and limits of which     *)
(* each leaves some of the contents out.                                   *)
(***************************************************************************)
EXTENDS DupSearch

CONSTANTS A, B, C, E, p1, p2, p3, p4, p5

\* Two files in the target directory, three in its subdirectories.
MCTree == <<<<p1, p2>>, <<p3, p5>>, <<p4>>>>

\* All names end in .t but that of p5.
MCNameOf == [p \in {p1, p2, p3, p4, p5} |-> IF p = p5 THEN <<"n", ".", "t", "x">>
                                                    ELSE <<"n", ".", "t">>]
MCExtension == <<".", "t">>

MCSizeOf == (A :> 64100) @@ (B :> 64100) @@ (C :> 1000) @@ (E :> 0)
MCContents == {A, B, C, E}
MCContentsFew == {A, B, C}
MCSizeOfFew == (A :> 64100) @@ (B :> 64100) @@ (C :> 1000)
MCCleanFew == {B, C}

\* ~, 64100 and 0.5MB for the smallest size; ~, 1KB and 64.1KB for the largest.
\* 64.1 * 1000 is 64099.99... in doubles.
MCMinSizes == {Tilde, [tenths |-> 641000, unit |-> "none"], [tenths |-> 5, unit |-> "MB"]}
MCInexact == {[tenths |-> 641, unit |-> "KB"]}
MCMaxSizes == {Tilde, [tenths |-> 10, unit |-> "KB"]} \cup MCInexact
MCNoLimits == {Tilde}
=============================================================================
