------------------------------ MODULE MCFileFind ------------------------------
(***************************************************************************)
(* Small instances of FileFind for TLC.  The name searched for is 2; it    *)
(* can be a file or a directory in the root, inside that directory, in the *)
(* subdirectory 1/3, and in directory 4, one of those the walks leave out. *)
(***************************************************************************)
EXTENDS FileFind

MCPaths == {<<>>, <<1>>, <<1, 3>>, <<1, 3, 2>>, <<2>>, <<2, 2>>, <<4>>, <<4, 2>>}
MCSizes == {1, 2}

MCStartFiles == {<<2>>, <<1, 3, 2>>}
MCStartPaths == {<<>>, <<1>>}
MCExcluded   == {<<4>>}
MCUnreadable == {<<2, 2>>}
MCVolatile   == {<<1, 3>>, <<1, 3, 2>>, <<2>>}

\* Numbers up to one that is 1 again as an int of eight values.
MCTyped == 0..9
=============================================================================
