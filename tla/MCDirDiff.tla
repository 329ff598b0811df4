------------------------------- MODULE MCDirDiff -------------------------------
(***************************************************************************)
(* Small instances of DirDiff for TLC: all pairs of directories with up to *)
(* three names, each a directory, an empty file or one of two files with   *)
(* content.                                                                *)
(***************************************************************************)
EXTENDS DirDiff, FiniteSets

CONSTANTS None, Text, Other

MCNames    == 1..3
MCContents == {None, Text, Other}

\* ssu_is_diff calls an empty file the same as any other (LineDiff, Return: one
\* of the two sums is 0), and here tells the two files with content apart.
MCDiffer == [c \in MCContents \X MCContents |-> {c[1], c[2]} = {Text, Other}]

Files(S) == {s \in [1..Cardinality(S) -> DirEntry] :
               /\ Sorted(s)
               /\ NamesOf(s) = S
               /\ \A k \in DOMAIN s : s[k].type = "dir" => s[k].content = None}
Listings == UNION {Files(S) : S \in SUBSET MCNames}

MCInit ==
  /\ dir1 \in Listings /\ dir2 \in Listings
  /\ failed \in SUBSET {1, 2}
  /\ ReadBoth
  /\ pc = "outer"
  /\ i = 1 /\ j = 1 /\ index = 1 /\ in = 1
  /\ out = <<>>
  /\ opened = {}

MCSpec == MCInit /\ [][Next]_vars
=============================================================================
