-------------------------------- MODULE DirDiff --------------------------------
(***************************************************************************)
(* ssu_dir_diff of p1/main.c: the comparison of two directories.  It reads *)
(* both in alphasort order, looks for each entry of the first one among    *)
(* the entries of the second that are left (from index on), and compares   *)
(* the regular files that both have.                                       *)
(*                                                                         *)
(* Positions count from 1.  ssu_is_diff is taken by its verdict (module    *)
(* LineDiff says what it is).  A scandir that fails gives -1 entries: the  *)
(* loops do not start, j is never equal to -1, and the pointer is freed    *)
(* unset at the end.                                                       *)
(***************************************************************************)
EXTENDS Integers, Sequences

CONSTANTS
  Names,     \* the names, each by its rank in alphasort
  Contents,  \* the contents of regular files
  Empty,     \* the content of an empty file; a directory opened as a file reads like one
  Differ     \* the verdict of ssu_is_diff for two contents

ASSUME DirDiffAssumption ==
  /\ Names \subseteq Int
  /\ Empty \in Contents
  /\ Differ \in [Contents \X Contents -> BOOLEAN]

VARIABLES
  dir1, dir2,  \* the two listings
  failed,      \* which of the two scandirs failed
  pc,
  i,           \* the entry of dir1 at hand
  j,           \* the entry of dir2 it is compared with
  index,       \* the first entry of dir2 that is not reported
  in,          \* the entry of dir2 that is printed
  out,         \* what each name turned out to be, in this order; of files that
               \* are the "same" nothing is printed
  opened       \* the comparisons: the name announced and the two entries opened

lists == <<dir1, dir2, failed>>
vars  == <<lists, pc, i, j, index, in, out, opened>>

Types     == {"dir", "reg"}
DirEntry  == [name : Names, type : Types, content : Contents]
Sorted(s) == \A k, l \in DOMAIN s : k < l => s[k].name < s[l].name
Kinds     == {"only1", "only2", "types", "subdirs", "diff", "same"}
Reports   == [kind : Kinds, name : Names]

TypeOK ==
  /\ dir1 \in Seq(DirEntry) /\ dir2 \in Seq(DirEntry)
  /\ failed \subseteq {1, 2}
  /\ pc \in {"outer", "inner", "flush", "match", "open", "diff", "rest", "done", "undefined"}
  /\ i \in 1..(Len(dir1) + 1)
  /\ j \in 1..(Len(dir2) + 1)
  /\ index \in 1..(Len(dir2) + 1)
  /\ in \in 1..(Len(dir2) + 1)
  /\ out \in Seq(Reports)
  /\ opened \subseteq (Names \X Names \X Names)

ReadBoth ==
  /\ Sorted(dir1) /\ Sorted(dir2)
  /\ failed \subseteq {1, 2}
  /\ 1 \in failed => dir1 = <<>>
  /\ 2 \in failed => dir2 = <<>>

Init ==
  /\ dir1 \in Seq(DirEntry) /\ dir2 \in Seq(DirEntry)
  /\ ReadBoth
  /\ pc = "outer"
  /\ i = 1 /\ j = 1 /\ index = 1 /\ in = 1
  /\ out = <<>>
  /\ opened = {}

Report(kind, name) == out' = Append(out, [kind |-> kind, name |-> name])
-----------------------------------------------------------------------------
Outer ==
  /\ pc = "outer"
  /\ IF i <= Len(dir1)
     THEN j' = index /\ pc' = "inner" /\ UNCHANGED in
     ELSE in' = index /\ pc' = "rest" /\ UNCHANGED j
  /\ UNCHANGED <<lists, i, index, out, opened>>

\* One turn of the loop over dir2.
Inner ==
  /\ pc = "inner"
  /\ j <= Len(dir2)
  /\ IF dir1[i].name = dir2[j].name
     THEN in' = index /\ pc' = "flush" /\ UNCHANGED j
     ELSE j' = j + 1 /\ UNCHANGED <<pc, in>>
  /\ UNCHANGED <<lists, i, index, out, opened>>

\* j has come to the end, j = ndir2, without a match.
OnlyInFirst ==
  /\ pc = "inner"
  /\ j > Len(dir2)
  /\ IF 2 \in failed THEN UNCHANGED out ELSE Report("only1", dir1[i].name)
  /\ i' = i + 1
  /\ pc' = "outer"
  /\ UNCHANGED <<lists, j, index, in, opened>>

\* index set to the entry that matched, not behind it.
Flush_Stays ==
  /\ pc = "flush"
  /\ IF in < j
     THEN /\ Report("only2", dir2[in].name)
          /\ in' = in + 1
          /\ UNCHANGED <<pc, index>>
     ELSE /\ index' = j
          /\ pc' = "match"
          /\ UNCHANGED <<in, out>>
  /\ UNCHANGED <<lists, i, j, opened>>

\* The entries of dir2 in front of the match are only in dir2.
Flush ==
  /\ pc = "flush"
  /\ IF in < j
     THEN /\ Report("only2", dir2[in].name)
          /\ in' = in + 1
          /\ UNCHANGED <<pc, index>>
     ELSE /\ index' = j + 1
          /\ pc' = "match"
          /\ UNCHANGED <<in, out>>
  /\ UNCHANGED <<lists, i, j, opened>>

\* i++ next to the break as well as at the end of the loop.
Match_Twice ==
  /\ pc = "match"
  /\ IF dir1[i].type = "reg" /\ dir2[j].type = "reg"
     THEN pc' = "open" /\ UNCHANGED <<i, out>>
     ELSE /\ Report(IF dir1[i].type = dir2[j].type THEN "subdirs" ELSE "types", dir1[i].name)
          /\ i' = i + 2
          /\ pc' = "outer"
  /\ UNCHANGED <<lists, j, index, in, opened>>

\* Of two entries with one name, other than two regular files.
Match ==
  /\ pc = "match"
  /\ IF dir1[i].type = "reg" /\ dir2[j].type = "reg"
     THEN pc' = "open" /\ UNCHANGED <<i, out>>
     ELSE /\ Report(IF dir1[i].type = dir2[j].type THEN "subdirs" ELSE "types", dir1[i].name)
          /\ i' = i + 1
          /\ pc' = "outer"
  /\ UNCHANGED <<lists, j, index, in, opened>>

Read(entry) == IF entry.type = "dir" THEN Empty ELSE entry.content

\* The files opened are dir1[i] and dir2[i], not dir2[j].  ssu_is_diff says
\* whether they differ; files it calls equal are closed without a word.
OpenBoth ==
  /\ pc = "open"
  /\ i <= Len(dir2)
  /\ opened' = opened \cup {<<dir1[i].name, dir1[i].name, dir2[i].name>>}
  /\ IF Differ[Read(dir1[i]), Read(dir2[i])]
     THEN Report("diff", dir1[i].name) /\ pc' = "diff" /\ UNCHANGED i
     ELSE Report("same", dir1[i].name) /\ pc' = "outer" /\ i' = i + 1
  /\ UNCHANGED <<lists, j, index, in>>

\* dir2 has no entry i, or a fopen fails and its null stream is used.
OpenFails ==
  /\ pc = "open"
  /\ pc' = "undefined"
  /\ UNCHANGED <<lists, i, j, index, in, out, opened>>

\* Both are opened again, but into fp1, and ssu_diff gets fp2 closed: memory
\* that the first of the two fopens may have got again, or not.
Diff ==
  /\ pc = "diff"
  /\ \/ pc' = "outer" /\ i' = i + 1
     \/ pc' = "undefined" /\ UNCHANGED i
  /\ UNCHANGED <<lists, j, index, in, out, opened>>

\* What is left of dir2 is taken up behind the match of the last entry.
Rest_FromMatch ==
  /\ pc = "rest"
  /\ IF in <= Len(dir2) /\ j <= Len(dir2)
     THEN Report("only2", dir2[in].name) /\ in' = in + 1 /\ UNCHANGED pc
     ELSE /\ pc' \in IF failed = {} THEN {"done"} ELSE {"done", "undefined"}
          /\ UNCHANGED <<in, out>>
  /\ UNCHANGED <<lists, i, j, index, opened>>

\* What is left of dir2, and the end.
Rest ==
  /\ pc = "rest"
  /\ IF in <= Len(dir2)
     THEN Report("only2", dir2[in].name) /\ in' = in + 1 /\ UNCHANGED pc
     ELSE /\ pc' \in IF failed = {} THEN {"done"} ELSE {"done", "undefined"}
          /\ UNCHANGED <<in, out>>
  /\ UNCHANGED <<lists, i, j, index, opened>>

Next ==
  \/ Outer
  \/ Inner
  \/ OnlyInFirst
  \/ Flush
  \/ Match
  \/ OpenBoth
  \/ OpenFails
  \/ Diff
  \/ Rest

Spec == Init /\ [][Next]_vars
-----------------------------------------------------------------------------
(***************************************************************************)
(* Properties.                                                             *)
(***************************************************************************)
NamesOf(s) == {s[k].name : k \in DOMAIN s}

\* The report that the two listings ask for, of a name that one of them has.
Due(kind, name) ==
  /\ kind = "only1" <=> name \notin NamesOf(dir2)
  /\ kind = "only2" <=> name \notin NamesOf(dir1)
  /\ \A k \in DOMAIN dir1, l \in DOMAIN dir2 :
       dir1[k].name = name /\ dir2[l].name = name =>
         /\ kind = "types"   <=> dir1[k].type # dir2[l].type
         /\ kind = "subdirs" <=> dir1[k].type = "dir" /\ dir2[l].type = "dir"

\* Every report is the one its name has coming, and no name is reported twice.
Sound ==
  /\ \A a \in DOMAIN out : Due(out[a].kind, out[a].name)
  /\ \A a, b \in DOMAIN out : out[a].name = out[b].name => a = b

\* In the end every entry of both directories, when both could be read, is dealt with
\* once: reported under the right heading, or a file of both that ssu_is_diff calls
\* the same, however the two listings interleave ("the left members of dir2
\* don't have same name member in dir1", line 556, is what the loops rely on).
EachOnce ==
  /\ Sound
  /\ pc = "done" /\ failed = {} => NamesOf(out) = NamesOf(dir1) \cup NamesOf(dir2)

\* The reports of the entries of one directory come in the order of the directory.
InOrder ==
  \A a, b \in DOMAIN out :
    a < b /\ \/ {out[a].name, out[b].name} \subseteq NamesOf(dir1)
             \/ {out[a].name, out[b].name} \subseteq NamesOf(dir2)
      => out[a].name < out[b].name

\* The files whose names are announced are the ones that are compared ("if they
\* are regular file", "if they are different, do diff", lines 528 and 533).
ComparesNamesakes == \A o \in opened : o[2] = o[1] /\ o[3] = o[1]
=============================================================================
