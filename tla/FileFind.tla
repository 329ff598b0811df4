------------------------------- MODULE FileFind -------------------------------
(***************************************************************************)
(* The command find of p1/main.c: ssu_find takes a file or directory and a *)
(* directory to search, counts what has its name and size in one walk over *)
(* the tree (get_file_list_leng), allocates that many rows, fills them in  *)
(* a second walk (get_file_list), prints them, and compares the one the    *)
(* user chooses with the first.                                            *)
(*                                                                         *)
(* Every scandir and stat is a step of its own, and other programs         *)
(* (Interfere) act between any two.  The recursion of the walks is the     *)
(* list todo of the directories that are still to be entered.              *)
(*                                                                         *)
(* A path is the sequence of its names, and a name is a number, its rank   *)
(* in alphasort.  Two states stand for undefined behaviour: "overrun", a   *)
(* row written that was never allocated, and "undefined", an unset pointer *)
(* or stream used, which may also do no harm where the code only frees it. *)
(* Links are not modelled, get_dir_size is one step, and FILENAME is given *)
(* as a path that ends in the name.  Lines the code answers with a usage   *)
(* message change nothing and are not steps.                               *)
(***************************************************************************)
EXTENDS Integers, SequencesExt, FiniteSetsExt

CONSTANTS
  Paths,       \* the paths that can exist; <<>> is the root
  Sizes,       \* the sizes a regular file can have
  StartFiles,  \* the paths the user gives as FILENAME
  StartPaths,  \* the paths the user gives as PATH
  Excluded,    \* /run, /proc and /mnt/c
  Unreadable,  \* the directories the user may not read
  Typed,       \* the numbers the user types
  IntValues,   \* how many values an int has
  Volatile,    \* the paths other programs create, change and delete
  Unwritten    \* what a row holds before it is written

ASSUME PathsAssumption ==
  /\ Paths \subseteq Seq(Nat) /\ IsFiniteSet(Paths)
  /\ <<>> \in Paths
  /\ \A p \in Paths : p # <<>> => Front(p) \in Paths
  /\ StartFiles \cup StartPaths \cup Volatile \subseteq Paths
  /\ <<>> \notin StartFiles
  /\ Excluded \subseteq Seq(Nat)
  /\ Unwritten \notin Paths

ASSUME NumbersAssumption ==
  /\ Sizes \subseteq Nat
  /\ Typed \subseteq Nat
  /\ IntValues \in Nat \ {0} /\ IntValues % 2 = 0

VARIABLES
  disk,              \* what is at each path
  pc,                \* where the program is
  startfile,         \* the absolute path of FILENAME
  startpath,         \* the absolute path of PATH
  is_dir,            \* FILENAME is a directory
  size,              \* its size
  walk,              \* the walk at work, "count" or "fill"
  todo,              \* the directories to enter, the current one first
  count,             \* file_list_length as the first walk counts it
  file_list,         \* the allocated rows, from 0 on
  file_list_length,  \* the number of rows written
  compared,          \* the two paths the user chose to compare, or <<>>
  quiet              \* history: no other program has acted since the command

command == <<startfile, startpath, is_dir, size>>
list    == <<count, file_list, file_list_length>>
vars    == <<disk, pc, command, walk, todo, list, compared, quiet>>

Entries == [kind : {"none", "dir"}, size : {0}] \cup [kind : {"reg"}, size : Sizes]
Rows    == Paths \cup {Unwritten}
Walking == {"name", "stat", "dirs"}
Ended   == {"ended", "overrun", "undefined"}

TypeOK ==
  /\ disk \in [Paths -> Entries]
  /\ pc \in {"prompt", "print", "sub", "compare"} \cup Walking \cup Ended
  /\ startfile \in Paths /\ startpath \in Paths
  /\ is_dir \in BOOLEAN
  /\ size \in Nat
  /\ walk \in {"count", "fill"}
  /\ todo \in Seq(Paths)
  /\ count \in Nat
  /\ DOMAIN file_list = 0..(Cardinality(DOMAIN file_list) - 1)
  /\ \A k \in DOMAIN file_list : file_list[k] \in Rows
  /\ file_list_length \in 0..Cardinality(DOMAIN file_list)
  /\ compared \in {<<>>} \cup (Rows \X Rows)
  /\ quiet \in BOOLEAN

\* A disk is a tree: what exists is in a directory.
IsTree(d) ==
  /\ d[<<>>].kind = "dir"
  /\ \A p \in Paths : p # <<>> /\ d[p].kind # "none" => d[Front(p)].kind = "dir"

DropLocals ==
  /\ startfile' = <<>> /\ startpath' = <<>>
  /\ is_dir' = FALSE /\ size' = 0
  /\ walk' = "count" /\ todo' = <<>>
  /\ count' = 0 /\ file_list' = <<>> /\ file_list_length' = 0
  /\ compared' = <<>>

\* The state in which main waits for a line, on some disk.
Init ==
  /\ disk \in {d \in [Paths -> Entries] : IsTree(d)}
  /\ pc = "prompt"
  /\ startfile = <<>> /\ startpath = <<>>
  /\ is_dir = FALSE /\ size = 0
  /\ walk = "count" /\ todo = <<>>
  /\ count = 0 /\ file_list = <<>> /\ file_list_length = 0
  /\ compared = <<>>
  /\ quiet = TRUE
-----------------------------------------------------------------------------
(***************************************************************************)
(* The tree.                                                               *)
(***************************************************************************)
Exists(p)   == p \in Paths /\ disk[p].kind # "none"
IsDir(p)    == p \in Paths /\ disk[p].kind = "dir"
Readable(p) == IsDir(p) /\ p \notin Unreadable
Below(p)    == {q \in Paths : IsStrictPrefix(p, q)}

\* What the recursion enters from d: scandir with filt_dir and alphasort,
\* without the excluded directories.
SubDirs(d) ==
  LET subs == {q \in Paths \ Excluded : IsDir(q) /\ q # <<>> /\ Front(q) = d}
  IN CHOOSE s \in [1..Cardinality(subs) -> subs] :
       \A k, l \in DOMAIN s : k < l => Last(s[k]) < Last(s[l])

\* Nothing unreadable from p down to q.
Open(p, q) == \A r \in Paths : IsPrefix(p, r) /\ IsStrictPrefix(r, q) => Readable(r)

\* get_dir_size: the sizes of all regular files below p that can be reached.
get_dir_size(p) ==
  LET reached == {q \in Below(p) : disk[q].kind = "reg" /\ Open(p, q)}
  IN FoldFunction(+, 0, [q \in reached |-> disk[q].size])

\* scandir fails somewhere below, and get_dir_size frees a pointer it never set.
FreesUnset(p) == ~Readable(p) \/ \E q \in Below(p) : IsDir(q) /\ ~Readable(q)

\* Where the program is behind a free that may have had an unset pointer.
Freed(unset, next) == IF unset THEN {next, "undefined"} ELSE {next}
-----------------------------------------------------------------------------
(***************************************************************************)
(* The prompt.                                                             *)
(***************************************************************************)

\* find with two arguments, both of which must exist.
Find ==
  /\ pc = "prompt"
  /\ \E f \in StartFiles, p \in StartPaths :
       /\ Exists(f) /\ Exists(p)
       /\ startfile' = f
       /\ startpath' = p
       /\ is_dir' = IsDir(f)
       /\ size' = IF IsDir(f) THEN get_dir_size(f) ELSE disk[f].size
       /\ todo' = <<p>>
       /\ pc' \in Freed(IsDir(f) /\ FreesUnset(f), "name")
  /\ walk' = "count"
  /\ quiet' = TRUE
  /\ UNCHANGED <<disk, list, compared>>

\* exit at the first prompt, or the end of the input at either one.
Exit ==
  /\ pc \in {"prompt", "sub"}
  /\ pc' = "ended"
  /\ UNCHANGED <<disk, command, walk, todo, list, compared, quiet>>

\* A line of spaces has no first word: strcmp, or the loop over index, gets
\* the null pointer.
Spaces ==
  /\ pc \in {"prompt", "sub"}
  /\ pc' = "undefined"
  /\ UNCHANGED <<disk, command, walk, todo, list, compared, quiet>>
-----------------------------------------------------------------------------
(***************************************************************************)
(* The walks.                                                              *)
(***************************************************************************)
Name      == Last(startfile)
Here      == Head(todo)
Candidate == Append(Here, Name)
Kind      == IF is_dir THEN "dir" ELSE "reg"

\* scandir of the current directory for the name and the kind.
ScanName ==
  /\ pc = "name"
  /\ todo # <<>>
  /\ IF Readable(Here) /\ Candidate \in Paths /\ disk[Candidate].kind = Kind
     THEN pc' = "stat"
     ELSE pc' \in Freed(~Readable(Here), "dirs")
  /\ UNCHANGED <<disk, command, walk, todo, list, compared, quiet>>

\* stat or get_dir_size of what was found, and the comparison of the sizes.
\* A stat that fails leaves an unset st_size.
SizeEquals ==
  IF is_dir THEN {get_dir_size(Candidate) = size}
  ELSE IF disk[Candidate].kind = "reg" THEN {disk[Candidate].size = size}
  ELSE BOOLEAN

\* strcmp with startfile.  In the root the path is spelled with two slashes and
\* equals no startfile.
NotStartFile == Here = <<>> \/ Candidate # startfile

CountMatch ==
  /\ pc = "stat"
  /\ walk = "count"
  /\ \E same \in SizeEquals :
       count' = IF same /\ NotStartFile THEN count + 1 ELSE count
  /\ pc' \in Freed(is_dir /\ FreesUnset(Candidate), "dirs")
  /\ UNCHANGED <<disk, command, walk, todo, file_list, file_list_length, compared, quiet>>

\* A second walk that does not leave out the start file.
FillMatch_Start ==
  /\ pc = "stat"
  /\ walk = "fill"
  /\ \E same \in SizeEquals :
       IF ~same
       THEN /\ pc' \in Freed(is_dir /\ FreesUnset(Candidate), "dirs")
            /\ UNCHANGED <<file_list, file_list_length>>
       ELSE IF file_list_length \in DOMAIN file_list
       THEN /\ file_list' = [file_list EXCEPT ![file_list_length] = Candidate]
            /\ file_list_length' = file_list_length + 1
            /\ pc' \in Freed(is_dir /\ FreesUnset(Candidate), "dirs")
       ELSE pc' = "overrun" /\ UNCHANGED <<file_list, file_list_length>>
  /\ UNCHANGED <<disk, command, walk, todo, count, compared, quiet>>

FillMatch ==
  /\ pc = "stat"
  /\ walk = "fill"
  /\ \E same \in SizeEquals :
       IF ~(same /\ NotStartFile)
       THEN /\ pc' \in Freed(is_dir /\ FreesUnset(Candidate), "dirs")
            /\ UNCHANGED <<file_list, file_list_length>>
       ELSE IF file_list_length \in DOMAIN file_list
       THEN /\ file_list' = [file_list EXCEPT ![file_list_length] = Candidate]
            /\ file_list_length' = file_list_length + 1
            /\ pc' \in Freed(is_dir /\ FreesUnset(Candidate), "dirs")
       ELSE pc' = "overrun" /\ UNCHANGED <<file_list, file_list_length>>
  /\ UNCHANGED <<disk, command, walk, todo, count, compared, quiet>>

\* A walk that tries a directory again that could not be read.
ScanDirs_Again ==
  /\ pc = "dirs"
  /\ IF Readable(Here)
     THEN todo' = SubDirs(Here) \o Tail(todo) /\ pc' = "name"
     ELSE UNCHANGED todo /\ pc' \in Freed(TRUE, "name")
  /\ UNCHANGED <<disk, command, walk, list, compared, quiet>>

\* scandir of the subdirectories, which the recursion enters next.
ScanDirs ==
  /\ pc = "dirs"
  /\ IF Readable(Here)
     THEN todo' = SubDirs(Here) \o Tail(todo) /\ pc' = "name"
     ELSE todo' = Tail(todo) /\ pc' \in Freed(TRUE, "name")
  /\ UNCHANGED <<disk, command, walk, list, compared, quiet>>

\* No row for the start file.
CountDone_Short ==
  /\ pc = "name"
  /\ todo = <<>>
  /\ walk = "count"
  /\ file_list' = [k \in 0..(count - 1) |-> IF k = 0 THEN startfile ELSE Unwritten]
  /\ file_list_length' = 1
  /\ walk' = "fill"
  /\ todo' = <<startpath>>
  /\ UNCHANGED <<disk, pc, command, count, compared, quiet>>

\* The rows are allocated by what the first walk counted.
CountDone ==
  /\ pc = "name"
  /\ todo = <<>>
  /\ walk = "count"
  /\ file_list' = [k \in 0..count |-> IF k = 0 THEN startfile ELSE Unwritten]
  /\ file_list_length' = 1
  /\ walk' = "fill"
  /\ todo' = <<startpath>>
  /\ UNCHANGED <<disk, pc, command, count, compared, quiet>>

FillDone ==
  /\ pc = "name"
  /\ todo = <<>>
  /\ walk = "fill"
  /\ pc' = "print"
  /\ UNCHANGED <<disk, command, walk, todo, list, compared, quiet>>
-----------------------------------------------------------------------------
(***************************************************************************)
(* The rows and the choice.                                                *)
(***************************************************************************)

\* print_file_list.  A row that is gone is printed from the stat of another
\* row, or from an unset one.
PrintUnsafe ==
  \E k \in 0..(file_list_length - 1) :
    \/ ~Exists(file_list[k])
    \/ IsDir(file_list[k]) /\ FreesUnset(file_list[k])

PrintRows ==
  /\ pc = "print"
  /\ \/ /\ file_list_length > 1
        /\ pc' \in Freed(PrintUnsafe, "sub")
        /\ UNCHANGED <<command, walk, todo, list, compared>>
     \/ /\ file_list_length = 1
        /\ pc' \in Freed(PrintUnsafe, "prompt")
        /\ DropLocals
  /\ UNCHANGED <<disk, quiet>>

\* atoi of a number that does not fit into an int.
Atoi(n) == ((n + IntValues \div 2) % IntValues) - IntValues \div 2

\* A bound taken from the first walk.
Choose_Counted ==
  /\ pc = "sub"
  /\ \E n \in Typed :
       /\ Atoi(n) \in 1..count
       /\ compared' = <<file_list[0], file_list[Atoi(n)]>>
  /\ pc' = "compare"
  /\ UNCHANGED <<disk, command, walk, todo, list, quiet>>

\* An index between 1 and the last row; others are refused.
Choose ==
  /\ pc = "sub"
  /\ \E n \in Typed :
       /\ Atoi(n) \in 1..(file_list_length - 1)
       /\ compared' = <<file_list[0], file_list[Atoi(n)]>>
  /\ pc' = "compare"
  /\ UNCHANGED <<disk, command, walk, todo, list, quiet>>

\* ssu_dir_diff frees unset pointers when a scandir fails; ssu_diff gets the
\* null stream when a fopen fails.  Then the command is over.
Compare ==
  /\ pc = "compare"
  /\ IF is_dir
     THEN pc' \in Freed(\E k \in 1..2 : ~Readable(compared[k]), "prompt")
     ELSE pc' = IF Exists(compared[1]) /\ Exists(compared[2]) THEN "prompt" ELSE "undefined"
  /\ DropLocals
  /\ UNCHANGED <<disk, quiet>>

\* Another program changes one path, in a way that leaves the disk a tree.
Interfere ==
  /\ \E p \in Volatile, e \in Entries :
       /\ IsTree([disk EXCEPT ![p] = e])
       /\ disk' = [disk EXCEPT ![p] = e]
  /\ quiet' = FALSE
  /\ UNCHANGED <<pc, command, walk, todo, list, compared>>

\* What the program does between two lines of input.
Run ==
  \/ ScanName
  \/ CountMatch
  \/ FillMatch
  \/ ScanDirs
  \/ CountDone
  \/ FillDone
  \/ PrintRows
  \/ Compare

Next ==
  \/ Find
  \/ Exit
  \/ Spaces
  \/ Choose
  \/ Run
  \/ Interfere

\* The program is scheduled, whatever the others do; the user may stop typing.
Spec == Init /\ [][Next]_vars /\ WF_vars(Run)
-----------------------------------------------------------------------------
(***************************************************************************)
(* Properties.                                                             *)
(***************************************************************************)

\* c has the name, kind and size of the start file and is in a directory the walk
\* can get to.
Alike(c) ==
  /\ Last(c) = Name
  /\ disk[c].kind = Kind
  /\ size = IF is_dir THEN get_dir_size(c) ELSE disk[c].size
  /\ Open(startpath, c)
  /\ \A r \in Excluded : IsPrefix(r, Front(c)) => IsPrefix(r, startpath)

\* What the user asked for: all that is like the start file, and not itself.
Wanted == {c \in Below(startpath) : Alike(c) /\ c # startfile}

\* a comes in front of b in a walk that looks at a directory before its
\* subdirectories: shorter lists of parents first, else by the first difference.
TreeBefore(a, b) ==
  LET f == Front(a) g == Front(b)
  IN \/ IsStrictPrefix(f, g)
     \/ \E k \in DOMAIN f \cap DOMAIN g :
          /\ f[k] < g[k]
          /\ \A l \in 1..(k - 1) : f[l] = g[l]

\* The two walks are two functions that must make the same decisions.  On a tree
\* that does not change, the second never writes behind the rows that the first has
\* counted ("get file list length for malloc", line 374).  The rows are what was
\* asked for, all of it and nothing else, each once and in the order of the tree,
\* behind the start file (lines 190 and 235: "find the file which have same name and
\* same size").  But a start file in the root is listed once more, as a match of
\* itself: the walk spells its path with two slashes, and strcmp does not know it.
Complete ==
  quiet =>
    /\ pc # "overrun"
    /\ pc \in {"print", "sub"} =>
         LET rows == [k \in 1..(file_list_length - 1) |-> file_list[k]]
         IN /\ Range(rows) \ {startfile} = Wanted
            /\ startfile \in Range(rows) => Front(startfile) = <<>>
            /\ \A k, l \in DOMAIN rows : k < l => TreeBefore(rows[k], rows[l])
            /\ file_list[0] = startfile

\* Whatever appears or vanishes between the two walks, the numbers the user can
\* choose lead to rows of the second walk: never to one that was allocated and
\* not filled.
ChosenListed ==
  /\ compared # <<>> => compared[1] = startfile /\ compared[2] # Unwritten
  /\ pc \in {"sub", "print"} =>
       \A k \in 1..(file_list_length - 1) : file_list[k] \in Paths /\ Last(file_list[k]) = Name

\* The command always comes back to the user, however often other programs
\* create and delete directories in front of the walks.
FindReturns == []<>(pc \in {"prompt", "sub"} \cup Ended)
=============================================================================
