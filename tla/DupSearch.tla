------------------------------ MODULE DupSearch ------------------------------
(***************************************************************************)
(* The search of fmd5 and fsha1 (p2/ssu_find-md5.c, p2/ssu_find-sha1.c and *)
(* the list functions of p2/ssu_find.c): search_src_file walks the target  *)
(* directory, and for each file it has not listed yet search_file walks it *)
(* again to find the files of the same size and digest.                    *)
(*                                                                         *)
(* scandir, lstat and fopen with read are steps of their own, so that      *)
(* other programs (Interfere) can act between any two of them.             *)
(*                                                                         *)
(* The digests of different contents are taken to be different; what       *)
(* create_new_node and hashcmp do to equal digests is modelled: a digest   *)
(* is binary, but strcpy copies it as a string, up to its first zero byte, *)
(* and hashcmp compares 20 bytes, 4 more than an MD5 digest has.           *)
(***************************************************************************)
EXTENDS Integers, SequencesExt, DuplicateSets

CONSTANTS
  Tree,      \* the directories in the order of the recursion, without /run,
             \* /proc, /sys, /mnt/c: for each the paths of its regular files
             \* in alphasort order
  NameOf,    \* the name in each path, a sequence of characters
  Contents,  \* the contents a file can have
  SizeOf,    \* their lengths in bytes
  Clean,     \* the contents whose digest has no zero byte
  Whole,     \* the digest fills the 20 bytes of struct file_list (fsha1)
  Extension, \* the sequence of characters of the extension, or <<>> for "*"
  MinSizes,  \* what the user types for the smallest size, and for the
  MaxSizes,  \* largest: tenths of a unit, and the unit
  Tilde,     \* a "~" in their place: no limit
  Inexact,   \* the limits whose product with the unit, a double, comes out
             \* below the whole number it should be, as 64.1 * 1000 does
  Volatile,  \* the paths other programs use during the search
  Absent,    \* no file at this path
  NoNode     \* no node

Paths == UNION {Range(Tree[d]) : d \in DOMAIN Tree}

ASSUME TreeAssumption ==
  /\ Tree \in Seq(Seq(Paths))
  /\ \A d, e \in DOMAIN Tree : \A a \in DOMAIN Tree[d], b \in DOMAIN Tree[e] :
       Tree[d][a] = Tree[e][b] => d = e /\ a = b

ASSUME ContentAssumption ==
  /\ SizeOf \in [Contents -> Nat]
  /\ Clean \subseteq Contents
  /\ Whole \in BOOLEAN
  /\ Absent \notin Contents

Units == [none |-> 1, KB |-> 1000, MB |-> 1000000, GB |-> 1000000000]

\* A double holds whole numbers and halves exactly; limits are below 2^53 bytes.
ASSUME SizesAssumption ==
  /\ MinSizes \cup MaxSizes \subseteq [tenths : Nat, unit : DOMAIN Units] \cup {Tilde}
  /\ Inexact \subseteq (MinSizes \cup MaxSizes) \ {Tilde}
  /\ \A arg \in Inexact : arg.unit # "none" /\ arg.tenths % 5 # 0

VARIABLES
  typed,  \* argv[2] and argv[3]
  lminsize, lmaxsize,  \* what main makes of them, -1 for "~"
  files,  \* the disk: the content at each path, or Absent
  pc,     \* where the program is
  outer,  \* search_src_file: its directory and which of its files are left of f_res
  size,   \* search_src_file: temp_stat.st_size of the file at hand
  node,   \* the file_list node that search_file fills, or NoNode
  inner,  \* search_file: its directory and which of its files are left of f_res
  list,   \* start->next: the nodes, each with its list of members
  quiet   \* history: no other program has changed a file

args == <<typed, lminsize, lmaxsize>>
vars == <<args, files, pc, outer, size, node, inner, list, quiet>>

Positions == UNION {DOMAIN Tree[d] : d \in DOMAIN Tree}
Walks == [dir : 0..Len(Tree), rest : SUBSET Positions]
Nodes == [path : Paths, size : Nat, md : Contents, intact : BOOLEAN, low : Seq(Paths)]
Ended == {"done", "exit1"}

TypeOK ==
  /\ typed \in MinSizes \X MaxSizes
  /\ {lminsize, lmaxsize} \subseteq Nat \cup {-1}
  /\ files \in [Paths -> Contents \cup {Absent}]
  /\ pc \in {"args", "scan", "hash", "search", "compare"} \cup Ended
  /\ outer \in Walks
  /\ size \in Nat
  /\ node \in Nodes \cup {NoNode}
  /\ inner \in Walks
  /\ list \in Seq(Nodes)
  /\ quiet \in BOOLEAN

NotStarted == [dir |-> 0, rest |-> {}]

Init ==
  /\ typed \in MinSizes \X MaxSizes
  /\ lminsize = -1 /\ lmaxsize = -1
  /\ files \in [Paths -> Contents \cup {Absent}]
  /\ pc = "args"
  /\ outer = NotStarted
  /\ size = 0
  /\ node = NoNode
  /\ inner = NotStarted
  /\ list = <<>>
  /\ quiet = TRUE
-----------------------------------------------------------------------------
(***************************************************************************)
(* The arguments.                                                          *)
(***************************************************************************)

\* atof, the search for a unit, and the cast to long, which drops what is behind
\* the point: 1.5 is 1 and 64.1KB, 64099.99... as a double, is 64099.
Bytes(arg) ==
  IF arg = Tilde THEN -1
  ELSE IF arg \in Inexact THEN (arg.tenths * Units[arg.unit]) \div 10 - 1
  ELSE (arg.tenths * Units[arg.unit]) \div 10

\* The number is compared with 1 before the unit is looked at: 0.5MB is refused.
Refused(arg) == arg # Tilde /\ arg.tenths < 10

\* main gives up on what it refuses, and on a directory that is not there.
ReadArguments ==
  /\ pc = "args"
  /\ \/ /\ \A k \in 1..2 : ~Refused(typed[k])
        /\ lminsize' = Bytes(typed[1])
        /\ lmaxsize' = Bytes(typed[2])
        /\ pc' = "scan"
     \/ pc' = "exit1" /\ UNCHANGED <<lminsize, lmaxsize>>
  /\ UNCHANGED <<typed, files, outer, size, node, inner, list>>
-----------------------------------------------------------------------------
(***************************************************************************)
(* What the two walks have in common.                                      *)
(***************************************************************************)

\* filt_reg: the extension occurs in the name, and its FIRST occurrence
\* (strstr) is the end of the name.
FiltReg(name) ==
  \/ Extension = <<>>
  \/ LET at == {i \in 0..(Len(name) - Len(Extension)) :
                  SubSeq(name, i + 1, i + Len(Extension)) = Extension}
     IN \E i \in at : (\A j \in at : i <= j) /\ i + Len(Extension) = Len(name)

\* scandir of the next directory.
Enter(walk) ==
  LET dir == Tree[walk.dir + 1]
  IN [dir  |-> walk.dir + 1,
      rest |-> {k \in DOMAIN dir : files[dir[k]] # Absent /\ FiltReg(NameOf[dir[k]])}]

AtDirectory(walk) == walk.rest = {} /\ walk.dir < Len(Tree)
AtFile(walk)      == walk.rest # {}
AtEnd(walk)       == walk.rest = {} /\ walk.dir = Len(Tree)

\* The file at hand is the first that is left.
First(walk) == CHOOSE k \in walk.rest : \A l \in walk.rest : k <= l
File(walk)  == Tree[walk.dir][First(walk)]
Pass(walk)  == [walk EXCEPT !.rest = @ \ {First(walk)}]

\* The upper limit taken as an exclusive one.
InRange_Exclusive(bytes) ==
  /\ lminsize = -1 \/ lminsize <= bytes
  /\ lmaxsize = -1 \/ bytes < lmaxsize

InRange(bytes) ==
  /\ lminsize = -1 \/ lminsize <= bytes
  /\ lmaxsize = -1 \/ bytes <= lmaxsize

\* A have_path that looks at the headers only.
HavePath_Headers(p) == \E k \in DOMAIN list : p = list[k].path

HavePath(p) ==
  \E k \in DOMAIN list : p = list[k].path \/ p \in Range(list[k].low)

GiveUp ==
  /\ pc' = "exit1"
  /\ UNCHANGED <<args, files, outer, size, node, inner, list>>
-----------------------------------------------------------------------------
(***************************************************************************)
(* search_src_file.                                                        *)
(***************************************************************************)
EnterSrcDir ==
  /\ pc = "scan"
  /\ AtDirectory(outer)
  /\ outer' = Enter(outer)
  /\ UNCHANGED <<args, files, pc, size, node, inner, list>>

\* lstat; a file that cannot start a set is passed over.
StatSrc ==
  /\ pc = "scan"
  /\ AtFile(outer)
  /\ files[File(outer)] # Absent
  /\ LET p == File(outer)
         st_size == SizeOf[files[p]]
     IN IF InRange(st_size) /\ st_size >= 1 /\ ~HavePath(p)
        THEN pc' = "hash" /\ size' = st_size /\ UNCHANGED outer
        ELSE outer' = Pass(outer) /\ UNCHANGED <<pc, size>>
  /\ UNCHANGED <<args, files, node, inner, list>>

\* do_fp and create_new_node: strcpy keeps the digest intact only if it has no
\* zero byte; after one, the rest is what the memory of the node holds.
HashSrc ==
  /\ pc = "hash"
  /\ LET p == File(outer)
     IN /\ files[p] # Absent
        /\ \E intact \in IF files[p] \in Clean THEN {TRUE} ELSE BOOLEAN :
             node' = [path |-> p, size |-> size, md |-> files[p],
                      intact |-> intact, low |-> <<>>]
  /\ inner' = NotStarted
  /\ pc' = "search"
  /\ UNCHANGED <<args, files, outer, size, list>>

\* add_node without the comparison of sizes.
AddNode_Front(new) == list' = <<new>> \o list

\* add_node: in front of the first larger one.
AddNode(new) ==
  \E i \in 1..(Len(list) + 1) :
    /\ \A k \in 1..(i - 1) : list[k].size <= new.size
    /\ i <= Len(list) => list[i].size > new.size
    /\ list' = InsertAt(list, i, new)

\* search_file is back: a node without members is freed.
SearchDone ==
  /\ pc = "search"
  /\ AtEnd(inner)
  /\ IF node.low = <<>> THEN UNCHANGED list ELSE AddNode(node)
  /\ node' = NoNode
  /\ outer' = Pass(outer)
  /\ pc' = "scan"
  /\ UNCHANGED <<args, files, size, inner>>

\* rearr_list: the file a set was built around becomes its first member.
Rearr ==
  /\ pc = "scan"
  /\ AtEnd(outer)
  /\ list' = [k \in DOMAIN list |-> [list[k] EXCEPT !.low = <<list[k].path>> \o @]]
  /\ pc' = "done"
  /\ UNCHANGED <<args, files, outer, size, node, inner>>
-----------------------------------------------------------------------------
(***************************************************************************)
(* search_file.                                                            *)
(***************************************************************************)
EnterDir ==
  /\ pc = "search"
  /\ AtDirectory(inner)
  /\ inner' = Enter(inner)
  /\ UNCHANGED <<args, files, pc, outer, size, node, list>>

\* search_file that does not go on behind a file it does not want.
Stat_Stays ==
  /\ pc = "search"
  /\ AtFile(inner)
  /\ files[File(inner)] # Absent
  /\ LET q == File(inner)
         st_size == SizeOf[files[q]]
     IN IF InRange(st_size) /\ ~HavePath(q) /\ q # node.path /\ st_size = node.size
        THEN pc' = "compare" ELSE UNCHANGED pc
  /\ UNCHANGED <<args, files, outer, size, node, inner, list>>

Stat ==
  /\ pc = "search"
  /\ AtFile(inner)
  /\ files[File(inner)] # Absent
  /\ LET q == File(inner)
         st_size == SizeOf[files[q]]
     IN IF InRange(st_size) /\ ~HavePath(q) /\ q # node.path /\ st_size = node.size
        THEN pc' = "compare" /\ UNCHANGED inner
        ELSE inner' = Pass(inner) /\ UNCHANGED pc
  /\ UNCHANGED <<args, files, outer, size, node, list>>

\* hashcmp.  Equal digests may still differ in the bytes behind the zero byte
\* in the node, and behind the 16 bytes of an MD5 digest.
HashCmp(md) ==
  IF node.md # md THEN {FALSE} ELSE IF Whole THEN {node.intact} ELSE BOOLEAN

\* add_low_node called with the digest in place of the path.
Compare_Digest ==
  /\ pc = "compare"
  /\ LET q == File(inner)
     IN /\ files[q] # Absent
        /\ \E same \in HashCmp(files[q]) :
             node' = IF same THEN [node EXCEPT !.low = Append(@, files[q])] ELSE node
  /\ inner' = Pass(inner)
  /\ pc' = "search"
  /\ UNCHANGED <<args, files, outer, size, list>>

\* do_fp, hashcmp and add_low_node.
Compare ==
  /\ pc = "compare"
  /\ LET q == File(inner)
     IN /\ files[q] # Absent
        /\ \E same \in HashCmp(files[q]) :
             node' = IF same THEN [node EXCEPT !.low = Append(@, q)] ELSE node
  /\ inner' = Pass(inner)
  /\ pc' = "search"
  /\ UNCHANGED <<args, files, outer, size, list>>
-----------------------------------------------------------------------------
\* scandir fails on a directory the program may not read, or that is gone.
ScanFails ==
  /\ \/ pc = "scan" /\ AtDirectory(outer)
     \/ pc = "search" /\ AtDirectory(inner)
  /\ GiveUp

\* lstat fails: the file is gone since scandir.
StatFails ==
  /\ \/ pc = "scan" /\ AtFile(outer) /\ files[File(outer)] = Absent
     \/ pc = "search" /\ AtFile(inner) /\ files[File(inner)] = Absent
  /\ GiveUp

\* fopen fails: the file is gone since lstat, or the user may not read it.
OpenFails ==
  /\ pc \in {"hash", "compare"}
  /\ GiveUp

Search ==
  \/ ReadArguments
  \/ EnterSrcDir
  \/ StatSrc
  \/ HashSrc
  \/ SearchDone
  \/ Rearr
  \/ EnterDir
  \/ Stat
  \/ Compare
  \/ ScanFails
  \/ StatFails
  \/ OpenFails

Step == Search /\ UNCHANGED quiet

\* Another program deletes, creates or rewrites a file.
Interfere ==
  /\ \E p \in Volatile, c \in Contents \cup {Absent} : files' = [files EXCEPT ![p] = c]
  /\ quiet' = FALSE
  /\ UNCHANGED <<args, pc, outer, size, node, inner, list>>

Next == Step \/ Interfere

\* The program is scheduled, whatever the others do.
Spec == Init /\ [][Next]_vars /\ WF_vars(Step)
-----------------------------------------------------------------------------
(***************************************************************************)
(* Properties.                                                             *)
(***************************************************************************)

Report == [k \in DOMAIN list |-> list[k].low]

\* Each header of struct file_list and each of its members names another file,
\* also while the directory changes during the search: a file that two sets
\* shared would be deleted through one of them as the survivor of the other.
ListedOnce ==
  pc # "done" =>
    /\ \A k, l \in DOMAIN list : k # l =>
         ({list[k].path} \cup Range(list[k].low)) \cap ({list[l].path} \cup Range(list[l].low)) = {}
    /\ \A k \in DOMAIN list :
         list[k].path \notin Range(list[k].low) /\ IsInjective(list[k].low)
    /\ node # NoNode => /\ node.path \notin Range(node.low) /\ IsInjective(node.low)
                        /\ ~HavePath(node.path)
                        /\ \A a \in DOMAIN node.low : ~HavePath(node.low[a])

\* The files that are there.
Found == [p \in {q \in Paths : files[q] # Absent} |-> files[p]]

\* Alone, what the prompts rely on (SetCommands, ReportAssumption), and the order in
\* which the sets are shown (the comment at add_node, line 74).
Delivers ==
  quiet /\ pc = "done" =>
    /\ IsReport(Report, Found)
    /\ \A k, l \in DOMAIN list : k < l => list[k].size <= list[l].size

\* The files the user asked for, by the sizes as they were typed.
Asked(bytes) ==
  /\ typed[1] # Tilde => 10 * bytes >= typed[1].tenths * Units[typed[1].unit]
  /\ typed[2] # Tilde => 10 * bytes <= typed[2].tenths * Units[typed[2].unit]
  /\ bytes > 0
Wanted ==
  {p \in Paths : /\ files[p] # Absent
                 /\ IsSuffix(Extension, NameOf[p])
                 /\ Asked(SizeOf[files[p]])}

\* Alone, the result has all duplicates among the files asked for, and none among
\* the others: two files with one content, both within the limits, share a set.
\* The comments at filt_reg (line 66) and hashcmp (line 201) promise it, and those
\* at the limits ("only files within that size", ssu_find-md5.c:173, translated).  It
\* is not so for an Inexact limit, which the cast to long makes one byte too small.
Complete ==
  quiet /\ pc = "done" /\ Range(typed) \cap Inexact = {} =>
    /\ \A p, q \in Wanted : p # q /\ files[p] = files[q] =>
         \E k \in DOMAIN Report : {p, q} \subseteq Range(Report[k])
    /\ \A k \in DOMAIN Report : Range(Report[k]) \subseteq Wanted

\* The search ends, however often other programs change the directory.
SearchEnds == <>(pc \in Ended)
=============================================================================
