----------------------------- MODULE SetCommands -----------------------------
(***************************************************************************)
(* The interactive phase of fmd5 and fsha1 (p2/ssu_find.c): the search has *)
(* left a list of duplicate sets, and the user deletes members of a set    *)
(* with the options d, i, f and t until he leaves or no set is left.       *)
(*                                                                         *)
(* A file is named by its path.  The lists of struct lower_list are        *)
(* sequences of paths, the list of struct file_list is the sequence of     *)
(* those sequences.  Each system call on the disk is a step of its own, so *)
(* that other programs (Interfere) can act between any two of them.        *)
(*                                                                         *)
(* An input line the program refuses ("ERROR: Arguments error") changes no *)
(* state and is a stuttering step.                                         *)
(***************************************************************************)
EXTENDS Integers, SequencesExt, DuplicateSets

CONSTANTS
  Paths,      \* the regular files below the target directory
  ContentOf,  \* the content each of them had when it was hashed
  Report,     \* the duplicate sets the search delivers, in list order
  MTimes,     \* the modification times (seconds since the epoch) a file has
  ListIdxs,   \* the numbers the user types as LIST_IDX of option d
  Absent,     \* no file at this path
  NoNode      \* a pointer that is never equal to a node of the lists

\* What search_src_file and rearr_list guarantee of the list they hand over;
\* DupSearch shows that they do (Delivers).
ASSUME ReportAssumption ==
  /\ ContentOf \in [Paths -> Range(ContentOf)]
  /\ IsReport(Report, ContentOf)

ASSUME ValuesAssumption ==
  /\ MTimes \subseteq Nat
  /\ ListIdxs \subseteq Nat
  /\ Absent \notin Range(ContentOf)
  /\ NoNode \notin Paths

VARIABLES
  files,      \* the disk: the content at each path, or Absent
  mtime,      \* st_mtim of each file
  bin,        \* the content moved from each path into the trash, or Absent
  sets,       \* start->next: for each header its list of members
  list_leng,  \* command_sub's count of sets, what print_result returned
  pc,         \* where the program is
  set_index,  \* the set the running command works on
  option,     \* the option of the running command
  cursor,     \* arrow_j: how many members of the set it has passed
  m_time,     \* the newest modification time the options f and t have seen
  temp,       \* the member that had it; unassigned while m_time = 0
  removedBy   \* history: the option that took a path off its list, or "no"

vars == <<files, mtime, bin, sets, list_leng, pc, set_index, option, cursor,
          m_time, temp, removedBy>>

disk  == <<files, mtime, bin>>
walk  == <<set_index, option, cursor, m_time, temp>>

Contents == Range(ContentOf)

Ended    == {"done", "exit1", "crashed"}

TypeOK ==
  /\ files \in [Paths -> Contents \cup {Absent}]
  /\ mtime \in [Paths -> MTimes]
  /\ bin \in [Paths -> Contents \cup {Absent}]
  /\ sets \in Seq(Seq(Paths))
  /\ list_leng \in Nat
  /\ pc \in {"print", "prompt", "confirm", "stat", "sweep"} \cup Ended
  /\ set_index \in Nat
  /\ option \in {"no", "d", "i", "f", "t"}
  /\ cursor \in Nat
  /\ m_time \in Nat
  /\ temp \in Paths \cup {NoNode}
  /\ removedBy \in [Paths -> {"no", "d", "i", "f", "t"}]

\* main has searched and called rearr_list; print_result is about to run.
Init ==
  /\ files = ContentOf
  /\ mtime \in [Paths -> MTimes]
  /\ bin = [p \in Paths |-> Absent]
  /\ sets = Report
  /\ list_leng = 0
  /\ pc = "print"
  /\ set_index = 0
  /\ option = "no"
  /\ cursor = 0
  /\ m_time = 0
  /\ temp = NoNode
  /\ removedBy = [p \in Paths |-> "no"]
-----------------------------------------------------------------------------
(***************************************************************************)
(* Printing the sets.                                                      *)
(***************************************************************************)

\* A delete_list that frees the empty lists only.
DeleteList_Empty ==
  \E n \in 0..Len(sets) : \E f \in [1..n -> DOMAIN sets] :
    /\ Range(f) = {k \in DOMAIN sets : Len(sets[k]) >= 1}
    /\ \A a, b \in 1..n : a < b => f[a] < f[b]
    /\ sets' = [a \in 1..n |-> sets[f[a]]]

\* delete_list: the headers with two members or more stay, in their order.
\* f gives the place each of them had.
DeleteList ==
  \E n \in 0..Len(sets) : \E f \in [1..n -> DOMAIN sets] :
    /\ Range(f) = {k \in DOMAIN sets : Len(sets[k]) >= 2}
    /\ \A a, b \in 1..n : a < b => f[a] < f[b]
    /\ sets' = [a \in 1..n |-> sets[f[a]]]

\* lstat succeeds on every member print_result is about to show.
AllPresent(lists) ==
  \A k \in DOMAIN lists : \A a \in DOMAIN lists[k] : files[lists[k][a]] # Absent

\* option_command has returned, and its locals are gone.
DropLocals ==
  /\ set_index' = 0
  /\ option' = "no"
  /\ cursor' = 0
  /\ m_time' = 0
  /\ temp' = NoNode

\* print_result: drop the sets that are none any more, show the others; the
\* program gives up when a member it wants to show is gone.
PrintResult ==
  /\ pc = "print"
  /\ DeleteList
  /\ \/ /\ AllPresent(sets')
        /\ list_leng' = Len(sets')
        /\ pc' = "prompt"
     \/ /\ ~AllPresent(sets')
        /\ pc' = "exit1"
        /\ UNCHANGED list_leng
  /\ DropLocals
  /\ UNCHANGED <<disk, removedBy>>

\* command_sub returns when no set is left; main frees the list and exits.
NothingLeft ==
  /\ pc = "prompt"
  /\ list_leng = 0
  /\ pc' = "done"
  /\ UNCHANGED <<disk, walk, sets, list_leng, removedBy>>

\* The user types exit.
Exit ==
  /\ pc = "prompt"
  /\ list_leng > 0
  /\ pc' = "done"
  /\ UNCHANGED <<disk, walk, sets, list_leng, removedBy>>
-----------------------------------------------------------------------------
(***************************************************************************)
(* Taking one member away: the disk, then the list.                        *)
(***************************************************************************)

\* unlink: it fails on a missing file, and may fail on any other (no
\* permission on the directory); the program goes on either way.
Unlink(p) ==
  /\ \/ files[p] # Absent /\ files' = [files EXCEPT ![p] = Absent]
     \/ UNCHANGED files
  /\ UNCHANGED <<mtime, bin>>

\* trash: the rename into the trash directory is not checked; it fails on a
\* missing file and on a file of another file system.
Rename(p) ==
  /\ \/ /\ files[p] # Absent
        /\ files' = [files EXCEPT ![p] = Absent]
        /\ bin' = [bin EXCEPT ![p] = files[p]]
     \/ UNCHANGED <<files, bin>>
  /\ UNCHANGED mtime

\* arrow_b->next = arrow_j->next; free(arrow_j)
TakeOff(i, a) ==
  /\ sets' = [sets EXCEPT ![i] = RemoveAt(@, a)]
  /\ removedBy' = [removedBy EXCEPT ![sets[i][a]] = option']

\* Option d whose walk over the list of sets goes one set too far.
DeleteOne_NextSet(i, list_idx) ==
  /\ pc = "prompt"
  /\ i + 1 <= list_leng
  /\ list_idx \in 1..Len(sets[i + 1])
  /\ set_index' = i
  /\ option' = "d"
  /\ Unlink(sets[i + 1][list_idx])
  /\ TakeOff(i + 1, list_idx)
  /\ pc' = "print"
  /\ UNCHANGED <<list_leng, cursor, m_time, temp>>

(***************************************************************************)
(* "SET_INDEX d LIST_IDX".  The walk of arrow_j stops at the end of the    *)
(* list.  LIST_IDX 0 passes is_digit and the walk does not start: the      *)
(* program unlinks the path of the dummy node, which nobody has written,   *)
(* and writes through arrow_b, which nobody has assigned.  Nothing is      *)
(* claimed after that.                                                     *)
(***************************************************************************)
DeleteOne(i, list_idx) ==
  /\ pc = "prompt"
  /\ i <= list_leng
  /\ set_index' = i
  /\ option' = "d"
  /\ \/ /\ list_idx > Len(sets[i])
        /\ pc' = "print"
        /\ UNCHANGED <<disk, sets, removedBy>>
     \/ /\ list_idx \in 1..Len(sets[i])
        /\ Unlink(sets[i][list_idx])
        /\ TakeOff(i, list_idx)
        /\ pc' = "print"
     \/ /\ list_idx = 0
        /\ pc' = "crashed"
        /\ UNCHANGED <<disk, sets, removedBy>>
  /\ UNCHANGED <<list_leng, cursor, m_time, temp>>
-----------------------------------------------------------------------------
(***************************************************************************)
(* "SET_INDEX i": one question for each member.                            *)
(***************************************************************************)
AskEach(i) ==
  /\ pc = "prompt"
  /\ i <= list_leng
  /\ set_index' = i
  /\ option' = "i"
  /\ cursor' = 0
  /\ pc' = "confirm"
  /\ UNCHANGED <<disk, sets, list_leng, m_time, temp, removedBy>>

MoreMembers == cursor < Len(sets[set_index])
Member      == sets[set_index][cursor + 1]

\* Option i that steps back once too often behind a removed member.
AnswerYes_TwoBack ==
  /\ pc = "confirm"
  /\ MoreMembers
  /\ option' = option
  /\ Unlink(Member)
  /\ TakeOff(set_index, cursor + 1)
  /\ cursor' = cursor - 1
  /\ UNCHANGED <<list_leng, pc, set_index, m_time, temp>>

\* The answer y or Y: the cursor stays in front of the next member.
AnswerYes ==
  /\ pc = "confirm"
  /\ MoreMembers
  /\ option' = option
  /\ Unlink(Member)
  /\ TakeOff(set_index, cursor + 1)
  /\ UNCHANGED <<list_leng, pc, set_index, cursor, m_time, temp>>

\* The answer n or N.
AnswerNo ==
  /\ pc = "confirm"
  /\ MoreMembers
  /\ cursor' = cursor + 1
  /\ UNCHANGED <<disk, sets, list_leng, pc, set_index, option, m_time, temp, removedBy>>

\* Any other answer ends the command.
AnswerOther ==
  /\ pc = "confirm"
  /\ MoreMembers
  /\ pc' = "print"
  /\ UNCHANGED <<disk, walk, sets, list_leng, removedBy>>

\* Option i without the print_result behind it.
AskDone_NoPrint ==
  /\ pc = "confirm"
  /\ ~MoreMembers
  /\ pc' = "prompt"
  /\ UNCHANGED <<disk, walk, sets, list_leng, removedBy>>

AskDone ==
  /\ pc = "confirm"
  /\ ~MoreMembers
  /\ pc' = "print"
  /\ UNCHANGED <<disk, walk, sets, list_leng, removedBy>>
-----------------------------------------------------------------------------
(***************************************************************************)
(* "SET_INDEX f" and "SET_INDEX t": find the newest member, take all the   *)
(* others away.  The local variable m_time starts at 0; temp starts with   *)
(* what the stack holds, which may be a node print_result has just walked. *)
(***************************************************************************)
ListedPaths == UNION {Range(sets[k]) : k \in DOMAIN sets}

KeepNewest(i, opt) ==
  /\ pc = "prompt"
  /\ i <= list_leng
  /\ set_index' = i
  /\ option' = opt
  /\ cursor' = 0
  /\ m_time' = 0
  /\ temp' \in ListedPaths \cup {NoNode}
  /\ pc' = "stat"
  /\ UNCHANGED <<disk, sets, list_leng, removedBy>>

\* A later member of the same time replaces the candidate.
StatMember_LaterWins ==
  /\ pc = "stat"
  /\ MoreMembers
  /\ files[Member] # Absent
  /\ cursor' = cursor + 1
  /\ m_time' = IF m_time <= mtime[Member] THEN mtime[Member] ELSE m_time
  /\ temp' = IF m_time <= mtime[Member] THEN Member ELSE temp
  /\ UNCHANGED <<disk, sets, list_leng, pc, set_index, option, removedBy>>

\* lstat one member; a strictly newer one replaces the candidate.
StatMember ==
  /\ pc = "stat"
  /\ MoreMembers
  /\ \/ /\ files[Member] = Absent
        /\ pc' = "exit1"
        /\ UNCHANGED <<cursor, m_time, temp>>
     \/ /\ files[Member] # Absent
        /\ cursor' = cursor + 1
        /\ m_time' = IF m_time < mtime[Member] THEN mtime[Member] ELSE m_time
        /\ temp' = IF m_time < mtime[Member] THEN Member ELSE temp
        /\ UNCHANGED pc
  /\ UNCHANGED <<disk, sets, list_leng, set_index, option, removedBy>>

\* The second walk without arrow_j = arrow_i->l_start in front.
StatDone_NoReset ==
  /\ pc = "stat"
  /\ ~MoreMembers
  /\ pc' = "sweep"
  /\ UNCHANGED <<disk, walk, sets, list_leng, removedBy>>

StatDone ==
  /\ pc = "stat"
  /\ ~MoreMembers
  /\ cursor' = 0
  /\ pc' = "sweep"
  /\ UNCHANGED <<disk, sets, list_leng, set_index, option, m_time, temp, removedBy>>

\* arrow_j reaches the candidate and steps over it.
SweepKeep ==
  /\ pc = "sweep"
  /\ MoreMembers
  /\ Member = temp
  /\ cursor' = cursor + 1
  /\ UNCHANGED <<disk, sets, list_leng, pc, set_index, option, m_time, temp, removedBy>>

\* The second walk without the test for the candidate.
SweepRemove_NoTest ==
  /\ pc = "sweep"
  /\ MoreMembers
  /\ option' = option
  /\ \/ option = "f" /\ Unlink(Member)
     \/ option = "t" /\ Rename(Member)
  /\ TakeOff(set_index, cursor + 1)
  /\ UNCHANGED <<list_leng, pc, set_index, cursor, m_time, temp>>

\* The second walk without arrow_b->next = arrow_j->next.
SweepRemove_StaysLinked ==
  /\ pc = "sweep"
  /\ MoreMembers
  /\ Member # temp
  /\ \/ option = "f" /\ Unlink(Member)
     \/ option = "t" /\ Rename(Member)
  /\ UNCHANGED <<walk, sets, list_leng, pc, removedBy>>

\* Any other member leaves the disk and the list.  trash may first end the
\* program (no trash directory, SweepStop) or return early (scandir refused
\* with EPERM), which looks like a rename that failed.
SweepRemove ==
  /\ pc = "sweep"
  /\ MoreMembers
  /\ Member # temp
  /\ option' = option
  /\ \/ option = "f" /\ Unlink(Member)
     \/ option = "t" /\ Rename(Member)
  /\ TakeOff(set_index, cursor + 1)
  /\ UNCHANGED <<list_leng, pc, set_index, cursor, m_time, temp>>

\* trash cannot read the trash directory: exit(1) in front of the rename.
\* It cannot create the .trashinfo file: fprintf on NULL behind the rename.
SweepStop ==
  /\ pc = "sweep"
  /\ MoreMembers
  /\ Member # temp
  /\ option = "t"
  /\ \/ pc' = "exit1" /\ UNCHANGED disk
     \/ pc' = "crashed" /\ Rename(Member)
  /\ UNCHANGED <<walk, sets, list_leng, removedBy>>

\* The closing message prints temp->path; if temp was never assigned that may
\* read through a wild pointer.
SweepDone ==
  /\ pc = "sweep"
  /\ ~MoreMembers
  /\ \/ pc' = "print"
     \/ temp = NoNode /\ pc' = "crashed"
  /\ UNCHANGED <<disk, walk, sets, list_leng, removedBy>>
-----------------------------------------------------------------------------
\* The commands on set i; command_sub lets 1..list_leng through.
Command(i) ==
  \/ \E list_idx \in ListIdxs : DeleteOne(i, list_idx)
  \/ AskEach(i)
  \/ \E opt \in {"f", "t"} : KeepNewest(i, opt)

Answer == AnswerYes \/ AnswerNo \/ AnswerOther

\* The steps that need no further input.
Run ==
  \/ PrintResult
  \/ NothingLeft
  \/ AskDone
  \/ StatMember
  \/ StatDone
  \/ SweepKeep
  \/ SweepRemove
  \/ SweepStop
  \/ SweepDone

Next ==
  \/ Run
  \/ Exit
  \/ \E i \in 1..list_leng : Command(i)
  \/ Answer

\* Another program deletes, creates or rewrites a file.
Interfere ==
  /\ \E p \in Paths, c \in Contents \cup {Absent}, t \in MTimes :
       /\ files' = [files EXCEPT ![p] = c]
       /\ mtime' = [mtime EXCEPT ![p] = t]
  /\ UNCHANGED <<bin, sets, list_leng, pc, walk, removedBy>>

\* The program alone on its directory.
Spec == Init /\ [][Next]_vars

\* The program next to others that use the same directory; it is scheduled,
\* whatever they do, but the user may stop typing at any prompt.
SharedSpec == Init /\ [][Next \/ Interfere]_vars /\ WF_vars(Run)
-----------------------------------------------------------------------------
(***************************************************************************)
(* What the program promises, module Dedup: every way through the prompts  *)
(* is one of its steps.  f and t have decided when their first walk is     *)
(* over; from then on the set is no longer on offer, and all its members   *)
(* but the candidate are doomed.                                           *)
(***************************************************************************)

\* f or t is in, or behind, its second walk over set k.
Swept(k) ==
  /\ k = set_index
  /\ option \in {"f", "t"}
  /\ pc \in {"sweep", "print"} \cup Ended

Reported == {Range(Report[k]) : k \in DOMAIN Report}
Offered  == {Range(sets[k]) : k \in {l \in DOMAIN sets : ~Swept(l)}}
Doomed   == UNION {Range(sets[k]) \ {temp} : k \in {l \in DOMAIN sets : Swept(l)}}
Stored   == {p \in Paths : ContentOf[p] \in {files[p], bin[p]}}
Undated  == {p \in Paths : mtime[p] = 0}
Asked    == {p \in Paths : removedBy[p] \in {"d", "i"}}

Promise == INSTANCE Dedup WITH
  Groups <- Reported, groups <- Offered, doomed <- Doomed,
  stored <- Stored, undated <- Undated, asked <- Asked

\* The program alone on its directory keeps the promise.
KeepsPromise == Promise!Spec
-----------------------------------------------------------------------------
(***************************************************************************)
(* Properties.                                                             *)
(***************************************************************************)

ClassOf(k) == Range(Report[k])
Survives(c) == \E p \in Paths : files[p] = c \/ bin[p] = c

\* The tool exists to remove surplus copies, never the content: the last copy
\* of a reported content goes only if every copy was named by the user (d, or
\* y under i) or carries the modification time 0, which f and t cannot see
\* (option_command, lines 248 and 313).  It holds whatever unlink and rename
\* refuse and wherever f or t are cut short.
ContentKept ==
  \A k \in DOMAIN Report :
    \/ Survives(ContentOf[Report[k][1]])
    \/ \A p \in ClassOf(k) : removedBy[p] \in {"d", "i"} \/ mtime[p] = 0

\* At the prompt every SET_INDEX that command_sub lets through leads to a set
\* of at least two members: the count is never stale against the list, so
\* option_command's walk along set_index headers stays inside it, whatever
\* another program does to the files.
IndexLeadsToSet ==
  pc = "prompt" =>
    /\ list_leng = Len(sets)
    /\ \A i \in 1..list_leng : Len(sets[i]) >= 2

\* f and t take a file away only while a member at least as new is still on
\* the list, and of equally new members the one listed first stays (the
\* comment in option_command, line 318); mtime 0 apart.
NewestStays ==
  [][pc = "sweep" => \A a \in DOMAIN sets[set_index] :
       LET p == sets[set_index][a]
       IN removedBy'[p] \in {"f", "t"} /\ removedBy[p] = "no" /\ mtime[p] > 0 =>
            \E b \in DOMAIN sets[set_index] :
              LET q == sets[set_index][b]
              IN /\ \E c \in DOMAIN sets'[set_index] : sets'[set_index][c] = q
                 /\ mtime[q] > mtime[p] \/ (mtime[q] = mtime[p] /\ b < a)
    ]_<<sets, removedBy>>

\* When f or t has run to its end the set has shrunk to at most the candidate,
\* and to exactly it if any file had a modification time above 0, whatever
\* other programs did meanwhile, so that print_result drops the set and no
\* later command can reach the survivor.
SweepLeavesCandidate ==
  [][pc = "sweep" /\ pc' = "print" =>
       \/ sets[set_index] = <<temp>>
       \/ sets[set_index] = <<>> /\ m_time = 0]_pc

\* What a command changes is the set the user chose, and nothing else.  A file that
\* goes, for good or into the trash, is a member of that set, and goes in the step
\* that takes it off the list or ends the program (trash, line 428); it is never the
\* candidate of f and t.  The other sets stay as they are, and print_result drops
\* none of two members or more.  What other programs change between the steps, which
\* moves neither the list nor the program, cannot divert it to another path.  (The
\* file that LIST_IDX 0 unlinks is not one of the model.)
OnlyChosenTouched ==
  [][<<sets, pc>>' # <<sets, pc>> =>
       /\ \A p \in Paths : files'[p] # files[p] \/ bin'[p] # bin[p] =>
            /\ files'[p] = Absent
            /\ p \in Range(sets[set_index'])
            /\ p \notin Range(sets'[set_index']) \/ pc' = "crashed"
            /\ option' \in {"f", "t"} => p # temp
       /\ pc # "print" => \A k \in DOMAIN sets : k # set_index' => sets'[k] = sets[k]
       /\ pc = "print" => \A k \in DOMAIN sets : Len(sets[k]) >= 2 => sets[k] \in Range(sets')
    ]_<<files, bin, sets, pc>>

\* f and t always come to an end without the user: each step of the two
\* walks either moves the cursor or shortens the list.
SweepEnds == pc \in {"stat", "sweep"} ~> pc \in {"prompt"} \cup Ended
=============================================================================
