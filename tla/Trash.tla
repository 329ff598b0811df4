-------------------------------- MODULE Trash --------------------------------
(***************************************************************************)
(* The trash directory of option t (p2/ssu_find.c, trash and itoa): a file *)
(* moves to $HOME/.local/share/Trash/files under a name that no entry of   *)
(* the directory has, and a .trashinfo file remembers where it came from.  *)
(*                                                                         *)
(* Several sessions may use the directory at once: two shells of the user, *)
(* or a session and his file manager.  Every system call is a step.        *)
(*                                                                         *)
(* A name is the sequence of its characters; the order of characters is    *)
(* that of their codes.                                                    *)
(***************************************************************************)
EXTENDS Integers, SequencesExt

CONSTANTS
  Sessions,    \* the running programs that move files to the trash
  Jobs,        \* the paths each of them calls trash with, in order
  Paths,       \* the files outside the trash
  NameOf,      \* the file name in each path, a sequence of character codes
  Underscore,  \* the code of '_'
  Zero,        \* the code of '0'
  Period,      \* the code of '.'
  Trashed,     \* the names that may be in the trash directory at the start
  MaxTail,     \* a bound on the numbers tried as a tail
  Nothing      \* no file, no name, no information

ASSUME JobsAssumption ==
  /\ Jobs \in [Sessions -> Seq(Paths)]
  /\ NameOf \in [Paths -> Seq(Nat)]
  /\ Trashed \subseteq Seq(Nat)
  /\ {Underscore, Zero, Period, MaxTail} \subseteq Nat
  /\ Nothing \notin Paths

VARIABLES
  disk,     \* the paths that still name their file
  files,    \* the trash: for each name the path its file came from
  info,     \* the .trashinfo files: for each name the path recorded there
  pc,       \* where each session is
  todo,     \* the paths each session has still to call trash with
  listing,  \* f_res: the names the session saw in the trash directory
  file      \* the name the session has chosen

vars == <<disk, files, info, pc, todo, listing, file>>

(***************************************************************************)
(* itoa: decimal digits from the right; the loop runs while num > 10, not  *)
(* while num >= 10, so a leading 10 comes out as the single digit 0.       *)
(***************************************************************************)
itoa[num \in 0..MaxTail] ==
  IF num > 10 THEN Append(itoa[num \div 10], Zero + (num % 10))
              ELSE <<Zero + (num % 10)>>

\* The file name with the tail "_n"; no tail before the first collision.
Candidate(base, n) ==
  IF n = 0 THEN base ELSE base \o <<Underscore>> \o itoa[n]

\* alphasort in the C locale: the order of the directory entries.
Before(s, t) ==
  \E n \in 0..Len(s) :
    /\ n <= Len(t) /\ SubSeq(s, 1, n) = SubSeq(t, 1, n)
    /\ \/ n = Len(s) /\ n < Len(t)
       \/ n < Len(s) /\ n < Len(t) /\ s[n + 1] < t[n + 1]

First(names) == {s \in names : \A t \in names \ {s} : Before(s, t)}

\* The entries the loop compares the n-th candidate with: scandir, without a
\* filter, returns "." too (".." is never equal to a name either); after a
\* collision i restarts at 0 and i++ steps over the first entry.
Compared(names, n) ==
  LET entries == names \cup {<<Period>>}
  IN IF n = 0 THEN entries ELSE entries \ First(entries)

\* A loop that does not restart after a collision.
ChosenName_NoRestart(base, names) == Candidate(base, IF base \in names THEN 1 ELSE 0)

\* No search for another name.
ChosenName_Base(base, names) == base

\* The tails whose candidate meets no equal name.
FreeTails(base, names) ==
  {n \in 0..MaxTail : Candidate(base, n) \notin Compared(names, n)}

\* The loop of trash ends with the first of them.
ChosenName(base, names) ==
  Candidate(base, CHOOSE n \in FreeTails(base, names) :
                    \A m \in FreeTails(base, names) : n <= m)
-----------------------------------------------------------------------------
\* Every name that can come up.
AllNames ==
  Trashed \cup {Candidate(NameOf[p], n) : p \in Paths, n \in 0..MaxTail}

NamesUsed == {n \in AllNames : files[n] # Nothing}

\* The entries that were there came from somewhere else.
Elsewhere == "elsewhere"

Ended == {"done", "exit1", "crashed"}

\* What can be left of the paths of a session.
Left(s) == {SubSeq(Jobs[s], k, Len(Jobs[s])) : k \in 1..(Len(Jobs[s]) + 1)}

TypeOK ==
  /\ disk \subseteq Paths
  /\ files \in [AllNames -> Paths \cup {Elsewhere, Nothing}]
  /\ info \in [AllNames -> Paths \cup {Elsewhere, "empty", Nothing}]
  /\ pc \in [Sessions -> {"scan", "rename", "open", "write"} \cup Ended]
  /\ todo \in [Sessions -> Seq(Paths)]
  /\ \A s \in Sessions : todo[s] \in Left(s)
  /\ listing \in [Sessions -> SUBSET AllNames]
  /\ file \in [Sessions -> AllNames \cup {Nothing}]

\* Any of the sessions may never start.
Init ==
  /\ disk = Paths
  /\ \E names \in SUBSET Trashed :
       files = [n \in AllNames |-> IF n \in names THEN Elsewhere ELSE Nothing]
  /\ info = files
  /\ pc \in [Sessions -> {"scan", "done"}]
  /\ todo = Jobs
  /\ listing = [s \in Sessions |-> {}]
  /\ file = [s \in Sessions |-> Nothing]

Path(s) == Head(todo[s])

\* The list of members is taken from its end.
Return_Last(s) ==
  /\ todo' = [todo EXCEPT ![s] = Front(@)]
  /\ pc' = [pc EXCEPT ![s] = "scan"]
  /\ listing' = [listing EXCEPT ![s] = {}]
  /\ file' = [file EXCEPT ![s] = Nothing]

\* The call of trash is over.
Return(s) ==
  /\ todo' = [todo EXCEPT ![s] = Tail(@)]
  /\ pc' = [pc EXCEPT ![s] = "scan"]
  /\ listing' = [listing EXCEPT ![s] = {}]
  /\ file' = [file EXCEPT ![s] = Nothing]

\* scandir reads the directory, the loop picks a name that is not in it; names
\* that need a tail beyond MaxTail are left out.
Scan(s) ==
  /\ pc[s] = "scan"
  /\ todo[s] # <<>>
  /\ FreeTails(NameOf[Path(s)], NamesUsed) # {}
  /\ listing' = [listing EXCEPT ![s] = NamesUsed]
  /\ file' = [file EXCEPT ![s] = ChosenName(NameOf[Path(s)], NamesUsed)]
  /\ pc' = [pc EXCEPT ![s] = "rename"]
  /\ UNCHANGED <<disk, files, info, todo>>

\* scandir fails: trash returns without a word (EPERM) or ends the program.
ScanFails(s) ==
  /\ pc[s] = "scan"
  /\ todo[s] # <<>>
  /\ \/ Return(s)
     \/ pc' = [pc EXCEPT ![s] = "exit1"] /\ UNCHANGED <<todo, listing, file>>
  /\ UNCHANGED <<disk, files, info>>

\* rename replaces what has the name by now.  Its result is not checked: it
\* fails when the path is gone or on another file system.
Rename(s) ==
  /\ pc[s] = "rename"
  /\ \/ /\ Path(s) \in disk
        /\ disk' = disk \ {Path(s)}
        /\ files' = [files EXCEPT ![file[s]] = Path(s)]
     \/ UNCHANGED <<disk, files>>
  /\ pc' = [pc EXCEPT ![s] = "open"]
  /\ UNCHANGED <<info, todo, listing, file>>

\* fopen(..., "w") empties the information file; if it fails the program
\* writes through a NULL stream.
OpenInfo(s) ==
  /\ pc[s] = "open"
  /\ \/ /\ info' = [info EXCEPT ![file[s]] = "empty"]
        /\ pc' = [pc EXCEPT ![s] = "write"]
     \/ /\ pc' = [pc EXCEPT ![s] = "crashed"]
        /\ UNCHANGED info
  /\ UNCHANGED <<disk, files, todo, listing, file>>

\* The record goes to the name the file had, not to the one it got.
WriteInfo_OldName(s) ==
  /\ pc[s] = "write"
  /\ info' = [info EXCEPT ![NameOf[Path(s)]] = Path(s)]
  /\ Return(s)
  /\ UNCHANGED <<disk, files>>

\* fclose writes the record; in front of it gettimeofday may end the program.
WriteInfo(s) ==
  /\ pc[s] = "write"
  /\ \/ /\ info' = [info EXCEPT ![file[s]] = Path(s)]
        /\ Return(s)
     \/ /\ pc' = [pc EXCEPT ![s] = "exit1"]
        /\ UNCHANGED <<info, todo, listing, file>>
  /\ UNCHANGED <<disk, files>>

\* option_command has no more members to move.
Finish(s) ==
  /\ pc[s] = "scan"
  /\ todo[s] = <<>>
  /\ pc' = [pc EXCEPT ![s] = "done"]
  /\ UNCHANGED <<disk, files, info, todo, listing, file>>

Step(s) ==
  \/ Scan(s)
  \/ ScanFails(s)
  \/ Rename(s)
  \/ OpenInfo(s)
  \/ WriteInfo(s)
  \/ Finish(s)

Next == \E s \in Sessions : Step(s)

Spec == Init /\ [][Next]_vars
-----------------------------------------------------------------------------
(***************************************************************************)
(* Properties.                                                             *)
(***************************************************************************)

\* A file in the trash is replaced only by a session that read the directory
\* before that file came: the search for a name, which skips the first entry
\* after a collision, never settles for a name it could have seen.
ReplacedOnlyUnseen ==
  [][\A n \in AllNames : files[n] # Nothing /\ files'[n] # files[n] =>
       \E s \in Sessions : pc[s] = "rename" /\ file[s] = n /\ n \notin listing[s]]_files

\* At most one session runs, or has run.
Alone ==
  \A s, t \in Sessions : s # t =>
    \E r \in {s, t} : pc[r] = "done" /\ todo[r] = Jobs[r] /\ Jobs[r] # <<>>

\* A single session, between two calls: whatever is in the trash has its
\* information file, with the place it came from, also when renames failed
\* and left information about files that never came.
InfoTellsOrigin ==
  \A n \in AllNames :
    Alone /\ files[n] # Nothing /\ (\A s \in Sessions : pc[s] \in {"scan", "done"}) =>
      info[n] = files[n]

\* A single session: every file that has left its place is in the trash.
NothingLost == Alone => \A p \in Paths : p \in disk \/ \E n \in AllNames : files[n] = p
=============================================================================
