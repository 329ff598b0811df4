------------------------------- MODULE LineDiff -------------------------------
(***************************************************************************)
(* The comparison of two text files by p1/main.c: ssu_diff, which prints   *)
(* what has to change, and ssu_is_diff, which only says whether the files  *)
(* differ.  Both match the lines of each file with those of the other, one *)
(* pass for each direction; ssu_diff then takes the better of the two      *)
(* matchings and prints a block for every stretch of unmatched lines.      *)
(*                                                                         *)
(* A line is a value; Blank is the line that is only a newline, which the  *)
(* passes treat in a way of its own.  Files have fewer than BUFFER_SIZE    *)
(* lines, each shorter than BUFFER_SIZE: result1 and result2 have that     *)
(* many elements.                                                          *)
(***************************************************************************)
EXTENDS Integers, SequencesExt, FiniteSets

CONSTANTS
  Lines,    \* the lines a file can have
  Blank,    \* the empty line
  MaxLines  \* a bound on the number of lines

ASSUME LinesAssumption == MaxLines \in Nat

VARIABLES
  x, y,              \* the two files
  caller,            \* the function at work
  pc,
  i,                 \* the line the loop is at
  start,             \* the first line of the other file to compare with
  line_before_is_n,  \* the last line matched was a blank one
  result1,           \* for each line of x the line of y it matches, or 0
  result2,           \* the same for the lines of y
  block,             \* the last two matches, as print_block gets them
  out,               \* what print_block has written, block by block
  verdict            \* what ssu_is_diff returned, or "none"

vars == <<x, y, caller, pc, i, start, line_before_is_n, result1, result2, block, out, verdict>>

files == <<x, y, caller>>
Files == UNION {[1..n -> Lines] : n \in 0..MaxLines}

Blocks == [1..4 -> 0..(MaxLines + 1)]

\* A command adds the lines at..til of y behind line from, deletes the lines
\* from..upto of x or changes the ones into the others.
Commands == [op : {"a", "d", "c"}, from : Int, upto : Int, at : Int, til : Int]

\* The commands on the header line of a block and the lines of y shown below
\* it; those of x that are shown too are the ones the command names.
Hunks == [header : Seq(Commands), added : Seq(Lines)]

TypeOK ==
  /\ x \in Files /\ y \in Files
  /\ caller \in {"ssu_diff", "ssu_is_diff"}
  /\ pc \in {"first", "second", "choose", "print", "done"}
  /\ i \in 1..(MaxLines + 1)
  /\ start \in 1..(MaxLines + 1)
  /\ line_before_is_n \in BOOLEAN
  /\ result1 \in [1..Len(x) -> 0..Len(y)]
  /\ result2 \in [1..Len(y) -> 0..Len(x)]
  /\ block \in Blocks
  /\ out \in Seq(Hunks)
  /\ verdict \in {"none", "same", "different"}

\* An element of the result arrays is written before it is read; 0 stands for
\* what it holds until then.
Init ==
  /\ x \in Files /\ y \in Files
  /\ caller \in {"ssu_diff", "ssu_is_diff"}
  /\ pc = "first"
  /\ i = 1
  /\ start = 1
  /\ line_before_is_n = FALSE
  /\ result1 = [k \in 1..Len(x) |-> 0]
  /\ result2 = [k \in 1..Len(y) |-> 0]
  /\ block = <<0, 0, 0, 0>>
  /\ out = <<>>
  /\ verdict = "none"
-----------------------------------------------------------------------------
(***************************************************************************)
(* The passes.  Line i of file a is compared with the lines of file b from *)
(* start on.                                                               *)
(***************************************************************************)

\* The comparison starts one line too late.
Meets_Late(a, b, j) ==
  /\ j \in (start + 1)..Len(b)
  /\ b[j] = a[i]
  /\ \A k \in (start + 1)..(j - 1) : b[k] # a[i]

\* j is the first line of b that is equal to line i of a.
Meets(a, b, j) ==
  /\ j \in start..Len(b)
  /\ b[j] = a[i]
  /\ \A k \in start..(j - 1) : b[k] # a[i]

\* The line in front of line j; f_offset[0] is 0, like f_offset[1].
LineBefore(b, j) == IF j = 1 THEN b[1] ELSE b[j - 1]

\* The element of result in front of the one just set, when its line was the
\* last to match and is blank: moved next to the new match if it fits there.
BlankBefore(b, j, result) ==
  IF j < result[i - 1] THEN 0
  ELSE IF LineBefore(b, j) = Blank THEN j - 1
  ELSE result[i - 1]

\* The loop's own line number is stored.
Marked_Self(a, b, result) ==
  IF \E j \in 1..Len(b) : Meets(a, b, j) THEN [result EXCEPT ![i] = i]
                                         ELSE [result EXCEPT ![i] = 0]

Marked(a, b, result) ==
  IF \E j \in 1..Len(b) : Meets(a, b, j)
  THEN LET j == CHOOSE k \in 1..Len(b) : Meets(a, b, k)
       IN IF line_before_is_n
          THEN [result EXCEPT ![i] = j, ![i - 1] = BlankBefore(b, j, result)]
          ELSE [result EXCEPT ![i] = j]
  ELSE [result EXCEPT ![i] = 0]

\* start = j in place of j + 1: a line can be matched twice.
Advance_Stays(a, b) ==
  /\ \/ \E j \in 1..Len(b) :
          /\ Meets(a, b, j)
          /\ line_before_is_n' = (a[i] = Blank)
          /\ start' = IF a[i] = Blank THEN start ELSE j
     \/ /\ ~\E j \in 1..Len(b) : Meets(a, b, j)
        /\ UNCHANGED <<line_before_is_n, start>>
  /\ i' = i + 1

\* A matched line that is not blank is passed for good; line_before_is_n is
\* left alone by a line without match.
Advance(a, b) ==
  /\ \/ \E j \in 1..Len(b) :
          /\ Meets(a, b, j)
          /\ line_before_is_n' = (a[i] = Blank)
          /\ start' = IF a[i] = Blank THEN start ELSE j + 1
     \/ /\ ~\E j \in 1..Len(b) : Meets(a, b, j)
        /\ UNCHANGED <<line_before_is_n, start>>
  /\ i' = i + 1

MatchFirst ==
  /\ pc = "first"
  /\ i <= Len(x)
  /\ result1' = Marked(x, y, result1)
  /\ Advance(x, y)
  /\ UNCHANGED <<files, pc, result2, block, out, verdict>>

NextPass ==
  /\ i' = 1
  /\ start' = 1
  /\ line_before_is_n' = FALSE

FirstDone ==
  /\ pc = "first"
  /\ i > Len(x)
  /\ pc' = "second"
  /\ NextPass
  /\ UNCHANGED <<files, result1, result2, block, out, verdict>>

MatchSecond ==
  /\ pc = "second"
  /\ i <= Len(y)
  /\ result2' = Marked(y, x, result2)
  /\ Advance(y, x)
  /\ UNCHANGED <<files, pc, result1, block, out, verdict>>

SecondDone ==
  /\ pc = "second"
  /\ i > Len(y)
  /\ pc' = "choose"
  /\ NextPass
  /\ UNCHANGED <<files, result1, result2, block, out, verdict>>
-----------------------------------------------------------------------------
Unmatched(result) == Cardinality({k \in DOMAIN result : result[k] = 0})

\* ssu_diff keeps the matching with fewer unmatched lines; of several lines of
\* y that match one line of x the last one counts.
Choose ==
  /\ pc = "choose"
  /\ caller = "ssu_diff"
  /\ result1' =
       IF Unmatched(result1) > Unmatched(result2)
       THEN [k \in DOMAIN result1 |->
               LET from == {m \in DOMAIN result2 : result2[m] = k}
               IN IF from = {} THEN 0 ELSE CHOOSE m \in from : \A n \in from : n <= m]
       ELSE result1
  /\ pc' = "print"
  /\ UNCHANGED <<files, i, start, line_before_is_n, result2, block, out, verdict>>

\* ssu_is_diff calls the files equal when one of the two matchings is total.
Return ==
  /\ pc = "choose"
  /\ caller = "ssu_is_diff"
  /\ verdict' = IF Unmatched(result1) = 0 \/ Unmatched(result2) = 0
                THEN "same" ELSE "different"
  /\ pc' = "done"
  /\ UNCHANGED <<files, i, start, line_before_is_n, result1, result2, block, out>>
-----------------------------------------------------------------------------
\* print_block: b[1] and b[2] are lines of x that match the lines b[3] and
\* b[4] of y, with nothing matched between them.
Command(b) ==
  IF b[1] + 1 = b[2]
  THEN [op |-> "a", from |-> b[1], upto |-> b[1], at |-> b[3] + 1, til |-> b[4] - 1]
  ELSE IF b[3] + 1 = b[4]
  THEN [op |-> "d", from |-> b[1] + 1, upto |-> b[2] - 1, at |-> b[3], til |-> b[3]]
  ELSE [op |-> "c", from |-> b[1] + 1, upto |-> b[2] - 1, at |-> b[3] + 1, til |-> b[4] - 1]

\* The header of a lone deleted line is followed, on the same line, by the one
\* that is meant for several: "1d01,1d0".
Header(b) ==
  IF Command(b).op = "d" /\ b[2] - b[1] = 2
  THEN <<Command(b), Command(b)>>
  ELSE <<Command(b)>>

Hunk(b) == [header |-> Header(b), added |-> SubSeq(y, b[3] + 1, b[4] - 1)]

\* Two matches that follow one another have nothing between them.
PrintBlock(b) ==
  IF b[2] - b[1] = 1 /\ b[4] - b[3] = 1 THEN out ELSE Append(out, Hunk(b))

Shifted(k, l) == <<block[2], k, block[4], l>>

PrintLine ==
  /\ pc = "print"
  /\ i <= Len(x)
  /\ IF result1[i] # 0
     THEN block' = Shifted(i, result1[i]) /\ out' = PrintBlock(block')
     ELSE UNCHANGED <<block, out>>
  /\ i' = i + 1
  /\ UNCHANGED <<files, pc, start, line_before_is_n, result1, result2, verdict>>

\* The last block ends one line early in the second file.
PrintLast_Short ==
  /\ pc = "print"
  /\ i > Len(x)
  /\ block' = Shifted(Len(x) + 1, Len(y))
  /\ out' = PrintBlock(block')
  /\ pc' = "done"
  /\ UNCHANGED <<files, i, start, line_before_is_n, result1, result2, verdict>>

PrintLast ==
  /\ pc = "print"
  /\ i > Len(x)
  /\ block' = Shifted(Len(x) + 1, Len(y) + 1)
  /\ out' = PrintBlock(block')
  /\ pc' = "done"
  /\ UNCHANGED <<files, i, start, line_before_is_n, result1, result2, verdict>>

Next ==
  \/ MatchFirst
  \/ FirstDone
  \/ MatchSecond
  \/ SecondDone
  \/ Choose
  \/ Return
  \/ PrintLine
  \/ PrintLast

Spec == Init /\ [][Next]_vars
-----------------------------------------------------------------------------
(***************************************************************************)
(* Properties.  They hold of files without blank lines; the passes lose    *)
(* them on others.                                                         *)
(***************************************************************************)

\* A matching pairs equal lines and crosses nowhere.
IsMatching(a, b, result) ==
  /\ \A k \in DOMAIN result : result[k] # 0 => a[k] = b[result[k]]
  /\ \A k, l \in DOMAIN result :
       k < l /\ result[k] # 0 /\ result[l] # 0 => result[k] < result[l]

\* Every matched pair are equal lines ("mark file1's line i are same with
\* file2's line j", line 799), in the same order in both files, through both
\* passes and through the exchange of the two matchings.
Matched == IsMatching(x, y, result1) /\ IsMatching(y, x, result2)

\* Where a block has two commands on its header line they are the same; the
\* last one is read.
CommandOf(h) == h.header[Len(h.header)]

\* The last line of x in front of what the command adds, deletes or changes.
KeptUpTo(h) == IF CommandOf(h).op = "a" THEN CommandOf(h).from ELSE CommandOf(h).from - 1

\* x after the commands have been carried out with the lines shown below them.
Rebuilt ==
  LET from(k) == IF k = 0 THEN 1 ELSE CommandOf(out[k]).upto + 1
      part[k \in 0..Len(out)] ==
        IF k = 0 THEN <<>>
        ELSE part[k - 1] \o SubSeq(x, from(k - 1), KeptUpTo(out[k])) \o out[k].added
  IN part[Len(out)] \o SubSeq(x, from(Len(out)), Len(x))

\* The last command of every header line and the lines below it make y of x
\* ("this means something added", "deleted", "changed at file2 when compare
\* with file1", lines 898, 914 and 929).  The header line of a lone deletion as it is
\* printed is no command at all (Header), though "if file2 only deleted one line"
\* (line 915) means to print one.
EditsLeadToSecond == pc = "done" /\ caller = "ssu_diff" => Rebuilt = y

\* "if file1 and file2 is same, they will not have '0' at result array" (line
\* 884): equal files are never called different.
EqualNotDifferent == x = y => verdict # "different"
=============================================================================
