-------------------------- MODULE SetCommandsProofs --------------------------
(***************************************************************************)
(* Theorems about SetCommands, for every report of the search, every set   *)
(* of files and every assignment of modification times: its types and      *)
(* indices, that it implements Dedup, and what its steps may never do.     *)
(***************************************************************************)
EXTENDS SetCommands, TLAPS

-----------------------------------------------------------------------------
(***************************************************************************)
(* Sequences.                                                              *)
(***************************************************************************)

\* What free(arrow_j) leaves of a list: the nodes in front of it keep their
\* places, those behind it move up by one.
LEMMA RemoveAtProps ==
  ASSUME NEW S, NEW s \in Seq(S), NEW i \in 1..Len(s)
  PROVE  /\ RemoveAt(s, i) \in Seq(S)
         /\ Len(RemoveAt(s, i)) = Len(s) - 1
         /\ \A j \in 1..(Len(s) - 1) :
              RemoveAt(s, i)[j] = IF j < i THEN s[j] ELSE s[j + 1]
<1> DEFINE front == SubSeq(s, 1, i - 1)
           back  == SubSeq(s, i + 1, Len(s))
<1>1. Len(s) \in Nat /\ i \in Nat /\ i >= 1 /\ i <= Len(s)
  OBVIOUS
<1>2. front \in Seq(S) /\ Len(front) = i - 1 /\ \A j \in 1..(i - 1) : front[j] = s[j]
  BY <1>1
<1>3. back \in Seq(S) /\ Len(back) = Len(s) - i
      /\ \A j \in 1..(Len(s) - i) : back[j] = s[i + j]
  BY <1>1
<1> HIDE DEF front, back
<1>4. front \o back \in Seq(S) /\ Len(front \o back) = Len(s) - 1
  <2>1. front \in Seq(S) /\ back \in Seq(S)
    BY <1>2, <1>3
  <2>2. front \o back \in Seq(S)
    BY <2>1
  <2>3. Len(front \o back) = Len(front) + Len(back)
    BY <2>1
  <2> QED
    BY <1>1, <1>2, <1>3, <2>2, <2>3
<1>5. ASSUME NEW j \in 1..(Len(s) - 1)
      PROVE  (front \o back)[j] = IF j < i THEN s[j] ELSE s[j + 1]
  <2>1. CASE j < i
    BY <1>1, <1>2, <1>3, <2>1
  <2>2. CASE j >= i
    <3>1. (front \o back)[j] = back[j - (i - 1)]
      BY <1>1, <1>2, <1>3, <2>2
    <3>2. j - (i - 1) \in 1..(Len(s) - i)
      BY <1>1, <2>2
    <3> QED
      BY <1>1, <1>3, <2>2, <3>1, <3>2
  <2>3. j < i \/ j >= i
    BY <1>1
  <2> QED
    BY <2>1, <2>2, <2>3
<1> QED
  BY <1>4, <1>5 DEF RemoveAt, front, back
-----------------------------------------------------------------------------
(***************************************************************************)
(* Types, and the count of the sets.                                       *)
(***************************************************************************)

\* Between two prompts the count agrees with the list, and a command works on
\* a header of it.  TypeOK needs this: a walk past the last header would take
\* the paths of a node that is not there.
Placed ==
  /\ pc \in {"prompt", "confirm", "stat", "sweep"} => list_leng = Len(sets)
  /\ pc \in {"confirm", "stat", "sweep"} => set_index \in 1..Len(sets)
  /\ pc = "prompt" => \A i \in 1..Len(sets) : Len(sets[i]) >= 2
  /\ pc \in {"stat", "sweep"} => option \in {"f", "t"}
  /\ pc = "prompt" => option = "no"
  /\ pc = "confirm" => option = "i"

TypeInv == TypeOK /\ Placed

LEMMA InitTypeInv == Init => TypeInv
  BY ReportAssumption, ValuesAssumption DEF IsReport, Init, TypeInv, TypeOK, Placed, Contents, Ended

LEMMA PrintResultTypeInv == TypeInv /\ PrintResult => TypeInv'
<1> SUFFICES ASSUME TypeInv, PrintResult
             PROVE  TypeInv'
  OBVIOUS
<1>0. PICK n \in 0..Len(sets) : \E f \in [1..n -> DOMAIN sets] :
         /\ Range(f) = {k \in DOMAIN sets : Len(sets[k]) >= 2}
         /\ \A a, b \in 1..n : a < b => f[a] < f[b]
         /\ sets' = [a \in 1..n |-> sets[f[a]]]
  BY DEF PrintResult, DeleteList
<1>1. PICK f \in [1..n -> DOMAIN sets] :
         /\ Range(f) = {k \in DOMAIN sets : Len(sets[k]) >= 2}
         /\ sets' = [a \in 1..n |-> sets[f[a]]]
  BY <1>0
<1>2. sets \in Seq(Seq(Paths)) /\ Len(sets) \in Nat /\ n \in Nat
  BY DEF TypeInv, TypeOK
<1>3. \A a \in 1..n : f[a] \in 1..Len(sets) /\ sets[f[a]] \in Seq(Paths) /\ Len(sets[f[a]]) >= 2
  <2> TAKE a \in 1..n
  <2>1. f[a] \in Range(f)
    BY DEF Range
  <2>2. f[a] \in DOMAIN sets /\ Len(sets[f[a]]) >= 2
    BY <1>1, <2>1
  <2> QED
    BY <1>2, <2>2
<1>4. sets' \in Seq(Seq(Paths)) /\ Len(sets') = n
  BY <1>1, <1>2, <1>3
<1>5. TypeOK'
  BY <1>4 DEF TypeInv, TypeOK, PrintResult, DropLocals, disk, Ended
<1>6. Placed'
  BY <1>1, <1>3, <1>4 DEF TypeInv, Placed, PrintResult, DropLocals
<1> QED
  BY <1>5, <1>6 DEF TypeInv

\* Unlink and Rename keep the types of the disk and of the trash.
LEMMA DiskTypes ==
  ASSUME TypeOK, NEW p \in Paths, Unlink(p) \/ Rename(p)
  PROVE  /\ files' \in [Paths -> Contents \cup {Absent}]
         /\ mtime' = mtime
         /\ bin' \in [Paths -> Contents \cup {Absent}]
  BY DEF TypeOK, Unlink, Rename

\* Taking a node off a list changes that list only.
LEMMA TakeOffTypes ==
  ASSUME TypeOK, NEW i \in 1..Len(sets), NEW a \in 1..Len(sets[i]), TakeOff(i, a),
         option' \in {"d", "i", "f", "t"}
  PROVE  /\ sets[i] \in Seq(Paths)
         /\ sets[i][a] \in Paths
         /\ sets' \in Seq(Seq(Paths))
         /\ Len(sets') = Len(sets)
         /\ sets'[i] = RemoveAt(sets[i], a)
         /\ \A k \in 1..Len(sets) : k # i => sets'[k] = sets[k]
         /\ removedBy' \in [Paths -> {"no", "d", "i", "f", "t"}]
<1>1. sets \in Seq(Seq(Paths)) /\ sets[i] \in Seq(Paths) /\ sets[i][a] \in Paths
  BY DEF TypeOK
<1>2. RemoveAt(sets[i], a) \in Seq(Paths)
  BY <1>1, RemoveAtProps
<1>3. sets' = [sets EXCEPT ![i] = RemoveAt(sets[i], a)]
  BY DEF TakeOff
<1>4. sets' \in Seq(Seq(Paths)) /\ Len(sets') = Len(sets)
      /\ sets'[i] = RemoveAt(sets[i], a)
      /\ \A k \in 1..Len(sets) : k # i => sets'[k] = sets[k]
  BY <1>1, <1>2, <1>3
<1>5. removedBy' \in [Paths -> {"no", "d", "i", "f", "t"}]
  BY <1>1 DEF TypeOK, TakeOff
<1> QED
  BY <1>1, <1>4, <1>5

LEMMA NothingLeftTypeInv == TypeInv /\ NothingLeft => TypeInv'
  BY DEF TypeInv, TypeOK, Placed, NothingLeft, disk, walk, Ended

LEMMA ExitTypeInv == TypeInv /\ Exit => TypeInv'
  BY DEF TypeInv, TypeOK, Placed, Exit, disk, walk, Ended

LEMMA CommandTypeInv ==
  ASSUME TypeInv, NEW i \in 1..list_leng, Command(i)
  PROVE  TypeInv'
<1>1. ASSUME NEW list_idx \in ListIdxs, DeleteOne(i, list_idx)
      PROVE  TypeInv'
  <2>1. pc = "prompt" /\ i \in 1..Len(sets) /\ i \in Nat /\ set_index' = i /\ option' = "d"
        /\ UNCHANGED <<list_leng, cursor, m_time, temp>>
    BY <1>1 DEF DeleteOne, TypeInv, Placed, TypeOK
  <2>2. CASE pc' \in {"print", "crashed"} /\ UNCHANGED <<disk, sets, removedBy>>
    BY <2>1, <2>2 DEF TypeInv, TypeOK, Placed, disk, Ended
  <2>3. CASE /\ list_idx \in 1..Len(sets[i]) /\ Unlink(sets[i][list_idx])
             /\ TakeOff(i, list_idx) /\ pc' = "print"
    <3>1. /\ sets[i][list_idx] \in Paths
          /\ sets' \in Seq(Seq(Paths))
          /\ removedBy' \in [Paths -> {"no", "d", "i", "f", "t"}]
      BY <2>1, <2>3, TakeOffTypes DEF TypeInv
    <3>2. files' \in [Paths -> Contents \cup {Absent}] /\ mtime' = mtime
          /\ bin' \in [Paths -> Contents \cup {Absent}]
      BY <2>3, <3>1, DiskTypes DEF TypeInv
    <3> QED
      BY <2>1, <2>3, <3>1, <3>2 DEF TypeInv, TypeOK, Placed, Ended
  <2> QED
    BY <1>1, <2>2, <2>3 DEF DeleteOne
<1>2. ASSUME AskEach(i)
      PROVE  TypeInv'
  BY <1>2 DEF TypeInv, TypeOK, Placed, AskEach, disk, Ended
<1>3. ASSUME NEW opt \in {"f", "t"}, KeepNewest(i, opt)
      PROVE  TypeInv'
  <2>1. ListedPaths \subseteq Paths
    BY DEF TypeInv, TypeOK, ListedPaths, Range
  <2> QED
    BY <1>3, <2>1 DEF TypeInv, TypeOK, Placed, KeepNewest, disk, Ended
<1> QED
  BY <1>1, <1>2, <1>3 DEF Command

\* A member of the set the command works on.
LEMMA MemberTypes ==
  ASSUME TypeInv, pc \in {"confirm", "stat", "sweep"}, MoreMembers
  PROVE  /\ set_index \in 1..Len(sets)
         /\ cursor + 1 \in 1..Len(sets[set_index])
         /\ Member \in Paths
<1>1. set_index \in 1..Len(sets) /\ sets[set_index] \in Seq(Paths) /\ cursor \in Nat
  BY DEF TypeInv, TypeOK, Placed
<1>2. cursor + 1 \in 1..Len(sets[set_index])
  BY <1>1 DEF MoreMembers
<1> QED
  BY <1>1, <1>2 DEF Member

\* The step that takes the member behind the cursor away.
LEMMA TakeMemberTypeInv ==
  ASSUME TypeInv, pc \in {"confirm", "sweep"}, MoreMembers, option' = option,
         Unlink(Member) \/ Rename(Member), TakeOff(set_index, cursor + 1),
         UNCHANGED <<list_leng, pc, set_index, cursor, m_time, temp>>
  PROVE  TypeInv'
<1>1. /\ set_index \in 1..Len(sets)
      /\ cursor + 1 \in 1..Len(sets[set_index])
      /\ Member \in Paths
  BY MemberTypes
<1>2. option' \in {"d", "i", "f", "t"}
  BY DEF TypeInv, Placed
<1>3. /\ sets' \in Seq(Seq(Paths))
      /\ Len(sets') = Len(sets)
      /\ removedBy' \in [Paths -> {"no", "d", "i", "f", "t"}]
  BY <1>1, <1>2, TakeOffTypes DEF TypeInv
<1>4. files' \in [Paths -> Contents \cup {Absent}] /\ mtime' = mtime
      /\ bin' \in [Paths -> Contents \cup {Absent}]
  BY <1>1, DiskTypes DEF TypeInv
<1> QED
  BY <1>3, <1>4 DEF TypeInv, TypeOK, Placed, Ended

LEMMA AnswerTypeInv == TypeInv /\ (Answer \/ AskDone) => TypeInv'
<1> SUFFICES ASSUME TypeInv, Answer \/ AskDone
             PROVE  TypeInv'
  OBVIOUS
<1>1. CASE AnswerYes
  BY <1>1, TakeMemberTypeInv DEF AnswerYes
<1>2. CASE AnswerNo \/ AnswerOther \/ AskDone
  BY <1>2 DEF TypeInv, TypeOK, Placed, AnswerNo, AnswerOther, AskDone, disk, walk, Ended
<1> QED
  BY <1>1, <1>2 DEF Answer

LEMMA StatTypeInv == TypeInv /\ (StatMember \/ StatDone) => TypeInv'
<1> SUFFICES ASSUME TypeInv, StatMember \/ StatDone
             PROVE  TypeInv'
  OBVIOUS
<1>1. CASE StatMember
  <2>1. Member \in Paths /\ mtime[Member] \in Nat
    BY <1>1, MemberTypes, ValuesAssumption DEF StatMember, TypeInv, TypeOK
  <2> QED
    BY <1>1, <2>1 DEF TypeInv, TypeOK, Placed, StatMember, disk, Ended
<1>2. CASE StatDone
  BY <1>2 DEF TypeInv, TypeOK, Placed, StatDone, disk, Ended
<1> QED
  BY <1>1, <1>2

LEMMA SweepTypeInv ==
  TypeInv /\ (SweepKeep \/ SweepRemove \/ SweepStop \/ SweepDone) => TypeInv'
<1> SUFFICES ASSUME TypeInv, SweepKeep \/ SweepRemove \/ SweepStop \/ SweepDone
             PROVE  TypeInv'
  OBVIOUS
<1>1. CASE SweepKeep \/ SweepDone
  BY <1>1 DEF TypeInv, TypeOK, Placed, SweepKeep, SweepDone, disk, walk, Ended
<1>2. CASE SweepRemove
  BY <1>2, TakeMemberTypeInv DEF SweepRemove
<1>3. CASE SweepStop
  <2>1. Member \in Paths
    BY <1>3, MemberTypes DEF SweepStop
  <2>2. files' \in [Paths -> Contents \cup {Absent}] /\ mtime' = mtime
        /\ bin' \in [Paths -> Contents \cup {Absent}]
    BY <1>3, <2>1, DiskTypes DEF SweepStop, TypeInv, TypeOK, disk
  <2> QED
    BY <1>3, <2>2 DEF TypeInv, TypeOK, Placed, SweepStop, walk, Ended
<1> QED
  BY <1>1, <1>2, <1>3

LEMMA InterfereTypeInv == TypeInv /\ Interfere => TypeInv'
  BY DEF TypeInv, TypeOK, Placed, Interfere, walk

LEMMA NextTypeInv == TypeInv /\ [Next \/ Interfere]_vars => TypeInv'
<1>1. TypeInv /\ UNCHANGED vars => TypeInv'
  BY DEF TypeInv, TypeOK, Placed, vars
<1> QED
  BY <1>1, PrintResultTypeInv, NothingLeftTypeInv, ExitTypeInv, CommandTypeInv,
     AnswerTypeInv, StatTypeInv, SweepTypeInv, InterfereTypeInv DEF Next, Run

\* Every variable keeps its type, whatever other programs do to the files.
THEOREM TypeCorrect == SharedSpec => []TypeOK
<1>1. SharedSpec => []TypeInv
  BY InitTypeInv, NextTypeInv, PTL DEF SharedSpec
<1> QED
  BY <1>1, PTL DEF TypeInv

\* At the prompt the count the program checks SET_INDEX against is the number
\* of headers, and each header has two members or more: option_command, print
\* and delete never walk past the end of the list, for any report, and
\* whatever other programs do to the files.
THEOREM IndexIsSafe == SharedSpec => []IndexLeadsToSet
<1>1. TypeInv => IndexLeadsToSet
  BY DEF TypeInv, Placed, IndexLeadsToSet
<1>2. SharedSpec => []TypeInv
  BY InitTypeInv, NextTypeInv, PTL DEF SharedSpec
<1> QED
  BY <1>1, <1>2, PTL
-----------------------------------------------------------------------------
(***************************************************************************)
(* SetCommands implements Dedup, for every report of the search: each step *)
(* of the prompts is a step of the promise or leaves it alone.  With the   *)
(* theorem about Dedup it follows that no content is lost that the user    *)
(* has not named.  Then what the commands do to the lists while other      *)
(* programs change the files, and that f and t keep the newest member.     *)
(***************************************************************************)

\* No file is listed twice.
Distinct ==
  \A k, l \in DOMAIN sets : \A a \in DOMAIN sets[k], b \in DOMAIN sets[l] :
    sets[k][a] = sets[l][b] => k = l /\ a = b

\* A listed file is where the search found it, and was never taken away.
Listed ==
  \A k \in DOMAIN sets : \A a \in DOMAIN sets[k] :
    /\ removedBy[sets[k][a]] = "no"
    /\ pc \notin Ended => files[sets[k][a]] = ContentOf[sets[k][a]]

\* The first walk of f and t knows the newest of the members it has passed.
StatInv ==
  pc = "stat" =>
    /\ \A k \in DOMAIN sets : Len(sets[k]) >= 2
    /\ cursor <= Len(sets[set_index])
    /\ \A a \in 1..cursor : mtime[sets[set_index][a]] <= m_time
    /\ m_time > 0 => \E a \in 1..cursor : sets[set_index][a] = temp /\ mtime[temp] > 0

\* The second walk has a candidate it can date, unless it can date none; what
\* it has left behind is the candidate.
SweepInv ==
  pc = "sweep" =>
    /\ cursor <= Len(sets[set_index])
    /\ \A a \in 1..cursor : sets[set_index][a] = temp

\* What the two walks leave for print_result.
PrintInv ==
  pc = "print" /\ option \in {"f", "t"} =>
    /\ set_index \in DOMAIN sets
    /\ \A a \in DOMAIN sets[set_index] : sets[set_index][a] = temp

IInv == TypeInv /\ Distinct /\ Listed /\ StatInv /\ SweepInv /\ PrintInv
-----------------------------------------------------------------------------
(***************************************************************************)
(* The lists.                                                              *)
(***************************************************************************)

\* After TakeOff each node has the path of a node that was there before, and
\* of another one than the node taken off.
LEMMA TakeOffMembers ==
  ASSUME TypeInv, Distinct, NEW i \in 1..Len(sets), NEW a \in 1..Len(sets[i]),
         TakeOff(i, a), option' \in {"d", "i", "f", "t"}
  PROVE  /\ DOMAIN sets' = DOMAIN sets
         /\ Distinct'
         /\ \A k \in DOMAIN sets' : \A b \in DOMAIN sets'[k] :
              /\ sets'[k][b] # sets[i][a]
              /\ \E c \in DOMAIN sets[k] : sets'[k][b] = sets[k][c]
         /\ \A k \in DOMAIN sets : \A c \in DOMAIN sets[k] :
              sets[k][c] # sets[i][a] => \E b \in DOMAIN sets'[k] : sets'[k][b] = sets[k][c]
<1> DEFINE old(k, b) == IF k = i /\ b >= a THEN b + 1 ELSE b
<1>1. /\ sets \in Seq(Seq(Paths))
      /\ sets[i] \in Seq(Paths)
      /\ sets' \in Seq(Seq(Paths))
      /\ Len(sets') = Len(sets)
      /\ sets'[i] = RemoveAt(sets[i], a)
      /\ \A k \in 1..Len(sets) : k # i => sets'[k] = sets[k]
  BY TakeOffTypes DEF TypeInv, TypeOK
<1>2. /\ Len(sets'[i]) = Len(sets[i]) - 1
      /\ \A b \in 1..(Len(sets[i]) - 1) :
           sets'[i][b] = IF b < a THEN sets[i][b] ELSE sets[i][b + 1]
  BY <1>1, RemoveAtProps
<1>3. ASSUME NEW k \in 1..Len(sets), NEW b \in 1..Len(sets'[k])
      PROVE  /\ b \in Int
             /\ old(k, b) \in 1..Len(sets[k])
             /\ sets'[k][b] = sets[k][old(k, b)]
             /\ k = i => old(k, b) # a
  <2>1. CASE k = i
    <3>1. b \in 1..(Len(sets[i]) - 1) /\ Len(sets[i]) \in Nat /\ a \in Nat /\ b \in Nat
      BY <1>1, <1>2, <2>1
    <3>2. CASE b < a
      BY <1>2, <2>1, <3>1, <3>2
    <3>3. CASE b >= a
      BY <1>2, <2>1, <3>1, <3>3
    <3> QED
      BY <3>1, <3>2, <3>3
  <2>2. CASE k # i
    <3>1. sets'[k] = sets[k] /\ Len(sets[k]) \in Nat
      BY <1>1, <2>2
    <3> QED
      BY <2>2, <3>1
  <2> QED
    BY <2>1, <2>2
<1>4. \A k \in 1..Len(sets) : Len(sets[k]) \in Nat /\ DOMAIN sets[k] = 1..Len(sets[k])
                              /\ DOMAIN sets'[k] = 1..Len(sets'[k])
  BY <1>1
<1>5. DOMAIN sets = 1..Len(sets) /\ DOMAIN sets' = 1..Len(sets)
  BY <1>1
<1>6. ASSUME NEW k \in 1..Len(sets), NEW l \in 1..Len(sets),
             NEW b \in 1..Len(sets'[k]), NEW c \in 1..Len(sets'[l]),
             sets'[k][b] = sets'[l][c]
      PROVE  k = l /\ b = c
  <2>1. k = l /\ old(k, b) = old(l, c)
    <3>1. /\ old(k, b) \in DOMAIN sets[k] /\ old(l, c) \in DOMAIN sets[l]
          /\ sets[k][old(k, b)] = sets[l][old(l, c)]
          /\ k \in DOMAIN sets /\ l \in DOMAIN sets
      BY <1>3, <1>4, <1>5, <1>6
    <3> HIDE DEF old
    <3> QED
      BY <3>1 DEF Distinct
  <2>2. b \in Int /\ c \in Int /\ a \in Int
    BY <1>3
  <2> QED
    BY <2>1, <2>2
<1>7. Distinct'
  BY <1>4, <1>5, <1>6 DEF Distinct
<1>8. ASSUME NEW k \in 1..Len(sets), NEW b \in 1..Len(sets'[k])
      PROVE  /\ sets'[k][b] # sets[i][a]
             /\ \E c \in 1..Len(sets[k]) : sets'[k][b] = sets[k][c]
  <2>1. sets'[k][b] = sets[k][old(k, b)] /\ old(k, b) \in 1..Len(sets[k])
        /\ (k = i => old(k, b) # a)
    BY <1>3
  <2>2. old(k, b) \in DOMAIN sets[k] /\ k \in DOMAIN sets
        /\ i \in DOMAIN sets /\ a \in DOMAIN sets[i]
    BY <1>4, <1>5, <2>1
  <2> HIDE DEF old
  <2>3. sets[k][old(k, b)] # sets[i][a]
    BY <2>1, <2>2 DEF Distinct
  <2> QED
    BY <2>1, <2>3
<1>9. ASSUME NEW k \in 1..Len(sets), NEW c \in 1..Len(sets[k]), sets[k][c] # sets[i][a]
      PROVE  \E b \in 1..Len(sets'[k]) : sets'[k][b] = sets[k][c]
  <2>1. CASE k # i
    BY <1>1, <2>1
  <2>2. CASE k = i
    <3>1. c \in Nat /\ a \in Nat /\ c # a /\ Len(sets[i]) \in Nat
      BY <1>1, <1>9, <2>2
    <3>2. CASE c < a
      <4>1. c \in 1..(Len(sets[i]) - 1)
        BY <2>2, <3>1, <3>2
      <4> QED
        BY <1>2, <2>2, <3>2, <4>1
    <3>3. CASE c > a
      <4>1. c - 1 \in 1..(Len(sets[i]) - 1) /\ ~(c - 1 < a) /\ (c - 1) + 1 = c
        BY <2>2, <3>1, <3>3
      <4> QED
        BY <1>2, <2>2, <4>1
    <3> QED
      BY <3>1, <3>2, <3>3
  <2> QED
    BY <2>1, <2>2
<1>10. \A k \in DOMAIN sets' : \A b \in DOMAIN sets'[k] :
         /\ sets'[k][b] # sets[i][a]
         /\ \E c \in DOMAIN sets[k] : sets'[k][b] = sets[k][c]
  <2> SUFFICES ASSUME NEW k \in DOMAIN sets', NEW b \in DOMAIN sets'[k]
               PROVE  /\ sets'[k][b] # sets[i][a]
                      /\ \E c \in DOMAIN sets[k] : sets'[k][b] = sets[k][c]
    OBVIOUS
  <2>1. k \in 1..Len(sets) /\ b \in 1..Len(sets'[k]) /\ DOMAIN sets[k] = 1..Len(sets[k])
    BY <1>4, <1>5
  <2>2. /\ sets'[k][b] # sets[i][a]
        /\ \E c \in 1..Len(sets[k]) : sets'[k][b] = sets[k][c]
    BY <1>8, <2>1
  <2> QED
    BY <2>1, <2>2
<1>11. \A k \in DOMAIN sets : \A c \in DOMAIN sets[k] :
         sets[k][c] # sets[i][a] => \E b \in DOMAIN sets'[k] : sets'[k][b] = sets[k][c]
  BY <1>4, <1>5, <1>9
<1> QED
  BY <1>5, <1>7, <1>10, <1>11

\* Seen as sets of paths, TakeOff removes one path from one of them.
LEMMA TakeOffRanges ==
  ASSUME TypeInv, Distinct, NEW i \in 1..Len(sets), NEW a \in 1..Len(sets[i]),
         TakeOff(i, a), option' \in {"d", "i", "f", "t"}
  PROVE  \A k \in DOMAIN sets : Range(sets'[k]) =
           IF k = i THEN Range(sets[i]) \ {sets[i][a]} ELSE Range(sets[k])
<1> USE TakeOffMembers
<1> TAKE k \in DOMAIN sets
<1>1. Range(sets'[k]) = Range(sets[k]) \ {sets[i][a]}
  BY DEF Range
<1>2. k # i => sets[i][a] \notin Range(sets[k])
  BY DEF Range, Distinct, TypeInv, TypeOK
<1> QED
  BY <1>1, <1>2
-----------------------------------------------------------------------------
(***************************************************************************)
(* IInv is an invariant.                                                   *)
(***************************************************************************)

LEMMA InitIInv == Init => IInv
<1> SUFFICES ASSUME Init
             PROVE  IInv
  OBVIOUS
<1>1. TypeInv
  BY InitTypeInv
<1>2. Distinct
  BY ReportAssumption DEF IsReport, Init, Distinct
<1>3. Listed
  <2>1. ASSUME NEW k \in DOMAIN sets, NEW a \in DOMAIN sets[k]
        PROVE  sets[k][a] \in Paths
    BY <1>1, <2>1 DEF TypeInv, TypeOK
  <2> QED
    BY <2>1 DEF Init, Listed
<1>4. StatInv /\ SweepInv /\ PrintInv
  BY DEF Init, StatInv, SweepInv, PrintInv
<1> QED
  BY <1>1, <1>2, <1>3, <1>4 DEF IInv

\* delete_list: the headers that stay come from different places.
LEMMA PrintResultLists ==
  ASSUME TypeInv, PrintResult
  PROVE  \E n \in Nat : \E f \in [1..n -> DOMAIN sets] :
           /\ DOMAIN sets' = 1..n
           /\ \A a \in 1..n : sets'[a] = sets[f[a]]
           /\ \A a, b \in 1..n : f[a] = f[b] => a = b
           /\ Range(f) = {k \in DOMAIN sets : Len(sets[k]) >= 2}
<1>1. PICK n \in 0..Len(sets) : \E f \in [1..n -> DOMAIN sets] :
         /\ Range(f) = {k \in DOMAIN sets : Len(sets[k]) >= 2}
         /\ \A a, b \in 1..n : a < b => f[a] < f[b]
         /\ sets' = [a \in 1..n |-> sets[f[a]]]
  BY DEF PrintResult, DeleteList
<1>2. PICK f \in [1..n -> DOMAIN sets] :
         /\ Range(f) = {k \in DOMAIN sets : Len(sets[k]) >= 2}
         /\ \A a, b \in 1..n : a < b => f[a] < f[b]
         /\ sets' = [a \in 1..n |-> sets[f[a]]]
  BY <1>1
<1>3. DOMAIN sets = 1..Len(sets) /\ Len(sets) \in Nat
  BY DEF TypeInv, TypeOK
<1>4. ASSUME NEW a \in 1..n, NEW b \in 1..n, f[a] = f[b]
      PROVE  a = b
  <2>1. a \in Int /\ b \in Int /\ f[a] \in Int /\ f[b] \in Int
    BY <1>3
  <2>2. ~(a < b) /\ ~(b < a)
    BY <1>2, <1>4, <2>1
  <2> QED
    BY <2>1, <2>2
<1> QED
  BY <1>2, <1>3, <1>4

LEMMA PrintResultIInv == IInv /\ PrintResult => IInv'
<1> SUFFICES ASSUME IInv, PrintResult
             PROVE  IInv'
  OBVIOUS
<1>1. TypeInv'
  BY PrintResultTypeInv DEF IInv
<1>2. PICK n \in Nat : \E f \in [1..n -> DOMAIN sets] :
           /\ DOMAIN sets' = 1..n
           /\ \A a \in 1..n : sets'[a] = sets[f[a]]
           /\ \A a, b \in 1..n : f[a] = f[b] => a = b
  BY PrintResultLists DEF IInv
<1>3. PICK f \in [1..n -> DOMAIN sets] :
           /\ DOMAIN sets' = 1..n
           /\ \A a \in 1..n : sets'[a] = sets[f[a]]
           /\ \A a, b \in 1..n : f[a] = f[b] => a = b
  BY <1>2
<1>4. Distinct'
  <2>1. ASSUME NEW k \in 1..n, NEW l \in 1..n,
               NEW a \in DOMAIN sets[f[k]], NEW b \in DOMAIN sets[f[l]],
               sets[f[k]][a] = sets[f[l]][b]
        PROVE  k = l /\ a = b
    BY <1>3, <2>1 DEF IInv, Distinct
  <2> QED
    BY <1>3, <2>1 DEF Distinct
<1>5. Listed'
  <2>1. pc \notin Ended /\ UNCHANGED <<files, removedBy>>
    BY DEF PrintResult, Ended, disk
  <2> QED
    BY <1>3, <2>1 DEF IInv, Listed
<1>6. StatInv' /\ SweepInv' /\ PrintInv'
  BY DEF PrintResult, StatInv, SweepInv, PrintInv
<1> QED
  BY <1>1, <1>4, <1>5, <1>6 DEF IInv

\* Steps that only move the program counter out of the lists.
LEMMA LeaveIInv ==
  ASSUME IInv, TypeInv', pc \notin Ended, pc' \notin {"stat", "sweep"},
         pc' = "print" => option' \notin {"f", "t"},
         UNCHANGED <<files, sets, removedBy>>
  PROVE  IInv'
  BY DEF IInv, Distinct, Listed, StatInv, SweepInv, PrintInv

\* What taking a member away leaves listed was listed and is still stored.
LEMMA TakeListed ==
  ASSUME IInv, pc \notin Ended, NEW i \in 1..Len(sets), NEW a \in 1..Len(sets[i]),
         TakeOff(i, a), option' \in {"d", "i", "f", "t"},
         Unlink(sets[i][a]) \/ Rename(sets[i][a])
  PROVE  Distinct' /\ Listed'
<1>1. /\ DOMAIN sets' = DOMAIN sets
      /\ Distinct'
      /\ \A k \in DOMAIN sets' : \A b \in DOMAIN sets'[k] :
           /\ sets'[k][b] # sets[i][a]
           /\ \E c \in DOMAIN sets[k] : sets'[k][b] = sets[k][c]
  BY TakeOffMembers DEF IInv
<1>2. ASSUME NEW p \in Paths, p # sets[i][a]
      PROVE  files'[p] = files[p] /\ removedBy'[p] = removedBy[p]
  BY <1>2 DEF Unlink, Rename, TakeOff, IInv, TypeInv, TypeOK
<1>3. ASSUME NEW k \in DOMAIN sets', NEW b \in DOMAIN sets'[k]
      PROVE  removedBy'[sets'[k][b]] = "no" /\ files'[sets'[k][b]] = ContentOf[sets'[k][b]]
  <2>1. PICK c \in DOMAIN sets[k] : sets'[k][b] = sets[k][c]
    BY <1>1
  <2>2. k \in DOMAIN sets /\ sets[k][c] \in Paths
    BY <1>1 DEF IInv, TypeInv, TypeOK
  <2>3. removedBy[sets[k][c]] = "no" /\ files[sets[k][c]] = ContentOf[sets[k][c]]
    BY <2>2 DEF IInv, Listed
  <2> QED
    BY <1>1, <1>2, <2>1, <2>2, <2>3
<1> QED
  BY <1>1, <1>3 DEF Listed

LEMMA CommandIInv ==
  ASSUME IInv, NEW i \in 1..list_leng, Command(i)
  PROVE  IInv'
<1>1. TypeInv'
  BY CommandTypeInv DEF IInv
<1>2. ASSUME NEW list_idx \in ListIdxs, DeleteOne(i, list_idx)
      PROVE  IInv'
  <2>1. pc = "prompt" /\ option' = "d" /\ pc' \in {"print", "crashed"}
    BY <1>2 DEF DeleteOne
  <2>2. CASE UNCHANGED <<disk, sets, removedBy>>
    BY <1>1, <2>1, <2>2, LeaveIInv DEF disk, Ended
  <2>3. CASE /\ list_idx \in 1..Len(sets[i]) /\ Unlink(sets[i][list_idx])
             /\ TakeOff(i, list_idx)
    <3>1. i \in 1..Len(sets)
      BY <2>1 DEF IInv, TypeInv, Placed
    <3>2. Distinct' /\ Listed'
      BY <2>1, <2>3, <3>1, TakeListed DEF Ended
    <3> QED
      BY <1>1, <2>1, <3>2 DEF IInv, StatInv, SweepInv, PrintInv
  <2> QED
    BY <1>2, <2>2, <2>3 DEF DeleteOne
<1>3. ASSUME AskEach(i)
      PROVE  IInv'
  BY <1>1, <1>3, LeaveIInv DEF AskEach, disk, Ended
<1>4. ASSUME NEW opt \in {"f", "t"}, KeepNewest(i, opt)
      PROVE  IInv'
  <2>1. Distinct' /\ Listed' /\ SweepInv' /\ PrintInv'
    BY <1>4 DEF KeepNewest, disk, Ended, IInv, Distinct, Listed, SweepInv, PrintInv
  <2>2. i \in 1..Len(sets) /\ \A k \in DOMAIN sets : Len(sets[k]) >= 2
    BY <1>4 DEF KeepNewest, IInv, TypeInv, TypeOK, Placed
  <2>3. StatInv'
    BY <1>4, <2>2 DEF KeepNewest, StatInv
  <2> QED
    BY <1>1, <2>1, <2>3 DEF IInv
<1> QED
  BY <1>2, <1>3, <1>4 DEF Command

LEMMA PromptIInv ==
  IInv /\ (NothingLeft \/ Exit \/ AnswerNo \/ AnswerOther \/ AskDone) => IInv'
<1> SUFFICES ASSUME IInv, NothingLeft \/ Exit \/ AnswerNo \/ AnswerOther \/ AskDone
             PROVE  IInv'
  OBVIOUS
<1>1. TypeInv'
  BY NothingLeftTypeInv, ExitTypeInv, AnswerTypeInv DEF Answer, IInv
<1>2. pc = "confirm" => option = "i"
  BY DEF IInv, TypeInv, Placed
<1> QED
  BY <1>1, <1>2, LeaveIInv
     DEF NothingLeft, Exit, AnswerNo, AnswerOther, AskDone, disk, walk, Ended

LEMMA AnswerYesIInv == IInv /\ AnswerYes => IInv'
<1> SUFFICES ASSUME IInv, AnswerYes
             PROVE  IInv'
  OBVIOUS
<1>1. TypeInv'
  BY AnswerTypeInv DEF Answer, IInv
<1>2. set_index \in 1..Len(sets) /\ cursor + 1 \in 1..Len(sets[set_index])
  BY MemberTypes DEF AnswerYes, IInv
<1>3. option' = "i"
  BY DEF AnswerYes, IInv, TypeInv, Placed
<1>4. Distinct' /\ Listed'
  BY <1>2, <1>3, TakeListed DEF AnswerYes, Member, Ended
<1> QED
  BY <1>1, <1>4 DEF IInv, AnswerYes, StatInv, SweepInv, PrintInv

\* A listed file is on the disk: the first walk of f and t never gives up
\* while the program is alone.
LEMMA MemberPresent ==
  ASSUME IInv, pc \in {"confirm", "stat", "sweep"}, MoreMembers
  PROVE  files[Member] = ContentOf[Member] /\ ContentOf[Member] # Absent
<1>1. /\ set_index \in 1..Len(sets)
      /\ cursor + 1 \in 1..Len(sets[set_index])
      /\ Member \in Paths
  BY MemberTypes DEF IInv
<1>2. set_index \in DOMAIN sets /\ cursor + 1 \in DOMAIN sets[set_index]
  BY <1>1 DEF IInv, TypeInv, TypeOK
<1>3. files[Member] = ContentOf[Member]
  BY <1>2 DEF IInv, Listed, Member, Ended
<1>4. ContentOf[Member] \in Range(ContentOf)
  BY <1>1, ReportAssumption DEF IsReport, Range
<1> QED
  BY <1>3, <1>4, ValuesAssumption

LEMMA StatIInv == IInv /\ (StatMember \/ StatDone) => IInv'
<1> SUFFICES ASSUME IInv, StatMember \/ StatDone
             PROVE  IInv'
  OBVIOUS
<1>1. TypeInv'
  BY StatTypeInv DEF IInv
<1>2. Distinct' /\ Listed' /\ PrintInv'
  BY DEF StatMember, StatDone, disk, Ended, IInv, Distinct, Listed, PrintInv
<1>3. /\ set_index \in 1..Len(sets) /\ sets[set_index] \in Seq(Paths)
      /\ cursor \in Nat /\ m_time \in Nat
  BY DEF StatMember, StatDone, IInv, TypeInv, TypeOK, Placed
<1>4. CASE StatMember
  <2>1. /\ cursor + 1 <= Len(sets[set_index]) /\ Member = sets[set_index][cursor + 1]
        /\ mtime[Member] \in Nat /\ pc = "stat"
    <3>1. Member \in Paths /\ pc = "stat"
      BY <1>4, MemberTypes DEF StatMember, IInv
    <3>2. mtime[Member] \in Nat
      BY <3>1, ValuesAssumption DEF IInv, TypeInv, TypeOK
    <3>3. cursor + 1 <= Len(sets[set_index])
      BY <1>3, <1>4 DEF StatMember, MoreMembers
    <3> QED
      BY <3>1, <3>2, <3>3 DEF Member
  <2>2. files[Member] # Absent
    BY <1>4, MemberPresent DEF StatMember
  <2>3. /\ cursor' = cursor + 1
        /\ m_time' = IF m_time < mtime[Member] THEN mtime[Member] ELSE m_time
        /\ temp' = IF m_time < mtime[Member] THEN Member ELSE temp
        /\ UNCHANGED <<mtime, sets, set_index, pc>>
    BY <1>4, <2>2 DEF StatMember, disk
  <2>4. cursor' <= Len(sets'[set_index'])
    BY <2>1, <2>3
  <2>5. ASSUME NEW a \in 1..cursor'
        PROVE  mtime'[sets'[set_index'][a]] <= m_time'
    <3>1. CASE a = cursor + 1
      BY <1>3, <2>1, <2>3, <3>1
    <3>2. CASE a \in 1..cursor
      <4>1. mtime[sets[set_index][a]] <= m_time /\ sets[set_index][a] \in Paths
        BY <1>3, <2>1, <3>2 DEF IInv, StatInv
      <4>2. mtime[sets[set_index][a]] \in Nat
        BY <4>1, ValuesAssumption DEF IInv, TypeInv, TypeOK
      <4> QED
        BY <1>3, <2>1, <2>3, <4>1, <4>2
    <3> QED
      BY <1>3, <2>3, <3>1, <3>2
  <2>6. ASSUME m_time' > 0
        PROVE  \E a \in 1..cursor' : sets'[set_index'][a] = temp' /\ mtime'[temp'] > 0
    <3>1. CASE m_time < mtime[Member]
      BY <1>3, <2>1, <2>3, <2>6, <3>1
    <3>2. CASE ~(m_time < mtime[Member])
      <4>1. PICK a \in 1..cursor : sets[set_index][a] = temp /\ mtime[temp] > 0
        BY <2>1, <2>3, <2>6, <3>2 DEF IInv, StatInv
      <4>2. a \in 1..cursor'
        BY <1>3, <2>3
      <4> QED
        BY <2>3, <3>2, <4>1, <4>2
    <3> QED
      BY <3>1, <3>2
  <2>7. StatInv'
    BY <2>1, <2>3, <2>4, <2>5, <2>6 DEF IInv, StatInv
  <2> QED
    BY <1>1, <1>2, <2>1, <2>3, <2>7 DEF IInv, SweepInv
<1>5. CASE StatDone
  BY <1>1, <1>2, <1>3, <1>5 DEF IInv, StatDone, StatInv, SweepInv
<1> QED
  BY <1>4, <1>5

LEMMA SweepIInv ==
  IInv /\ (SweepKeep \/ SweepRemove \/ SweepStop \/ SweepDone) => IInv'
<1> SUFFICES ASSUME IInv, SweepKeep \/ SweepRemove \/ SweepStop \/ SweepDone
             PROVE  IInv'
  OBVIOUS
<1>1. TypeInv'
  BY SweepTypeInv DEF IInv
<1>2. /\ set_index \in 1..Len(sets) /\ sets[set_index] \in Seq(Paths)
      /\ cursor \in Nat /\ pc = "sweep" /\ cursor <= Len(sets[set_index])
      /\ DOMAIN sets = 1..Len(sets) /\ option \in {"f", "t"}
      /\ \A a \in 1..cursor : sets[set_index][a] = temp
  BY DEF SweepKeep, SweepRemove, SweepStop, SweepDone, IInv, TypeInv, TypeOK, Placed, SweepInv
<1>3. CASE SweepKeep
  <2>1. \A a \in 1..cursor' : sets'[set_index'][a] = temp'
    BY <1>2, <1>3 DEF SweepKeep, Member
  <2>2. cursor' <= Len(sets'[set_index'])
    BY <1>2, <1>3 DEF SweepKeep, MoreMembers
  <2> QED
    BY <1>1, <1>2, <1>3, <2>1, <2>2
       DEF SweepKeep, disk, IInv, Distinct, Listed, StatInv, SweepInv, PrintInv, Ended
<1>4. CASE SweepRemove
  <2>1. cursor + 1 \in 1..Len(sets[set_index]) /\ option' \in {"d", "i", "f", "t"}
    BY <1>2, <1>4, MemberTypes DEF SweepRemove, IInv
  <2>2. Distinct' /\ Listed'
    BY <1>2, <1>4, <2>1, TakeListed DEF SweepRemove, Member, Ended
  <2>3. sets'[set_index] = RemoveAt(sets[set_index], cursor + 1)
    BY <1>2, <1>4, <2>1, TakeOffTypes DEF SweepRemove, IInv, TypeInv
  <2>4. /\ Len(sets'[set_index]) = Len(sets[set_index]) - 1
        /\ \A a \in 1..(Len(sets[set_index]) - 1) : sets'[set_index][a] =
             IF a < cursor + 1 THEN sets[set_index][a] ELSE sets[set_index][a + 1]
    BY <1>2, <2>1, <2>3, RemoveAtProps
  <2>5. cursor <= Len(sets'[set_index])
    BY <1>2, <2>1, <2>4
  <2>6. ASSUME NEW a \in 1..cursor
        PROVE  sets'[set_index][a] = temp
    BY <1>2, <2>1, <2>4
  <2> QED
    BY <1>1, <1>2, <1>4, <2>2, <2>5, <2>6 DEF SweepRemove, IInv, StatInv, SweepInv, PrintInv
<1>5. CASE SweepStop
  <2>1. Listed'
    BY <1>5 DEF SweepStop, IInv, Listed, Ended
  <2> QED
    BY <1>1, <1>5, <2>1
       DEF SweepStop, walk, IInv, Distinct, StatInv, SweepInv, PrintInv
<1>6. CASE SweepDone
  <2>1. \A a \in DOMAIN sets[set_index] : sets[set_index][a] = temp
    BY <1>2, <1>6 DEF SweepDone, MoreMembers
  <2>2. Listed'
    BY <1>6 DEF SweepDone, disk, IInv, Listed, Ended
  <2> QED
    BY <1>1, <1>2, <1>6, <2>1, <2>2
       DEF SweepDone, walk, IInv, Distinct, StatInv, SweepInv, PrintInv
<1> QED
  BY <1>3, <1>4, <1>5, <1>6

LEMMA NextIInv == IInv /\ [Next]_vars => IInv'
<1>1. IInv /\ UNCHANGED vars => IInv'
  BY NextTypeInv DEF vars, IInv, Distinct, Listed, StatInv, SweepInv, PrintInv
<1> QED
  BY <1>1, PrintResultIInv, PromptIInv, CommandIInv, AnswerYesIInv, StatIInv, SweepIInv
     DEF Next, Run, Answer
-----------------------------------------------------------------------------
(***************************************************************************)
(* The refinement.                                                         *)
(***************************************************************************)

LEMMA InitRefines == Init => Promise!Init
<1> SUFFICES ASSUME Init
             PROVE  Promise!Init
  OBVIOUS
<1>1. \A k \in DOMAIN sets : ~Swept(k)
  BY DEF Init, Swept
<1>2. Offered = Reported /\ Doomed = {}
  BY <1>1 DEF Init, Offered, Reported, Doomed
<1>3. Stored = Paths /\ Undated \subseteq Paths /\ Asked = {}
  BY DEF Init, Stored, Undated, Asked
<1> QED
  BY <1>2, <1>3 DEF Promise!Init

\* Steps that change neither the disk nor the lists, nor what f and t have
\* decided.
LEMMA StutterRefines ==
  ASSUME UNCHANGED <<disk, sets, removedBy>>,
         \A k \in DOMAIN sets : Swept(k)' <=> Swept(k),
         (\E k \in DOMAIN sets : Swept(k)) => temp' = temp
  PROVE  UNCHANGED Promise!vars
<1>1. Offered' = Offered
  BY DEF Offered
<1>2. Doomed' = Doomed
  <2>1. {l \in DOMAIN sets : Swept(l)}' = {l \in DOMAIN sets : Swept(l)}
    OBVIOUS
  <2>2. CASE \E k \in DOMAIN sets : Swept(k)
    BY <2>1, <2>2 DEF Doomed
  <2>3. CASE ~\E k \in DOMAIN sets : Swept(k)
    BY <2>1, <2>3 DEF Doomed
  <2> QED
    BY <2>2, <2>3
<1>3. Stored' = Stored /\ Undated' = Undated /\ Asked' = Asked
  BY DEF Stored, Undated, Asked, disk
<1> QED
  BY <1>1, <1>2, <1>3 DEF Promise!vars

\* unlink takes at most its argument away; what rename takes away from the
\* disk is in the trash.
LEMMA DiskStored ==
  ASSUME IInv, NEW p \in Paths, files[p] = ContentOf[p],
         Unlink(p) \/ Rename(p)
  PROVE  /\ Stored' \in {Stored, Stored \ {p}}
         /\ Rename(p) => Stored' = Stored
         /\ Undated' = Undated
<1>1. ContentOf[p] # Absent
  <2>1. ContentOf[p] \in Range(ContentOf)
    BY ReportAssumption DEF IsReport, Range
  <2> QED
    BY <2>1, ValuesAssumption
<1>2. files \in [Paths -> Contents \cup {Absent}] /\ bin \in [Paths -> Contents \cup {Absent}]
  BY DEF IInv, TypeInv, TypeOK
<1>3. CASE Rename(p)
  BY <1>2, <1>3 DEF Rename, Stored, Undated
<1>4. CASE Unlink(p)
  <2>1. ASSUME NEW q \in Paths, q # p
        PROVE  q \in Stored' <=> q \in Stored
    BY <1>2, <1>4, <2>1 DEF Unlink, Stored
  <2>2. p \in Stored
    BY DEF Stored
  <2>3. Stored' \in {Stored, Stored \ {p}}
    BY <2>1, <2>2 DEF Stored
  <2>4. Rename(p) => Stored' = Stored
    BY <1>3
  <2> QED
    BY <1>4, <2>3, <2>4 DEF Unlink, Undated
<1> QED
  BY <1>3, <1>4

\* Option d, and y under option i: the user names a copy.
LEMMA NameRefines ==
  ASSUME IInv, pc \in {"prompt", "confirm"},
         NEW i \in 1..Len(sets), NEW a \in 1..Len(sets[i]),
         option' \in {"d", "i"}, Unlink(sets[i][a]), TakeOff(i, a)
  PROVE  Promise!Next
<1> DEFINE g == Range(sets[i])
           p == sets[i][a]
<1>1. p \in Paths /\ p \in g /\ i \in DOMAIN sets /\ a \in DOMAIN sets[i]
  BY DEF IInv, TypeInv, TypeOK, Range
<1>2. files[p] = ContentOf[p]
  BY <1>1 DEF IInv, Listed, Ended
<1>3. option' \notin {"f", "t"} /\ pc \notin {"sweep", "print"} \cup Ended
  BY DEF Ended
<1>4. \A k : ~Swept(k) /\ ~Swept(k)'
  BY <1>3 DEF Swept
<1>5. DOMAIN sets' = DOMAIN sets
  BY TakeOffMembers DEF IInv
<1>6. Offered = {Range(sets[k]) : k \in DOMAIN sets}
      /\ Offered' = {Range(sets'[k]) : k \in DOMAIN sets}
  BY <1>4, <1>5 DEF Offered
<1>7. \A k \in DOMAIN sets : Range(sets'[k]) = IF k = i THEN g \ {p} ELSE Range(sets[k])
  BY TakeOffRanges DEF IInv
<1>8. \A k \in DOMAIN sets : k # i => p \notin Range(sets[k])
  BY <1>1 DEF IInv, Distinct, Range
<1> HIDE DEF g, p
<1>9. Offered' = (Offered \ {g}) \cup {g \ {p}}
  <2>1. g = Range(sets[i])
    BY DEF g
  <2>2. ASSUME NEW h \in Offered'
        PROVE  h \in (Offered \ {g}) \cup {g \ {p}}
    <3>1. PICK k \in DOMAIN sets : h = Range(sets'[k])
      BY <1>6
    <3>2. CASE k = i
      BY <1>7, <3>1, <3>2
    <3>3. CASE k # i
      BY <1>1, <1>6, <1>7, <1>8, <3>1, <3>3
    <3> QED
      BY <3>2, <3>3
  <2>3. ASSUME NEW h \in Offered, h # g
        PROVE  h \in Offered'
    <3>1. PICK k \in DOMAIN sets : h = Range(sets[k])
      BY <1>6
    <3> QED
      BY <1>6, <1>7, <2>1, <2>3, <3>1
  <2>4. g \ {p} \in Offered'
    BY <1>1, <1>6, <1>7
  <2> QED
    BY <2>2, <2>3, <2>4
<1>10. Asked' = Asked \cup {p}
  <2>1. removedBy' = [removedBy EXCEPT ![p] = option']
    BY DEF TakeOff, p
  <2> QED
    BY <1>1, <2>1 DEF Asked, IInv, TypeInv, TypeOK
<1>11. Stored' \in {Stored, Stored \ {p}} /\ Undated' = Undated
  BY <1>1, <1>2, DiskStored DEF p
<1>12. Doomed' = Doomed
  BY <1>4 DEF Doomed
<1>13. g \in Offered
  BY <1>1, <1>6 DEF g
<1>14. Promise!Name(g, p)
  BY <1>9, <1>10, <1>11, <1>12 DEF Promise!Name, Promise!Remove
<1> QED
  BY <1>1, <1>13, <1>14 DEF Promise!Next

\* print_result drops exactly the groups of fewer than two copies; what f or t
\* has left of its set is one of them.
LEMMA PrintResultRefines == IInv /\ PrintResult => Promise!Prune
<1> SUFFICES ASSUME IInv, PrintResult
             PROVE  Promise!Prune
  OBVIOUS
<1>1. PICK n \in Nat : \E f \in [1..n -> DOMAIN sets] :
           /\ DOMAIN sets' = 1..n
           /\ \A a \in 1..n : sets'[a] = sets[f[a]]
           /\ Range(f) = {k \in DOMAIN sets : Len(sets[k]) >= 2}
  BY PrintResultLists DEF IInv
<1>2. PICK f \in [1..n -> DOMAIN sets] :
           /\ DOMAIN sets' = 1..n
           /\ \A a \in 1..n : sets'[a] = sets[f[a]]
           /\ Range(f) = {k \in DOMAIN sets : Len(sets[k]) >= 2}
  BY <1>1
<1>3. pc = "print" /\ option' = "no" /\ UNCHANGED <<disk, removedBy>>
  BY DEF PrintResult, DropLocals
<1>4. \A k : ~Swept(k)'
  BY <1>3 DEF Swept
<1>5. ASSUME NEW k \in DOMAIN sets
      PROVE  Len(sets[k]) >= 2 <=> \E p, q \in Range(sets[k]) : p # q
  <2>1. sets[k] \in Seq(Paths) /\ Len(sets[k]) \in Nat /\ DOMAIN sets[k] = 1..Len(sets[k])
    BY DEF IInv, TypeInv, TypeOK
  <2>2. ASSUME Len(sets[k]) >= 2
        PROVE  \E p, q \in Range(sets[k]) : p # q
    <3>1. 1 \in DOMAIN sets[k] /\ 2 \in DOMAIN sets[k]
      BY <2>1, <2>2
    <3>2. sets[k][1] # sets[k][2]
      BY <3>1 DEF IInv, Distinct
    <3> QED
      BY <3>1, <3>2 DEF Range
  <2>3. ASSUME NEW a \in DOMAIN sets[k], NEW b \in DOMAIN sets[k], sets[k][a] # sets[k][b]
        PROVE  Len(sets[k]) >= 2
    BY <2>1, <2>3
  <2> QED
    BY <2>2, <2>3 DEF Range
<1>6. ASSUME NEW k \in DOMAIN sets, Swept(k)
      PROVE  \A p \in Range(sets[k]) : p = temp
  BY <1>3, <1>6 DEF Swept, IInv, PrintInv, Range
<1>7. Doomed = {} /\ Doomed' = {}
  <2>1. \A k \in DOMAIN sets : Swept(k) => Range(sets[k]) \ {temp} = {}
    BY <1>6
  <2>2. Doomed = {}
    BY <2>1 DEF Doomed
  <2> QED
    BY <1>4, <2>2 DEF Doomed
<1>8. Offered' = {Range(sets'[a]) : a \in 1..n}
  BY <1>2, <1>4 DEF Offered
<1>9. Offered' = {Range(sets[k]) : k \in {l \in DOMAIN sets : Len(sets[l]) >= 2}}
  <2>1. ASSUME NEW a \in 1..n
        PROVE  f[a] \in DOMAIN sets /\ Len(sets[f[a]]) >= 2 /\ sets'[a] = sets[f[a]]
    <3>1. f[a] \in Range(f)
      BY DEF Range
    <3> QED
      BY <1>2, <3>1
  <2>2. ASSUME NEW k \in DOMAIN sets, Len(sets[k]) >= 2
        PROVE  \E a \in 1..n : sets'[a] = sets[k]
    <3>1. k \in Range(f)
      BY <1>2, <2>2
    <3>2. PICK a \in 1..n : f[a] = k
      BY <3>1 DEF Range
    <3> QED
      BY <1>2, <3>2
  <2>3. Offered' \subseteq {Range(sets[k]) : k \in {l \in DOMAIN sets : Len(sets[l]) >= 2}}
    BY <1>8, <2>1
  <2>4. ASSUME NEW k \in DOMAIN sets, Len(sets[k]) >= 2
        PROVE  Range(sets[k]) \in Offered'
    BY <1>8, <2>2, <2>4
  <2> QED
    BY <2>3, <2>4
<1>10. Offered' = {g \in Offered : \E p, q \in g : p # q}
  <2>1. ASSUME NEW k \in DOMAIN sets, Len(sets[k]) >= 2
        PROVE  Range(sets[k]) \in Offered /\ \E p, q \in Range(sets[k]) : p # q
    <3>1. \E p, q \in Range(sets[k]) : p # q
      BY <1>5, <2>1
    <3>2. ~Swept(k)
      BY <1>6, <3>1
    <3> QED
      BY <3>1, <3>2 DEF Offered
  <2>2. ASSUME NEW g \in Offered, \E p, q \in g : p # q
        PROVE  g \in Offered'
    <3>1. PICK k \in DOMAIN sets : g = Range(sets[k])
      BY DEF Offered
    <3> QED
      BY <1>5, <1>9, <2>2, <3>1
  <2> QED
    BY <1>9, <2>1, <2>2
<1>11. Stored' = Stored /\ Undated' = Undated /\ Asked' = Asked
  BY <1>3 DEF Stored, Undated, Asked, disk
<1> QED
  BY <1>7, <1>10, <1>11 DEF Promise!Prune

LEMMA CommandRefines ==
  ASSUME IInv, NEW i \in 1..list_leng, Command(i)
  PROVE  [Promise!Next]_(Promise!vars)
<1>1. pc = "prompt" /\ i \in 1..Len(sets)
  BY DEF Command, DeleteOne, AskEach, KeepNewest, IInv, TypeInv, Placed
<1>2. \A k : ~Swept(k)
  BY <1>1 DEF Swept, Ended
<1>3. ASSUME NEW list_idx \in ListIdxs, DeleteOne(i, list_idx)
      PROVE  [Promise!Next]_(Promise!vars)
  <2>1. option' = "d"
    BY <1>3 DEF DeleteOne
  <2>2. CASE UNCHANGED <<disk, sets, removedBy>>
    <3>1. \A k : ~Swept(k)'
      BY <2>1 DEF Swept
    <3> QED
      BY <1>2, <2>2, <3>1, StutterRefines
  <2>3. CASE /\ list_idx \in 1..Len(sets[i]) /\ Unlink(sets[i][list_idx])
             /\ TakeOff(i, list_idx)
    BY <1>1, <2>1, <2>3, NameRefines
  <2> QED
    BY <1>3, <2>2, <2>3 DEF DeleteOne
<1>4. ASSUME AskEach(i) \/ \E opt \in {"f", "t"} : KeepNewest(i, opt)
      PROVE  [Promise!Next]_(Promise!vars)
  <2>1. UNCHANGED <<disk, sets, removedBy>> /\ pc' \in {"confirm", "stat"}
    BY <1>4 DEF AskEach, KeepNewest
  <2>2. \A k : ~Swept(k)'
    BY <2>1 DEF Swept, Ended
  <2> QED
    BY <1>2, <2>1, <2>2, StutterRefines
<1> QED
  BY <1>3, <1>4 DEF Command

LEMMA PromptRefines ==
  ASSUME IInv, NothingLeft \/ Exit \/ Answer \/ AskDone
  PROVE  [Promise!Next]_(Promise!vars)
<1>1. option \notin {"f", "t"}
  BY DEF NothingLeft, Exit, Answer, AnswerYes, AnswerNo, AnswerOther, AskDone,
         IInv, TypeInv, Placed
<1>2. CASE AnswerYes
  <2>1. /\ set_index \in 1..Len(sets)
        /\ cursor + 1 \in 1..Len(sets[set_index])
    BY <1>2, MemberTypes DEF AnswerYes, IInv
  <2>2. option' = "i"
    BY <1>2 DEF AnswerYes, IInv, TypeInv, Placed
  <2> QED
    BY <1>2, <2>1, <2>2, NameRefines DEF AnswerYes, Member
<1>3. CASE NothingLeft \/ Exit \/ AnswerNo \/ AnswerOther \/ AskDone
  <2>1. UNCHANGED <<disk, sets, removedBy, option>>
    BY <1>3 DEF NothingLeft, Exit, AnswerNo, AnswerOther, AskDone, walk
  <2>2. \A k : ~Swept(k) /\ ~Swept(k)'
    BY <1>1, <2>1 DEF Swept
  <2> QED
    BY <2>1, <2>2, StutterRefines
<1> QED
  BY <1>2, <1>3 DEF Answer

\* The end of the first walk is the decision about the whole group.
LEMMA StatRefines ==
  ASSUME IInv, StatMember \/ StatDone
  PROVE  [Promise!Next]_(Promise!vars)
<1>1. pc = "stat" /\ set_index \in DOMAIN sets /\ option \in {"f", "t"}
  BY DEF StatMember, StatDone, IInv, TypeInv, TypeOK, Placed
<1>2. \A k : ~Swept(k)
  BY <1>1 DEF Swept, Ended
<1>3. CASE StatMember
  <2>1. files[Member] # Absent
    BY <1>3, MemberPresent DEF StatMember
  <2>2. pc' = "stat" /\ UNCHANGED <<disk, sets, removedBy>>
    BY <1>1, <1>3, <2>1 DEF StatMember
  <2>3. \A k : ~Swept(k)'
    BY <2>2 DEF Swept, Ended
  <2> QED
    BY <1>2, <2>2, <2>3, StutterRefines
<1>4. CASE StatDone
  <2> DEFINE g == Range(sets[set_index])
  <2>1. /\ pc' = "sweep"
        /\ UNCHANGED <<disk, sets, set_index, option, m_time, temp, removedBy>>
    BY <1>4 DEF StatDone
  <2>2. \A k : Swept(k)' <=> k = set_index
    BY <1>1, <2>1 DEF Swept
  <2>3. Offered = {Range(sets[k]) : k \in DOMAIN sets}
    BY <1>2 DEF Offered
  <2>4. Offered' = {Range(sets[k]) : k \in DOMAIN sets \ {set_index}}
    BY <2>1, <2>2 DEF Offered
  <2>5. ASSUME NEW k \in DOMAIN sets, k # set_index
        PROVE  Range(sets[k]) # g
    <3>1. Len(sets[k]) >= 2 /\ sets[k] \in Seq(Paths)
      BY <1>1 DEF IInv, StatInv, TypeInv, TypeOK
    <3>2. 1 \in DOMAIN sets[k]
      BY <3>1
    <3>3. sets[k][1] \in Range(sets[k]) /\ sets[k][1] \notin g
      BY <1>1, <2>5, <3>2 DEF IInv, Distinct, Range
    <3> QED
      BY <3>3
  <2>6. Offered' = Offered \ {g} /\ g \in Offered
    BY <1>1, <2>3, <2>4, <2>5
  <2>7. Doomed = {}
    BY <1>2 DEF Doomed
  <2>8. {l \in DOMAIN sets : Swept(l)}' = {set_index}
    BY <1>1, <2>1, <2>2
  <2>9. Doomed' = g \ {temp}
    BY <2>1, <2>8 DEF Doomed
  <2>10. (temp \in g /\ temp \notin Undated) \/ g \subseteq Undated
    <3>1. /\ sets[set_index] \in Seq(Paths) /\ cursor \in Nat /\ m_time \in Nat
          /\ cursor = Len(sets[set_index])
      BY <1>1, <1>4 DEF StatDone, MoreMembers, IInv, StatInv, TypeInv, TypeOK
    <3>2. DOMAIN sets[set_index] = 1..cursor
      BY <3>1
    <3>3. CASE m_time > 0
      BY <1>1, <3>2, <3>3 DEF IInv, StatInv, Range, Undated
    <3>4. CASE m_time = 0
      <4>1. ASSUME NEW a \in 1..cursor
            PROVE  sets[set_index][a] \in Undated
        <5>1. sets[set_index][a] \in Paths
          BY <3>1, <3>2
        <5>2. mtime[sets[set_index][a]] \in Nat
          BY <5>1, ValuesAssumption DEF IInv, TypeInv, TypeOK
        <5>3. mtime[sets[set_index][a]] <= 0
          BY <1>1, <3>4 DEF IInv, StatInv
        <5> QED
          BY <5>1, <5>2, <5>3 DEF Undated
      <4> QED
        BY <3>2, <4>1 DEF Range
    <3> QED
      BY <3>1, <3>3, <3>4
  <2>11. Stored' = Stored /\ Undated' = Undated /\ Asked' = Asked
    BY <2>1 DEF Stored, Undated, Asked, disk
  <2> HIDE DEF g
  <2>12. Promise!Decide(g)
    <3> DEFINE left == g \cap {temp}
    <3>1. left \in {{}} \cup {{k} : k \in g}
      OBVIOUS
    <3>2. left \ Undated # {} \/ g \subseteq Undated
      BY <2>10
    <3>3. Doomed' = Doomed \cup (g \ left)
      BY <2>7, <2>9
    <3> QED
      BY <2>6, <2>11, <3>1, <3>2, <3>3 DEF Promise!Decide
  <2> QED
    BY <2>6, <2>12 DEF Promise!Next
<1> QED
  BY <1>3, <1>4

\* The second walk carries the decision out.
LEMMA SweepRefines ==
  ASSUME IInv, SweepKeep \/ SweepRemove \/ SweepStop \/ SweepDone
  PROVE  [Promise!Next]_(Promise!vars)
<1>1. /\ pc = "sweep" /\ option \in {"f", "t"}
      /\ set_index \in 1..Len(sets) /\ DOMAIN sets = 1..Len(sets)
      /\ pc' \in {"sweep", "print"} \cup Ended /\ option' = option
      /\ set_index' = set_index /\ temp' = temp
  BY DEF SweepKeep, SweepRemove, SweepStop, SweepDone, walk, IInv, TypeInv, TypeOK,
         Placed, Ended
<1>2. \A k : Swept(k) <=> k = set_index
  BY <1>1 DEF Swept
<1>3. \A k : Swept(k)' <=> k = set_index
  BY <1>1 DEF Swept
<1>4. CASE UNCHANGED <<disk, sets, removedBy>>
  BY <1>1, <1>2, <1>3, <1>4, StutterRefines
<1>5. CASE MoreMembers
  <2> DEFINE p == Member
  <2>1. /\ cursor + 1 \in 1..Len(sets[set_index]) /\ p \in Paths
        /\ p = sets[set_index][cursor + 1]
    BY <1>1, <1>5, MemberTypes DEF IInv, Member
  <2>2. files[p] = ContentOf[p]
    BY <1>1, <1>5, MemberPresent
  <2> HIDE DEF p
  <2>3. CASE Rename(p) /\ UNCHANGED <<sets, removedBy>>
    <3>1. Stored' = Stored /\ Undated' = Undated /\ Asked' = Asked
      BY <2>1, <2>2, <2>3, DiskStored DEF Asked
    <3>2. Offered' = Offered /\ Doomed' = Doomed
      BY <1>1, <1>2, <1>3, <2>3 DEF Offered, Doomed
    <3> QED
      BY <3>1, <3>2 DEF Promise!vars
  <2>4. CASE p # temp /\ (Unlink(p) \/ Rename(p)) /\ TakeOff(set_index, cursor + 1)
    <3>1. /\ DOMAIN sets' = DOMAIN sets
          /\ \A k \in DOMAIN sets : Range(sets'[k]) =
               IF k = set_index THEN Range(sets[set_index]) \ {p} ELSE Range(sets[k])
      <4>1. option' \in {"d", "i", "f", "t"} /\ TypeInv /\ Distinct
        BY <1>1 DEF IInv
      <4>2. DOMAIN sets' = DOMAIN sets
        BY <1>1, <2>1, <2>4, <4>1, TakeOffMembers
      <4>3. \A k \in DOMAIN sets : Range(sets'[k]) =
              IF k = set_index THEN Range(sets[set_index]) \ {sets[set_index][cursor + 1]}
                               ELSE Range(sets[k])
        BY <1>1, <2>1, <2>4, <4>1, TakeOffRanges
      <4> QED
        BY <2>1, <4>2, <4>3
    <3>2. Offered' = Offered
      BY <1>2, <1>3, <3>1 DEF Offered
    <3>3. {l \in DOMAIN sets : Swept(l)} = {set_index}
          /\ {l \in DOMAIN sets : Swept(l)}' = {set_index}
      BY <1>1, <1>2, <1>3, <3>1
    <3>4. Doomed = Range(sets[set_index]) \ {temp}
          /\ Doomed' = Range(sets'[set_index]) \ {temp}
      BY <1>1, <3>3 DEF Doomed
    <3>5. Doomed' = Doomed \ {p}
      BY <1>1, <3>1, <3>4
    <3>6. p \in Doomed
      <4>1. p \in Range(sets[set_index])
        BY <1>1, <2>1 DEF Range, IInv, TypeInv, TypeOK
      <4> QED
        BY <2>4, <3>4, <4>1
    <3>7. removedBy[p] = "no"
      <4>1. set_index \in DOMAIN sets /\ cursor + 1 \in DOMAIN sets[set_index]
        BY <1>1, <2>1 DEF IInv, TypeInv, TypeOK
      <4> QED
        BY <2>1, <4>1 DEF IInv, Listed
    <3>8. Asked' = Asked
      <4>1. removedBy' = [removedBy EXCEPT ![p] = option]
        BY <1>1, <2>1, <2>4 DEF TakeOff
      <4> QED
        BY <1>1, <2>1, <3>7, <4>1 DEF Asked, IInv, TypeInv, TypeOK
    <3>9. Stored' \in {Stored, Stored \ {p}} /\ Undated' = Undated
      BY <2>1, <2>2, <2>4, DiskStored
    <3>10. Promise!Discard(p)
      BY <3>2, <3>5, <3>8, <3>9 DEF Promise!Discard, Promise!Remove
    <3> QED
      BY <3>6, <3>10 DEF Promise!Next
  <2>5. CASE SweepRemove
    BY <2>4, <2>5 DEF SweepRemove, p
  <2>6. CASE SweepStop
    BY <1>4, <2>3, <2>6 DEF SweepStop, p
  <2>7. CASE SweepKeep \/ SweepDone
    BY <1>4, <2>7 DEF SweepKeep, SweepDone
  <2> QED
    BY <2>5, <2>6, <2>7
<1>6. CASE ~MoreMembers
  BY <1>4, <1>6 DEF SweepKeep, SweepRemove, SweepStop, SweepDone
<1> QED
  BY <1>5, <1>6

LEMMA NextRefines == IInv /\ [Next]_vars => [Promise!Next]_(Promise!vars)
<1>1. ASSUME IInv, UNCHANGED vars
      PROVE  UNCHANGED Promise!vars
  <2>1. \A k : Swept(k)' <=> Swept(k)
    BY <1>1 DEF vars, Swept
  <2> QED
    BY <1>1, <2>1, StutterRefines DEF vars, disk
<1>2. IInv /\ PrintResult => Promise!Next
  BY PrintResultRefines DEF Promise!Next
<1> QED
  BY <1>1, <1>2, CommandRefines, PromptRefines, StatRefines, SweepRefines
     DEF Next, Run

\* The prompts of fmd5 and fsha1 implement the promise of Dedup.
THEOREM PromiseKept == Spec => KeepsPromise
<1>1. Spec => []IInv
  BY InitIInv, NextIInv, PTL DEF Spec
<1> QED
  BY <1>1, InitRefines, NextRefines, PTL DEF Spec, KeepsPromise, Promise!Spec
-----------------------------------------------------------------------------
(***************************************************************************)
(* What follows from the promise.                                          *)
(***************************************************************************)

\* The sets the search reports are groups in the sense of Dedup.
LEMMA ReportedGroups ==
  /\ Reported \subseteq SUBSET Paths
  /\ \A G, H \in Reported : G \cap H # {} => G = H
<1>1. \A k \in DOMAIN Report : Report[k] \in Seq(Paths)
  BY ReportAssumption DEF IsReport
<1>2. \A k \in DOMAIN Report : Range(Report[k]) \subseteq Paths
  BY <1>1 DEF Range
<1>3. ASSUME NEW k \in DOMAIN Report, NEW l \in DOMAIN Report,
             Range(Report[k]) \cap Range(Report[l]) # {}
      PROVE  k = l
  BY <1>3, ReportAssumption DEF IsReport, Range
<1> QED
  BY <1>2, <1>3 DEF Reported

\* What is true of a group G that the search found: part of it is on offer
\* and the rest was named by the user; or one copy is safe, stored and beyond
\* the reach of every later step; or all its copies were named or are undated.
OnOffer(G) ==
  \E g \in Offered : g \subseteq G /\ g \subseteq Stored /\ G \ g \subseteq Asked

Safe(G) ==
  \E k \in G : k \in Stored /\ k \notin Doomed /\ k \notin UNION Offered
Spent(G) == G \subseteq Asked \cup Undated

OffersApart ==
  /\ \A g, h \in Offered : g \cap h # {} => g = h
  /\ Doomed \cap UNION Offered = {}

GroupInv ==
  /\ Promise!TypeOK
  /\ OffersApart
  /\ \A G \in Reported : OnOffer(G) \/ Safe(G) \/ Spent(G)

LEMMA InitGroupInv == Promise!GroupsAssumption /\ Promise!Init => GroupInv
  BY DEF Promise!GroupsAssumption, Promise!Init, GroupInv, Promise!TypeOK, OffersApart, OnOffer

\* The user may name the last copy of a group; the group is Spent then, and
\* its empty rest stays on offer until the next Prune.
LEMMA NameGroupInv ==
  ASSUME GroupInv, NEW g \in Offered, NEW p \in g, Promise!Name(g, p)
  PROVE  GroupInv'
<1> USE DEF GroupInv, Promise!Name, Promise!Remove
<1>1. Promise!TypeOK'
  BY DEF Promise!TypeOK
<1>2. OffersApart'
  <2>1. Offered' = (Offered \ {g}) \cup {g \ {p}}
    OBVIOUS
  <2>2. ASSUME NEW a \in Offered', NEW b \in Offered', a \cap b # {}
        PROVE  a = b
    BY <2>1, <2>2 DEF OffersApart
  <2>3. UNION Offered' \subseteq UNION Offered
    BY <2>1
  <2> QED
    BY <2>2, <2>3 DEF OffersApart
<1>3. ASSUME NEW G \in Reported
      PROVE  (OnOffer(G) \/ Safe(G) \/ Spent(G))'
  <2>1. CASE OnOffer(G)
    <3>1. PICK h \in Offered : h \subseteq G /\ h \subseteq Stored /\ G \ h \subseteq Asked
      BY <2>1 DEF OnOffer
    <3>2. CASE h = g
      <4>1. g \ {p} \in Offered' /\ g \ {p} \subseteq G /\ g \ {p} \subseteq Stored'
        BY <3>1, <3>2
      <4>2. G \ (g \ {p}) \subseteq Asked'
        BY <3>1, <3>2
      <4> QED
        BY <4>1, <4>2 DEF OnOffer
    <3>3. CASE h # g
      <4>1. p \notin h
        BY <3>3 DEF OffersApart
      <4>2. h \in Offered' /\ h \subseteq Stored' /\ G \ h \subseteq Asked'
        BY <3>1, <3>3, <4>1
      <4> QED
        BY <3>1, <4>2 DEF OnOffer
    <3> QED
      BY <3>2, <3>3
  <2>2. CASE Safe(G)
    <3>1. PICK k \in G : k \in Stored /\ k \notin Doomed /\ k \notin UNION Offered
      BY <2>2 DEF Safe
    <3>2. k \in Stored' /\ k \notin Doomed' /\ k \notin UNION Offered'
      BY <3>1
    <3> QED
      BY <3>2 DEF Safe
  <2>3. CASE Spent(G)
    BY <2>3 DEF Spent
  <2> QED
    BY <1>3, <2>1, <2>2, <2>3
<1> QED
  BY <1>1, <1>2, <1>3

LEMMA DecideGroupInv ==
  ASSUME GroupInv, NEW g \in Offered, Promise!Decide(g)
  PROVE  GroupInv'
<1> USE DEF GroupInv
<1>1. PICK left \in {{}} \cup {{k} : k \in g} :
         /\ left \ Undated # {} \/ g \subseteq Undated
         /\ Doomed' = Doomed \cup (g \ left)
  BY DEF Promise!Decide
<1>2. Offered' = Offered \ {g} /\ UNCHANGED <<Stored, Undated, Asked>>
  BY DEF Promise!Decide
<1>3. Promise!TypeOK'
  BY <1>1, <1>2 DEF Promise!TypeOK
<1>4. g \cap UNION Offered' = {}
  BY <1>2 DEF OffersApart
<1>5. OffersApart'
  BY <1>1, <1>2, <1>4 DEF OffersApart
<1>6. ASSUME NEW G \in Reported
      PROVE  (OnOffer(G) \/ Safe(G) \/ Spent(G))'
  <2>1. CASE OnOffer(G)
    <3>1. PICK h \in Offered : h \subseteq G /\ h \subseteq Stored /\ G \ h \subseteq Asked
      BY <2>1 DEF OnOffer
    <3>2. CASE h # g
      BY <1>2, <3>1, <3>2 DEF OnOffer
    <3>3. CASE h = g /\ g \subseteq Undated
      BY <1>2, <3>1, <3>3 DEF Spent
    <3>4. CASE h = g /\ left \ Undated # {}
      <4>1. PICK k \in g : left = {k}
        BY <1>1, <3>4
      <4>2. k \notin Doomed'
        BY <1>1, <4>1 DEF OffersApart
      <4>3. k \in G /\ k \in Stored' /\ k \notin UNION Offered'
        BY <1>2, <1>4, <3>1, <3>4
      <4> QED
        BY <4>2, <4>3 DEF Safe
    <3> QED
      BY <1>1, <3>2, <3>3, <3>4
  <2>2. CASE Safe(G)
    BY <1>1, <1>2, <2>2 DEF Safe
  <2>3. CASE Spent(G)
    BY <1>2, <2>3 DEF Spent
  <2> QED
    BY <1>6, <2>1, <2>2, <2>3
<1> QED
  BY <1>3, <1>5, <1>6

LEMMA DiscardGroupInv ==
  ASSUME GroupInv, NEW p \in Doomed, Promise!Discard(p)
  PROVE  GroupInv'
<1> USE DEF GroupInv, Promise!Discard, Promise!Remove
<1>1. Promise!TypeOK' /\ OffersApart'
  BY DEF Promise!TypeOK, OffersApart
<1>2. ASSUME NEW G \in Reported
      PROVE  (OnOffer(G) \/ Safe(G) \/ Spent(G))'
  <2>1. CASE OnOffer(G)
    BY <2>1 DEF OnOffer, OffersApart
  <2>2. CASE Safe(G)
    BY <2>2 DEF Safe
  <2>3. CASE Spent(G)
    BY <2>3 DEF Spent
  <2> QED
    BY <1>2, <2>1, <2>2, <2>3
<1> QED
  BY <1>1, <1>2

LEMMA PruneGroupInv ==
  ASSUME GroupInv, Promise!Prune
  PROVE  GroupInv'
<1> USE DEF GroupInv, Promise!Prune
<1>1. Promise!TypeOK' /\ OffersApart'
  BY DEF Promise!TypeOK, OffersApart
<1>2. ASSUME NEW G \in Reported
      PROVE  (OnOffer(G) \/ Safe(G) \/ Spent(G))'
  <2>1. CASE OnOffer(G)
    <3>1. PICK h \in Offered : h \subseteq G /\ h \subseteq Stored /\ G \ h \subseteq Asked
      BY <2>1 DEF OnOffer
    <3>2. CASE h \in Offered'
      BY <3>1, <3>2 DEF OnOffer
    <3>3. CASE h = {}
      BY <3>1, <3>3 DEF Spent
    <3>4. CASE h # {} /\ h \notin Offered'
      <4>1. PICK k \in h : TRUE
        BY <3>4
      <4>2. h = {k}
        BY <3>4, <4>1
      <4>3. k \notin UNION Offered' /\ k \notin Doomed'
        BY <3>4, <4>1 DEF OffersApart
      <4> QED
        BY <3>1, <4>1, <4>3 DEF Safe
    <3> QED
      BY <3>2, <3>3, <3>4
  <2>2. CASE Safe(G)
    BY <2>2 DEF Safe
  <2>3. CASE Spent(G)
    BY <2>3 DEF Spent
  <2> QED
    BY <1>2, <2>1, <2>2, <2>3
<1> QED
  BY <1>1, <1>2

LEMMA NextGroupInv == GroupInv /\ [Promise!Next]_(Promise!vars) => GroupInv'
<1>1. ASSUME GroupInv, UNCHANGED Promise!vars
      PROVE  GroupInv'
  BY <1>1 DEF GroupInv, Promise!TypeOK, OffersApart, OnOffer, Safe, Spent, Promise!vars
<1> QED
  BY <1>1, NameGroupInv, DecideGroupInv, DiscardGroupInv, PruneGroupInv DEF Promise!Next

\* A group that is on offer, safe or spent is kept.  The empty group, which no
\* search reports, is spent in a trivial way.
LEMMA GroupInvKept == GroupInv => Promise!GroupKept
<1> SUFFICES ASSUME GroupInv, NEW G \in Reported
             PROVE  G \cap Stored # {} \/ G \subseteq Asked \cup Undated
  BY DEF Promise!GroupKept
<1>1. CASE OnOffer(G)
  <2>1. PICK g \in Offered : g \subseteq G /\ g \subseteq Stored /\ G \ g \subseteq Asked
    BY <1>1 DEF OnOffer
  <2>2. CASE g = {}
    BY <2>1, <2>2
  <2>3. CASE g # {}
    BY <2>1, <2>3
  <2> QED
    BY <2>2, <2>3
<1>2. CASE Safe(G)
  BY <1>2 DEF Safe
<1>3. CASE Spent(G)
  BY <1>3 DEF Spent
<1> QED
  BY <1>1, <1>2, <1>3 DEF GroupInv

\* The promise of the deduplicator: whatever the sets of the search are, no content is
\* lost unless the user named all its copies that can be dated.
THEOREM GroupsAreKept == KeepsPromise => []Promise!GroupKept
<1>1. Promise!GroupsAssumption
  BY ReportedGroups DEF Promise!GroupsAssumption
<1>2. KeepsPromise => []GroupInv
  BY <1>1, InitGroupInv, NextGroupInv, PTL DEF KeepsPromise, Promise!Spec
<1> QED
  BY <1>2, GroupInvKept, PTL

LEMMA KeptContent == Promise!GroupKept => ContentKept
<1> SUFFICES ASSUME Promise!GroupKept, NEW k \in DOMAIN Report
             PROVE  \/ Survives(ContentOf[Report[k][1]])
                    \/ \A p \in ClassOf(k) : removedBy[p] \in {"d", "i"} \/ mtime[p] = 0
  BY DEF ContentKept
<1>1. Range(Report[k]) \in Reported
  BY DEF Reported
<1>2. CASE Range(Report[k]) \cap Stored # {}
  <2>1. PICK a \in DOMAIN Report[k] : Report[k][a] \in Stored
    BY <1>2 DEF Range
  <2>2. ContentOf[Report[k][a]] = ContentOf[Report[k][1]]
    BY ReportAssumption DEF IsReport
  <2> QED
    BY <2>1, <2>2 DEF Stored, Survives
<1>3. CASE Range(Report[k]) \subseteq Asked \cup Undated
  BY <1>3 DEF Asked, Undated, ClassOf
<1> QED
  BY <1>1, <1>2, <1>3 DEF Promise!GroupKept

\* No content the search reported is lost through f and t, for any number of
\* sets of any size, whatever the user types and whatever unlink and rename
\* refuse: if no file has it any more, the user named every copy that the
\* program could date.
THEOREM ContentIsKept == Spec => []ContentKept
BY PromiseKept, GroupsAreKept, KeptContent, PTL

-----------------------------------------------------------------------------
(***************************************************************************)
(* With other programs at work (SharedSpec) little of the above is true of *)
(* the disk.  What is left: only a member of the chosen set is touched,    *)
(* and f and t leave at most their candidate.                              *)
(***************************************************************************)

\* Once f or t has seen a time above 0, its candidate is a member of the set.
Candidate ==
  pc \in {"stat", "sweep"} /\ m_time # 0 =>
    \E a \in DOMAIN sets[set_index] : sets[set_index][a] = temp

\* What the second walk has passed is the candidate.
Passed ==
  pc = "sweep" =>
    \A a \in DOMAIN sets[set_index] : a <= cursor => sets[set_index][a] = temp

ListInv == TypeInv /\ Distinct /\ Candidate /\ Passed

LEMMA InitListInv == Init => ListInv
<1> SUFFICES ASSUME Init PROVE ListInv
  OBVIOUS
<1> QED
  BY InitTypeInv, InitIInv DEF Init, IInv, ListInv, Candidate, Passed

\* Steps that leave the lists alone, outside of the two walks.
LEMMA QuietListInv ==
  ASSUME ListInv, TypeInv', sets' = sets, pc' \notin {"stat", "sweep"}
  PROVE  ListInv'
  BY DEF ListInv, Distinct, Candidate, Passed

LEMMA PrintResultListInv == ListInv /\ PrintResult => ListInv'
<1> SUFFICES ASSUME ListInv, PrintResult PROVE ListInv'
  OBVIOUS
<1>1. TypeInv' /\ pc' \notin {"stat", "sweep"}
  BY PrintResultTypeInv DEF ListInv, PrintResult
<1>2. PICK n \in Nat : \E f \in [1..n -> DOMAIN sets] :
           /\ DOMAIN sets' = 1..n
           /\ \A a \in 1..n : sets'[a] = sets[f[a]]
           /\ \A a, b \in 1..n : f[a] = f[b] => a = b
  BY PrintResultLists DEF ListInv
<1>3. PICK f \in [1..n -> DOMAIN sets] :
           /\ DOMAIN sets' = 1..n
           /\ \A a \in 1..n : sets'[a] = sets[f[a]]
           /\ \A a, b \in 1..n : f[a] = f[b] => a = b
  BY <1>2
<1>4. Distinct'
  <2>1. ASSUME NEW k \in 1..n, NEW l \in 1..n,
               NEW a \in DOMAIN sets[f[k]], NEW b \in DOMAIN sets[f[l]],
               sets[f[k]][a] = sets[f[l]][b]
        PROVE  k = l /\ a = b
    BY <1>3, <2>1 DEF ListInv, Distinct
  <2> QED
    BY <1>3, <2>1 DEF Distinct
<1> QED
  BY <1>1, <1>4 DEF ListInv, Candidate, Passed

LEMMA CommandListInv ==
  ASSUME ListInv, NEW i \in 1..list_leng, Command(i)
  PROVE  ListInv'
<1>1. TypeInv'
  BY CommandTypeInv DEF ListInv
<1>2. ASSUME NEW list_idx \in ListIdxs, DeleteOne(i, list_idx)
      PROVE  ListInv'
  <2>1. pc = "prompt" /\ option' = "d" /\ pc' \in {"print", "crashed"} /\ i \in 1..Len(sets)
    BY <1>2 DEF DeleteOne, ListInv, TypeInv, Placed
  <2>2. CASE UNCHANGED <<disk, sets, removedBy>>
    BY <1>1, <2>1, <2>2, QuietListInv
  <2>3. CASE list_idx \in 1..Len(sets[i]) /\ TakeOff(i, list_idx)
    <3>1. Distinct'
      BY <2>1, <2>3, TakeOffMembers DEF ListInv
    <3> QED
      BY <1>1, <2>1, <3>1 DEF ListInv, Candidate, Passed
  <2> QED
    BY <1>2, <2>2, <2>3 DEF DeleteOne
<1>3. CASE AskEach(i)
  BY <1>1, <1>3, QuietListInv DEF AskEach
<1>4. ASSUME NEW opt \in {"f", "t"}, KeepNewest(i, opt)
      PROVE  ListInv'
  <2>1. pc' = "stat" /\ m_time' = 0 /\ sets' = sets
    BY <1>4 DEF KeepNewest
  <2> QED
    BY <1>1, <2>1 DEF ListInv, Distinct, Candidate, Passed
<1> QED
  BY <1>2, <1>3, <1>4 DEF Command

LEMMA PromptListInv ==
  ListInv /\ (NothingLeft \/ Exit \/ Answer \/ AskDone) => ListInv'
<1> SUFFICES ASSUME ListInv, NothingLeft \/ Exit \/ Answer \/ AskDone PROVE ListInv'
  OBVIOUS
<1>1. TypeInv'
  BY NothingLeftTypeInv, ExitTypeInv, AnswerTypeInv DEF ListInv
<1>2. CASE AnswerYes
  <2>1. set_index \in 1..Len(sets) /\ cursor + 1 \in 1..Len(sets[set_index])
    BY <1>2, MemberTypes DEF AnswerYes, ListInv
  <2>2. option' = "i" /\ pc' = "confirm"
    BY <1>2 DEF AnswerYes, ListInv, TypeInv, Placed
  <2>3. Distinct'
    BY <1>2, <2>1, <2>2, TakeOffMembers DEF AnswerYes, ListInv
  <2> QED
    BY <1>1, <2>2, <2>3 DEF ListInv, Candidate, Passed
<1>3. CASE NothingLeft \/ Exit \/ AnswerNo \/ AnswerOther \/ AskDone
  BY <1>1, <1>3, QuietListInv DEF NothingLeft, Exit, AnswerNo, AnswerOther, AskDone
<1> QED
  BY <1>2, <1>3 DEF Answer

LEMMA StatListInv == ListInv /\ (StatMember \/ StatDone) => ListInv'
<1> SUFFICES ASSUME ListInv, StatMember \/ StatDone PROVE ListInv'
  OBVIOUS
<1>1. TypeInv' /\ sets' = sets /\ set_index' = set_index /\ pc = "stat"
  BY StatTypeInv DEF ListInv, StatMember, StatDone
<1>2. sets[set_index] \in Seq(Paths)
  BY <1>1 DEF ListInv, TypeInv, TypeOK, Placed
<1>3. CASE StatMember
  <2>1. CASE pc' = "exit1"
    BY <1>1, <2>1, QuietListInv
  <2>2. CASE pc' # "exit1"
    <3>1. /\ cursor + 1 \in DOMAIN sets[set_index] /\ pc' = "stat"
          /\ m_time' = IF m_time < mtime[Member] THEN mtime[Member] ELSE m_time
          /\ temp' = IF m_time < mtime[Member] THEN Member ELSE temp
      BY <1>1, <1>2, <1>3, <2>2, MemberTypes DEF StatMember, ListInv
    <3>2. Candidate'
      <4>1. CASE m_time < mtime[Member]
        BY <1>1, <3>1, <4>1 DEF Candidate, Member
      <4>2. CASE ~(m_time < mtime[Member])
        BY <1>1, <3>1, <4>2 DEF ListInv, Candidate
      <4> QED BY <4>1, <4>2
    <3> QED
      BY <1>1, <3>1, <3>2 DEF ListInv, Distinct, Passed
  <2> QED BY <2>1, <2>2
<1>4. CASE StatDone
  <2>1. pc' = "sweep" /\ cursor' = 0 /\ UNCHANGED <<m_time, temp>>
    BY <1>4 DEF StatDone
  <2>2. Passed'
    BY <1>1, <1>2, <2>1 DEF Passed
  <2> QED
    BY <1>1, <2>1, <2>2 DEF ListInv, Distinct, Candidate
<1> QED
  BY <1>3, <1>4

\* The step of the second walk that takes a member away.
LEMMA SweepRemoveListInv == ListInv /\ SweepRemove => ListInv'
<1> SUFFICES ASSUME ListInv, SweepRemove PROVE ListInv'
  OBVIOUS
<1>1. /\ TypeInv' /\ pc = "sweep" /\ pc' = "sweep"
      /\ set_index \in 1..Len(sets) /\ sets[set_index] \in Seq(Paths) /\ cursor \in Nat
      /\ cursor + 1 \in 1..Len(sets[set_index])
      /\ option' \in {"d", "i", "f", "t"}
      /\ TakeOff(set_index, cursor + 1) /\ sets[set_index][cursor + 1] # temp
      /\ UNCHANGED <<set_index, cursor, m_time, temp>>
  BY SweepTypeInv, MemberTypes DEF SweepRemove, ListInv, TypeInv, TypeOK, Placed, Member
<1>2. /\ Distinct'
      /\ \A c \in DOMAIN sets[set_index] :
           sets[set_index][c] # sets[set_index][cursor + 1] =>
             \E b \in DOMAIN sets'[set_index] : sets'[set_index][b] = sets[set_index][c]
  BY <1>1, TakeOffMembers DEF ListInv, TypeInv, TypeOK
<1>3. Candidate'
  BY <1>1, <1>2 DEF ListInv, Candidate
<1>4. Passed'
  <2>1. sets'[set_index] = RemoveAt(sets[set_index], cursor + 1)
    BY <1>1, TakeOffTypes DEF ListInv, TypeInv
  <2>2. /\ sets'[set_index] \in Seq(Paths)
        /\ Len(sets'[set_index]) = Len(sets[set_index]) - 1
        /\ \A a \in 1..(Len(sets[set_index]) - 1) : sets'[set_index][a] =
             IF a < cursor + 1 THEN sets[set_index][a] ELSE sets[set_index][a + 1]
    BY <1>1, <2>1, RemoveAtProps
  <2>3. ASSUME NEW a \in DOMAIN sets'[set_index], a <= cursor
        PROVE  sets'[set_index][a] = temp
    <3>1. a \in 1..(Len(sets[set_index]) - 1) /\ a \in DOMAIN sets[set_index] /\ a < cursor + 1
      BY <1>1, <2>2, <2>3
    <3> QED
      BY <1>1, <2>2, <2>3, <3>1 DEF ListInv, Passed
  <2> QED
    BY <1>1, <2>3 DEF Passed
<1> QED
  BY <1>1, <1>2, <1>3, <1>4 DEF ListInv

LEMMA SweepListInv == ListInv /\ (SweepKeep \/ SweepStop \/ SweepDone) => ListInv'
<1> SUFFICES ASSUME ListInv, SweepKeep \/ SweepStop \/ SweepDone PROVE ListInv'
  OBVIOUS
<1>1. TypeInv' /\ sets' = sets
  BY SweepTypeInv DEF ListInv, SweepKeep, SweepStop, SweepDone
<1>2. CASE SweepKeep
  <2>1. /\ pc = "sweep" /\ pc' = "sweep" /\ cursor' = cursor + 1 /\ cursor \in Nat
        /\ sets[set_index][cursor + 1] = temp /\ UNCHANGED <<set_index, m_time, temp>>
        /\ sets[set_index] \in Seq(Paths)
    BY <1>2 DEF SweepKeep, Member, ListInv, TypeInv, TypeOK, Placed
  <2>2. \A a \in DOMAIN sets[set_index] : a <= cursor + 1 => a <= cursor \/ a = cursor + 1
    BY <2>1
  <2>3. Passed'
    BY <1>1, <2>1, <2>2 DEF ListInv, Passed
  <2> QED
    BY <1>1, <2>1, <2>3 DEF ListInv, Distinct, Candidate
<1>3. CASE SweepStop \/ SweepDone
  BY <1>1, <1>3, QuietListInv DEF SweepStop, SweepDone
<1> QED
  BY <1>2, <1>3

LEMMA NextListInv == ListInv /\ [Next \/ Interfere]_vars => ListInv'
<1>1. ASSUME ListInv, UNCHANGED vars \/ Interfere PROVE ListInv'
  <2>1. TypeInv' /\ UNCHANGED <<sets, pc, walk>>
    BY <1>1, NextTypeInv DEF ListInv, vars, walk, Interfere
  <2> QED
    BY <1>1, <2>1 DEF ListInv, Distinct, Candidate, Passed, walk
<1> QED
  BY <1>1, PrintResultListInv, CommandListInv, PromptListInv, StatListInv,
     SweepRemoveListInv, SweepListInv DEF Next, Run
-----------------------------------------------------------------------------
\* When f or t has run to its end, the set holds the candidate or nothing, for any
\* set and whatever other programs did meanwhile.
THEOREM CandidateIsLeft == SharedSpec => SweepLeavesCandidate
<1>1. ASSUME ListInv, [Next \/ Interfere]_vars, pc = "sweep", pc' = "print"
      PROVE  sets[set_index] = <<temp>> \/ (sets[set_index] = <<>> /\ m_time = 0)
  <2>1. SweepDone
    BY <1>1 DEF Next, Run, PrintResult, NothingLeft, AskDone, StatMember, StatDone,
       SweepKeep, SweepRemove, SweepStop, Exit, Command, DeleteOne, AskEach, KeepNewest,
       Answer, AnswerYes, AnswerNo, AnswerOther, Interfere, vars
  <2> DEFINE s == sets[set_index]
  <2>2. /\ s \in Seq(Paths) /\ cursor \in Nat /\ ~(cursor < Len(s))
        /\ set_index \in DOMAIN sets
    BY <1>1, <2>1 DEF SweepDone, MoreMembers, ListInv, TypeInv, TypeOK, Placed
  <2>3. \A a \in DOMAIN s : s[a] = temp
    BY <1>1, <2>2 DEF ListInv, Passed
  <2>4. \A a, b \in DOMAIN s : a = b
    <3>1. \A a, b \in DOMAIN sets[set_index] : sets[set_index][a] = sets[set_index][b] => a = b
      BY <1>1, <2>2 DEF ListInv, Distinct
    <3> QED BY <2>3, <3>1
  <2>5. m_time # 0 => s # <<>>
    BY <1>1 DEF ListInv, Candidate
  <2> HIDE DEF s
  <2>6. CASE s = <<>>
    BY <2>5, <2>6 DEF s
  <2>7. CASE s # <<>>
    <3>1. 1 \in DOMAIN s /\ Len(s) \in Nat
      BY <2>2, <2>7
    <3>2. Len(s) = 1
      <4>1. Len(s) \in DOMAIN s
        BY <2>2, <3>1
      <4> QED BY <2>4, <3>1, <4>1
    <3>3. s[1] = temp
      BY <2>3, <3>1
    <3>4. s = <<temp>>
      BY <2>2, <3>2, <3>3
    <3> QED BY <3>4 DEF s
  <2> QED
    BY <2>6, <2>7
<1>2. ListInv /\ [Next \/ Interfere]_vars =>
        [pc = "sweep" /\ pc' = "print" =>
           sets[set_index] = <<temp>> \/ (sets[set_index] = <<>> /\ m_time = 0)]_pc
  BY <1>1
<1> QED
  BY <1>2, InitListInv, NextListInv, PTL DEF SharedSpec, SweepLeavesCandidate

\* The disk loses at most the file that is taken off the list, and the other sets
\* nothing.
LEMMA TakesOne ==
  ASSUME ListInv, NEW i \in 1..Len(sets), NEW a \in 1..Len(sets[i]),
         TakeOff(i, a), option' \in {"d", "i", "f", "t"},
         Unlink(sets[i][a]) \/ Rename(sets[i][a])
  PROVE  /\ \A k \in DOMAIN sets : k # i => sets'[k] = sets[k]
         /\ \A p \in Paths : files'[p] # files[p] \/ bin'[p] # bin[p] =>
              /\ p = sets[i][a] /\ files'[p] = Absent
              /\ p \in Range(sets[i]) \ Range(sets'[i])
<1>1. files \in [Paths -> Contents \cup {Absent}] /\ bin \in [Paths -> Contents \cup {Absent}]
  BY DEF ListInv, TypeInv, TypeOK
<1>2. \A p \in Paths : files'[p] # files[p] \/ bin'[p] # bin[p] =>
        p = sets[i][a] /\ files'[p] = Absent
  BY <1>1 DEF Unlink, Rename
<1>3. /\ DOMAIN sets' = DOMAIN sets /\ i \in DOMAIN sets /\ a \in DOMAIN sets[i]
      /\ \A b \in DOMAIN sets'[i] : sets'[i][b] # sets[i][a]
  BY TakeOffMembers DEF ListInv, TypeInv, TypeOK
<1>4. \A k \in DOMAIN sets : k # i => sets'[k] = sets[k]
  BY DEF TakeOff
<1> QED
  BY <1>2, <1>3, <1>4 DEF Range

\* Whatever other programs do, each change the prompts make to the disk is the end
\* of one member of the chosen set, never of the candidate of f and t; no other set
\* changes, and print_result keeps every set that is one.
THEOREM OnlyChosen == SharedSpec => OnlyChosenTouched
<1> DEFINE Touches(p) ==
             /\ files'[p] = Absent
             /\ p \in Range(sets[set_index'])
             /\ p \notin Range(sets'[set_index']) \/ pc' = "crashed"
             /\ option' \in {"f", "t"} => p # temp
           Apart ==
             /\ \A p \in Paths : files'[p] # files[p] \/ bin'[p] # bin[p] => Touches(p)
             /\ pc # "print" => \A k \in DOMAIN sets : k # set_index' => sets'[k] = sets[k]
             /\ pc = "print" =>
                  \A k \in DOMAIN sets : Len(sets[k]) >= 2 => sets[k] \in Range(sets')
<1>1. ASSUME ListInv, [Next \/ Interfere]_vars, <<sets, pc>>' # <<sets, pc>>
      PROVE  Apart
  <2>1. \/ \E i \in 1..list_leng, list_idx \in ListIdxs : DeleteOne(i, list_idx)
        \/ AnswerYes
        \/ SweepRemove
        \/ SweepStop
        \/ PrintResult
        \/ pc # "print" /\ UNCHANGED <<files, bin, sets>>
    <3>1. CASE \E i \in 1..list_leng : AskEach(i) \/ \E opt \in {"f", "t"} : KeepNewest(i, opt)
      BY <3>1 DEF AskEach, KeepNewest, disk
    <3>2. CASE NothingLeft \/ AskDone \/ StatMember \/ StatDone \/ SweepKeep \/ SweepDone
      BY <3>2 DEF NothingLeft, AskDone, StatMember, StatDone, SweepKeep, SweepDone, disk
    <3>3. CASE Exit \/ AnswerNo \/ AnswerOther
      BY <3>3 DEF Exit, AnswerNo, AnswerOther, disk
    <3>4. CASE Interfere \/ UNCHANGED vars
      BY <1>1, <3>4 DEF Interfere, vars
    <3> QED
      BY <1>1, <3>1, <3>2, <3>3, <3>4 DEF Next, Run, Command, Answer
  <2>2. ASSUME NEW i \in 1..list_leng, NEW list_idx \in ListIdxs, DeleteOne(i, list_idx)
        PROVE  Apart
    <3>1. /\ i \in 1..Len(sets) /\ set_index' = i /\ option' = "d" /\ pc = "prompt"
          /\ \/ list_idx \in 1..Len(sets[i]) /\ TakeOff(i, list_idx) /\ Unlink(sets[i][list_idx])
             \/ UNCHANGED <<files, bin, sets>>
      BY <1>1, <2>2 DEF DeleteOne, ListInv, TypeInv, Placed, disk
    <3>2. CASE UNCHANGED <<files, bin, sets>>
      BY <3>1, <3>2
    <3>3. CASE list_idx \in 1..Len(sets[i]) /\ TakeOff(i, list_idx) /\ Unlink(sets[i][list_idx])
      <4>1. /\ \A k \in DOMAIN sets : k # i => sets'[k] = sets[k]
            /\ \A p \in Paths : files'[p] # files[p] \/ bin'[p] # bin[p] =>
                 files'[p] = Absent /\ p \in Range(sets[i]) \ Range(sets'[i])
        BY <1>1, <3>1, <3>3, TakesOne
      <4> QED
        BY <3>1, <4>1
    <3> QED
      BY <3>1, <3>2, <3>3
  <2>3. CASE AnswerYes \/ SweepRemove
    <3>1. /\ set_index \in 1..Len(sets) /\ cursor + 1 \in 1..Len(sets[set_index])
          /\ set_index' = set_index /\ option' = option /\ option \in {"i", "f", "t"}
          /\ TakeOff(set_index, cursor + 1) /\ pc # "print"
          /\ Unlink(Member) \/ Rename(Member)
      BY <1>1, <2>3, MemberTypes DEF AnswerYes, SweepRemove, ListInv, TypeInv, Placed
    <3>2. Unlink(sets[set_index][cursor + 1]) \/ Rename(sets[set_index][cursor + 1])
      BY <3>1 DEF Member
    <3>3. /\ \A k \in DOMAIN sets : k # set_index => sets'[k] = sets[k]
          /\ \A p \in Paths : files'[p] # files[p] \/ bin'[p] # bin[p] =>
               /\ p = Member /\ files'[p] = Absent
               /\ p \in Range(sets[set_index]) \ Range(sets'[set_index])
      BY <1>1, <3>1, <3>2, TakesOne DEF Member
    <3>4. option' \in {"f", "t"} => Member # temp
      BY <1>1, <2>3, <3>1 DEF AnswerYes, SweepRemove, ListInv, TypeInv, Placed
    <3> QED
      BY <3>1, <3>3, <3>4
  <2>4. CASE SweepStop
    <3>1. /\ Member \in Range(sets[set_index]) /\ Member # temp
          /\ set_index' = set_index /\ sets' = sets /\ pc = "sweep"
          /\ \/ UNCHANGED <<files, bin>>
             \/ pc' = "crashed" /\ Rename(Member)
      BY <1>1, <2>4, MemberTypes DEF SweepStop, walk, disk, Member, Range, ListInv, TypeInv
    <3>2. files \in [Paths -> Contents \cup {Absent}] /\ bin \in [Paths -> Contents \cup {Absent}]
      BY <1>1 DEF ListInv, TypeInv, TypeOK
    <3>3. ASSUME NEW p \in Paths, files'[p] # files[p] \/ bin'[p] # bin[p]
          PROVE  p = Member /\ files'[p] = Absent /\ pc' = "crashed"
      BY <3>1, <3>2, <3>3 DEF Rename
    <3> QED
      BY <3>1, <3>3
  <2>5. CASE PrintResult
    <3>1. pc = "print" /\ DeleteList /\ UNCHANGED <<files, bin>>
      BY <2>5 DEF PrintResult, disk
    <3>2. ASSUME NEW k \in DOMAIN sets, Len(sets[k]) >= 2 PROVE sets[k] \in Range(sets')
      <4>1. PICK n \in 0..Len(sets) : \E f \in [1..n -> DOMAIN sets] :
              /\ Range(f) = {l \in DOMAIN sets : Len(sets[l]) >= 2}
              /\ sets' = [a \in 1..n |-> sets[f[a]]]
        BY <3>1 DEF DeleteList
      <4>2. PICK f \in [1..n -> DOMAIN sets] :
              /\ Range(f) = {l \in DOMAIN sets : Len(sets[l]) >= 2}
              /\ sets' = [a \in 1..n |-> sets[f[a]]]
        BY <4>1
      <4>3. PICK a \in 1..n : f[a] = k
        BY <3>2, <4>2 DEF Range
      <4> QED
        BY <4>2, <4>3 DEF Range
    <3> QED
      BY <3>1, <3>2
  <2> QED
    BY <2>1, <2>2, <2>3, <2>4, <2>5
<1>2. ListInv /\ [Next \/ Interfere]_vars =>
        [<<sets, pc>>' # <<sets, pc>> => Apart]_<<files, bin, sets, pc>>
  BY <1>1
<1> QED
  BY <1>2, InitListInv, NextListInv, PTL DEF SharedSpec, OnlyChosenTouched
-----------------------------------------------------------------------------
(***************************************************************************)
(* Alone, the program keeps the newest member.                             *)
(***************************************************************************)

\* The first walk of f and t has passed the members up to cursor; temp is the first
\* of the newest of them.
NewestSeen ==
  pc = "stat" =>
    /\ cursor <= Len(sets[set_index])
    /\ \A a \in 1..cursor : mtime[sets[set_index][a]] <= m_time
    /\ m_time > 0 =>
         \E t \in 1..cursor : /\ sets[set_index][t] = temp /\ mtime[temp] = m_time
                              /\ \A a \in 1..cursor : a < t => mtime[sets[set_index][a]] < m_time

\* temp is at t, and newer than a member at a, or as new and in front of it.
Beats(t, a) ==
  /\ sets[set_index][t] = temp
  /\ \/ mtime[temp] > mtime[sets[set_index][a]]
     \/ mtime[temp] = mtime[sets[set_index][a]] /\ t <= a

\* In the second walk temp beats every member that has a time.
NewestHeld ==
  pc = "sweep" =>
    \A a \in DOMAIN sets[set_index] :
      mtime[sets[set_index][a]] > 0 => \E t \in DOMAIN sets[set_index] : Beats(t, a)

NewestInv == ListInv /\ NewestSeen /\ NewestHeld

\* A step of the first walk.
LEMMA StatNewest == NewestInv /\ (StatMember \/ StatDone) => NewestSeen' /\ NewestHeld'
<1> SUFFICES ASSUME NewestInv, StatMember \/ StatDone PROVE NewestSeen' /\ NewestHeld'
  OBVIOUS
<1> DEFINE s == sets[set_index]
<1>1. /\ pc = "stat" /\ UNCHANGED <<mtime, sets, set_index>>
      /\ s \in Seq(Paths) /\ cursor \in Nat /\ m_time \in Nat /\ cursor <= Len(s)
  BY DEF StatMember, StatDone, disk, NewestInv, NewestSeen, ListInv, TypeInv, TypeOK, Placed
<1>2. \A a \in 1..Len(s) : mtime[s[a]] \in Nat
  <2>1. \A a \in 1..Len(s) : s[a] \in Paths
    BY <1>1
  <2>2. \A p \in Paths : mtime[p] \in Nat
    BY ValuesAssumption DEF NewestInv, ListInv, TypeInv, TypeOK
  <2> QED
    BY <2>1, <2>2
<1>3. \A a \in 1..cursor : mtime[s[a]] <= m_time
  BY <1>1 DEF NewestInv, NewestSeen
<1>4. ASSUME m_time > 0
      PROVE  \E t \in 1..cursor : /\ s[t] = temp /\ mtime[temp] = m_time
                                  /\ \A a \in 1..cursor : a < t => mtime[s[a]] < m_time
  BY <1>1, <1>4 DEF NewestInv, NewestSeen
<1>5. CASE StatMember
  <2>1. CASE pc' = "exit1"
    BY <2>1 DEF NewestSeen, NewestHeld
  <2>2. CASE pc' # "exit1"
    <3>1. /\ pc' = "stat" /\ cursor' = cursor + 1 /\ cursor + 1 \in 1..Len(s)
          /\ m_time' = IF m_time < mtime[s[cursor + 1]] THEN mtime[s[cursor + 1]] ELSE m_time
          /\ temp' = IF m_time < mtime[s[cursor + 1]] THEN s[cursor + 1] ELSE temp
      BY <1>1, <1>5, <2>2 DEF StatMember, MoreMembers, Member
    <3> DEFINE c == cursor + 1
    <3>2. c \in Nat /\ mtime[s[c]] \in Nat
          /\ \A a \in 1..c : a \in 1..Len(s) /\ (a = c \/ a \in 1..cursor)
      BY <1>1, <1>2, <3>1
    <3>3. \A a \in 1..c : mtime[s[a]] <= m_time'
      BY <1>1, <1>2, <1>3, <3>1, <3>2
    <3>4. ASSUME m_time' > 0
          PROVE  \E t \in 1..c : /\ s[t] = temp' /\ mtime[temp'] = m_time'
                                 /\ \A a \in 1..c : a < t => mtime[s[a]] < m_time'
      <4>1. CASE m_time < mtime[s[c]]
        <5>1. s[c] = temp' /\ mtime[temp'] = m_time'
          BY <3>1, <4>1
        <5>2. \A a \in 1..c : a < c => mtime[s[a]] < m_time'
          BY <1>1, <1>2, <1>3, <3>1, <3>2, <4>1
        <5>3. c \in 1..c
          BY <3>2, <3>1
        <5> QED
          BY <5>1, <5>2, <5>3
      <4>2. CASE ~(m_time < mtime[s[c]])
        <5>1. m_time' = m_time /\ temp' = temp
          BY <3>1, <4>2
        <5>2. PICK t \in 1..cursor : /\ s[t] = temp /\ mtime[temp] = m_time
                                     /\ \A a \in 1..cursor : a < t => mtime[s[a]] < m_time
          BY <1>4, <3>4, <5>1
        <5>3. t \in 1..c /\ \A a \in 1..c : a < t => a \in 1..cursor
          BY <1>1
        <5> QED
          BY <5>1, <5>2, <5>3
      <4> QED
        BY <4>1, <4>2
    <3>5. NewestSeen'
      BY <1>1, <3>1, <3>3, <3>4 DEF NewestSeen
    <3> QED
      BY <3>1, <3>5 DEF NewestHeld
  <2> QED
    BY <2>1, <2>2
<1>6. CASE StatDone
  <2>1. pc' = "sweep" /\ UNCHANGED <<m_time, temp>> /\ cursor = Len(s)
    BY <1>1, <1>6 DEF StatDone, MoreMembers
  <2>2. ASSUME NEW a \in 1..cursor, mtime[s[a]] > 0
        PROVE  \E t \in 1..cursor : Beats(t, a)
    <3>1. mtime[s[a]] <= m_time /\ mtime[s[a]] \in Nat /\ m_time > 0
      BY <1>1, <1>2, <1>3, <2>1, <2>2
    <3>2. PICK t \in 1..cursor : /\ s[t] = temp /\ mtime[temp] = m_time
                                 /\ \A b \in 1..cursor : b < t => mtime[s[b]] < m_time
      BY <1>4, <3>1
    <3>3. mtime[temp] > mtime[s[a]] \/ (mtime[temp] = mtime[s[a]] /\ t <= a)
      BY <1>1, <3>1, <3>2
    <3> QED
      BY <3>2, <3>3 DEF Beats
  <2>3. DOMAIN s = 1..cursor
    BY <1>1, <2>1
  <2> QED
    BY <1>1, <2>1, <2>2, <2>3 DEF NewestSeen, NewestHeld, Beats
<1> QED
  BY <1>5, <1>6

\* Taking another member away does not change the order of the others.
LEMMA RemoveNewest == NewestInv /\ SweepRemove => NewestHeld'
<1> SUFFICES ASSUME NewestInv, SweepRemove PROVE NewestHeld'
  OBVIOUS
<1> DEFINE s == sets[set_index]
           d == cursor + 1
           old(b) == IF b < d THEN b ELSE b + 1
<1>1. /\ pc = "sweep" /\ UNCHANGED <<mtime, set_index, temp>>
      /\ set_index \in 1..Len(sets) /\ s \in Seq(Paths) /\ d \in Nat /\ d \in 1..Len(s)
      /\ option' \in {"d", "i", "f", "t"} /\ TakeOff(set_index, d) /\ s[d] # temp
  BY MemberTypes DEF SweepRemove, Unlink, Rename, NewestInv, ListInv, TypeInv, TypeOK, Placed, Member
<1>2. sets'[set_index] = RemoveAt(s, d)
  BY <1>1, TakeOffTypes DEF NewestInv, ListInv, TypeInv
<1>3. /\ DOMAIN sets'[set_index] = 1..(Len(s) - 1) /\ Len(s) \in Nat /\ DOMAIN s = 1..Len(s)
      /\ \A b \in 1..(Len(s) - 1) : old(b) \in 1..Len(s) /\ sets'[set_index][b] = s[old(b)]
  <2>1. /\ RemoveAt(s, d) \in Seq(Paths) /\ Len(RemoveAt(s, d)) = Len(s) - 1
        /\ \A b \in 1..(Len(s) - 1) : RemoveAt(s, d)[b] = IF b < d THEN s[b] ELSE s[b + 1]
    BY <1>1, RemoveAtProps
  <2>2. Len(s) \in Nat /\ DOMAIN s = 1..Len(s)
    BY <1>1
  <2> HIDE DEF s
  <2> QED
    BY <1>1, <1>2, <2>1, <2>2
<1>4. ASSUME NEW b \in 1..(Len(s) - 1), mtime[s[old(b)]] > 0
      PROVE  \E t \in 1..(Len(s) - 1) :
               /\ sets'[set_index][t] = temp
               /\ \/ mtime[temp] > mtime[s[old(b)]]
                  \/ mtime[temp] = mtime[s[old(b)]] /\ t <= b
  <2>1. PICK t \in 1..Len(s) : /\ s[t] = temp
                               /\ \/ mtime[temp] > mtime[s[old(b)]]
                                  \/ mtime[temp] = mtime[s[old(b)]] /\ t <= old(b)
    BY <1>1, <1>3, <1>4 DEF NewestInv, NewestHeld, Beats
  <2> DEFINE u == IF t < d THEN t ELSE t - 1
  <2>2. t # d
    BY <1>1, <2>1
  <2>3. u \in 1..(Len(s) - 1) /\ old(u) = t /\ (t <= old(b) => u <= b)
    BY <1>1, <1>3, <2>2
  <2>4. sets'[set_index][u] = temp
    BY <1>3, <2>1, <2>3
  <2> HIDE DEF u
  <2> QED
    BY <2>1, <2>3, <2>4
<1> QED
  BY <1>1, <1>3, <1>4 DEF NewestHeld, Beats

\* Every step of the program preserves the invariant.
LEMMA NextNewest == NewestInv /\ [Next]_vars => NewestInv'
<1> SUFFICES ASSUME NewestInv, [Next]_vars PROVE NewestInv'
  OBVIOUS
<1>1. ListInv'
  BY NextListInv DEF NewestInv
<1>2. CASE StatMember \/ StatDone
  BY <1>1, <1>2, StatNewest DEF NewestInv
<1>3. CASE SweepRemove
  BY <1>1, <1>3, RemoveNewest DEF NewestInv, NewestSeen, SweepRemove
<1>4. CASE SweepKeep
  BY <1>1, <1>4 DEF NewestInv, NewestSeen, NewestHeld, Beats, SweepKeep, disk
<1>5. ASSUME NEW i \in 1..list_leng, NEW opt \in {"f", "t"}, KeepNewest(i, opt)
      PROVE  NewestInv'
  <2>1. pc' = "stat" /\ cursor' = 0 /\ m_time' = 0
    BY <1>5 DEF KeepNewest
  <2>2. 0 <= Len(sets'[set_index'])
    <3>1. sets'[set_index'] \in Seq(Paths)
      BY <1>1, <2>1 DEF ListInv, TypeInv, TypeOK, Placed
    <3> QED
      BY <3>1
  <2> QED
    BY <1>1, <2>1, <2>2 DEF NewestInv, NewestSeen, NewestHeld
<1>6. CASE pc' \notin {"stat", "sweep"}
  BY <1>1, <1>6 DEF NewestInv, NewestSeen, NewestHeld
<1>7. CASE UNCHANGED vars
  BY <1>1, <1>7 DEF vars, disk, walk, NewestInv, NewestSeen, NewestHeld, Beats
<1> QED
  BY <1>2, <1>3, <1>4, <1>5, <1>6, <1>7
     DEF Next, Run, PrintResult, NothingLeft, AskDone, SweepStop, SweepDone, Exit, Command,
         DeleteOne, AskEach, Answer, AnswerYes, AnswerNo, AnswerOther

\* f and t, alone on the directory, take a file away only while a member at least as
\* new stays on the list, in front of it if as new, for any sets and any times
\* (ssu_find.c, lines 301-371).
THEOREM NewestIsKept == Spec => NewestStays
<1> DEFINE Stays ==
      pc = "sweep" => \A a \in DOMAIN sets[set_index] :
        LET p == sets[set_index][a]
        IN removedBy'[p] \in {"f", "t"} /\ removedBy[p] = "no" /\ mtime[p] > 0 =>
             \E b \in DOMAIN sets[set_index] :
               LET q == sets[set_index][b]
               IN /\ \E c \in DOMAIN sets'[set_index] : sets'[set_index][c] = q
                  /\ mtime[q] > mtime[p] \/ (mtime[q] = mtime[p] /\ b < a)
<1>1. ASSUME NewestInv, [Next]_vars PROVE Stays
  <2> SUFFICES ASSUME pc = "sweep", NEW a \in DOMAIN sets[set_index],
                      removedBy'[sets[set_index][a]] # removedBy[sets[set_index][a]],
                      mtime[sets[set_index][a]] > 0
               PROVE  \E b \in DOMAIN sets[set_index] :
                        /\ \E c \in DOMAIN sets'[set_index] :
                             sets'[set_index][c] = sets[set_index][b]
                        /\ \/ mtime[sets[set_index][b]] > mtime[sets[set_index][a]]
                           \/ mtime[sets[set_index][b]] = mtime[sets[set_index][a]] /\ b < a
    OBVIOUS
  <2>1. SweepRemove
    BY <1>1 DEF Next, Run, PrintResult, NothingLeft, AskDone, StatMember, StatDone,
       SweepKeep, SweepStop, SweepDone, Exit, Command, DeleteOne, AskEach, KeepNewest,
       Answer, AnswerYes, AnswerNo, AnswerOther, vars
  <2>2. /\ set_index \in 1..Len(sets) /\ set_index \in DOMAIN sets /\ sets[set_index] \in Seq(Paths)
        /\ cursor + 1 \in 1..Len(sets[set_index])
        /\ option' \in {"d", "i", "f", "t"} /\ TakeOff(set_index, cursor + 1)
        /\ sets[set_index][cursor + 1] # temp
    BY <1>1, <2>1, MemberTypes DEF SweepRemove, NewestInv, ListInv, TypeInv, TypeOK, Placed, Member
  <2>3. sets[set_index][a] = sets[set_index][cursor + 1]
    <3>1. sets[set_index][a] \in Paths /\ removedBy \in [Paths -> {"no", "d", "i", "f", "t"}]
      BY <1>1, <2>2 DEF NewestInv, ListInv, TypeInv, TypeOK
    <3> QED
      BY <2>2, <3>1 DEF TakeOff
  <2>4. PICK t \in DOMAIN sets[set_index] : Beats(t, a)
    BY <1>1 DEF NewestInv, NewestHeld
  <2>5. t # a
    BY <2>2, <2>3, <2>4 DEF Beats
  <2>6. \E c \in DOMAIN sets'[set_index] : sets'[set_index][c] = sets[set_index][t]
    <3>1. sets[set_index][t] # sets[set_index][cursor + 1]
      BY <2>2, <2>4 DEF Beats
    <3> QED
      BY <1>1, <2>2, <3>1, TakeOffMembers DEF NewestInv, ListInv
  <2>7. \/ mtime[sets[set_index][t]] > mtime[sets[set_index][a]]
        \/ mtime[sets[set_index][t]] = mtime[sets[set_index][a]] /\ t < a
    <3>1. t \in Nat /\ a \in Nat
      BY <2>2
    <3> QED
      BY <2>4, <2>5, <3>1 DEF Beats
  <2> QED
    BY <2>6, <2>7
<1>2. NewestInv /\ [Next]_vars => [Stays]_<<sets, removedBy>>
  BY <1>1
<1>3. Init => NewestInv
  BY InitListInv DEF Init, NewestInv, NewestSeen, NewestHeld
<1> QED
  BY <1>2, <1>3, NextNewest, PTL DEF Spec, NewestStays
-----------------------------------------------------------------------------
(***************************************************************************)
(* Why f and t come to an end (SweepEnds): each of their steps leaves less *)
(* to do, and no other program can give them more.                         *)
(***************************************************************************)

Unpassed == Len(sets[set_index]) - cursor

\* During the first walk the second one, over the whole list, is still to come;
\* each walk has one step more than the members it passes or takes away.
ToDo ==
  CASE pc = "stat"  -> Unpassed + Len(sets[set_index]) + 2
    [] pc = "sweep" -> Unpassed + 1
    [] OTHER        -> 0

\* The cursor does not leave the set.
Within == pc \in {"stat", "sweep"} => cursor <= Len(sets[set_index])

\* Each step of f and t leaves less to do, and every other step as much.
SweepAdvances ==
  [][(pc \in {"stat", "sweep"}) =>
       /\ ToDo \in Nat
       /\ Run => ToDo' < ToDo
       /\ ~Run => ToDo' = ToDo]_vars

\* The steps of the two walks.
WalkSteps == StatMember \/ StatDone \/ SweepKeep \/ SweepRemove \/ SweepStop \/ SweepDone

\* At the walks no command can be given, and nothing is printed.
LEMMA OnlyWalks ==
  ASSUME pc \in {"stat", "sweep"}, [Next \/ Interfere]_vars
  PROVE  (WalkSteps /\ Run) \/ (~Run /\ UNCHANGED <<sets, pc, set_index, cursor>>)
<1>1. ~(PrintResult \/ NothingLeft \/ AskDone)
  BY DEF PrintResult, NothingLeft, AskDone
<1>2. CASE Run
  BY <1>1, <1>2 DEF Run, WalkSteps
<1>3. CASE ~Run
  <2>1. ~Exit /\ ~Answer /\ ~\E i \in 1..list_leng : Command(i)
    BY DEF Exit, Answer, AnswerYes, AnswerNo, AnswerOther, Command, DeleteOne, AskEach, KeepNewest
  <2>2. Interfere \/ UNCHANGED vars
    BY <1>3, <2>1 DEF Next
  <2> QED
    BY <1>3, <2>2 DEF Interfere, walk, vars
<1> QED
  BY <1>2, <1>3

\* The lengths of the chosen set behind a step of the walks, and what is to do then.
LEMMA WalkLowers ==
  ASSUME TypeInv, Within, pc \in {"stat", "sweep"}, WalkSteps
  PROVE  Within' /\ ToDo \in Nat /\ ToDo' < ToDo
<1> DEFINE n == Len(sets[set_index])
<1>1. /\ set_index \in 1..Len(sets) /\ sets[set_index] \in Seq(Paths)
      /\ n \in Nat /\ cursor \in Nat /\ cursor <= n
  BY DEF TypeInv, TypeOK, Placed, Within
<1>2. ToDo \in Nat /\ ToDo >= 1
  BY <1>1 DEF ToDo, Unpassed
<1>3. CASE StatMember /\ pc' = "stat"
  <2>1. cursor' = cursor + 1 /\ cursor < n /\ pc = "stat" /\ UNCHANGED <<sets, set_index>>
    BY <1>3 DEF StatMember, MoreMembers
  <2> QED
    BY <1>1, <1>2, <1>3, <2>1 DEF Within, ToDo, Unpassed
<1>4. CASE StatDone
  <2>1. cursor' = 0 /\ pc = "stat" /\ pc' = "sweep" /\ UNCHANGED <<sets, set_index>>
    BY <1>4 DEF StatDone
  <2> QED
    BY <1>1, <1>2, <2>1 DEF Within, ToDo, Unpassed
<1>5. CASE SweepKeep
  <2>1. cursor' = cursor + 1 /\ cursor < n /\ pc = "sweep" /\ pc' = pc /\ UNCHANGED <<sets, set_index>>
    BY <1>5 DEF SweepKeep, MoreMembers
  <2> QED
    BY <1>1, <1>2, <2>1 DEF Within, ToDo, Unpassed
<1>6. CASE SweepRemove
  <2>1. /\ TakeOff(set_index, cursor + 1) /\ cursor < n /\ pc = "sweep"
        /\ UNCHANGED <<pc, set_index, cursor>>
    BY <1>6 DEF SweepRemove, MoreMembers
  <2>2. cursor + 1 \in 1..Len(sets[set_index])
    BY <1>1, <2>1
  <2>3. Len(RemoveAt(sets[set_index], cursor + 1)) = n - 1
    BY <1>1, <2>2, RemoveAtProps
  <2>4. sets'[set_index] = RemoveAt(sets[set_index], cursor + 1)
    BY <1>1, <2>1 DEF TakeOff, TypeInv, TypeOK
  <2> HIDE DEF n
  <2>5. Len(sets'[set_index']) = n - 1
    BY <2>1, <2>3, <2>4
  <2> QED
    BY <1>1, <1>2, <2>1, <2>5 DEF Within, ToDo, Unpassed, n
<1>7. CASE pc' \notin {"stat", "sweep"}
  BY <1>2, <1>7 DEF Within, ToDo
<1> QED
  BY <1>3, <1>4, <1>5, <1>6, <1>7 DEF WalkSteps, StatMember, SweepStop, SweepDone, Ended

\* Each step of f and t leaves less to do, whatever happens to the files: behind
\* finitely many of them the walks are over.  No other program undoes a step, and the
\* user has no step here.  This is the safety half of SweepEnds; the fairness of Run
\* is the other.
THEOREM SweepAlwaysAdvances == SharedSpec => SweepAdvances
<1>1. Init => Within
  BY DEF Init, Within
<1>2. TypeInv /\ Within /\ [Next \/ Interfere]_vars => Within'
  <2> SUFFICES ASSUME TypeInv, Within, [Next \/ Interfere]_vars
               PROVE  Within'
    OBVIOUS
  <2>1. CASE pc \in {"stat", "sweep"}
    BY <2>1, OnlyWalks, WalkLowers DEF Within
  <2>2. CASE pc \notin {"stat", "sweep"}
    <3>1. pc' \in {"stat", "sweep"} => cursor' = 0 /\ sets' = sets /\ set_index' \in 1..list_leng /\ pc = "prompt"
      BY <2>2 DEF Next, Run, PrintResult, NothingLeft, AskDone, StatMember, StatDone, SweepKeep,
         SweepRemove, SweepStop, SweepDone, Exit, Command, DeleteOne, AskEach, KeepNewest, Answer,
         AnswerYes, AnswerNo, AnswerOther, Interfere, vars
    <3> QED
      BY <3>1 DEF TypeInv, TypeOK, Placed, Within
  <2> QED
    BY <2>1, <2>2
<1>3. TypeInv /\ Within /\ [Next \/ Interfere]_vars =>
        [(pc \in {"stat", "sweep"}) =>
           ToDo \in Nat /\ (Run => ToDo' < ToDo) /\ (~Run => ToDo' = ToDo)]_vars
  <2> SUFFICES ASSUME TypeInv, Within, [Next \/ Interfere]_vars, pc \in {"stat", "sweep"}
               PROVE  ToDo \in Nat /\ (Run => ToDo' < ToDo) /\ (~Run => ToDo' = ToDo)
    OBVIOUS
  <2>1. CASE WalkSteps /\ Run
    BY <2>1, WalkLowers
  <2>2. CASE ~Run /\ UNCHANGED <<sets, pc, set_index, cursor>>
    <3>1. ToDo' = ToDo
      BY <2>2 DEF ToDo, Unpassed
    <3>2. sets[set_index] \in Seq(Paths) /\ cursor \in Nat /\ cursor <= Len(sets[set_index])
      BY DEF TypeInv, TypeOK, Placed, Within
    <3>3. ToDo \in Nat
      BY <3>2 DEF ToDo, Unpassed
    <3> QED
      BY <2>2, <3>1, <3>3
  <2> QED
    BY <2>1, <2>2, OnlyWalks
<1> QED
  BY <1>1, <1>2, <1>3, InitTypeInv, NextTypeInv, PTL DEF SharedSpec, SweepAdvances
=============================================================================
