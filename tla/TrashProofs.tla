----------------------------- MODULE TrashProofs -----------------------------
(***************************************************************************)
(* Theorems about Trash, for any number of sessions and any names: the     *)
(* name a session chooses is never one it has seen in the directory, and a *)
(* session alone loses no file and no record.                              *)
(***************************************************************************)
EXTENDS Trash, WellFoundedInduction, TLAPS

(***************************************************************************)
(* The numbers of itoa.                                                    *)
(***************************************************************************)

\* A set of natural numbers that is not empty has a smallest element.
LEMMA Smallest ==
  ASSUME NEW T \in SUBSET Nat, T # {}
  PROVE  \E n \in T : \A m \in T : n <= m
<1> DEFINE R == OpToRel(<, Nat)
<1>1. IsWellFoundedOn(R, Nat)
  BY NatLessThanWellFounded DEF OpToRel
<1>2. R = {ss \in Nat \X Nat : ss[1] < ss[2]}
  BY DEF OpToRel
<1> HIDE DEF R
<1>3. PICK n \in T : \A m \in T : <<m, n>> \notin R
  BY <1>1, WFMin
<1>4. \A m \in T : ~(m < n)
  BY <1>2, <1>3
<1> QED
  BY <1>4

\* What the definition of itoa asks of a function g at num.
Digits(g, num) ==
  IF num > 10 THEN Append(g[num \div 10], Zero + (num % 10)) ELSE <<Zero + (num % 10)>>

\* For every bound there is a function that does what itoa asks.
LEMMA DigitsExist ==
  \A n \in Nat : \E g \in [0..n -> Seq(Nat)] : \A num \in 0..n : g[num] = Digits(g, num)
<1> DEFINE Good(g, n) == \A num \in 0..n : g[num] = Digits(g, num)
           Bad == {n \in Nat : ~ \E g \in [0..n -> Seq(Nat)] : Good(g, n)}
<1> SUFFICES ASSUME Bad # {} PROVE FALSE
  OBVIOUS
<1>1. PICK n \in Bad : \A m \in Bad : n <= m
  BY Smallest
<1>2. Zero \in Nat
  BY JobsAssumption
<1>3. CASE n = 0
  <2> DEFINE g == [num \in 0..0 |-> <<Zero>>]
  <2>1. g \in [0..0 -> Seq(Nat)] /\ Good(g, 0)
    BY <1>2 DEF Digits
  <2> QED
    BY <1>1, <1>3, <2>1
<1>4. CASE n # 0
  <2>0. n \in Nat \ {0}
    BY <1>1, <1>4
  <2>1. n - 1 \in Nat /\ n - 1 \notin Bad
    <3> HIDE DEF Bad
    <3> QED
      BY <1>1, <2>0
  <2>2. PICK g \in [0..(n - 1) -> Seq(Nat)] : Good(g, n - 1)
    BY <2>1
  <2> DEFINE h == [num \in 0..n |-> IF num = n THEN Digits(g, n) ELSE g[num]]
  <2>3. \A num \in Nat : num > 10 => num \div 10 \in Nat /\ num \div 10 < num
    OBVIOUS
  <2>4. \A num \in Nat : num % 10 \in Nat
    OBVIOUS
  <2>5. Digits(g, n) \in Seq(Nat)
    <3>1. CASE n > 10
      <4>1. n \div 10 \in 0..(n - 1)
        BY <2>1, <2>3, <3>1
      <4>2. g[n \div 10] \in Seq(Nat)
        BY <4>1
      <4> QED
        BY <1>2, <2>4, <3>1, <4>2 DEF Digits
    <3>2. CASE ~(n > 10)
      BY <1>2, <2>4, <3>2 DEF Digits
    <3> QED
      BY <3>1, <3>2
  <2>6. h \in [0..n -> Seq(Nat)]
    BY <2>5
  <2>7. \A num \in 0..n : Digits(h, num) = Digits(g, num)
    <3> SUFFICES ASSUME NEW num \in 0..n, num > 10
                 PROVE  h[num \div 10] = g[num \div 10]
      BY DEF Digits
    <3>1. num \div 10 \in 0..n /\ num \div 10 # n
      BY <2>3
    <3> QED
      BY <3>1
  <2>8. Good(h, n)
    <3> SUFFICES ASSUME NEW num \in 0..n PROVE h[num] = Digits(g, num)
      BY <2>7
    <3>1. num # n => num \in 0..(n - 1)
      BY <2>0
    <3> QED
      BY <2>2, <3>1
  <2> QED
    BY <1>1, <2>6, <2>8
<1> QED
  BY <1>3, <1>4

\* itoa is a string for every number.
LEMMA ItoaIsString == itoa \in [0..MaxTail -> Seq(Nat)]
<1>1. MaxTail \in Nat
  BY JobsAssumption
<1>2. PICK g \in [0..MaxTail -> Seq(Nat)] : \A num \in 0..MaxTail : g[num] = Digits(g, num)
  BY <1>1, DigitsExist
<1>3. g = [num \in 0..MaxTail |->
             IF num > 10 THEN Append(g[num \div 10], Zero + (num % 10))
                         ELSE <<Zero + (num % 10)>>]
  BY <1>2 DEF Digits
<1>4. itoa = [num \in 0..MaxTail |->
                IF num > 10 THEN Append(itoa[num \div 10], Zero + (num % 10))
                            ELSE <<Zero + (num % 10)>>]
  BY <1>3 DEF itoa
<1>5. \A num \in 0..MaxTail : itoa[num] = Digits(itoa, num)
  BY <1>4 DEF Digits
<1> DEFINE Bad == {n \in 0..MaxTail : itoa[n] \notin Seq(Nat)}
<1>6. ASSUME Bad # {} PROVE FALSE
  <2>0. Bad \in SUBSET Nat
    BY <1>1
  <2>1. PICK n \in Bad : \A m \in Bad : n <= m
    <3> HIDE DEF Bad
    <3> QED
      BY <1>6, <2>0, Smallest
  <2>2. Zero + (n % 10) \in Nat
    BY JobsAssumption
  <2>3. CASE n > 10
    <3>1. n \div 10 \in 0..MaxTail /\ n \div 10 < n
      BY <1>1, <2>3
    <3>2. n \div 10 \notin Bad
      <4> HIDE DEF Bad
      <4> QED
        BY <1>1, <2>0, <2>1, <3>1
    <3>3. Digits(itoa, n) \in Seq(Nat)
      BY <2>2, <2>3, <3>1, <3>2 DEF Digits
    <3> QED
      BY <1>5, <2>1, <3>3
  <2>4. CASE ~(n > 10)
    <3>1. Digits(itoa, n) \in Seq(Nat)
      BY <2>2, <2>4 DEF Digits
    <3> QED
      BY <1>5, <2>1, <3>1
  <2> QED
    BY <2>3, <2>4
<1> QED
  BY <1>4, <1>6

(***************************************************************************)
(* The choice of a name.                                                   *)
(***************************************************************************)

\* A name with a tail does not come in front of the name without it.
LEMMA TailComesLater ==
  ASSUME NEW base \in Seq(Nat), NEW n \in 1..MaxTail
  PROVE  Candidate(base, n) # base /\ ~Before(Candidate(base, n), base)
<1> DEFINE c == Candidate(base, n)
<1>1. itoa[n] \in Seq(Nat) /\ Underscore \in Nat
  BY ItoaIsString, JobsAssumption
<1>2. c = (base \o <<Underscore>>) \o itoa[n]
  <2>1. n # 0
    OBVIOUS
  <2> QED
    BY <2>1 DEF Candidate
<1>3. c \in Seq(Nat) /\ Len(c) > Len(base) /\ \A k \in 1..Len(base) : c[k] = base[k]
  <2> DEFINE d == base \o <<Underscore>>
  <2>1. d \in Seq(Nat) /\ Len(d) = Len(base) + 1 /\ \A k \in 1..Len(base) : d[k] = base[k]
    BY <1>1
  <2>2. c = d \o itoa[n]
    BY <1>2
  <2> HIDE DEF d, c
  <2> QED
    BY <1>1, <2>1, <2>2
<1> HIDE DEF c
<1>4. ASSUME Before(c, base) PROVE FALSE
  <2>1. PICK k \in 0..Len(c) :
          /\ k <= Len(base)
          /\ \/ k = Len(c) /\ k < Len(base)
             \/ k < Len(c) /\ k < Len(base) /\ c[k + 1] < base[k + 1]
    BY <1>4 DEF Before
  <2>2. k < Len(base) /\ c[k + 1] < base[k + 1]
    BY <1>3, <2>1
  <2>3. c[k + 1] = base[k + 1] /\ base[k + 1] \in Nat
    BY <1>3, <2>2
  <2> QED
    BY <2>2, <2>3
<1>5. c # base
  BY <1>3
<1> QED
  BY <1>4, <1>5 DEF c

\* The loop of trash ends with a name that was not in the directory, although it
\* does not compare the first entry with a name that has a tail.
LEMMA ChosenIsNew ==
  ASSUME NEW base \in Seq(Nat), NEW names, FreeTails(base, names) # {}
  PROVE  \E n \in 0..MaxTail : /\ ChosenName(base, names) = Candidate(base, n)
                               /\ Candidate(base, n) \notin names
<1> DEFINE T == FreeTails(base, names)
           n == CHOOSE k \in T : \A m \in T : k <= m
<1>1. T \in SUBSET Nat
  BY JobsAssumption DEF FreeTails
<1>2. \E k \in T : \A m \in T : k <= m
  <2> HIDE DEF T
  <2> QED
    BY <1>1, Smallest DEF T
<1>3. n \in T /\ \A m \in T : n <= m
  BY <1>2
<1>4. ChosenName(base, names) = Candidate(base, n)
  BY DEF ChosenName
<1> HIDE DEF n
<1>5. n \in 0..MaxTail /\ Candidate(base, n) \notin Compared(names, n)
  BY <1>3 DEF FreeTails
<1>6. CASE n = 0
  BY <1>4, <1>5, <1>6 DEF Compared
<1>7. CASE n # 0
  <2>1. n \in 1..MaxTail
    BY <1>5, <1>7
  <2>2. 0 \notin T /\ 0 \in 0..MaxTail
    <3>1. MaxTail \in Nat
      BY JobsAssumption
    <3> HIDE DEF T
    <3> QED
      BY <1>3, <2>1, <3>1
  <2>3. Candidate(base, 0) \in Compared(names, 0)
    BY <2>2 DEF FreeTails
  <2>4. base \in names \cup {<<Period>>}
    BY <2>3 DEF Candidate, Compared
  <2>5. Candidate(base, n) \notin First(names \cup {<<Period>>})
    BY <2>1, <2>4, TailComesLater DEF First
  <2>6. Candidate(base, n) \notin names
    BY <1>5, <1>7, <2>5 DEF Compared
  <2> QED
    BY <1>4, <1>5, <2>6
<1> QED
  BY <1>6, <1>7

(***************************************************************************)
(* The invariant.                                                          *)
(***************************************************************************)

\* A session that has chosen a name did not see it in the directory.
NameIsNew ==
  \A s \in Sessions : pc[s] \in {"rename", "open", "write"} =>
    /\ todo[s] # <<>>
    /\ file[s] \in AllNames
    /\ pc[s] = "rename" => file[s] \notin listing[s]

TrashInv == TypeOK /\ NameIsNew

\* The first of the paths that are left, and what is left behind it.
LEMMA FirstLeft ==
  ASSUME NEW s \in Sessions, todo[s] \in Left(s), todo[s] # <<>>
  PROVE  Path(s) \in Paths /\ Tail(todo[s]) \in Left(s)
<1>1. Jobs[s] \in Seq(Paths)
  BY JobsAssumption
<1>2. PICK k \in 1..(Len(Jobs[s]) + 1) : todo[s] = SubSeq(Jobs[s], k, Len(Jobs[s]))
  BY DEF Left
<1>3. k <= Len(Jobs[s])
  BY <1>1, <1>2
<1>4. Head(todo[s]) = Jobs[s][k] /\ Tail(todo[s]) = SubSeq(Jobs[s], k + 1, Len(Jobs[s]))
  BY <1>1, <1>2, <1>3
<1>5. Jobs[s][k] \in Paths
  BY <1>1, <1>3
<1>6. k + 1 \in 1..(Len(Jobs[s]) + 1)
  BY <1>1, <1>3
<1> QED
  BY <1>4, <1>5, <1>6 DEF Left, Path

\* What a session chooses from a directory.
LEMMA Chosen ==
  ASSUME NEW s \in Sessions, TypeOK, Scan(s)
  PROVE  ChosenName(NameOf[Path(s)], NamesUsed) \in AllNames \ NamesUsed
<1>1. Path(s) \in Paths
  BY FirstLeft DEF TypeOK, Scan
<1>2. NameOf[Path(s)] \in Seq(Nat)
  BY <1>1, JobsAssumption
<1>3. PICK n \in 0..MaxTail :
        /\ ChosenName(NameOf[Path(s)], NamesUsed) = Candidate(NameOf[Path(s)], n)
        /\ Candidate(NameOf[Path(s)], n) \notin NamesUsed
  BY <1>2, ChosenIsNew DEF Scan
<1> QED
  BY <1>1, <1>3 DEF AllNames

\* The invariant holds at the start.
LEMMA InvInit == Init => TrashInv
<1> SUFFICES ASSUME Init PROVE TrashInv
  OBVIOUS
<1>1. \A s \in Sessions : Jobs[s] \in Left(s)
  <2> TAKE s \in Sessions
  <2>1. Jobs[s] \in Seq(Paths)
    BY JobsAssumption
  <2>2. Jobs[s] = SubSeq(Jobs[s], 1, Len(Jobs[s]))
    BY <2>1
  <2> QED
    BY <2>1, <2>2 DEF Left
<1>2. Jobs \in [Sessions -> Seq(Paths)]
  BY JobsAssumption
<1>3. TypeOK
  BY <1>1, <1>2 DEF Init, TypeOK, Ended
<1>4. NameIsNew
  BY DEF Init, NameIsNew
<1> QED
  BY <1>3, <1>4 DEF TrashInv

\* Every step preserves it.
LEMMA InvNext == TrashInv /\ [Next]_vars => TrashInv'
<1> SUFFICES ASSUME TrashInv, [Next]_vars PROVE TrashInv'
  OBVIOUS
<1> USE DEF TrashInv
<1>1. ASSUME NEW s \in Sessions, Scan(s) PROVE TrashInv'
  <2>1. ChosenName(NameOf[Path(s)], NamesUsed) \in AllNames \ NamesUsed
    BY <1>1, Chosen
  <2>2. NamesUsed \subseteq AllNames
    BY DEF NamesUsed
  <2> HIDE DEF TrashInv
  <2>3. TypeOK'
    BY <1>1, <2>1, <2>2 DEF TrashInv, TypeOK, Scan, Ended, Left
  <2>4. NameIsNew'
    BY <1>1, <2>1 DEF TrashInv, TypeOK, NameIsNew, Scan
  <2> QED
    BY <2>3, <2>4 DEF TrashInv
<1>2. ASSUME NEW s \in Sessions, todo[s] # <<>>, Return(s),
             UNCHANGED <<disk, files>>, info' \in [AllNames -> Paths \cup {Elsewhere, "empty", Nothing}]
      PROVE  TrashInv'
  <2>1. Tail(todo[s]) \in Left(s)
    BY <1>2, FirstLeft DEF TypeOK
  <2>2. \A t \in Sessions : Left(t)' = Left(t)
    BY DEF Left
  <2>3. TypeOK'
    BY <1>2, <2>1, <2>2 DEF TypeOK, Return, Ended
  <2>4. NameIsNew'
    BY <1>2 DEF TypeOK, NameIsNew, Return
  <2> QED
    BY <2>3, <2>4
<1>3. ASSUME NEW s \in Sessions, ScanFails(s) PROVE TrashInv'
  <2>1. CASE Return(s)
    BY <1>2, <1>3, <2>1 DEF ScanFails, TypeOK
  <2>2. CASE ~Return(s)
    BY <1>3, <2>2 DEF ScanFails, TypeOK, NameIsNew, Ended, Left
  <2> QED
    BY <2>1, <2>2
<1>4. ASSUME NEW s \in Sessions, Rename(s) PROVE TrashInv'
  <2>1. Path(s) \in Paths /\ file[s] \in AllNames
    BY <1>4, FirstLeft DEF TypeOK, NameIsNew, Rename
  <2> QED
    BY <1>4, <2>1 DEF Rename, TypeOK, NameIsNew, Ended, Left
<1>5. ASSUME NEW s \in Sessions, OpenInfo(s) PROVE TrashInv'
  BY <1>5 DEF OpenInfo, TypeOK, NameIsNew, Ended, Left
<1>6. ASSUME NEW s \in Sessions, WriteInfo(s) PROVE TrashInv'
  <2>1. todo[s] # <<>> /\ Path(s) \in Paths /\ file[s] \in AllNames
    BY <1>6, FirstLeft DEF TypeOK, NameIsNew, WriteInfo
  <2>2. CASE Return(s)
    <3>1. info' \in [AllNames -> Paths \cup {Elsewhere, "empty", Nothing}]
      BY <1>6, <2>1 DEF WriteInfo, TypeOK
    <3> QED
      BY <1>2, <1>6, <2>1, <2>2, <3>1 DEF WriteInfo
  <2>3. CASE ~Return(s)
    BY <1>6, <2>3 DEF WriteInfo, TypeOK, NameIsNew, Ended, Left
  <2> QED
    BY <2>2, <2>3
<1>7. ASSUME NEW s \in Sessions, Finish(s) PROVE TrashInv'
  BY <1>7 DEF Finish, TypeOK, NameIsNew, Ended, Left
<1>8. CASE UNCHANGED vars
  BY <1>8 DEF vars, TypeOK, NameIsNew, Left
<1> QED
  BY <1>1, <1>3, <1>4, <1>5, <1>6, <1>7, <1>8 DEF Next, Step

\* Every variable keeps its type, and each session takes its paths in order
\* (ssu_find.c, lines 378-429).
THEOREM TypeCorrect == Spec => []TypeOK
<1>1. TrashInv => TypeOK
  BY DEF TrashInv
<1> QED
  BY <1>1, InvInit, InvNext, PTL DEF Spec

\* For any number of sessions and any names: a file in the trash is replaced
\* only by a session that read the directory before that file came, although the
\* loop steps over the first entry after a collision and itoa turns 10 into 0
\* (ssu_find.c, lines 396-417 and 435).
THEOREM OnlyUnseenReplaced == Spec => ReplacedOnlyUnseen
<1> DEFINE Unseen ==
      \A n \in AllNames : files[n] # Nothing /\ files'[n] # files[n] =>
        \E s \in Sessions : pc[s] = "rename" /\ file[s] = n /\ n \notin listing[s]
<1>1. TrashInv /\ [Next]_vars => [Unseen]_files
  <2> SUFFICES ASSUME TrashInv, [Next]_vars, files' # files PROVE Unseen
    OBVIOUS
  <2>1. PICK s \in Sessions : Rename(s)
    BY DEF vars, Next, Step, Scan, ScanFails, OpenInfo, WriteInfo, Finish
  <2>2. \A n \in AllNames : files'[n] # files[n] => n = file[s]
    BY <2>1 DEF Rename, TrashInv, TypeOK
  <2> QED
    BY <2>1, <2>2 DEF Rename, TrashInv, NameIsNew
<1> QED
  BY <1>1, InvInit, InvNext, PTL DEF Spec, ReplacedOnlyUnseen

(***************************************************************************)
(* A session alone.                                                        *)
(***************************************************************************)

\* A session that never started.
Idle(s) == pc[s] = "done" /\ todo[s] = Jobs[s] /\ Jobs[s] # <<>>

\* What holds of the trash as long as one session has it to itself: a name stays
\* free until the rename, and then has the file or nothing; and every file that
\* is there has its record, but for the one at hand or at the end of the program.
AloneInv ==
  /\ \A s \in Sessions : pc[s] = "rename" => files[file[s]] = Nothing
  /\ \A s \in Sessions : pc[s] \in {"open", "write"} => files[file[s]] \in {Nothing, Path(s)}
  /\ \A p \in Paths : p \in disk \/ \E n \in AllNames : files[n] = p
  /\ \A n \in AllNames : files[n] # Nothing =>
       \/ info[n] = files[n]
       \/ \E s \in Sessions : pc[s] \in {"open", "write", "exit1", "crashed"} /\ file[s] = n

\* A session that is still alone after a step of s was alone before, with
\* everyone but s idle.
LEMMA StaysAlone ==
  ASSUME TypeOK, NEW s \in Sessions, Step(s), Alone'
  PROVE  Alone /\ \A t \in Sessions \ {s} : Idle(t) /\ pc'[t] = pc[t] /\ file'[t] = file[t]
<1>1. \A t \in Sessions \ {s} : pc'[t] = pc[t] /\ todo'[t] = todo[t] /\ file'[t] = file[t]
  BY DEF TypeOK, Step, Scan, ScanFails, Return, Rename, OpenInfo, WriteInfo, Finish
<1>2. pc'[s] = "done" => todo[s] = <<>> /\ todo'[s] = todo[s]
  BY DEF TypeOK, Step, Scan, ScanFails, Return, Rename, OpenInfo, WriteInfo, Finish
<1>3. \A t \in Sessions \ {s} : Idle(t)
  BY <1>1, <1>2 DEF Alone, Idle
<1> QED
  BY <1>1, <1>3 DEF Alone, Idle

\* The invariant of a session alone holds at the start.
LEMMA AloneInit == Init => AloneInv
<1> SUFFICES ASSUME Init PROVE AloneInv
  OBVIOUS
<1>1. \A s \in Sessions : pc[s] \notin {"rename", "open", "write"}
  BY DEF Init
<1> QED
  BY <1>1 DEF Init, AloneInv

\* Every step preserves it.
LEMMA AloneNext ==
  TrashInv /\ (Alone => AloneInv) /\ [Next]_vars => (Alone => AloneInv)'
<1> SUFFICES ASSUME TrashInv, Alone => AloneInv, [Next]_vars, Alone' PROVE AloneInv'
  OBVIOUS
<1>1. CASE UNCHANGED vars
  BY <1>1 DEF vars, AloneInv, Alone, Path
<1>2. ASSUME NEW s \in Sessions, Step(s) PROVE AloneInv'
  <2>1. AloneInv /\ \A t \in Sessions \ {s} : pc[t] = "done" /\ pc'[t] = pc[t] /\ file'[t] = file[t]
    BY <1>2, StaysAlone DEF TrashInv, Idle
  <2> HIDE DEF Alone
  <2>2. CASE Scan(s)
    <3>1. pc'[s] = "rename" /\ file'[s] = ChosenName(NameOf[Path(s)], NamesUsed)
      BY <2>2 DEF Scan, TrashInv, TypeOK
    <3>2. files[file'[s]] = Nothing
      BY <2>2, <3>1, Chosen DEF TrashInv, NamesUsed
    <3>3. pc[s] = "scan" /\ UNCHANGED <<disk, files, info>>
      BY <2>2 DEF Scan
    <3> QED
      BY <2>1, <3>1, <3>2, <3>3 DEF AloneInv
  <2>3. CASE ScanFails(s)
    <3>1. pc[s] = "scan" /\ pc'[s] \in {"scan", "exit1"} /\ UNCHANGED <<disk, files, info>>
      BY <2>3 DEF ScanFails, Return, TrashInv, TypeOK
    <3> QED
      BY <2>1, <3>1 DEF AloneInv
  <2>4. CASE Rename(s)
    <3>1. pc[s] = "rename" /\ pc'[s] = "open" /\ file' = file /\ todo' = todo /\ info' = info
      BY <2>4 DEF Rename, TrashInv, TypeOK
    <3>2. file[s] \in AllNames /\ files[file[s]] = Nothing
      BY <2>1, <3>1 DEF AloneInv, TrashInv, NameIsNew
    <3>3. /\ \A n \in AllNames \ {file[s]} : files'[n] = files[n]
          /\ files'[file[s]] \in {Nothing, Path(s)}
          /\ \A p \in disk \ disk' : files'[file[s]] = p
      BY <2>4, <3>2 DEF Rename, TrashInv, TypeOK
    <3>4. Path(s)' = Path(s)
      BY <3>1 DEF Path
    <3>5. \A p \in Paths : p # Nothing
      BY JobsAssumption
    <3> QED
      BY <2>1, <3>1, <3>2, <3>3, <3>4, <3>5 DEF AloneInv
  <2>5. CASE OpenInfo(s)
    <3>1. /\ pc[s] = "open" /\ pc'[s] \in {"write", "crashed"}
          /\ file' = file /\ todo' = todo /\ UNCHANGED <<disk, files>>
          /\ \A n \in AllNames \ {file[s]} : info'[n] = info[n]
      BY <2>5 DEF OpenInfo, TrashInv, TypeOK
    <3>2. Path(s)' = Path(s)
      BY <3>1 DEF Path
    <3> QED
      BY <2>1, <3>1, <3>2 DEF AloneInv
  <2>6. CASE WriteInfo(s)
    <3>1. pc[s] = "write" /\ UNCHANGED <<disk, files>>
      BY <2>6 DEF WriteInfo
    <3>2. file[s] \in AllNames
      BY <3>1 DEF TrashInv, NameIsNew
    <3>3. CASE Return(s)
      <4>1. pc'[s] = "scan" /\ info' = [info EXCEPT ![file[s]] = Path(s)]
        BY <2>6, <3>3 DEF WriteInfo, Return, TrashInv, TypeOK
      <4>2. \A n \in AllNames : info'[n] = IF n = file[s] THEN Path(s) ELSE info[n]
        BY <3>2, <4>1 DEF TrashInv, TypeOK
      <4> QED
        BY <2>1, <3>1, <3>2, <4>1, <4>2 DEF AloneInv
    <3>4. CASE ~Return(s)
      <4>1. pc'[s] = "exit1" /\ UNCHANGED <<info, todo, file>>
        BY <2>6, <3>4 DEF WriteInfo, TrashInv, TypeOK
      <4> QED
        BY <2>1, <3>1, <4>1 DEF AloneInv
    <3> QED
      BY <3>3, <3>4
  <2>7. CASE Finish(s)
    <3>1. pc[s] = "scan" /\ pc'[s] = "done" /\ UNCHANGED <<disk, files, info>>
      BY <2>7 DEF Finish, TrashInv, TypeOK
    <3> QED
      BY <2>1, <3>1 DEF AloneInv
  <2> QED
    BY <1>2, <2>2, <2>3, <2>4, <2>5, <2>6, <2>7 DEF Step
<1> QED
  BY <1>1, <1>2 DEF Next

\* A session alone loses no file, whatever it moves, whatever is in the trash, and
\* wherever rename and the others fail (ssu_find.c, lines 390-428).
THEOREM AloneLosesNothing == Spec => []NothingLost
<1>1. (Alone => AloneInv) => NothingLost
  BY DEF AloneInv, NothingLost
<1> QED
  BY <1>1, InvInit, InvNext, AloneInit, AloneNext, PTL DEF Spec

\* A session alone records where each file came from (ssu_find.c, lines 418-428).
THEOREM OriginIsTold == Spec => []InfoTellsOrigin
<1>1. (Alone => AloneInv) => InfoTellsOrigin
  BY DEF AloneInv, InfoTellsOrigin
<1> QED
  BY <1>1, InvInit, InvNext, AloneInit, AloneNext, PTL DEF Spec
=============================================================================
