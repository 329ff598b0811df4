--------------------------- MODULE LineDiffProofs ---------------------------
(***************************************************************************)
(* Proofs about LineDiff, for files of any length.  Where no line is blank *)
(* the passes match equal lines in order, the blocks turn the first file   *)
(* into the second, and equal files are never called different.            *)
(***************************************************************************)
EXTENDS LineDiff, FiniteSetTheorems, WellFoundedInduction, TLAPS

\* A set of numbers has a least one.
LEMMA Least ==
  ASSUME NEW T \in SUBSET Nat, T # {}
  PROVE  \E n \in T : \A m \in T : n <= m
<1> DEFINE R == OpToRel(<, Nat)
<1>1. IsWellFoundedOn(R, Nat)
  BY NatLessThanWellFounded DEF OpToRel
<1>2. R = {ss \in Nat \X Nat : ss[1] < ss[2]}
  BY DEF OpToRel
<1> HIDE DEF R
<1>3. PICK n \in T : \A m \in T : <<m, n>> \notin R
  BY <1>1, WFMin
<1>4. \A m \in T : ~(m < n)
  BY <1>2, <1>3
<1> QED
  BY <1>4

\* A set of line numbers has a greatest one.
LEMMA Greatest ==
  ASSUME NEW N \in Nat, NEW T \in SUBSET (1..N), T # {}
  PROVE  \E m \in T : \A n \in T : n <= m
<1> DEFINE U == {N - m : m \in T}
<1>1. U \in SUBSET Nat /\ U # {}
  <2>1. \A m \in T : m \in 1..N /\ N - m \in Nat
    OBVIOUS
  <2>2. PICK m \in T : TRUE
    OBVIOUS
  <2>3. N - m \in U
    OBVIOUS
  <2> QED BY <2>1, <2>3
<1>2. PICK u \in U : \A v \in U : u <= v
  BY <1>1, Least
<1>3. PICK m \in T : u = N - m
  BY <1>2
<1>4. \A n \in T : N - m <= N - n
  BY <1>2, <1>3
<1> QED
  BY <1>4

\* A file is a sequence of at most MaxLines lines.
LEMMA FileLines ==
  ASSUME NEW f \in Files
  PROVE  /\ Len(f) \in 0..MaxLines
         /\ DOMAIN f = 1..Len(f)
         /\ f \in [1..Len(f) -> Lines]
<1>1. PICK n \in 0..MaxLines : f \in [1..n -> Lines]
  BY DEF Files
<1>2. n \in Nat /\ f \in Seq(Lines)
  BY <1>1, LinesAssumption
<1>3. Len(f) = n
  BY <1>1, <1>2
<1> QED
  BY <1>1, <1>3

\* Both files, their lengths and the bound, as every proof below uses them.
LEMMA Lengths ==
  ASSUME TypeOK
  PROVE  /\ Len(x) \in Nat /\ Len(y) \in Nat /\ MaxLines \in Nat
         /\ Len(x) <= MaxLines /\ Len(y) <= MaxLines
         /\ x \in [1..Len(x) -> Lines] /\ y \in [1..Len(y) -> Lines]
BY FileLines, LinesAssumption DEF TypeOK

\* A function keeps its type when an element inside its domain gets a value of its
\* range.
LEMMA PutType ==
  ASSUME NEW S, NEW D, NEW f \in [D -> S], NEW m, NEW v, m \in D => v \in S
  PROVE  [f EXCEPT ![m] = v] \in [D -> S]
<1>1. CASE m \in D
  BY <1>1
<1>2. CASE m \notin D
  BY <1>2
<1> QED BY <1>1, <1>2

\* The types in either pass: what Marked and Advance give in either pass.
LEMMA MarkedType ==
  ASSUME NEW a \in Files, NEW b \in Files,
         NEW result \in [1..Len(a) -> 0..Len(b)], i \in Nat
  PROVE  Marked(a, b, result) \in [1..Len(a) -> 0..Len(b)]
<1>1. Len(a) \in Nat /\ Len(b) \in Nat
  BY FileLines, LinesAssumption
<1>2. CASE \E j \in 1..Len(b) : Meets(a, b, j)
  <2> DEFINE j == CHOOSE k \in 1..Len(b) : Meets(a, b, k)
  <2>1. j \in 1..Len(b)
    BY <1>2
  <2> HIDE DEF j
  <2>2. i - 1 \in 1..Len(a) => BlankBefore(b, j, result) \in 0..Len(b)
    BY <1>1, <2>1 DEF BlankBefore
  <2>3. [result EXCEPT ![i] = j] \in [1..Len(a) -> 0..Len(b)]
    <3>1. j \in 0..Len(b)
      BY <1>1, <2>1
    <3> QED BY <3>1, PutType
  <2>4. [result EXCEPT ![i] = j, ![i - 1] = BlankBefore(b, j, result)]
          \in [1..Len(a) -> 0..Len(b)]
    <3> DEFINE g == [result EXCEPT ![i] = j]
               w == BlankBefore(b, j, result)
    <3>1. g \in [1..Len(a) -> 0..Len(b)] /\ (i - 1 \in 1..Len(a) => w \in 0..Len(b))
      BY <2>2, <2>3
    <3> HIDE DEF g, w
    <3>2. [g EXCEPT ![i - 1] = w] \in [1..Len(a) -> 0..Len(b)]
      BY <3>1, PutType
    <3> QED BY <3>2 DEF g, w
  <2>5. Marked(a, b, result) =
          IF line_before_is_n
          THEN [result EXCEPT ![i] = j, ![i - 1] = BlankBefore(b, j, result)]
          ELSE [result EXCEPT ![i] = j]
    BY <1>2 DEF Marked, j
  <2> QED BY <2>3, <2>4, <2>5
<1>3. CASE ~\E j \in 1..Len(b) : Meets(a, b, j)
  <2>1. Marked(a, b, result) = [result EXCEPT ![i] = 0]
    BY <1>3 DEF Marked
  <2>2. Len(a) \in Nat /\ 0 \in 0..Len(b)
    BY <1>1
  <2> QED BY <2>1, <2>2, PutType
<1> QED BY <1>2, <1>3

LEMMA AdvanceType ==
  ASSUME NEW a \in Files, NEW b \in Files, i \in 1..Len(a),
         start \in 1..(MaxLines + 1), line_before_is_n \in BOOLEAN, Advance(a, b)
  PROVE  /\ i' \in 1..(MaxLines + 1)
         /\ start' \in 1..(MaxLines + 1)
         /\ line_before_is_n' \in BOOLEAN
<1>1. /\ Len(a) \in Nat /\ Len(b) \in Nat /\ MaxLines \in Nat
      /\ Len(a) <= MaxLines /\ Len(b) <= MaxLines
  BY FileLines, LinesAssumption
<1>2. i' = i + 1
  BY DEF Advance
<1>3. CASE \E j \in 1..Len(b) :
             /\ line_before_is_n' = (a[i] = Blank)
             /\ start' = IF a[i] = Blank THEN start ELSE j + 1
  BY <1>1, <1>2, <1>3
<1>4. CASE UNCHANGED <<line_before_is_n, start>>
  BY <1>1, <1>2, <1>4
<1> QED BY <1>3, <1>4 DEF Advance
-----------------------------------------------------------------------------
LEMMA InitType == Init => TypeOK
<1> SUFFICES ASSUME Init PROVE TypeOK
  OBVIOUS
<1>1. Len(x) \in Nat /\ Len(y) \in Nat /\ MaxLines \in Nat
  BY FileLines, LinesAssumption DEF Init
<1>2. block \in Blocks
  <2>1. 0 \in 0..(MaxLines + 1)
    BY <1>1
  <2> QED BY <2>1 DEF Init, Blocks
<1>3. result1 \in [1..Len(x) -> 0..Len(y)] /\ result2 \in [1..Len(y) -> 0..Len(x)]
  BY <1>1 DEF Init
<1>4. i \in 1..(MaxLines + 1) /\ start \in 1..(MaxLines + 1)
  BY <1>1 DEF Init
<1>5. out \in Seq(Hunks)
  BY DEF Init
<1> QED BY <1>2, <1>3, <1>4, <1>5 DEF Init, TypeOK

\* print_block writes commands, and lines of the second file below them.
LEMMA HunkType ==
  ASSUME TypeOK, NEW b \in Blocks, b[4] <= Len(y) + 1
  PROVE  Hunk(b) \in Hunks
<1>1. b[1] \in Int /\ b[2] \in Int /\ b[3] \in Nat /\ b[4] \in Nat
  BY LinesAssumption DEF Blocks
<1>2. Command(b) \in Commands
  BY <1>1 DEF Command, Commands
<1>3. Header(b) \in Seq(Commands)
  BY <1>2 DEF Header
<1>4. y \in Seq(Lines)
  <2>1. y \in [1..Len(y) -> Lines] /\ Len(y) \in Nat
    BY Lengths
  <2> QED BY <2>1
<1>5. SubSeq(y, b[3] + 1, b[4] - 1) \in Seq(Lines)
  BY <1>1, <1>4
<1> QED BY <1>3, <1>5 DEF Hunk, Hunks

\* print_block is given line numbers from 0 to one behind the last line.
LEMMA PrintType ==
  ASSUME TypeOK, NEW k \in 0..(MaxLines + 1), NEW l \in 0..(MaxLines + 1),
         l <= Len(y) + 1, block' = Shifted(k, l), out' = PrintBlock(block')
  PROVE  block' \in Blocks /\ out' \in Seq(Hunks)
<1>1. block[2] \in 0..(MaxLines + 1) /\ block[4] \in 0..(MaxLines + 1)
  BY DEF TypeOK, Blocks
<1>2. block' \in Blocks /\ block'[4] = l
  BY <1>1 DEF Shifted, Blocks
<1>3. out \in Seq(Hunks)
  BY DEF TypeOK
<1>4. Hunk(block') \in Hunks
  BY <1>2, HunkType
<1>5. Append(out, Hunk(block')) \in Seq(Hunks)
  BY <1>3, <1>4
<1> QED BY <1>2, <1>3, <1>5 DEF PrintBlock

\* The exchange of the matchings: of the lines of y that match a line of x one
\* is the last.
LEMMA ChooseMatch ==
  ASSUME TypeOK, NEW k \in 1..Len(x), NEW from,
         from = {m \in DOMAIN result2 : result2[m] = k}, from # {}
  PROVE  /\ (CHOOSE m \in from : \A n \in from : n <= m) \in from
         /\ from \subseteq 1..Len(y)
<1>1. from \in SUBSET (1..Len(y)) /\ Len(y) \in Nat
  BY Lengths DEF TypeOK
<1> QED BY <1>1, Greatest

LEMMA ChooseType ==
  ASSUME TypeOK, Choose
  PROVE  result1' \in [1..Len(x) -> 0..Len(y)]
<1>1. CASE Unmatched(result1) > Unmatched(result2)
  <2> DEFINE from(k) == {m \in DOMAIN result2 : result2[m] = k}
             last(k) == IF from(k) = {} THEN 0
                        ELSE CHOOSE m \in from(k) : \A n \in from(k) : n <= m
  <2>1. result1' = [k \in 1..Len(x) |-> last(k)]
    BY <1>1 DEF Choose, TypeOK
  <2>2. \A k \in 1..Len(x) : last(k) \in 0..Len(y)
    <3> TAKE k \in 1..Len(x)
    <3> DEFINE F == from(k)
    <3>1. F = {m \in DOMAIN result2 : result2[m] = k}
      OBVIOUS
    <3> HIDE DEF F
    <3>2. CASE F = {}
      BY <3>2, Lengths DEF F
    <3>3. CASE F # {}
      <4>1. (CHOOSE m \in F : \A n \in F : n <= m) \in 1..Len(y)
        BY <3>1, <3>3, ChooseMatch
      <4> QED BY <3>3, <4>1, Lengths DEF F
    <3> QED BY <3>2, <3>3
  <2> HIDE DEF last
  <2> QED BY <2>1, <2>2
<1>2. CASE ~(Unmatched(result1) > Unmatched(result2))
  BY <1>2 DEF Choose, TypeOK
<1> QED BY <1>1, <1>2

LEMMA StepType == TypeOK /\ [Next]_vars => TypeOK'
<1> SUFFICES ASSUME TypeOK, [Next]_vars PROVE TypeOK'
  OBVIOUS
<1>0. /\ Len(x) \in Nat /\ Len(y) \in Nat /\ MaxLines \in Nat
      /\ Len(x) <= MaxLines /\ Len(y) <= MaxLines
  BY Lengths
<1>1. CASE MatchFirst
  <2>1. i \in 1..Len(x) /\ i \in Nat
    BY <1>0, <1>1 DEF MatchFirst, TypeOK
  <2>2. result1' \in [1..Len(x) -> 0..Len(y)]
    BY <1>1, <2>1, MarkedType DEF MatchFirst, TypeOK
  <2>3. /\ i' \in 1..(MaxLines + 1) /\ start' \in 1..(MaxLines + 1)
        /\ line_before_is_n' \in BOOLEAN
    BY <1>1, <2>1, AdvanceType DEF MatchFirst, TypeOK
  <2> QED BY <1>1, <2>2, <2>3 DEF MatchFirst, TypeOK, files
<1>2. CASE FirstDone
  <2>1. i' = 1 /\ start' = 1 /\ line_before_is_n' = FALSE /\ pc' = "second"
    BY <1>2 DEF FirstDone, NextPass
  <2>2. 1 \in 1..(MaxLines + 1)
    BY <1>0
  <2>3. UNCHANGED <<x, y, caller, result1, result2, block, out, verdict>>
    BY <1>2 DEF FirstDone, files
  <2> QED BY <2>1, <2>2, <2>3 DEF TypeOK
<1>3. CASE MatchSecond
  <2>1. i \in 1..Len(y) /\ i \in Nat
    BY <1>0, <1>3 DEF MatchSecond, TypeOK
  <2>2. result2' \in [1..Len(y) -> 0..Len(x)]
    BY <1>3, <2>1, MarkedType DEF MatchSecond, TypeOK
  <2>3. /\ i' \in 1..(MaxLines + 1) /\ start' \in 1..(MaxLines + 1)
        /\ line_before_is_n' \in BOOLEAN
    BY <1>3, <2>1, AdvanceType DEF MatchSecond, TypeOK
  <2> QED BY <1>3, <2>2, <2>3 DEF MatchSecond, TypeOK, files
<1>4. CASE SecondDone
  <2>1. i' = 1 /\ start' = 1 /\ line_before_is_n' = FALSE /\ pc' = "choose"
    BY <1>4 DEF SecondDone, NextPass
  <2>2. 1 \in 1..(MaxLines + 1)
    BY <1>0
  <2>3. UNCHANGED <<x, y, caller, result1, result2, block, out, verdict>>
    BY <1>4 DEF SecondDone, files
  <2> QED BY <2>1, <2>2, <2>3 DEF TypeOK
<1>5. CASE Choose
  <2>1. result1' \in [1..Len(x) -> 0..Len(y)]
    BY <1>5, ChooseType
  <2> QED BY <1>5, <2>1 DEF Choose, TypeOK, files
<1>6. CASE Return
  BY <1>6 DEF Return, TypeOK, files
<1>7. CASE PrintLine
  <2>1. i \in 1..Len(x) /\ result1[i] \in 0..Len(y)
    BY <1>0, <1>7 DEF PrintLine, TypeOK
  <2>2. block' \in Blocks /\ out' \in Seq(Hunks)
    <3>1. CASE result1[i] # 0
      BY <1>0, <1>7, <2>1, <3>1, PrintType DEF PrintLine
    <3>2. CASE result1[i] = 0
      BY <1>7, <3>2 DEF PrintLine, TypeOK
    <3> QED BY <3>1, <3>2
  <2>3. i' \in 1..(MaxLines + 1)
    BY <1>0, <1>7, <2>1 DEF PrintLine
  <2> QED BY <1>7, <2>2, <2>3 DEF PrintLine, TypeOK, files
<1>8. CASE PrintLast
  <2>1. block' \in Blocks /\ out' \in Seq(Hunks)
    BY <1>0, <1>8, PrintType DEF PrintLast
  <2> QED BY <1>8, <2>1 DEF PrintLast, TypeOK, files
<1>9. CASE UNCHANGED vars
  BY <1>9 DEF vars, TypeOK
<1> QED
  BY <1>1, <1>2, <1>3, <1>4, <1>5, <1>6, <1>7, <1>8, <1>9 DEF Next

\* Whatever the files hold, blank lines or not, no line number leaves them: the
\* passes, the exchange and the blocks stay between 0 and one behind the last line.
THEOREM TypeCorrect == Spec => []TypeOK
BY InitType, StepType, PTL DEF Spec
-----------------------------------------------------------------------------
(***************************************************************************)
(* Files without blank lines.                                              *)
(***************************************************************************)
Plain == Blank \notin Lines

\* A pass that has come to line i: a matching of the lines in front of i with
\* lines in front of start.
Underway(a, b, result) ==
  /\ IsMatching(a, b, result)
  /\ \A k \in DOMAIN result : result[k] < start /\ (k >= i => result[k] = 0)

\* In equal files every line in front of i has matched itself.
SelfMatched ==
  x = y =>
    /\ pc = "first" => start = i /\ \A k \in 1..(i - 1) : result1[k] = k
    /\ pc \in {"second", "choose"} => \A k \in DOMAIN result1 : result1[k] = k
    /\ verdict # "different"

MatchInv ==
  /\ TypeOK
  /\ Matched
  /\ pc \in {"first", "second"} => line_before_is_n = FALSE
  /\ pc = "first" => Underway(x, y, result1) /\ \A l \in DOMAIN result2 : result2[l] = 0
  /\ pc = "second" => Underway(y, x, result2)
  /\ SelfMatched

\* One turn of either loop finds the first line from start on that is equal to
\* line i, or none.
LEMMA PlainTurn ==
  ASSUME Plain, NEW a \in Files, NEW b \in Files,
         NEW result \in [1..Len(a) -> 0..Len(b)], i \in 1..Len(a),
         line_before_is_n = FALSE, Advance(a, b)
  PROVE  /\ i' = i + 1 /\ line_before_is_n' = FALSE
         /\ \/ \E j \in 1..Len(b) :
                 /\ Meets(a, b, j)
                 /\ Marked(a, b, result) = [result EXCEPT ![i] = j]
                 /\ start' = j + 1
            \/ /\ ~\E j \in 1..Len(b) : Meets(a, b, j)
               /\ Marked(a, b, result) = [result EXCEPT ![i] = 0]
               /\ start' = start
<1>1. a[i] \in Lines /\ Len(b) \in Nat
  BY FileLines, LinesAssumption
<1>2. a[i] # Blank
  BY <1>1 DEF Plain
<1>3. i' = i + 1
  BY DEF Advance
<1>4. CASE \E j \in 1..Len(b) : Meets(a, b, j)
  <2> DEFINE m == CHOOSE k \in 1..Len(b) : Meets(a, b, k)
  <2>1. m \in 1..Len(b) /\ Meets(a, b, m)
    BY <1>4
  <2>2. Marked(a, b, result) = [result EXCEPT ![i] = m]
    BY <1>4 DEF Marked
  <2> HIDE DEF m
  <2>3. PICK j \in 1..Len(b) :
          Meets(a, b, j) /\ line_before_is_n' = (a[i] = Blank)
          /\ start' = IF a[i] = Blank THEN start ELSE j + 1
    BY <1>4 DEF Advance
  <2>4. j = m
    <3>1. ~(j < m) /\ ~(m < j)
      BY <1>1, <2>1, <2>3 DEF Meets
    <3> QED BY <1>1, <2>1, <2>3, <3>1
  <2> QED BY <1>2, <1>3, <2>1, <2>2, <2>3, <2>4
<1>5. CASE ~\E j \in 1..Len(b) : Meets(a, b, j)
  BY <1>3, <1>5 DEF Marked, Advance
<1> QED BY <1>4, <1>5

\* A turn keeps the matching one: the new pair comes behind all the others in
\* both files.
LEMMA TurnMatches ==
  ASSUME Plain, NEW a \in Files, NEW b \in Files,
         NEW result \in [1..Len(a) -> 0..Len(b)], i \in 1..Len(a),
         start \in Nat \ {0}, line_before_is_n = FALSE, Advance(a, b),
         Underway(a, b, result), NEW r, r = Marked(a, b, result)
  PROVE  /\ IsMatching(a, b, r)
         /\ \A k \in DOMAIN r : r[k] < start' /\ (k >= i' => r[k] = 0)
<1>1. Len(a) \in Nat /\ Len(b) \in Nat
  BY FileLines, LinesAssumption
<1>2. i' = i + 1
  BY PlainTurn
<1>3. CASE \E j \in 1..Len(b) :
             /\ Meets(a, b, j)
             /\ r = [result EXCEPT ![i] = j]
             /\ start' = j + 1
  <2>1. PICK j \in 1..Len(b) :
          Meets(a, b, j) /\ r = [result EXCEPT ![i] = j] /\ start' = j + 1
    BY <1>3
  <2>2. start <= j /\ b[j] = a[i]
    BY <1>1, <2>1 DEF Meets
  <2>3. \A k \in 1..Len(a) : r[k] = IF k = i THEN j ELSE result[k]
    BY <2>1
  <2>4. DOMAIN r = 1..Len(a) /\ DOMAIN result = 1..Len(a)
    BY <2>1
  <2>5. \A k \in 1..Len(a) : result[k] \in Nat /\ result[k] < start /\ (k >= i => result[k] = 0)
    BY <1>1, <2>4 DEF Underway
  <2>6. \A k \in 1..Len(a) : r[k] < start' /\ (k >= i' => r[k] = 0)
    BY <1>1, <1>2, <2>1, <2>2, <2>3, <2>5
  <2>7. \A k \in 1..Len(a) : r[k] # 0 => a[k] = b[r[k]]
    BY <2>2, <2>3, <2>4 DEF Underway, IsMatching
  <2>8. \A k, l \in 1..Len(a) : k < l /\ r[k] # 0 /\ r[l] # 0 => r[k] < r[l]
    <3> SUFFICES ASSUME NEW k \in 1..Len(a), NEW l \in 1..Len(a),
                        k < l, r[k] # 0, r[l] # 0
                 PROVE  r[k] < r[l]
      OBVIOUS
    <3>1. CASE l = i
      BY <1>1, <2>1, <2>2, <2>3, <2>5, <3>1
    <3>2. CASE l # i
      <4>1. l < i /\ k # i
        BY <1>1, <2>3, <2>5, <3>2
      <4> QED BY <2>3, <2>4, <3>2, <4>1 DEF Underway, IsMatching
    <3> QED BY <3>1, <3>2
  <2> QED BY <2>4, <2>6, <2>7, <2>8 DEF IsMatching
<1>4. CASE r = [result EXCEPT ![i] = 0] /\ start' = start
  <2>1. r = result
    BY <1>1, <1>4 DEF Underway
  <2>2. IsMatching(a, b, result)
    BY DEF Underway
  <2>3. \A k \in DOMAIN result : result[k] < start /\ (k >= i => result[k] = 0)
    BY DEF Underway
  <2>4. \A k \in DOMAIN result : k \in Nat
    BY <1>1
  <2>5. \A k \in DOMAIN result : k >= i' => result[k] = 0
    BY <1>1, <1>2, <2>3, <2>4
  <2> QED BY <1>4, <2>1, <2>2, <2>3, <2>5
<1> QED BY <1>3, <1>4, PlainTurn

\* In equal files the first line from start on that matches line start is that line.
LEMMA TurnSelf ==
  ASSUME Plain, TypeOK, x = y, i \in 1..Len(x), start = i,
         \A k \in 1..(i - 1) : result1[k] = k,
         line_before_is_n = FALSE, Advance(x, y),
         NEW r, r = Marked(x, y, result1)
  PROVE  start' = i' /\ \A k \in 1..(i' - 1) : r[k] = k
<1>1. Len(x) \in Nat /\ result1 \in [1..Len(x) -> 0..Len(y)]
  BY Lengths DEF TypeOK
<1>2. Meets(x, y, i)
  BY <1>1 DEF Meets
<1>3. \A j \in 1..Len(y) : Meets(x, y, j) => j = i
  <2> TAKE j \in 1..Len(y)
  <2>1. Meets(x, y, j) => ~(i < j) /\ ~(j < i)
    BY <1>1 DEF Meets
  <2> QED BY <1>1, <2>1
<1>4. r = [result1 EXCEPT ![i] = i] /\ start' = i + 1 /\ i' = i + 1
  BY <1>1, <1>2, <1>3, PlainTurn DEF TypeOK
<1> QED BY <1>1, <1>4

\* The exchange turns a matching of y with x round.
LEMMA ChooseMatches ==
  ASSUME TypeOK, Matched, Choose
  PROVE  IsMatching(x, y, result1')
<1>0. Len(x) \in Nat /\ Len(y) \in Nat
  BY Lengths
<1>1. CASE Unmatched(result1) > Unmatched(result2)
  <2> DEFINE from(k) == {m \in DOMAIN result2 : result2[m] = k}
             last(k) == IF from(k) = {} THEN 0
                        ELSE CHOOSE m \in from(k) : \A n \in from(k) : n <= m
  <2>1. result1' = [k \in 1..Len(x) |-> last(k)]
    BY <1>1 DEF Choose, TypeOK
  <2>2. \A k \in 1..Len(x) : last(k) # 0 => last(k) \in 1..Len(y) /\ result2[last(k)] = k
    <3> SUFFICES ASSUME NEW k \in 1..Len(x), last(k) # 0
                 PROVE  last(k) \in 1..Len(y) /\ result2[last(k)] = k
      OBVIOUS
    <3> DEFINE F == from(k)
    <3>1. F = {m \in DOMAIN result2 : result2[m] = k}
      OBVIOUS
    <3>2. F # {} /\ last(k) = CHOOSE m \in F : \A n \in F : n <= m
      OBVIOUS
    <3> HIDE DEF F, last
    <3>3. last(k) \in F /\ F \subseteq 1..Len(y)
      BY <3>1, <3>2, ChooseMatch
    <3> QED BY <3>1, <3>3
  <2> HIDE DEF last
  <2>3. DOMAIN result2 = 1..Len(y) /\ DOMAIN result1' = 1..Len(x)
    BY <2>1 DEF TypeOK
  <2>4. \A k \in 1..Len(x) : last(k) # 0 => x[k] = y[last(k)]
    BY <2>2, <2>3 DEF Matched, IsMatching
  <2>5. \A k, l \in 1..Len(x) : k < l /\ last(k) # 0 /\ last(l) # 0 => last(k) < last(l)
    <3> SUFFICES ASSUME NEW k \in 1..Len(x), NEW l \in 1..Len(x),
                        k < l, last(k) # 0, last(l) # 0, ~(last(k) < last(l))
                 PROVE  FALSE
      OBVIOUS
    <3>1. /\ last(k) \in 1..Len(y) /\ result2[last(k)] = k
          /\ last(l) \in 1..Len(y) /\ result2[last(l)] = l
      BY <2>2
    <3>2. last(k) # last(l)
      BY <3>1, <1>0
    <3>3. last(l) < last(k)
      BY <1>0, <3>1, <3>2
    <3>4. k # 0 /\ l # 0
      BY <1>0
    <3>5. l < k
      BY <2>3, <3>1, <3>3, <3>4 DEF Matched, IsMatching
    <3> QED BY <1>0, <3>5
  <2> QED BY <2>1, <2>3, <2>4, <2>5 DEF IsMatching
<1>2. CASE ~(Unmatched(result1) > Unmatched(result2))
  BY <1>2 DEF Choose, Matched
<1> QED BY <1>1, <1>2

LEMMA InitMatch == Init => MatchInv
<1> SUFFICES ASSUME Init PROVE MatchInv
  OBVIOUS
<1>1. TypeOK
  BY InitType
<1>2. DOMAIN result1 = 1..Len(x) /\ DOMAIN result2 = 1..Len(y)
  BY DEF Init
<1>3. \A k \in DOMAIN result1 : result1[k] = 0
  BY DEF Init
<1>4. \A k \in DOMAIN result2 : result2[k] = 0
  BY DEF Init
<1>5. Matched
  BY <1>3, <1>4 DEF Matched, IsMatching
<1>6. Underway(x, y, result1)
  BY <1>3, <1>5 DEF Underway, Matched, Init
<1>7. SelfMatched
  BY DEF SelfMatched, Init
<1> QED BY <1>1, <1>4, <1>5, <1>6, <1>7 DEF MatchInv, Init

\* From the end of the second pass on only Choose changes a matching.
LEMMA StepMatch == Plain /\ MatchInv /\ [Next]_vars => MatchInv'
<1> SUFFICES ASSUME Plain, MatchInv, [Next]_vars PROVE MatchInv'
  OBVIOUS
<1>0. TypeOK /\ TypeOK'
  BY StepType DEF MatchInv
<1>1. /\ Len(x) \in Nat /\ Len(y) \in Nat
      /\ DOMAIN result1 = 1..Len(x) /\ DOMAIN result2 = 1..Len(y)
      /\ x \in Files /\ y \in Files
      /\ result1 \in [1..Len(x) -> 0..Len(y)] /\ result2 \in [1..Len(y) -> 0..Len(x)]
      /\ i \in Nat \ {0} /\ start \in Nat \ {0}
  BY <1>0, Lengths DEF TypeOK
<1>2. CASE MatchFirst
  <2>1. /\ i \in 1..Len(x) /\ line_before_is_n = FALSE /\ Underway(x, y, result1)
        /\ Advance(x, y) /\ result1' = Marked(x, y, result1)
        /\ pc = "first" /\ pc' = "first" /\ x' = x /\ y' = y
        /\ result2' = result2 /\ verdict' = verdict
    BY <1>1, <1>2 DEF MatchFirst, MatchInv, files
  <2>2. /\ IsMatching(x, y, result1')
        /\ \A k \in DOMAIN result1' : result1'[k] < start' /\ (k >= i' => result1'[k] = 0)
    <3> DEFINE r == Marked(x, y, result1)
    <3> HIDE DEF r
    <3>1. /\ IsMatching(x, y, r)
          /\ \A k \in DOMAIN r : r[k] < start' /\ (k >= i' => r[k] = 0)
      BY <1>1, <2>1, TurnMatches DEF r
    <3>2. result1' = r
      BY <2>1 DEF r
    <3> QED BY <3>1, <3>2
  <2>3. Underway(x, y, result1)'
    BY <2>1, <2>2 DEF Underway, IsMatching
  <2>4. line_before_is_n' = FALSE
    BY <1>1, <2>1, PlainTurn
  <2>5. Matched'
    BY <2>1, <2>2 DEF MatchInv, Matched, IsMatching
  <2>6. SelfMatched'
    <3> SUFFICES ASSUME x' = y'
                 PROVE  /\ start' = i' /\ \A k \in 1..(i' - 1) : result1'[k] = k
                        /\ verdict' # "different"
      BY <2>1 DEF SelfMatched
    <3>1. start = i /\ (\A k \in 1..(i - 1) : result1[k] = k) /\ verdict # "different"
      BY <2>1 DEF MatchInv, SelfMatched
    <3> QED BY <1>0, <2>1, <3>1, TurnSelf
  <2> QED BY <1>0, <2>1, <2>3, <2>4, <2>5, <2>6 DEF MatchInv
<1>3. CASE FirstDone
  <2>1. /\ pc = "first" /\ pc' = "second" /\ i > Len(x)
        /\ i' = 1 /\ start' = 1 /\ line_before_is_n' = FALSE
        /\ UNCHANGED <<x, y, result1, result2, verdict>>
    BY <1>3 DEF FirstDone, NextPass, files
  <2>2. \A l \in DOMAIN result2 : result2[l] = 0
    BY <2>1 DEF MatchInv
  <2>3. Matched'
    BY <2>1 DEF MatchInv, Matched, IsMatching
  <2>4. Underway(y, x, result2)'
    BY <2>1, <2>2, <2>3 DEF Underway, Matched
  <2>5. SelfMatched'
    BY <1>1, <2>1 DEF MatchInv, SelfMatched
  <2> QED BY <1>0, <2>1, <2>3, <2>4, <2>5 DEF MatchInv
<1>4. CASE MatchSecond
  <2>1. /\ i \in 1..Len(y) /\ line_before_is_n = FALSE /\ Underway(y, x, result2)
        /\ Advance(y, x) /\ result2' = Marked(y, x, result2)
        /\ pc = "second" /\ pc' = "second" /\ x' = x /\ y' = y
        /\ result1' = result1 /\ verdict' = verdict
    BY <1>1, <1>4 DEF MatchSecond, MatchInv, files
  <2>2. /\ IsMatching(y, x, result2')
        /\ \A k \in DOMAIN result2' : result2'[k] < start' /\ (k >= i' => result2'[k] = 0)
    <3> DEFINE r == Marked(y, x, result2)
    <3> HIDE DEF r
    <3>1. /\ IsMatching(y, x, r)
          /\ \A k \in DOMAIN r : r[k] < start' /\ (k >= i' => r[k] = 0)
      BY <1>1, <2>1, TurnMatches DEF r
    <3>2. result2' = r
      BY <2>1 DEF r
    <3> QED BY <3>1, <3>2
  <2>3. Underway(y, x, result2)'
    BY <2>1, <2>2 DEF Underway, IsMatching
  <2>4. line_before_is_n' = FALSE
    BY <1>1, <2>1, PlainTurn
  <2>5. Matched'
    BY <2>1, <2>2 DEF MatchInv, Matched, IsMatching
  <2>6. SelfMatched'
    BY <2>1 DEF MatchInv, SelfMatched
  <2> QED BY <1>0, <2>1, <2>3, <2>4, <2>5, <2>6 DEF MatchInv
<1>5. CASE SecondDone
  <2>1. /\ pc = "second" /\ pc' = "choose"
        /\ UNCHANGED <<x, y, result1, result2, verdict>>
    BY <1>5 DEF SecondDone, files
  <2>2. Matched' /\ SelfMatched'
    BY <2>1 DEF MatchInv, Matched, IsMatching, SelfMatched
  <2> QED BY <1>0, <2>1, <2>2 DEF MatchInv
<1>6. CASE Choose
  <2>1. /\ pc = "choose" /\ pc' = "print"
        /\ UNCHANGED <<x, y, result2, verdict>>
    BY <1>6 DEF Choose, files
  <2>2. IsMatching(x, y, result1')
    BY <1>0, <1>6, ChooseMatches DEF MatchInv
  <2>3. Matched'
    BY <2>1, <2>2 DEF MatchInv, Matched, IsMatching
  <2>4. SelfMatched'
    BY <2>1 DEF MatchInv, SelfMatched
  <2> QED BY <1>0, <2>1, <2>3, <2>4 DEF MatchInv
<1>7. CASE Return
  <2>1. /\ pc = "choose" /\ pc' = "done"
        /\ UNCHANGED <<x, y, result1, result2>>
    BY <1>7 DEF Return, files
  <2>2. Matched'
    BY <2>1 DEF MatchInv, Matched, IsMatching
  <2>3. x = y => verdict' # "different"
    <3> SUFFICES ASSUME x = y PROVE verdict' # "different"
      OBVIOUS
    <3>1. \A k \in DOMAIN result1 : result1[k] # 0
      BY <1>1, <2>1 DEF MatchInv, SelfMatched
    <3>2. {k \in DOMAIN result1 : result1[k] = 0} = {}
      BY <3>1
    <3>3. Unmatched(result1) = 0
      BY <3>2, FS_EmptySet DEF Unmatched
    <3> QED BY <1>7, <3>3 DEF Return
  <2>4. SelfMatched'
    BY <2>1, <2>3 DEF SelfMatched
  <2> QED BY <1>0, <2>1, <2>2, <2>4 DEF MatchInv
<1>8. CASE PrintLine
  <2>1. /\ pc = "print" /\ pc' = "print"
        /\ UNCHANGED <<x, y, result1, result2, verdict>>
    BY <1>8 DEF PrintLine, files
  <2>2. Matched' /\ SelfMatched'
    BY <2>1 DEF MatchInv, Matched, IsMatching, SelfMatched
  <2> QED BY <1>0, <2>1, <2>2 DEF MatchInv
<1>9. CASE PrintLast
  <2>1. /\ pc = "print" /\ pc' = "done"
        /\ UNCHANGED <<x, y, result1, result2, verdict>>
    BY <1>9 DEF PrintLast, files
  <2>2. Matched' /\ SelfMatched'
    BY <2>1 DEF MatchInv, Matched, IsMatching, SelfMatched
  <2> QED BY <1>0, <2>1, <2>2 DEF MatchInv
<1>10. CASE UNCHANGED vars
  <2>1. UNCHANGED <<pc, x, y, i, start, line_before_is_n, result1, result2, verdict>>
    BY <1>10 DEF vars
  <2>2. Matched' /\ SelfMatched'
    BY <2>1 DEF MatchInv, Matched, IsMatching, SelfMatched
  <2> QED BY <1>0, <2>1, <2>2 DEF MatchInv, Underway, IsMatching
<1> QED
  BY <1>2, <1>3, <1>4, <1>5, <1>6, <1>7, <1>8, <1>9, <1>10 DEF Next

LEMMA MatchAlways == ASSUME Plain PROVE Spec => []MatchInv
<1>1. Init => MatchInv
  BY InitMatch
<1>2. MatchInv /\ [Next]_vars => MatchInv'
  BY StepMatch
<1> QED BY <1>1, <1>2, PTL DEF Spec

\* In files of any length without a blank line every pair the passes mark are
\* equal lines, and the pairs cross nowhere.
THEOREM MatchesInOrder == ASSUME Plain PROVE Spec => []Matched
<1>1. MatchInv => Matched
  BY DEF MatchInv
<1> QED BY <1>1, MatchAlways, PTL

\* A file of any length without a blank line never differs from its copy.
THEOREM EqualIsSame == ASSUME Plain PROVE Spec => []EqualNotDifferent
<1>1. MatchInv => EqualNotDifferent
  BY DEF MatchInv, SelfMatched, EqualNotDifferent
<1> QED BY <1>1, MatchAlways, PTL
-----------------------------------------------------------------------------
(***************************************************************************)
(* The blocks.                                                             *)
(***************************************************************************)

\* The lines f..p of x are the lines g..q of y.
Stretch(f, g, p, q) ==
  /\ f \in Nat \ {0} /\ g \in Nat \ {0} /\ p \in Nat /\ q \in Nat
  /\ f <= p + 1 /\ p - f = q - g
  /\ p <= Len(x) /\ q <= Len(y)
  /\ \A d \in f..p : x[d] = y[d - f + g]

\* The last line of y in front of what a command adds, deletes or changes.
UpToInY(h) == IF CommandOf(h).op = "d" THEN CommandOf(h).at ELSE CommandOf(h).at - 1

\* Where both files go on behind the first k blocks of o.
FromX(o, k) == IF k = 0 THEN 1 ELSE CommandOf(o[k]).upto + 1
FromY(o, k) == IF k = 0 THEN 1 ELSE CommandOf(o[k]).til + 1

\* Between two blocks both files are the same, and a block shows the lines of y
\* in between.
Bridged(o) ==
  \A k \in 1..Len(o) :
    /\ Stretch(FromX(o, k - 1), FromY(o, k - 1), KeptUpTo(o[k]), UpToInY(o[k]))
    /\ FromY(o, k) \in Nat
    /\ UpToInY(o[k]) < FromY(o, k) /\ FromY(o, k) <= Len(y) + 1
    /\ o[k].added = SubSeq(y, UpToInY(o[k]) + 1, FromY(o, k) - 1)

\* They are the same behind the last block of o, up to the lines p and q.
Caught(o, p, q) == Stretch(FromX(o, Len(o)), FromY(o, Len(o)), p, q)

BlocksInv ==
  /\ pc \in {"first", "second", "choose"} => block = <<0, 0, 0, 0>> /\ out = <<>>
  /\ pc = "choose" => i = 1
  /\ pc = "print" =>
       /\ Bridged(out) /\ Caught(out, block[2], block[4])
       /\ block[2] < i
       /\ \/ block[2] = 0 /\ block[4] = 0
          \/ block[2] \in DOMAIN result1 /\ result1[block[2]] = block[4] /\ block[4] # 0
  /\ pc = "done" /\ caller = "ssu_diff" => Bridged(out) /\ Caught(out, Len(x), Len(y))

LEMMA SameLines ==
  ASSUME NEW u \in Seq(Lines), NEW v \in Seq(Lines), Len(u) = Len(v),
         \A k \in 1..Len(u) : u[k] = v[k]
  PROVE  u = v
  OBVIOUS

LEMMA JoinedLines ==
  ASSUME NEW u \in Seq(Lines), NEW v \in Seq(Lines)
  PROVE  /\ u \o v \in Seq(Lines) /\ Len(u \o v) = Len(u) + Len(v)
         /\ \A k \in 1..(Len(u) + Len(v)) :
              (u \o v)[k] = IF k <= Len(u) THEN u[k] ELSE v[k - Len(u)]
<1>1. u \o v \in Seq(Lines) /\ Len(u \o v) = Len(u) + Len(v)
  OBVIOUS
<1>2. ASSUME NEW k \in 1..(Len(u) + Len(v)), k <= Len(u) PROVE (u \o v)[k] = u[k]
  BY <1>2
<1>3. ASSUME NEW k \in 1..(Len(u) + Len(v)), ~(k <= Len(u)) PROVE (u \o v)[k] = v[k - Len(u)]
  BY <1>3
<1> QED BY <1>1, <1>2, <1>3

\* Two parts of a sequence that follow one another are one.
LEMMA PartsJoin ==
  ASSUME NEW s \in Seq(Lines), NEW g \in Nat \ {0}, NEW q \in Nat, g <= q + 1, q <= Len(s)
  PROVE  SubSeq(s, 1, g - 1) \o SubSeq(s, g, q) = SubSeq(s, 1, q)
<1> DEFINE a == SubSeq(s, 1, g - 1)
           b == SubSeq(s, g, q)
           c == SubSeq(s, 1, q)
<1>0. Len(s) \in Nat /\ g - 1 \in Nat /\ q - g + 1 \in Nat
  OBVIOUS
<1>1. a \in Seq(Lines) /\ Len(a) = g - 1 /\ \A k \in 1..(g - 1) : a[k] = s[k]
  <2> DEFINE h == g - 1
  <2>1. h \in Nat /\ h <= Len(s)
    BY <1>0
  <2> HIDE DEF h
  <2>2. SubSeq(s, 1, h) \in Seq(Lines) /\ Len(SubSeq(s, 1, h)) = h
        /\ \A k \in 1..h : SubSeq(s, 1, h)[k] = s[k]
    BY <1>0, <2>1
  <2> QED BY <2>2 DEF h
<1>2. b \in Seq(Lines) /\ Len(b) = q - g + 1 /\ \A k \in 1..(q - g + 1) : b[k] = s[g + k - 1]
  BY <1>0
<1>3. c \in Seq(Lines) /\ Len(c) = q /\ \A k \in 1..q : c[k] = s[k]
  BY <1>0
<1> HIDE DEF a, b, c
<1>4. a \o b \in Seq(Lines) /\ Len(a \o b) = q
      /\ \A k \in 1..q : (a \o b)[k] = IF k <= Len(a) THEN a[k] ELSE b[k - Len(a)]
  <2>1. a \o b \in Seq(Lines) /\ Len(a \o b) = Len(a) + Len(b)
        /\ \A k \in 1..(Len(a) + Len(b)) :
             (a \o b)[k] = IF k <= Len(a) THEN a[k] ELSE b[k - Len(a)]
    BY <1>1, <1>2, JoinedLines
  <2>2. Len(a) + Len(b) = q
    BY <1>0, <1>1, <1>2
  <2> QED BY <2>1, <2>2
<1>5. \A k \in 1..q : (a \o b)[k] = s[k]
  <2> TAKE k \in 1..q
  <2>1. CASE k <= g - 1
    <3>1. k \in 1..(g - 1)
      BY <2>1
    <3> QED BY <1>1, <1>4, <2>1, <3>1
  <2>2. CASE ~(k <= g - 1)
    <3> DEFINE m == k - (g - 1)
    <3>1. m \in 1..(q - g + 1) /\ g + m - 1 = k
      BY <2>2
    <3> HIDE DEF m
    <3>2. b[m] = s[k]
      BY <1>2, <3>1
    <3> QED BY <1>1, <1>4, <2>2, <3>2 DEF m
  <2> QED BY <2>1, <2>2
<1>6. a \o b = c
  <2> DEFINE w == a \o b
  <2>1. w \in Seq(Lines) /\ Len(w) = Len(c) /\ \A k \in 1..Len(w) : w[k] = c[k]
    BY <1>3, <1>4, <1>5
  <2> HIDE DEF w
  <2>2. w = c
    BY <1>3, <2>1, SameLines
  <2> QED BY <2>2 DEF w
<1> QED BY <1>6 DEF a, b, c

\* A stretch reads the same in both files.
LEMMA StretchSame ==
  ASSUME NEW f, NEW g, NEW p, NEW q, Stretch(f, g, p, q),
         x \in Seq(Lines), y \in Seq(Lines)
  PROVE  SubSeq(x, f, p) = SubSeq(y, g, q)
<1> DEFINE a == SubSeq(x, f, p)
           b == SubSeq(y, g, q)
<1>0. /\ f \in Nat \ {0} /\ g \in Nat \ {0} /\ p \in Nat /\ q \in Nat
      /\ f <= p + 1 /\ p - f = q - g /\ p <= Len(x) /\ q <= Len(y)
      /\ \A d \in f..p : x[d] = y[d - f + g]
  BY DEF Stretch
<1>1. a \in Seq(Lines) /\ Len(a) = p - f + 1 /\ \A k \in 1..(p - f + 1) : a[k] = x[f + k - 1]
  BY <1>0
<1>2. b \in Seq(Lines) /\ Len(b) = q - g + 1 /\ \A k \in 1..(q - g + 1) : b[k] = y[g + k - 1]
  BY <1>0
<1> HIDE DEF a, b
<1>3. Len(a) = Len(b)
  BY <1>0, <1>1, <1>2
<1>4. \A k \in 1..Len(a) : a[k] = b[k]
  <2> TAKE k \in 1..Len(a)
  <2> DEFINE d == f + k - 1
  <2>1. d \in f..p /\ d - f + g = g + k - 1 /\ k \in 1..(q - g + 1)
    BY <1>0, <1>1
  <2>2. x[d] = y[d - f + g]
    BY <1>0, <2>1
  <2> QED BY <1>1, <1>2, <2>1, <2>2
<1>5. a = b
  BY <1>1, <1>2, <1>3, <1>4, SameLines
<1> QED BY <1>5 DEF a, b

LEMMA BothAreLines ==
  ASSUME TypeOK
  PROVE  x \in Seq(Lines) /\ y \in Seq(Lines) /\ Len(x) \in Nat /\ Len(y) \in Nat
<1>1. \A f \in Files : f \in Seq(Lines)
  <2> TAKE f \in Files
  <2>1. f \in [1..Len(f) -> Lines] /\ Len(f) \in Nat
    BY FileLines, LinesAssumption
  <2> QED BY <2>1
<1> QED BY <1>1, Lengths DEF TypeOK

\* What the blocks make of x, taken one by one, is y as far as it goes.
LEMMA ScriptRebuilds ==
  ASSUME TypeOK, Bridged(out), Caught(out, Len(x), Len(y))
  PROVE  Rebuilt = y
<1> DEFINE n == Len(out)
           piece(p, k) ==
             IF k = 0 THEN <<>>
             ELSE p[k - 1] \o SubSeq(x, FromX(out, k - 1), KeptUpTo(out[k])) \o out[k].added
           part == CHOOSE p : p = [k \in 0..n |-> piece(p, k)]
           made == [k \in 0..n |-> SubSeq(y, 1, FromY(out, k) - 1)]
<1>0. x \in Seq(Lines) /\ y \in Seq(Lines) /\ Len(x) \in Nat /\ Len(y) \in Nat /\ n \in Nat
  BY BothAreLines DEF TypeOK
<1>1. Rebuilt = part[n] \o SubSeq(x, FromX(out, n), Len(x))
  BY DEF Rebuilt, FromX
<1>2. ASSUME NEW k \in 1..n
      PROVE  made[k] = made[k - 1] \o SubSeq(x, FromX(out, k - 1), KeptUpTo(out[k]))
                                   \o out[k].added
  <2> DEFINE f == FromX(out, k - 1)
             g == FromY(out, k - 1)
             p == KeptUpTo(out[k])
             q == UpToInY(out[k])
             r == FromY(out, k)
  <2>1. /\ Stretch(f, g, p, q) /\ r \in Nat /\ q < r /\ r <= Len(y) + 1
        /\ out[k].added = SubSeq(y, q + 1, r - 1)
    BY DEF Bridged
  <2>2. made[k - 1] = SubSeq(y, 1, g - 1) /\ made[k] = SubSeq(y, 1, r - 1)
    <3>1. k \in 0..n /\ k - 1 \in 0..n
      BY <1>0
    <3> QED BY <3>1
  <2> HIDE DEF f, g, p, q, r, made
  <2>3. SubSeq(x, f, p) = SubSeq(y, g, q)
    BY <1>0, <2>1, StretchSame
  <2>4. g \in Nat \ {0} /\ q \in Nat /\ g <= q + 1 /\ q <= Len(y)
    BY <2>1 DEF Stretch
  <2>5. SubSeq(y, 1, g - 1) \o SubSeq(y, g, q) = SubSeq(y, 1, q)
    BY <1>0, <2>4, PartsJoin
  <2>6. SubSeq(y, 1, q) \o SubSeq(y, q + 1, r - 1) = SubSeq(y, 1, r - 1)
    <3> DEFINE h == q + 1
               e == r - 1
    <3>1. h \in Nat \ {0} /\ e \in Nat /\ h <= e + 1 /\ e <= Len(y) /\ h - 1 = q
      BY <1>0, <2>1, <2>4
    <3> HIDE DEF h, e
    <3>2. SubSeq(y, 1, h - 1) \o SubSeq(y, h, e) = SubSeq(y, 1, e)
      BY <1>0, <3>1, PartsJoin
    <3> QED BY <3>1, <3>2 DEF h, e
  <2> QED BY <2>1, <2>2, <2>3, <2>5, <2>6 DEF f, p
<1>3. made[0] = <<>>
  <2>1. 0 \in 0..n /\ FromY(out, 0) = 1
    BY <1>0 DEF FromY
  <2>2. made[0] = SubSeq(y, 1, 0)
    BY <2>1
  <2>3. SubSeq(y, 1, 0) = <<>>
    BY <1>0
  <2> QED BY <2>2, <2>3
<1>4. made = [k \in 0..n |-> piece(made, k)]
  <2>1. \A k \in 0..n : made[k] = piece(made, k)
    <3> TAKE k \in 0..n
    <3>1. CASE k = 0
      BY <1>3, <3>1
    <3>2. CASE k # 0
      <4>1. k \in 1..n
        BY <1>0, <3>2
      <4>2. made[k] = made[k - 1] \o SubSeq(x, FromX(out, k - 1), KeptUpTo(out[k]))
                                  \o out[k].added
        BY <1>2, <4>1
      <4> HIDE DEF made
      <4> QED BY <3>2, <4>2
    <3> QED BY <3>1, <3>2
  <2>2. made = [k \in 0..n |-> made[k]]
    OBVIOUS
  <2> HIDE DEF made, piece
  <2> QED BY <2>1, <2>2
<1>5. part = [k \in 0..n |-> piece(part, k)]
  <2> HIDE DEF made, piece
  <2> QED BY <1>4
<1> HIDE DEF part, made
<1>6. \A k \in 0..n : part[k] = piece(part, k) /\ made[k] = piece(made, k)
  BY <1>4, <1>5
<1> DEFINE Bad == {k \in 0..n : part[k] # made[k]}
<1>7. Bad = {}
  <2> SUFFICES ASSUME Bad # {} PROVE FALSE
    OBVIOUS
  <2>1. PICK k \in Bad : \A l \in Bad : k <= l
    <3>1. Bad \in SUBSET Nat
      BY <1>0
    <3> QED BY <3>1, Least
  <2>2. k # 0
    BY <1>6, <2>1
  <2>3. k - 1 \in 0..n /\ k - 1 \notin Bad
    BY <1>0, <2>1, <2>2
  <2>4. part[k - 1] = made[k - 1]
    BY <2>3
  <2>5. part[k] = made[k]
    BY <1>6, <2>1, <2>4
  <2> QED BY <2>1, <2>5
<1>8. part[n] = SubSeq(y, 1, FromY(out, n) - 1)
  <2>1. n \in 0..n
    BY <1>0
  <2>2. part[n] = made[n]
    BY <1>7, <2>1
  <2> QED BY <2>1, <2>2 DEF made
<1>9. SubSeq(x, FromX(out, n), Len(x)) = SubSeq(y, FromY(out, n), Len(y))
  BY <1>0, StretchSame DEF Caught
<1>10. SubSeq(y, 1, FromY(out, n) - 1) \o SubSeq(y, FromY(out, n), Len(y)) = SubSeq(y, 1, Len(y))
  <2> DEFINE g == FromY(out, n)
  <2>1. g \in Nat \ {0} /\ g <= Len(y) + 1
    BY DEF Caught, Stretch
  <2> DEFINE e == Len(y)
  <2>2. e \in Nat /\ e <= Len(y) /\ g <= e + 1
    BY <1>0, <2>1
  <2> HIDE DEF g, e
  <2>3. SubSeq(y, 1, g - 1) \o SubSeq(y, g, e) = SubSeq(y, 1, e)
    BY <1>0, <2>1, <2>2, PartsJoin
  <2> QED BY <2>3 DEF g, e
<1>11. SubSeq(y, 1, Len(y)) = y
  BY <1>0
<1> QED BY <1>1, <1>8, <1>9, <1>10, <1>11

\* Whichever of its headers print_block chooses, the command says where both
\* files stand in front of the block and behind it.
LEMMA HunkReads ==
  ASSUME NEW b, b[1] \in Nat, b[2] \in Nat, b[3] \in Nat, b[4] \in Nat,
         b[1] < b[2], b[3] < b[4], ~(b[2] - b[1] = 1 /\ b[4] - b[3] = 1),
         NEW h, h = Hunk(b)
  PROVE  /\ KeptUpTo(h) = b[1] /\ CommandOf(h).upto + 1 = b[2]
         /\ UpToInY(h) = b[3] /\ CommandOf(h).til + 1 = b[4]
         /\ h.added = SubSeq(y, b[3] + 1, b[4] - 1)
<1>1. CommandOf(h) = Command(b)
  <2>1. h.header = Header(b)
    BY DEF Hunk
  <2>2. Header(b)[Len(Header(b))] = Command(b)
    BY DEF Header
  <2> QED BY <2>1, <2>2 DEF CommandOf
<1>2. h.added = SubSeq(y, b[3] + 1, b[4] - 1)
  BY DEF Hunk
<1>3. /\ (IF Command(b).op = "a" THEN Command(b).from ELSE Command(b).from - 1) = b[1]
      /\ Command(b).upto + 1 = b[2]
      /\ (IF Command(b).op = "d" THEN Command(b).at ELSE Command(b).at - 1) = b[3]
      /\ Command(b).til + 1 = b[4]
  <2>1. CASE b[1] + 1 = b[2]
    BY <2>1 DEF Command
  <2>2. CASE b[1] + 1 # b[2] /\ b[3] + 1 = b[4]
    BY <2>2 DEF Command
  <2>3. CASE b[1] + 1 # b[2] /\ b[3] + 1 # b[4]
    BY <2>3 DEF Command
  <2> QED BY <2>1, <2>2, <2>3
<1> QED BY <1>1, <1>2, <1>3 DEF KeptUpTo, UpToInY

\* One more block, after a stretch that both files share.
LEMMA OneMoreBlock ==
  ASSUME NEW o \in Seq(Hunks), Bridged(o), NEW h \in Hunks,
         NEW p, NEW q, NEW k \in Nat, NEW l \in Nat, Caught(o, p, q), q < l, l <= Len(y) + 1,
         KeptUpTo(h) = p, UpToInY(h) = q,
         CommandOf(h).upto + 1 = k, CommandOf(h).til + 1 = l,
         h.added = SubSeq(y, q + 1, l - 1)
  PROVE  /\ Bridged(Append(o, h))
         /\ FromX(Append(o, h), Len(Append(o, h))) = k
         /\ FromY(Append(o, h), Len(Append(o, h))) = l
<1> DEFINE w == Append(o, h)
           n == Len(o)
<1>1. /\ n \in Nat /\ Len(w) = n + 1 /\ w[n + 1] = h
      /\ \A m \in 1..n : w[m] = o[m]
  OBVIOUS
<1> HIDE DEF w, n
<1>2. FromX(w, n + 1) = k /\ FromY(w, n + 1) = l
  BY <1>1 DEF FromX, FromY
<1>3. \A m \in 0..n : FromX(w, m) = FromX(o, m) /\ FromY(w, m) = FromY(o, m)
  BY <1>1 DEF FromX, FromY
<1>4. ASSUME NEW m \in 1..Len(w)
      PROVE  /\ Stretch(FromX(w, m - 1), FromY(w, m - 1), KeptUpTo(w[m]), UpToInY(w[m]))
             /\ FromY(w, m) \in Nat
             /\ UpToInY(w[m]) < FromY(w, m) /\ FromY(w, m) <= Len(y) + 1
             /\ w[m].added = SubSeq(y, UpToInY(w[m]) + 1, FromY(w, m) - 1)
  <2>1. m - 1 \in 0..n
    BY <1>1
  <2>2. CASE m = n + 1
    <3>1. m - 1 = n /\ w[m] = h /\ FromY(w, m) = l
      BY <1>1, <1>2, <2>2
    <3>2. FromX(w, m - 1) = FromX(o, n) /\ FromY(w, m - 1) = FromY(o, n)
      BY <1>3, <2>1, <3>1
    <3>3. Stretch(FromX(o, n), FromY(o, n), p, q)
      BY DEF Caught, n
    <3> QED BY <3>1, <3>2, <3>3
  <2>3. CASE m \in 1..n
    <3>1. w[m] = o[m] /\ FromY(w, m) = FromY(o, m) /\ FromX(w, m - 1) = FromX(o, m - 1)
          /\ FromY(w, m - 1) = FromY(o, m - 1)
      BY <1>1, <1>3, <2>1, <2>3
    <3> QED BY <2>3, <3>1 DEF Bridged, n
  <2> QED BY <1>1, <2>2, <2>3
<1>5. Bridged(w)
  BY <1>4 DEF Bridged
<1> QED BY <1>1, <1>2, <1>5 DEF w

\* print_block keeps the blocks bridged, and both files are the same behind them.
LEMMA PrintBridges ==
  ASSUME TypeOK, Bridged(out), Caught(out, block[2], block[4]),
         NEW k \in Nat, NEW l \in Nat, block[2] < k, block[4] < l,
         k <= Len(x) + 1, l <= Len(y) + 1,
         NEW b, b = Shifted(k, l), NEW o, o = PrintBlock(b)
  PROVE  /\ Bridged(o)
         /\ \/ FromX(o, Len(o)) = k /\ FromY(o, Len(o)) = l
            \/ o = out /\ k = block[2] + 1 /\ l = block[4] + 1
<1>0. /\ out \in Seq(Hunks) /\ block \in Blocks
      /\ Len(x) \in Nat /\ Len(y) \in Nat /\ MaxLines \in Nat
      /\ Len(x) <= MaxLines /\ Len(y) <= MaxLines
  BY Lengths DEF TypeOK
<1>1. block[2] \in Nat /\ block[4] \in Nat
      /\ block[2] \in 0..(MaxLines + 1) /\ block[4] \in 0..(MaxLines + 1)
  BY <1>0 DEF Blocks
<1>2. k \in 0..(MaxLines + 1) /\ l \in 0..(MaxLines + 1)
  BY <1>0
<1>3. b \in Blocks /\ b[1] = block[2] /\ b[2] = k /\ b[3] = block[4] /\ b[4] = l
  BY <1>1, <1>2 DEF Shifted, Blocks
<1>4. CASE b[2] - b[1] = 1 /\ b[4] - b[3] = 1
  <2>1. o = out
    BY <1>4 DEF PrintBlock
  <2>2. k = block[2] + 1 /\ l = block[4] + 1
    BY <1>1, <1>3, <1>4
  <2> QED BY <2>1, <2>2
<1>5. CASE ~(b[2] - b[1] = 1 /\ b[4] - b[3] = 1)
  <2> DEFINE h == Hunk(b)
  <2>1. o = Append(out, h)
    BY <1>5 DEF PrintBlock
  <2>2. h \in Hunks
    BY <1>3, HunkType
  <2>3. /\ KeptUpTo(h) = b[1] /\ CommandOf(h).upto + 1 = b[2]
        /\ UpToInY(h) = b[3] /\ CommandOf(h).til + 1 = b[4]
        /\ h.added = SubSeq(y, b[3] + 1, b[4] - 1)
    BY <1>1, <1>3, <1>5, HunkReads
  <2>4. Caught(out, b[1], b[3]) /\ b[3] < b[4] /\ b[4] <= Len(y) + 1
    BY <1>3
  <2> DEFINE p == b[1]
             q == b[3]
             kk == b[2]
             ll == b[4]
  <2>5. /\ kk \in Nat /\ ll \in Nat /\ Caught(out, p, q) /\ q < ll /\ ll <= Len(y) + 1
        /\ KeptUpTo(h) = p /\ UpToInY(h) = q
        /\ CommandOf(h).upto + 1 = kk /\ CommandOf(h).til + 1 = ll
        /\ h.added = SubSeq(y, q + 1, ll - 1)
    BY <1>3, <2>3, <2>4
  <2> HIDE DEF h, p, q, kk, ll
  <2>6. /\ Bridged(Append(out, h))
        /\ FromX(Append(out, h), Len(Append(out, h))) = kk
        /\ FromY(Append(out, h), Len(Append(out, h))) = ll
    BY <1>0, <2>2, <2>5, OneMoreBlock
  <2> QED BY <1>3, <2>1, <2>6 DEF kk, ll
<1> QED BY <1>4, <1>5

\* One more matched pair at the end of a stretch, or the first of the next.
LEMMA StretchGrows ==
  ASSUME NEW f, NEW g, NEW p, NEW q, Stretch(f, g, p, q), Len(x) \in Nat, Len(y) \in Nat,
         p + 1 <= Len(x), q + 1 <= Len(y), x[p + 1] = y[q + 1]
  PROVE  Stretch(f, g, p + 1, q + 1)
<1>1. /\ f \in Nat \ {0} /\ g \in Nat \ {0} /\ p \in Nat /\ q \in Nat
      /\ f <= p + 1 /\ p - f = q - g
      /\ \A d \in f..p : x[d] = y[d - f + g]
  BY DEF Stretch
<1>2. \A d \in f..(p + 1) : x[d] = y[d - f + g]
  <2> TAKE d \in f..(p + 1)
  <2>1. CASE d = p + 1
    <3>1. d - f + g = q + 1
      BY <1>1, <2>1
    <3> QED BY <2>1, <3>1
  <2>2. CASE d \in f..p
    BY <1>1, <2>2
  <2> QED BY <1>1, <2>1, <2>2
<1> QED BY <1>1, <1>2 DEF Stretch

LEMMA StretchStarts ==
  ASSUME NEW k \in 1..Len(x), NEW l \in 1..Len(y), Len(x) \in Nat, Len(y) \in Nat, x[k] = y[l]
  PROVE  Stretch(k, l, k, l)
<1>1. \A d \in k..k : d = k /\ d - k + l = l
  OBVIOUS
<1> QED BY <1>1 DEF Stretch

\* The blocks keep to it through a step that leaves the files alone.
LEMMA SameFiles ==
  ASSUME x' = x, y' = y, NEW o, Bridged(o), o = out'
  PROVE  Bridged(out)'
  BY DEF Bridged, Stretch, FromX, FromY

LEMMA InitBlocks == Init => BlocksInv
  BY DEF Init, BlocksInv

LEMMA StepBlocks == TypeOK /\ Matched /\ BlocksInv /\ [Next]_vars => BlocksInv'
<1> SUFFICES ASSUME TypeOK, Matched, BlocksInv, [Next]_vars PROVE BlocksInv'
  OBVIOUS
<1>0. /\ Len(x) \in Nat /\ Len(y) \in Nat /\ DOMAIN result1 = 1..Len(x)
      /\ result1 \in [1..Len(x) -> 0..Len(y)] /\ i \in Nat
      /\ block[2] \in Nat /\ block[4] \in Nat /\ out \in Seq(Hunks)
  BY Lengths DEF TypeOK, Blocks
<1>1. CASE MatchFirst
  BY <1>1 DEF MatchFirst, BlocksInv
<1>2. CASE FirstDone
  BY <1>2 DEF FirstDone, BlocksInv
<1>3. CASE MatchSecond
  BY <1>3 DEF MatchSecond, BlocksInv
<1>4. CASE SecondDone
  BY <1>4 DEF SecondDone, NextPass, BlocksInv
<1>5. CASE Choose
  <2>1. /\ pc = "choose" /\ pc' = "print" /\ UNCHANGED <<x, y, caller, i, block, out>>
    BY <1>5 DEF Choose, files
  <2>2. block = <<0, 0, 0, 0>> /\ out = <<>> /\ i = 1
    BY <2>1 DEF BlocksInv
  <2>3. Bridged(out)
    BY <2>2 DEF Bridged
  <2>4. Bridged(out)'
    BY <2>1, <2>3, SameFiles
  <2>5. Caught(out, block[2], block[4])
    <3>1. FromX(out, Len(out)) = 1 /\ FromY(out, Len(out)) = 1
      BY <2>2 DEF FromX, FromY
    <3>2. Stretch(1, 1, 0, 0)
      BY <1>0 DEF Stretch
    <3> QED BY <2>2, <3>1, <3>2 DEF Caught
  <2>6. Caught(out, block[2], block[4])'
    BY <2>1, <2>5 DEF Caught, Stretch, FromX, FromY
  <2> QED BY <2>1, <2>2, <2>4, <2>6 DEF BlocksInv
<1>6. CASE Return
  BY <1>6 DEF Return, BlocksInv, files
<1>7. CASE PrintLine
  <2>1. /\ pc = "print" /\ pc' = "print" /\ i <= Len(x) /\ i' = i + 1
        /\ UNCHANGED <<x, y, caller, result1>>
    BY <1>7 DEF PrintLine, files
  <2>2. /\ Bridged(out) /\ Caught(out, block[2], block[4])
        /\ block[2] < i
        /\ \/ block[2] = 0 /\ block[4] = 0
           \/ block[2] \in DOMAIN result1 /\ result1[block[2]] = block[4] /\ block[4] # 0
    BY <2>1 DEF BlocksInv
  <2>3. CASE result1[i] = 0
    <3>1. UNCHANGED <<block, out>>
      BY <1>7, <2>3 DEF PrintLine
    <3>2. Bridged(out)'
      BY <2>1, <2>2, <3>1, SameFiles
    <3>3. Caught(out, block[2], block[4])'
      BY <2>1, <2>2, <3>1 DEF Caught, Stretch, FromX, FromY
    <3> QED BY <1>0, <2>1, <2>2, <3>1, <3>2, <3>3 DEF BlocksInv
  <2>4. CASE result1[i] # 0
    <3> DEFINE m == result1[i]
               b == Shifted(i, m)
               o == PrintBlock(b)
    <3>1. block' = b /\ out' = o
      BY <1>7, <2>4 DEF PrintLine, PrintBlock
    <3>2. i \in 1..Len(x) /\ m \in 1..Len(y) /\ x[i] = y[m]
      BY <1>0, <2>1, <2>2, <2>4 DEF Matched, IsMatching
    <3>3. block[4] < m
      BY <1>0, <2>2, <2>4, <3>2 DEF Matched, IsMatching
    <3>4. b[2] = i /\ b[4] = m
      BY DEF Shifted
    <3> HIDE DEF b, o, m
    <3>5. /\ Bridged(o)
          /\ \/ FromX(o, Len(o)) = i /\ FromY(o, Len(o)) = m
             \/ o = out /\ i = block[2] + 1 /\ m = block[4] + 1
      <4>1. m \in Nat /\ i <= Len(x) + 1 /\ m <= Len(y) + 1
        BY <1>0, <3>2
      <4> QED BY <1>0, <2>2, <3>2, <3>3, <4>1, PrintBridges DEF b, o
    <3>6. Caught(o, i, m)
      <4>1. CASE FromX(o, Len(o)) = i /\ FromY(o, Len(o)) = m
        BY <1>0, <3>2, <4>1, StretchStarts DEF Caught
      <4>2. CASE o = out /\ i = block[2] + 1 /\ m = block[4] + 1
        <5>1. Stretch(FromX(o, Len(o)), FromY(o, Len(o)), block[2], block[4])
          BY <2>2, <4>2 DEF Caught
        <5>2. /\ block[2] + 1 <= Len(x) /\ block[4] + 1 <= Len(y)
              /\ x[block[2] + 1] = y[block[4] + 1]
          BY <3>2, <4>2
        <5> QED BY <1>0, <4>2, <5>1, <5>2, StretchGrows DEF Caught
      <4> QED BY <3>5, <4>1, <4>2
    <3>7. Bridged(out)'
      BY <2>1, <3>1, <3>5, SameFiles
    <3>8. Caught(out, block[2], block[4])'
      BY <2>1, <3>1, <3>4, <3>6 DEF Caught, Stretch, FromX, FromY
    <3>9. block'[2] < i' /\ block'[2] \in DOMAIN result1' /\ result1'[block'[2]] = block'[4]
          /\ block'[4] # 0
      BY <1>0, <2>1, <3>1, <3>2, <3>4 DEF m
    <3> QED BY <2>1, <3>7, <3>8, <3>9 DEF BlocksInv
  <2> QED BY <2>3, <2>4
<1>8. CASE PrintLast
  <2>1. /\ pc = "print" /\ pc' = "done" /\ UNCHANGED <<x, y, caller>>
        /\ i > Len(x)
    BY <1>8 DEF PrintLast, files
  <2>2. /\ Bridged(out) /\ Caught(out, block[2], block[4])
        /\ \/ block[2] = 0 /\ block[4] = 0
           \/ block[2] \in DOMAIN result1 /\ result1[block[2]] = block[4] /\ block[4] # 0
    BY <2>1 DEF BlocksInv
  <2> DEFINE k == Len(x) + 1
             l == Len(y) + 1
             b == Shifted(k, l)
             o == PrintBlock(b)
  <2>3. out' = o
    BY <1>8 DEF PrintLast, PrintBlock
  <2>4. block[2] < k /\ block[4] < l
    BY <1>0, <2>2
  <2>5. k \in Nat /\ l \in Nat /\ k <= Len(x) + 1 /\ l <= Len(y) + 1
    BY <1>0
  <2> HIDE DEF k, l, b, o
  <2>6. /\ Bridged(o)
        /\ \/ FromX(o, Len(o)) = k /\ FromY(o, Len(o)) = l
           \/ o = out /\ k = block[2] + 1 /\ l = block[4] + 1
    BY <2>2, <2>4, <2>5, PrintBridges DEF b, o
  <2>7. Caught(o, Len(x), Len(y))
    <3>1. CASE FromX(o, Len(o)) = k /\ FromY(o, Len(o)) = l
      <4>1. Stretch(k, l, Len(x), Len(y))
        BY <1>0 DEF Stretch, k, l
      <4> QED BY <3>1, <4>1 DEF Caught
    <3>2. CASE o = out /\ k = block[2] + 1 /\ l = block[4] + 1
      <4>1. block[2] = Len(x) /\ block[4] = Len(y)
        BY <1>0, <3>2 DEF k, l
      <4> QED BY <2>2, <3>2, <4>1
    <3> QED BY <2>6, <3>1, <3>2
  <2>8. Bridged(out)'
    BY <2>1, <2>3, <2>6, SameFiles
  <2>9. Caught(out, Len(x), Len(y))'
    BY <2>1, <2>3, <2>7 DEF Caught, Stretch, FromX, FromY
  <2> QED BY <2>1, <2>8, <2>9 DEF BlocksInv
<1>9. CASE UNCHANGED vars
  <2>1. UNCHANGED <<x, y, caller, pc, i, result1, block, out>>
    BY <1>9 DEF vars
  <2>2. Bridged(out) => Bridged(out)'
    BY <2>1, SameFiles
  <2>3. Caught(out, block[2], block[4]) => Caught(out, block[2], block[4])'
    BY <2>1 DEF Caught, Stretch, FromX, FromY
  <2>4. Caught(out, Len(x), Len(y)) => Caught(out, Len(x), Len(y))'
    BY <2>1 DEF Caught, Stretch, FromX, FromY
  <2> QED BY <2>1, <2>2, <2>3, <2>4 DEF BlocksInv
<1> QED
  BY <1>1, <1>2, <1>3, <1>4, <1>5, <1>6, <1>7, <1>8, <1>9 DEF Next

\* In files of any length without a blank line the last command of every header
\* line, carried out with the lines below it, makes the second file of the first.
\* It does not say that a header line holds one command: a lone deleted line has
\* two.
THEOREM EditsAreRight == ASSUME Plain PROVE Spec => []EditsLeadToSecond
<1>1. Init => MatchInv /\ BlocksInv
  BY InitMatch, InitBlocks
<1>2. MatchInv /\ BlocksInv /\ [Next]_vars => MatchInv' /\ BlocksInv'
  <2>1. MatchInv => TypeOK /\ Matched
    BY DEF MatchInv
  <2> QED BY <2>1, StepMatch, StepBlocks
<1>3. MatchInv /\ BlocksInv => EditsLeadToSecond
  <2> SUFFICES ASSUME MatchInv, BlocksInv, pc = "done", caller = "ssu_diff"
               PROVE  Rebuilt = y
    BY DEF EditsLeadToSecond
  <2>1. TypeOK /\ Bridged(out) /\ Caught(out, Len(x), Len(y))
    BY DEF MatchInv, BlocksInv
  <2> QED BY <2>1, ScriptRebuilds
<1> QED BY <1>1, <1>2, <1>3, PTL DEF Spec
=============================================================================
