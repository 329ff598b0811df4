--------------------------- MODULE DirDiffProofs ---------------------------
(***************************************************************************)
(* Proofs about DirDiff, for directories of any length: every entry of     *)
(* both is reported once, under the right heading, and in order.           *)
(***************************************************************************)
EXTENDS DirDiff, TLAPS

\* How far the reports have come in either listing: the first entries that are
\* not reported.
Done1 == IF pc = "diff" THEN i + 1 ELSE i
Done2 == IF pc \in {"flush", "rest", "done"} THEN in
         ELSE IF pc \in {"match", "open"} THEN j ELSE index

\* What holds where the program is.
Place ==
  /\ pc \in {"inner", "flush", "match", "open", "diff"} => i <= Len(dir1)
  /\ pc \in {"flush", "match", "open", "diff"} =>
       j <= Len(dir2) /\ dir1[i].name = dir2[j].name
  /\ pc = "inner" =>
       index <= j /\ \A l \in index..(j - 1) : dir2[l].name # dir1[i].name
  /\ pc = "flush" => in <= j
  /\ pc \in {"match", "open", "diff"} => index = j + 1
  /\ pc = "open" => dir1[i].type = "reg" /\ dir2[j].type = "reg"
  /\ pc \in {"rest", "done"} => i = Len(dir1) + 1
  /\ pc = "done" => in = Len(dir2) + 1

\* What is reported of either listing has no namesake in what is left of the other.
Apart ==
  /\ \A k \in DOMAIN dir1, l \in DOMAIN dir2 :
       k < Done1 /\ l >= Done2 => dir1[k].name # dir2[l].name
  /\ \A k \in DOMAIN dir1, l \in DOMAIN dir2 :
       k >= Done1 /\ l < Done2 => dir2[l].name < dir1[k].name

\* The names reported are those of the entries in front.
Front1 == {dir1[k].name : k \in {m \in DOMAIN dir1 : m < Done1}}
Front2 == {dir2[l].name : l \in {m \in DOMAIN dir2 : m < Done2}}
Told ==
  /\ NamesOf(out) \subseteq Front1 \cup Front2
  /\ failed = {} => Front1 \cup Front2 \subseteq NamesOf(out)

IInv ==
  /\ TypeOK
  /\ ReadBoth
  /\ Sound
  /\ InOrder
  /\ pc # "undefined" => Place /\ Apart /\ Told

LEMMA Entries ==
  ASSUME TypeOK
  PROVE  /\ \A k \in DOMAIN dir1 : dir1[k] \in DirEntry /\ dir1[k].name \in Names
         /\ \A l \in DOMAIN dir2 : dir2[l] \in DirEntry /\ dir2[l].name \in Names
         /\ DOMAIN dir1 = 1..Len(dir1) /\ DOMAIN dir2 = 1..Len(dir2)
         /\ Len(dir1) \in Nat /\ Len(dir2) \in Nat
         /\ \A n \in Names : n \in Int /\ ~(n < n)
<1>1. dir1 \in Seq(DirEntry) /\ dir2 \in Seq(DirEntry)
  BY DEF TypeOK
<1>2. \A e \in DirEntry : e.name \in Names
  BY DEF DirEntry
<1>3. \A k \in DOMAIN dir1 : dir1[k] \in DirEntry
  BY <1>1
<1>4. \A l \in DOMAIN dir2 : dir2[l] \in DirEntry
  BY <1>1
<1> QED BY <1>1, <1>2, <1>3, <1>4, DirDiffAssumption

\* A report that its name has coming, of a name that is new and comes behind those
\* of its directory, keeps the reports sound and in order.
LEMMA ReportFits ==
  ASSUME TypeOK, Sound, InOrder, UNCHANGED lists,
         NEW kind \in Kinds, NEW name \in Names,
         Report(kind, name), Due(kind, name), name \notin NamesOf(out),
         \A a \in DOMAIN out :
           \/ {out[a].name, name} \subseteq NamesOf(dir1)
           \/ {out[a].name, name} \subseteq NamesOf(dir2)
         => out[a].name < name
  PROVE  /\ out' \in Seq(Reports)
         /\ Sound' /\ InOrder'
         /\ NamesOf(out') = NamesOf(out) \cup {name}
<1> DEFINE r == [kind |-> kind, name |-> name]
<1>1. /\ r \in Reports
      /\ out \in Seq(Reports)
      /\ out' = Append(out, r)
  BY DEF TypeOK, Reports, Report
<1>2. /\ out' \in Seq(Reports)
      /\ DOMAIN out' = DOMAIN out \cup {Len(out) + 1}
      /\ DOMAIN out = 1..Len(out)
      /\ Len(out) \in Nat
      /\ \A a \in DOMAIN out : out'[a] = out[a]
      /\ out'[Len(out) + 1] = r
  BY <1>1
<1>3. r.kind = kind /\ r.name = name
  OBVIOUS
<1>4. NamesOf(out') = NamesOf(out) \cup {name}
  BY <1>2, <1>3 DEF NamesOf
<1>5. UNCHANGED <<dir1, dir2>>
  BY DEF lists
<1>6. Sound'
  <2>1. \A a \in DOMAIN out' : Due(out'[a].kind, out'[a].name)
    BY <1>2, <1>3 DEF Sound
  <2>2. \A k, n : Due(k, n)' <=> Due(k, n)
    BY <1>5 DEF Due, NamesOf
  <2>3. \A a, b \in DOMAIN out' : out'[a].name = out'[b].name => a = b
    BY <1>2, <1>3 DEF Sound, NamesOf
  <2> QED BY <2>1, <2>2, <2>3, <1>5 DEF Sound, Due, NamesOf
<1>7. InOrder'
  <2>1. NamesOf(dir1)' = NamesOf(dir1) /\ NamesOf(dir2)' = NamesOf(dir2)
    BY <1>5 DEF NamesOf
  <2> QED BY <1>2, <1>3, <2>1 DEF InOrder
<1> QED BY <1>2, <1>4, <1>6, <1>7
-----------------------------------------------------------------------------
THEOREM InitOK == Init => IInv
<1> SUFFICES ASSUME Init PROVE IInv
  OBVIOUS
<1>1. TypeOK
  BY DEF Init, ReadBoth, TypeOK
<1>2. Sound /\ InOrder
  BY DEF Init, Sound, InOrder
<1>3. Place /\ Apart /\ Told
  BY <1>1 DEF Init, Place, Apart, Told, Front1, Front2, Done1, Done2, NamesOf, TypeOK
<1> QED BY <1>1, <1>2, <1>3 DEF Init, IInv

\* A step that reports nothing.
LEMMA Silent ==
  ASSUME Sound, InOrder, UNCHANGED <<lists, out>>
  PROVE  Sound' /\ InOrder'
BY DEF lists, Sound, InOrder, Due, NamesOf

\* One that also leaves the frontier where it is.
LEMMA Settled ==
  ASSUME Apart, Told, UNCHANGED <<lists, out>>, Done1' = Done1, Done2' = Done2
  PROVE  Apart' /\ Told'
<1>1. Apart'
  BY DEF lists, Apart
<1>2. Front1' = Front1 /\ Front2' = Front2 /\ NamesOf(out)' = NamesOf(out)
  BY DEF lists, Front1, Front2, NamesOf
<1> QED BY <1>1, <1>2 DEF Told, lists

LEMMA OuterOK == ASSUME IInv, Outer PROVE IInv'
<1>1. TypeOK'
  BY DEF IInv, TypeOK, Outer, lists
<1>2. Sound' /\ InOrder' /\ ReadBoth'
  BY Silent DEF Outer, IInv, ReadBoth, Sorted, lists
<1>3. Place' /\ Done1' = Done1 /\ Done2' = Done2
  BY DEF IInv, TypeOK, Outer, Place, Done1, Done2, lists
<1>4. Apart' /\ Told'
  BY <1>3, Settled DEF IInv, Outer
<1> QED BY <1>1, <1>2, <1>3, <1>4 DEF IInv

LEMMA InnerOK == ASSUME IInv, Inner PROVE IInv'
<1>1. TypeOK'
  BY DEF IInv, TypeOK, Inner, lists
<1>2. Sound' /\ InOrder' /\ ReadBoth'
  BY Silent DEF Inner, IInv, ReadBoth, Sorted, lists
<1>3. Place' /\ Done1' = Done1 /\ Done2' = Done2
  BY DEF IInv, TypeOK, Inner, Place, Done1, Done2, lists
<1>4. Apart' /\ Told'
  BY <1>3, Settled DEF IInv, Inner
<1> QED BY <1>1, <1>2, <1>3, <1>4 DEF IInv

-----------------------------------------------------------------------------
(***************************************************************************)
(* The steps that report a name.                                           *)
(***************************************************************************)

\* The entry of the first directory at hand comes behind all that is reported.
LEMMA FirstIsNew ==
  ASSUME IInv, pc # "undefined", Done1 = i, i <= Len(dir1)
  PROVE  /\ i \in DOMAIN dir1 /\ dir1[i].name \in Names
         /\ \A n \in NamesOf(out) : n < dir1[i].name
<1>1. i \in DOMAIN dir1 /\ \A k \in DOMAIN dir1 : dir1[k].name \in Names
  BY Entries DEF IInv, TypeOK
<1>2. \A n \in Front1 : n < dir1[i].name
  BY <1>1 DEF IInv, ReadBoth, Sorted, Front1
<1>3. \A n \in Front2 : n < dir1[i].name
  BY <1>1 DEF IInv, Apart, Front2, TypeOK
<1> QED BY <1>1, <1>2, <1>3 DEF IInv, Told

\* An entry that only the second directory has comes behind all that is reported
\* of that directory.
LEMMA SecondIsNew ==
  ASSUME IInv, pc # "undefined", Done2 = in, in <= Len(dir2), dir2[in].name \notin NamesOf(dir1)
  PROVE  /\ in \in DOMAIN dir2 /\ dir2[in].name \in Names
         /\ dir2[in].name \notin NamesOf(out)
         /\ \A n \in NamesOf(out) \cap NamesOf(dir2) : n < dir2[in].name
<1>1. in \in DOMAIN dir2 /\ \A l \in DOMAIN dir2 : dir2[l].name \in Names
  BY Entries DEF IInv, TypeOK
<1>2. \A n \in Names : n \in Int
  BY DirDiffAssumption
<1>3. \A n \in Front2 : n < dir2[in].name
  BY <1>1 DEF IInv, ReadBoth, Sorted, Front2
<1>4. Front1 \subseteq NamesOf(dir1)
  BY DEF Front1, NamesOf
<1>5. \A n \in Front1 \cap NamesOf(dir2) : n < dir2[in].name
  <2> SUFFICES ASSUME NEW k \in DOMAIN dir1, k < Done1,
                      NEW l \in DOMAIN dir2, dir1[k].name = dir2[l].name
               PROVE  dir2[l].name < dir2[in].name
    BY DEF Front1, NamesOf
  <2>1. ~(l >= Done2)
    BY DEF IInv, Apart
  <2>2. l < in
    BY <2>1 DEF IInv, TypeOK
  <2> QED BY <1>1, <2>2 DEF IInv, ReadBoth, Sorted
<1>6. dir2[in].name \notin Front2
  BY <1>1, <1>2, <1>3
<1> QED BY <1>1, <1>3, <1>4, <1>5, <1>6 DEF IInv, Told

\* The frontier moves over the entry of the first directory.
LEMMA FirstMoves ==
  ASSUME TypeOK, i <= Len(dir1), UNCHANGED lists, Done1 = i, Done1' = i + 1
  PROVE  Front1' = Front1 \cup {dir1[i].name}
<1>1. \A k \in DOMAIN dir1 : k < i + 1 <=> k < i \/ k = i
  BY DEF TypeOK
<1>2. i \in DOMAIN dir1
  BY DEF TypeOK
<1> QED BY <1>1, <1>2 DEF Front1, lists

LEMMA SecondMoves ==
  ASSUME TypeOK, NEW l \in DOMAIN dir2, UNCHANGED lists, Done2 = l, Done2' = l + 1
  PROVE  Front2' = Front2 \cup {dir2[l].name}
<1>1. \A k \in DOMAIN dir2 : k < l + 1 <=> k < l \/ k = l
  BY DEF TypeOK
<1> QED BY <1>1 DEF Front2, lists

LEMMA OnlyInFirstOK == ASSUME IInv, OnlyInFirst PROVE IInv'
<1>1. /\ pc = "inner" /\ pc' = "outer" /\ i <= Len(dir1) /\ UNCHANGED <<lists, j, index, opened>>
      /\ i' = i + 1 /\ in' = in /\ j > Len(dir2)
      /\ Done1 = i /\ Done1' = i + 1 /\ Done2 = index /\ Done2' = index
  BY DEF IInv, Place, OnlyInFirst, Done1, Done2
<1>2. i \in DOMAIN dir1 /\ dir1[i].name \in Names /\ \A n \in NamesOf(out) : n < dir1[i].name
  BY <1>1, FirstIsNew
<1>3. dir1[i].name \in NamesOf(dir1)
  BY <1>2 DEF NamesOf
<1>4. dir1[i].name \notin NamesOf(dir2)
  <2> SUFFICES ASSUME NEW l \in DOMAIN dir2, dir2[l].name = dir1[i].name
               PROVE  FALSE
    BY DEF NamesOf
  <2>1. l < index \/ l \in index..(j - 1)
    BY <1>1 DEF IInv, TypeOK
  <2>2. CASE l < index
    <3>1. dir2[l].name < dir1[i].name
      BY <1>1, <1>2, <2>2 DEF IInv, Apart, TypeOK
    <3> QED BY <1>2, <3>1, Entries DEF IInv
  <2>3. CASE l \in index..(j - 1)
    BY <1>1, <2>3 DEF IInv, Place
  <2> QED BY <2>1, <2>2, <2>3
<1>5. Due("only1", dir1[i].name)
  BY <1>3, <1>4 DEF Due, NamesOf
<1>6. /\ out' \in Seq(Reports) /\ Sound' /\ InOrder'
      /\ NamesOf(out') \subseteq NamesOf(out) \cup {dir1[i].name}
      /\ failed = {} => NamesOf(out') = NamesOf(out) \cup {dir1[i].name}
  <2>1. CASE 2 \in failed
    BY <1>1, <2>1, Silent DEF OnlyInFirst, IInv, TypeOK
  <2>2. CASE 2 \notin failed
    <3>1. Report("only1", dir1[i].name) /\ "only1" \in Kinds
      BY <2>2 DEF OnlyInFirst, Kinds
    <3>2. dir1[i].name \notin NamesOf(out)
      BY <1>2, Entries DEF IInv
    <3>3. \A a \in DOMAIN out : out[a].name < dir1[i].name
      BY <1>2 DEF NamesOf
    <3> QED BY <1>1, <1>2, <1>5, <3>1, <3>2, <3>3, ReportFits DEF IInv
  <2> QED BY <2>1, <2>2
<1>7. TypeOK'
  BY <1>1, <1>6, Entries DEF IInv, TypeOK, lists
<1>10. ReadBoth' /\ Place'
  BY <1>1 DEF IInv, ReadBoth, Sorted, Place, lists
<1>8. Apart'
  <2>1. \A l \in DOMAIN dir2 : dir1[i].name # dir2[l].name
    BY <1>4 DEF NamesOf
  <2>2. \A k \in DOMAIN dir1 : (k < i + 1 <=> k < i \/ k = i) /\ (k >= i + 1 => k >= i)
    BY DEF IInv, TypeOK
  <2> QED BY <1>1, <2>1, <2>2 DEF IInv, Apart, lists
<1>9. Told'
  <2>1. Front1' = Front1 \cup {dir1[i].name}
    BY <1>1, FirstMoves DEF IInv
  <2>2. Front2' = Front2
    BY <1>1 DEF Front2, lists
  <2> QED BY <1>1, <1>6, <2>1, <2>2 DEF IInv, Told, lists
<1> QED BY <1>1, <1>6, <1>7, <1>8, <1>9, <1>10 DEF IInv

\* What a turn of the loops over dir2 that prints entry in does.
LEMMA SecondReported ==
  ASSUME IInv, pc \in {"flush", "rest"}, pc' = pc, in <= Len(dir2),
         pc = "flush" => in < j,
         Report("only2", dir2[in].name), in' = in + 1,
         UNCHANGED <<lists, i, j, index, opened>>
  PROVE  IInv'
<1>1. Done2 = in /\ Done2' = in + 1 /\ Done1 = i /\ Done1' = i /\ pc # "undefined"
  BY DEF Done1, Done2
<1>2. in \in DOMAIN dir2 /\ in \in Nat /\ i \in Nat
  BY Entries DEF IInv, TypeOK
<1>3. dir2[in].name \notin NamesOf(dir1)
  <2> SUFFICES ASSUME NEW k \in DOMAIN dir1, dir1[k].name = dir2[in].name
               PROVE  FALSE
    BY DEF NamesOf
  <2>1. k < i
    <3>1. CASE pc = "rest"
      BY <3>1, Entries DEF IInv, Place
    <3>2. CASE pc = "flush"
      <4>1. dir2[in].name < dir2[j].name /\ j \in DOMAIN dir2 /\ i \in DOMAIN dir1
        BY <1>2, <3>2, Entries DEF IInv, Place, ReadBoth, Sorted, TypeOK
      <4>2. dir1[k].name < dir1[i].name
        BY <3>2, <4>1 DEF IInv, Place
      <4>3. i < k => dir1[i].name < dir1[k].name
        BY <4>1 DEF IInv, ReadBoth, Sorted
      <4>4. dir1[i].name \in Int /\ dir1[k].name \in Int
        BY <4>1, Entries DEF IInv
      <4> QED BY <1>2, <4>1, <4>2, <4>3, <4>4, Entries DEF IInv
    <3> QED BY <3>1, <3>2
  <2> QED BY <1>1, <1>2, <2>1 DEF IInv, Apart
<1>4. /\ dir2[in].name \in Names /\ dir2[in].name \notin NamesOf(out)
      /\ \A n \in NamesOf(out) \cap NamesOf(dir2) : n < dir2[in].name
  BY <1>1, <1>3, SecondIsNew
<1>5. Due("only2", dir2[in].name)
  BY <1>2, <1>3 DEF Due, NamesOf
<1>6. \A a \in DOMAIN out :
        \/ {out[a].name, dir2[in].name} \subseteq NamesOf(dir1)
        \/ {out[a].name, dir2[in].name} \subseteq NamesOf(dir2)
      => out[a].name < dir2[in].name
  BY <1>3, <1>4 DEF NamesOf
<1>7. /\ out' \in Seq(Reports) /\ Sound' /\ InOrder'
      /\ NamesOf(out') = NamesOf(out) \cup {dir2[in].name}
  <2>1. "only2" \in Kinds
    BY DEF Kinds
  <2> QED BY <1>4, <1>5, <1>6, <2>1, ReportFits DEF IInv
<1>8. TypeOK'
  BY <1>2, <1>7 DEF IInv, TypeOK, lists
<1>9. ReadBoth' /\ Place'
  BY <1>2 DEF IInv, TypeOK, ReadBoth, Sorted, Place, lists
<1>10. Apart'
  <2>1. \A k \in DOMAIN dir1 : k < i \/ k >= i
    BY <1>2, Entries DEF IInv
  <2>2. \A l \in DOMAIN dir2 : (l < in + 1 <=> l < in \/ l = in) /\ (l >= in + 1 => l >= in)
    BY <1>2, Entries DEF IInv
  <2>3. \A k \in DOMAIN dir1 : k >= i => dir2[in].name < dir1[k].name
    <3> SUFFICES ASSUME NEW k \in DOMAIN dir1, k >= i
                 PROVE  dir2[in].name < dir1[k].name
      OBVIOUS
    <3>1. pc = "flush"
      BY Entries DEF IInv, Place
    <3>2. dir2[in].name < dir1[i].name /\ i \in DOMAIN dir1
      BY <1>2, <3>1, Entries DEF IInv, Place, ReadBoth, Sorted, TypeOK
    <3>3. k = i \/ dir1[i].name < dir1[k].name
      BY <1>2, <3>2, Entries DEF IInv, ReadBoth, Sorted
    <3>4. dir2[in].name \in Int /\ dir1[i].name \in Int /\ dir1[k].name \in Int
      BY <1>2, <3>2, Entries DEF IInv
    <3> QED BY <3>2, <3>3, <3>4
  <2> QED BY <1>1, <2>1, <2>2, <2>3 DEF IInv, Apart, lists
<1>11. Told'
  <2>1. Front2' = Front2 \cup {dir2[in].name}
    BY <1>1, <1>2, SecondMoves DEF IInv
  <2>2. Front1' = Front1
    BY <1>1 DEF Front1, lists
  <2> QED BY <1>1, <1>7, <2>1, <2>2 DEF IInv, Told, lists
<1> QED BY <1>1, <1>7, <1>8, <1>9, <1>10, <1>11 DEF IInv

LEMMA FlushOK == ASSUME IInv, Flush PROVE IInv'
<1>1. CASE in < j
  BY <1>1, SecondReported, Entries DEF Flush, IInv, Place, TypeOK
<1>2. CASE ~(in < j)
  <2>1. /\ pc = "flush" /\ pc' = "match" /\ index' = j + 1 /\ in = j
        /\ UNCHANGED <<lists, i, j, in, out, opened>>
    BY <1>2 DEF Flush, IInv, Place, TypeOK
  <2>2. Done1' = Done1 /\ Done2' = Done2
    BY <2>1 DEF Done1, Done2
  <2>3. TypeOK'
    BY <2>1, Entries DEF IInv, TypeOK, Place, lists
  <2>4. ReadBoth' /\ Place'
    BY <2>1 DEF IInv, ReadBoth, Sorted, Place, lists
  <2> QED BY <2>1, <2>2, <2>3, <2>4, Silent, Settled DEF IInv
<1> QED BY <1>1, <1>2

\* What Match and OpenBoth do when they report the two entries with one name.
LEMMA MatchReported ==
  ASSUME IInv, pc \in {"match", "open"}, NEW kind \in Kinds \ {"only1", "only2"},
         kind = "types"   <=> dir1[i].type # dir2[j].type,
         kind = "subdirs" <=> dir1[i].type = "dir" /\ dir2[j].type = "dir",
         Report(kind, dir1[i].name),
         UNCHANGED lists, Done1' = i + 1, Done2' = j + 1
  PROVE  /\ out' \in Seq(Reports) /\ Sound' /\ InOrder'
         /\ Apart' /\ Told'
<1>1. /\ Done1 = i /\ Done2 = j /\ pc # "undefined"
      /\ i <= Len(dir1) /\ dir1[i].name = dir2[j].name
      /\ i \in DOMAIN dir1 /\ j \in DOMAIN dir2 /\ i \in Nat /\ j \in Nat
  BY Entries DEF Done1, Done2, IInv, Place, TypeOK
<1>2. dir1[i].name \in Names /\ \A n \in NamesOf(out) : n < dir1[i].name
  BY <1>1, FirstIsNew
<1>3. dir1[i].name \notin NamesOf(out) /\ \A a \in DOMAIN out : out[a].name < dir1[i].name
  BY <1>2, Entries DEF IInv, NamesOf
<1>4. \A k \in DOMAIN dir1 : k \in Nat /\ (k > i => dir1[i].name < dir1[k].name)
                                       /\ (k < i => dir1[k].name < dir1[i].name)
  BY <1>1, Entries DEF IInv, ReadBoth, Sorted
<1>5. \A l \in DOMAIN dir2 : l \in Nat /\ (l > j => dir2[j].name < dir2[l].name)
                                       /\ (l < j => dir2[l].name < dir2[j].name)
  BY <1>1, Entries DEF IInv, ReadBoth, Sorted
<1>6. /\ \A k \in DOMAIN dir1 : dir1[k].name = dir1[i].name => k = i
      /\ \A l \in DOMAIN dir2 : dir2[l].name = dir1[i].name => l = j
  BY <1>1, <1>2, <1>4, <1>5, Entries DEF IInv
<1>7. Due(kind, dir1[i].name)
  <2>1. dir1[i].name \in NamesOf(dir1) /\ dir1[i].name \in NamesOf(dir2)
    BY <1>1 DEF NamesOf
  <2>2. kind # "only1" /\ kind # "only2"
    OBVIOUS
  <2>3. \A k \in DOMAIN dir1, l \in DOMAIN dir2 :
          dir1[k].name = dir1[i].name /\ dir2[l].name = dir1[i].name => k = i /\ l = j
    BY <1>6
  <2> QED BY <2>1, <2>2, <2>3 DEF Due
<1>8. /\ out' \in Seq(Reports) /\ Sound' /\ InOrder'
      /\ NamesOf(out') = NamesOf(out) \cup {dir1[i].name}
  BY <1>2, <1>3, <1>7, ReportFits DEF IInv
<1>9. Apart'
  <2>1. \A k \in DOMAIN dir1 : (k < i + 1 <=> k < i \/ k = i) /\ (k >= i + 1 <=> k >= i /\ k > i)
    BY <1>1, <1>4
  <2>2. \A l \in DOMAIN dir2 : (l < j + 1 <=> l < j \/ l = j) /\ (l >= j + 1 <=> l >= j /\ l > j)
    BY <1>1, <1>5
  <2>3. \A l \in DOMAIN dir2 : l > j => dir1[i].name # dir2[l].name
    BY <1>1, <1>5, <1>6
  <2>4. \A k \in DOMAIN dir1 : k > i => dir2[j].name < dir1[k].name
    BY <1>1, <1>4
  <2> QED BY <1>1, <2>1, <2>2, <2>3, <2>4 DEF IInv, Apart, lists
<1>10. Told'
  <2>1. Front1' = Front1 \cup {dir1[i].name}
    BY <1>1, FirstMoves DEF IInv
  <2>2. Front2' = Front2 \cup {dir1[i].name}
    BY <1>1, SecondMoves DEF IInv
  <2> QED BY <1>1, <1>8, <2>1, <2>2 DEF IInv, Told, lists
<1> QED BY <1>8, <1>9, <1>10

LEMMA MatchOK == ASSUME IInv, Match PROVE IInv'
<1>1. /\ pc = "match" /\ UNCHANGED <<lists, j, index, in, opened>>
      /\ i \in DOMAIN dir1 /\ j \in DOMAIN dir2 /\ i \in Nat /\ index = j + 1
      /\ i <= Len(dir1) /\ dir1[i].type \in Types /\ dir2[j].type \in Types
  BY Entries DEF Match, IInv, TypeOK, Place, DirEntry
<1>2. CASE dir1[i].type = "reg" /\ dir2[j].type = "reg"
  <2>1. pc' = "open" /\ UNCHANGED <<i, out>>
    BY <1>2 DEF Match
  <2>2. Done1' = Done1 /\ Done2' = Done2
    BY <1>1, <2>1 DEF Done1, Done2
  <2>3. TypeOK' /\ ReadBoth' /\ Place'
    BY <1>1, <1>2, <2>1 DEF IInv, TypeOK, ReadBoth, Sorted, Place, lists
  <2> QED BY <1>1, <2>1, <2>2, <2>3, Silent, Settled DEF IInv
<1>3. CASE ~(dir1[i].type = "reg" /\ dir2[j].type = "reg")
  <2> DEFINE kind == IF dir1[i].type = dir2[j].type THEN "subdirs" ELSE "types"
  <2>1. Report(kind, dir1[i].name) /\ i' = i + 1 /\ pc' = "outer"
    BY <1>3 DEF Match
  <2>2. Done1' = i + 1 /\ Done2' = j + 1
    BY <1>1, <2>1 DEF Done1, Done2
  <2>3. /\ kind \in Kinds \ {"only1", "only2"}
        /\ kind = "types"   <=> dir1[i].type # dir2[j].type
        /\ kind = "subdirs" <=> dir1[i].type = "dir" /\ dir2[j].type = "dir"
    BY <1>1, <1>3 DEF Kinds, Types
  <2> HIDE DEF kind
  <2>4. out' \in Seq(Reports) /\ Sound' /\ InOrder' /\ Apart' /\ Told'
    BY <1>1, <2>1, <2>2, <2>3, MatchReported
  <2>5. TypeOK'
    <3>1. i' \in 1..(Len(dir1) + 1) /\ pc' = "outer" /\ out' \in Seq(Reports)
      BY <1>1, <2>1, <2>4, Entries DEF IInv
    <3> QED BY <1>1, <3>1 DEF IInv, TypeOK, lists
  <2>6. ReadBoth' /\ Place'
    BY <1>1, <2>1 DEF IInv, ReadBoth, Sorted, Place, lists
  <2> QED BY <2>4, <2>5, <2>6 DEF IInv
<1> QED BY <1>2, <1>3

LEMMA OpenBothOK == ASSUME IInv, OpenBoth PROVE IInv'
<1>1. /\ pc = "open" /\ UNCHANGED <<lists, j, index, in>>
      /\ i <= Len(dir2)
      /\ \E kind \in {"diff", "same"} : Report(kind, dir1[i].name)
      /\ \/ pc' = "diff" /\ i' = i
         \/ pc' = "outer" /\ i' = i + 1
      /\ opened' = opened \cup {<<dir1[i].name, dir1[i].name, dir2[i].name>>}
  BY Zenon DEF OpenBoth
<1>2. /\ i \in DOMAIN dir1 /\ j \in DOMAIN dir2 /\ i \in Nat /\ i >= 1 /\ index = j + 1
      /\ i <= Len(dir1) /\ dir1[i].type = "reg" /\ dir2[j].type = "reg"
  BY <1>1, Entries DEF IInv, TypeOK, Place
<1>3. Done1' = i + 1 /\ Done2' = j + 1
  BY <1>1, <1>2 DEF Done1, Done2
<1>4. {"diff", "same"} \subseteq Kinds \ {"only1", "only2"}
  BY DEF Kinds
<1>5. out' \in Seq(Reports) /\ Sound' /\ InOrder' /\ Apart' /\ Told'
  <2>1. PICK kind \in {"diff", "same"} : Report(kind, dir1[i].name)
    BY <1>1
  <2> QED BY <1>1, <1>3, <1>4, <1>2, <2>1, MatchReported
<1>6. i \in DOMAIN dir2 /\ dir1[i].name \in Names /\ dir2[i].name \in Names
  BY <1>1, <1>2, Entries DEF IInv
<1>7. opened' \subseteq (Names \X Names \X Names)
  BY <1>1, <1>6 DEF IInv, TypeOK
<1>8. TypeOK'
  BY <1>1, <1>5, <1>7, <1>2, Entries DEF IInv, TypeOK, lists
<1>9. ReadBoth' /\ Place'
  BY <1>1, <1>2 DEF IInv, ReadBoth, Sorted, Place, lists
<1> QED BY <1>5, <1>8, <1>9 DEF IInv

LEMMA OpenFailsOK == ASSUME IInv, OpenFails PROVE IInv'
<1>1. TypeOK' /\ ReadBoth'
  BY DEF IInv, TypeOK, ReadBoth, Sorted, OpenFails, lists
<1> QED BY <1>1, Silent DEF IInv, OpenFails

LEMMA DiffOK == ASSUME IInv, Diff PROVE IInv'
<1>1. /\ pc = "diff" /\ UNCHANGED <<lists, j, index, in, out, opened>>
      /\ \/ pc' = "outer" /\ i' = i + 1
         \/ pc' = "undefined" /\ i' = i
  BY DEF Diff
<1>2. TypeOK'
  BY <1>1, Entries DEF IInv, TypeOK, Place, lists
<1>3. ReadBoth' /\ (pc' # "undefined" => Place')
  BY <1>1 DEF IInv, ReadBoth, Sorted, Place, lists
<1>4. ASSUME pc' # "undefined" PROVE Apart' /\ Told'
  <2>1. Done1' = Done1 /\ Done2' = Done2
    BY <1>1, <1>4 DEF Done1, Done2
  <2> QED BY <1>1, <2>1, Settled DEF IInv
<1> QED BY <1>1, <1>2, <1>3, <1>4, Silent DEF IInv

LEMMA RestOK == ASSUME IInv, Rest PROVE IInv'
<1>1. CASE in <= Len(dir2)
  BY <1>1, SecondReported DEF Rest, IInv
<1>2. CASE ~(in <= Len(dir2))
  <2>1. /\ pc = "rest" /\ pc' \in {"done", "undefined"}
        /\ UNCHANGED <<lists, i, j, index, in, out, opened>>
    BY <1>2 DEF Rest
  <2>2. in = Len(dir2) + 1
    BY <1>2, Entries DEF IInv, TypeOK
  <2>3. TypeOK' /\ ReadBoth' /\ Place'
    BY <2>1, <2>2 DEF IInv, TypeOK, ReadBoth, Sorted, Place, lists
  <2>4. ASSUME pc' # "undefined" PROVE Apart' /\ Told'
    <3>1. Done1' = Done1 /\ Done2' = Done2
      BY <2>1, <2>4 DEF Done1, Done2
    <3> QED BY <2>1, <3>1, Settled DEF IInv
  <2> QED BY <2>1, <2>3, <2>4, Silent DEF IInv
<1> QED BY <1>1, <1>2
-----------------------------------------------------------------------------
THEOREM StepOK == IInv /\ [Next]_vars => IInv'
<1> SUFFICES ASSUME IInv, [Next]_vars PROVE IInv'
  OBVIOUS
<1>1. CASE UNCHANGED vars
  <2>1. TypeOK' /\ ReadBoth' /\ Place' = Place /\ pc' = pc
    BY <1>1 DEF IInv, TypeOK, ReadBoth, Sorted, Place, lists, vars
  <2>2. Done1' = Done1 /\ Done2' = Done2
    BY <1>1 DEF Done1, Done2, vars
  <2> QED BY <1>1, <2>1, <2>2, Silent, Settled DEF IInv, vars
<1> QED
  BY <1>1, OuterOK, InnerOK, OnlyInFirstOK, FlushOK, MatchOK, OpenBothOK, OpenFailsOK,
     DiffOK, RestOK DEF Next

THEOREM Invariant == Spec => []IInv
BY InitOK, StepOK, PTL DEF Spec

\* Both loops stay inside the listings, of whatever length.
THEOREM TypeCorrect == Spec => []TypeOK
<1>1. IInv => TypeOK
  BY DEF IInv
<1> QED BY <1>1, Invariant, PTL

\* Every entry of two directories of any size is reported once, under the right
\* heading.
THEOREM EveryEntryOnce == Spec => []EachOnce
<1>1. IInv => EachOnce
  <2> SUFFICES ASSUME IInv, pc = "done", failed = {}
               PROVE  NamesOf(out) = NamesOf(dir1) \cup NamesOf(dir2)
    BY DEF IInv, EachOnce
  <2>1. Done1 = Len(dir1) + 1 /\ Done2 = Len(dir2) + 1
    BY DEF IInv, Place, Done1, Done2
  <2>2. Front1 = NamesOf(dir1) /\ Front2 = NamesOf(dir2)
    BY <2>1, Entries DEF IInv, Front1, Front2, NamesOf
  <2> QED BY <2>2 DEF IInv, Told
<1> QED BY <1>1, Invariant, PTL

\* The reports of either directory come in its order.
THEOREM ReportsInOrder == Spec => []InOrder
<1>1. IInv => InOrder
  BY DEF IInv
<1> QED BY <1>1, Invariant, PTL
=============================================================================
