--------------------------- MODULE DupSearchProofs ---------------------------
(***************************************************************************)
(* Theorems about DupSearch, for any tree, any contents and any limits:    *)
(* however other programs change the files, no file is listed twice; and   *)
(* alone, the search delivers what the prompts rely on, and leaves nothing *)
(* out that was asked for.                                                 *)
(*                                                                         *)
(* search_file does not test whether a file is a member of its node        *)
(* already.  That it never adds one twice is due to the order of the walk: *)
(* no member is ever ahead of it.                                          *)
(***************************************************************************)
EXTENDS DupSearch, WellFoundedInduction, TLAPS

(***************************************************************************)
(* The walks.                                                              *)
(***************************************************************************)

\* A walk stands in the tree.
WalkOK(walk) ==
  /\ walk.dir \in 0..Len(Tree)
  /\ walk.dir = 0 => walk.rest = {}
  /\ walk.dir # 0 => walk.rest \subseteq DOMAIN Tree[walk.dir]

\* The walk has still to come to p.
Ahead(walk, p) ==
  \E d \in DOMAIN Tree : \E k \in DOMAIN Tree[d] :
    Tree[d][k] = p /\ (d > walk.dir \/ (d = walk.dir /\ k \in walk.rest))

\* A set of natural numbers that is not empty has a smallest element.
LEMMA Smallest ==
  ASSUME NEW T \in SUBSET Nat, T # {}
  PROVE  \E n \in T : \A m \in T : n <= m
<1> DEFINE R == OpToRel(<, Nat)
<1>1. IsWellFoundedOn(R, Nat)
  BY NatLessThanWellFounded DEF OpToRel
<1>2. R = {ss \in Nat \X Nat : ss[1] < ss[2]}
  BY DEF OpToRel
<1> HIDE DEF R
<1>3. PICK n \in T : \A m \in T : <<m, n>> \notin R
  BY <1>1, WFMin
<1>4. \A m \in T : ~(m < n)
  BY <1>2, <1>3
<1> QED
  BY <1>4

\* The tree is a sequence of sequences of paths.
LEMMA TreeShape ==
  /\ Len(Tree) \in Nat /\ DOMAIN Tree = 1..Len(Tree)
  /\ \A d \in DOMAIN Tree : /\ Tree[d] \in Seq(Paths)
                            /\ DOMAIN Tree[d] \subseteq Nat
                            /\ DOMAIN Tree[d] \subseteq Positions
<1>1. Tree \in Seq(Seq(Paths))
  BY TreeAssumption
<1>2. \A d \in DOMAIN Tree : Tree[d] \in Seq(Paths)
  BY <1>1
<1>3. \A d \in DOMAIN Tree : DOMAIN Tree[d] = 1..Len(Tree[d]) /\ Len(Tree[d]) \in Nat
  BY <1>2
<1> QED
  BY <1>1, <1>2, <1>3 DEF Positions

\* The file at hand is ahead of the walk, and behind it no more.
LEMMA PassFile ==
  ASSUME NEW walk \in Walks, WalkOK(walk), AtFile(walk)
  PROVE  /\ File(walk) \in Paths
         /\ Ahead(walk, File(walk))
         /\ Pass(walk) \in Walks /\ WalkOK(Pass(walk))
         /\ ~Ahead(Pass(walk), File(walk))
         /\ \A p : Ahead(Pass(walk), p) => Ahead(walk, p)
<1>1. walk.dir \in DOMAIN Tree /\ walk.rest # {} /\ walk.rest \subseteq DOMAIN Tree[walk.dir]
  BY TreeShape DEF WalkOK, AtFile
<1>2. walk.rest \in SUBSET Nat
  BY <1>1, TreeShape
<1>3. \E k \in walk.rest : \A l \in walk.rest : k <= l
  BY <1>1, <1>2, Smallest
<1>4. First(walk) \in walk.rest
  BY <1>3 DEF First
<1>5. First(walk) \in DOMAIN Tree[walk.dir] /\ Tree[walk.dir] \in Seq(Paths)
  BY <1>1, <1>4, TreeShape
<1>6. File(walk) \in Paths
  BY <1>5 DEF File
<1>7. Ahead(walk, File(walk))
  BY <1>1, <1>4, <1>5 DEF Ahead, File
<1>8. Pass(walk).dir = walk.dir /\ Pass(walk).rest = walk.rest \ {First(walk)}
  BY DEF Pass, Walks
<1>9. Pass(walk) \in Walks
  BY DEF Pass, Walks
<1>10. WalkOK(Pass(walk))
  BY <1>8 DEF WalkOK
<1>11. ~Ahead(Pass(walk), File(walk))
  <2> SUFFICES ASSUME NEW d \in DOMAIN Tree, NEW k \in DOMAIN Tree[d], Tree[d][k] = File(walk)
               PROVE  ~(d > walk.dir) /\ (d = walk.dir => k = First(walk))
    BY <1>8 DEF Ahead
  <2>1. d = walk.dir /\ k = First(walk)
    BY <1>1, <1>5, TreeAssumption DEF File
  <2> QED
    BY <1>1, <2>1, TreeShape
<1>12. \A p : Ahead(Pass(walk), p) => Ahead(walk, p)
  BY <1>8 DEF Ahead
<1> QED
  BY <1>6, <1>7, <1>9, <1>10, <1>11, <1>12

\* What scandir adds was ahead of the walk.
LEMMA EnterNext ==
  ASSUME NEW walk \in Walks, WalkOK(walk), AtDirectory(walk)
  PROVE  /\ Enter(walk) \in Walks /\ WalkOK(Enter(walk))
         /\ \A p : Ahead(Enter(walk), p) => Ahead(walk, p)
<1>1. walk.dir \in Nat /\ walk.dir + 1 \in 1..Len(Tree)
  BY TreeShape DEF WalkOK, AtDirectory
<1>2. Enter(walk).dir = walk.dir + 1 /\ Enter(walk).rest \subseteq DOMAIN Tree[walk.dir + 1]
  BY DEF Enter
<1>3. Enter(walk) \in Walks
  BY <1>1, <1>2, TreeShape DEF Enter, Walks
<1>4. WalkOK(Enter(walk))
  BY <1>1, <1>2 DEF WalkOK
<1>5. \A d \in DOMAIN Tree : d > walk.dir + 1 \/ d = walk.dir + 1 => d > walk.dir
  BY <1>1, TreeShape
<1> QED
  BY <1>2, <1>3, <1>4, <1>5 DEF Ahead

(***************************************************************************)
(* The list.                                                               *)
(***************************************************************************)
Members(n)  == {n.path} \cup Range(n.low)
Has(l, p)   == \E k \in DOMAIN l : p \in Members(l[k])
NodeOnce(n) == n.path \notin Range(n.low) /\ IsInjective(n.low)

\* A list names no file twice.
ListOnce(l) ==
  /\ \A j, k \in DOMAIN l : j # k => Members(l[j]) \cap Members(l[k]) = {}
  /\ \A k \in DOMAIN l : NodeOnce(l[k])

\* A node that the list can take.
Fresh(l, n) == NodeOnce(n) /\ \A p \in Members(n) : ~Has(l, p)

\* have_path looks through all members.
LEMMA HavePathIsHas == \A p : HavePath(p) <=> Has(list, p)
BY DEF HavePath, Has, Members

\* What InsertAt does to a sequence.
LEMMA InsertAtProps ==
  ASSUME NEW S, NEW s \in Seq(S), NEW e \in S, NEW i \in 1..(Len(s) + 1)
  PROVE  /\ InsertAt(s, i, e) \in Seq(S)
         /\ DOMAIN InsertAt(s, i, e) = 1..(Len(s) + 1)
         /\ \A j \in 1..(Len(s) + 1) :
              InsertAt(s, i, e)[j] = IF j < i THEN s[j] ELSE IF j = i THEN e ELSE s[j - 1]
<1> DEFINE a == SubSeq(s, 1, i - 1)
           b == SubSeq(s, i, Len(s))
           ae == a \o <<e>>
<1>1. a \in Seq(S) /\ Len(a) = i - 1 /\ \A j \in 1..(i - 1) : a[j] = s[j]
  OBVIOUS
<1>2. b \in Seq(S) /\ Len(b) = Len(s) - i + 1 /\ \A j \in 1..(Len(s) - i + 1) : b[j] = s[i + j - 1]
  OBVIOUS
<1> HIDE DEF a, b
<1>3. ae \in Seq(S) /\ Len(ae) = i /\ \A j \in 1..i : ae[j] = IF j < i THEN s[j] ELSE e
  BY <1>1
<1>4. InsertAt(s, i, e) = ae \o b
  BY DEF InsertAt, a, b
<1> HIDE DEF ae
<1>5. ae \o b \in Seq(S) /\ Len(ae \o b) = Len(s) + 1
  <2>1. Len(ae) + Len(b) = Len(s) + 1
    BY <1>2, <1>3
  <2>2. ae \o b \in Seq(S) /\ Len(ae \o b) = Len(ae) + Len(b)
    <3>1. ae \in Seq(S) /\ b \in Seq(S)
      BY <1>2, <1>3
    <3> HIDE DEF b
    <3> QED
      BY <3>1
  <2> QED
    BY <2>1, <2>2
<1> DEFINE c == ae \o b
<1>6. \A j \in 1..(Len(s) + 1) : c[j] = IF j <= i THEN ae[j] ELSE b[j - i]
  BY <1>2, <1>3
<1>7. \A j \in 1..(Len(s) + 1) : j > i => b[j - i] = s[j - 1]
  <2> SUFFICES ASSUME NEW j \in 1..(Len(s) + 1), j > i PROVE b[j - i] = s[j - 1]
    OBVIOUS
  <2>1. j - i \in 1..(Len(s) - i + 1) /\ i + (j - i) - 1 = j - 1
    OBVIOUS
  <2> QED
    BY <1>2, <2>1
<1>8. DOMAIN c = 1..(Len(s) + 1)
  BY <1>5
<1> HIDE DEF c
<1>9. \A j \in 1..(Len(s) + 1) : c[j] = IF j < i THEN s[j] ELSE IF j = i THEN e ELSE s[j - 1]
  BY <1>3, <1>6, <1>7
<1> QED
  BY <1>4, <1>5, <1>8, <1>9 DEF c

\* A fresh node goes into the list, wherever its size puts it.
LEMMA Inserted ==
  ASSUME NEW l \in Seq(Nodes), NEW n \in Nodes, ListOnce(l), Fresh(l, n),
         NEW i \in 1..(Len(l) + 1)
  PROVE  ListOnce(InsertAt(l, i, n))
<1> DEFINE m == InsertAt(l, i, n)
           from(k) == IF k < i THEN k ELSE k - 1
<1>1. DOMAIN m = 1..(Len(l) + 1)
      /\ \A k \in 1..(Len(l) + 1) : m[k] = IF k < i THEN l[k] ELSE IF k = i THEN n ELSE l[k - 1]
  BY InsertAtProps
<1>2. DOMAIN l = 1..Len(l) /\ Len(l) \in Nat
  OBVIOUS
<1> HIDE DEF m
<1>3. \A k \in DOMAIN m : k # i => from(k) \in DOMAIN l /\ m[k] = l[from(k)]
  BY <1>1, <1>2
<1>4. \A j, k \in DOMAIN m : j # k /\ j # i /\ k # i => from(j) # from(k)
  BY <1>1, <1>2
<1>5. m[i] = n
  BY <1>1
<1> HIDE DEF from
<1>6. \A k \in DOMAIN m : k # i => Members(m[k]) \cap Members(n) = {} /\ NodeOnce(m[k])
  BY <1>3 DEF Fresh, Has, ListOnce
<1>7. \A j, k \in DOMAIN m : j # k => Members(m[j]) \cap Members(m[k]) = {}
  <2> SUFFICES ASSUME NEW j \in DOMAIN m, NEW k \in DOMAIN m, j # k
               PROVE  Members(m[j]) \cap Members(m[k]) = {}
    OBVIOUS
  <2>1. CASE j # i /\ k # i
    BY <1>3, <1>4, <2>1 DEF ListOnce
  <2>2. CASE j = i \/ k = i
    BY <1>5, <1>6, <2>2
  <2> QED
    BY <2>1, <2>2
<1>8. \A k \in DOMAIN m : NodeOnce(m[k])
  BY <1>5, <1>6 DEF Fresh
<1> QED
  BY <1>7, <1>8 DEF ListOnce, m

\* A member that is new makes a larger fresh node.
LEMMA MemberAdded ==
  ASSUME NEW l, NEW n \in Nodes, Fresh(l, n),
         NEW q \in Paths, q \notin Members(n), ~Has(l, q)
  PROVE  LET m == [n EXCEPT !.low = Append(@, q)]
         IN  /\ m \in Nodes /\ Fresh(l, m)
             /\ m.path = n.path /\ m.md = n.md
             /\ Range(m.low) = Range(n.low) \cup {q}
             /\ Len(m.low) >= 1
<1> DEFINE m == [n EXCEPT !.low = Append(@, q)]
<1>1. n.low \in Seq(Paths)
  BY DEF Nodes
<1>2. m \in Nodes /\ m.path = n.path /\ m.md = n.md /\ m.low = Append(n.low, q)
  BY <1>1 DEF Nodes
<1>3. /\ DOMAIN Append(n.low, q) = 1..(Len(n.low) + 1)
      /\ \A k \in 1..Len(n.low) : Append(n.low, q)[k] = n.low[k]
      /\ Append(n.low, q)[Len(n.low) + 1] = q
      /\ DOMAIN n.low = 1..Len(n.low) /\ Len(n.low) \in Nat
      /\ Len(Append(n.low, q)) = Len(n.low) + 1
  BY <1>1
<1> HIDE DEF m
<1>4. \A k \in 1..(Len(n.low) + 1) : k = Len(n.low) + 1 \/ k \in 1..Len(n.low)
  BY <1>3
<1>5. Range(m.low) = Range(n.low) \cup {q}
  BY <1>2, <1>3, <1>4 DEF Range
<1>6. IsInjective(m.low)
  <2>1. \A k \in DOMAIN n.low : n.low[k] # q
    BY DEF Members, Range
  <2>2. IsInjective(n.low)
    BY DEF Fresh, NodeOnce
  <2> QED
    BY <1>2, <1>3, <1>4, <2>1, <2>2 DEF IsInjective
<1>7. Fresh(l, m)
  BY <1>2, <1>5, <1>6 DEF Fresh, NodeOnce, Members
<1> QED
  BY <1>2, <1>3, <1>5, <1>7 DEF m

(***************************************************************************)
(* The invariant.                                                          *)
(***************************************************************************)

\* Where each pc allows the walks and the node to be.
Places ==
  /\ WalkOK(outer) /\ WalkOK(inner)
  /\ pc \in {"hash", "search", "compare"} => AtFile(outer)
  /\ pc = "compare" => AtFile(inner)
  /\ pc \in {"args", "scan", "hash", "done"} => node = NoNode
  /\ pc \in {"search", "compare"} => node \in Nodes

\* The node at hand can go into the list, and what can still become its member
\* is no member yet.
NodeFresh ==
  /\ pc = "hash" => ~Has(list, File(outer))
  /\ pc \in {"search", "compare"} \/ (pc = "exit1" /\ node # NoNode) => Fresh(list, node)
  /\ pc \in {"search", "compare"} => \A p \in Range(node.low) : ~Ahead(inner, p)
  /\ pc = "compare" => File(inner) # node.path /\ ~Has(list, File(inner))

\* What the list holds while it is built, and when it is turned round.
Listing ==
  /\ pc # "done" => ListOnce(list)
  /\ \A k, l \in DOMAIN list : k < l => list[k].size <= list[l].size
  /\ pc = "done" =>
       \A k, l \in DOMAIN list : \A a \in DOMAIN list[k].low, b \in DOMAIN list[l].low :
         list[k].low[a] = list[l].low[b] => k = l /\ a = b

\* Undisturbed, the members of a node have the content it was built around.
Alike ==
  /\ quiet /\ pc # "done" =>
       \A k \in DOMAIN list :
         Len(list[k].low) >= 1 /\ \A p \in Members(list[k]) : files[p] = list[k].md
  /\ quiet /\ pc \in {"search", "compare"} => \A p \in Members(node) : files[p] = node.md
  /\ quiet /\ pc = "done" =>
       \A k \in DOMAIN list :
         Len(list[k].low) >= 2 /\ \A a \in DOMAIN list[k].low : files[list[k].low[a]] = list[k].md

DupInv == TypeOK /\ Places /\ NodeFresh /\ Listing /\ Alike

\* It holds at the start.
LEMMA DupInit == Init => DupInv
<1> SUFFICES ASSUME Init PROVE DupInv
  OBVIOUS
<1> USE DEF Init
<1>1. NotStarted \in Walks /\ WalkOK(NotStarted)
  BY TreeShape DEF NotStarted, Walks, WalkOK
<1>2. TypeOK
  BY <1>1 DEF TypeOK
<1>3. Places
  BY <1>1 DEF Places
<1>4. NodeFresh
  BY DEF NodeFresh
<1>5. Listing
  BY DEF Listing, ListOnce
<1>6. Alike
  BY DEF Alike
<1> QED
  BY <1>2, <1>3, <1>4, <1>5, <1>6 DEF DupInv

\* The bytes of a limit.
LEMMA LimitIsNumber ==
  ASSUME NEW arg \in MinSizes \cup MaxSizes
  PROVE  Bytes(arg) \in Nat \cup {-1}
<1>1. CASE arg = Tilde
  BY <1>1 DEF Bytes
<1>2. CASE arg # Tilde
  <2>1. arg \in [tenths : Nat, unit : {"none", "KB", "MB", "GB"}]
    BY <1>2, SizesAssumption DEF Units
  <2>2. Units[arg.unit] \in Nat /\ arg.tenths \in Nat
    BY <2>1 DEF Units
  <2>3. \A m, n \in Nat : m * n \in Nat
    OBVIOUS
  <2>4. \A m \in Nat : m \div 10 \in Nat /\ m \div 10 - 1 \in Nat \cup {-1}
    OBVIOUS
  <2> QED
    BY <1>2, <2>2, <2>3, <2>4 DEF Bytes
<1> QED
  BY <1>1, <1>2

\* The arguments, and the ways out, leave the node and the list alone.
LEMMA OutsideSteps ==
  ASSUME DupInv, pc # "done", ReadArguments \/ GiveUp, UNCHANGED quiet
  PROVE  DupInv'
<1>1. /\ pc' \in {"scan", "exit1"} /\ (pc' = "scan" => pc = "args")
      /\ UNCHANGED <<typed, files, outer, size, node, inner, list, quiet>>
  BY DEF ReadArguments, GiveUp, args
<1>2. {lminsize', lmaxsize'} \subseteq Nat \cup {-1}
  <2>1. typed[1] \in MinSizes \cup MaxSizes /\ typed[2] \in MinSizes \cup MaxSizes
    BY DEF DupInv, TypeOK
  <2>2. Bytes(typed[1]) \in Nat \cup {-1} /\ Bytes(typed[2]) \in Nat \cup {-1}
    BY <2>1, LimitIsNumber
  <2> QED
    BY <2>2 DEF DupInv, TypeOK, ReadArguments, GiveUp, args
<1>3. TypeOK'
  BY <1>1, <1>2 DEF DupInv, TypeOK, Ended
<1>4. Places'
  BY <1>1 DEF DupInv, Places
<1>5. NodeFresh'
  <2>1. pc' = "exit1" /\ node # NoNode => Fresh(list, node)
    BY <1>1 DEF DupInv, Places, NodeFresh, TypeOK, Ended
  <2> QED
    BY <1>1, <2>1 DEF NodeFresh
<1>6. Listing' /\ Alike'
  BY <1>1 DEF DupInv, Listing, Alike
<1> QED
  BY <1>3, <1>4, <1>5, <1>6 DEF DupInv

\* A step of the outer walk.
LEMMA OuterSteps ==
  ASSUME DupInv, EnterSrcDir \/ StatSrc, UNCHANGED quiet
  PROVE  DupInv'
<1>1. pc = "scan" /\ UNCHANGED <<args, files, node, inner, list, quiet>>
  BY DEF EnterSrcDir, StatSrc
<1>2. /\ outer' \in Walks /\ WalkOK(outer') /\ pc' \in {"scan", "hash"} /\ size' \in Nat
      /\ pc' = "hash" => AtFile(outer') /\ ~Has(list, File(outer'))
  <2>1. CASE EnterSrcDir
    BY <2>1, EnterNext DEF EnterSrcDir, DupInv, TypeOK, Places
  <2>2. CASE StatSrc
    <3> DEFINE p == File(outer)
               st_size == SizeOf[files[p]]
    <3>1. AtFile(outer) /\ outer \in Walks /\ WalkOK(outer) /\ files[p] # Absent
      BY <2>2 DEF StatSrc, DupInv, TypeOK, Places
    <3>2. p \in Paths /\ Pass(outer) \in Walks /\ WalkOK(Pass(outer))
      BY <3>1, PassFile
    <3>3. st_size \in Nat
      BY <3>1, <3>2, ContentAssumption DEF DupInv, TypeOK
    <3>4. \/ pc' = "hash" /\ size' = st_size /\ outer' = outer /\ ~HavePath(p)
          \/ outer' = Pass(outer) /\ pc' = pc /\ size' = size
      BY <2>2 DEF StatSrc
    <3>5. size \in Nat
      BY DEF DupInv, TypeOK
    <3> HIDE DEF st_size
    <3> QED
      BY <1>1, <3>1, <3>2, <3>3, <3>4, <3>5, HavePathIsHas
  <2> QED
    BY <2>1, <2>2
<1>3. TypeOK'
  BY <1>1, <1>2 DEF DupInv, TypeOK, args
<1>4. Places'
  BY <1>1, <1>2 DEF DupInv, Places
<1>5. NodeFresh'
  BY <1>1, <1>2 DEF DupInv, NodeFresh
<1>6. Listing' /\ Alike'
  BY <1>1, <1>2 DEF DupInv, Listing, Alike
<1> QED
  BY <1>3, <1>4, <1>5, <1>6 DEF DupInv

\* A node that is new has no members but the file it is built around.
LEMMA HashStep ==
  ASSUME DupInv, HashSrc, UNCHANGED quiet
  PROVE  DupInv'
<1> DEFINE p == File(outer)
<1>1. /\ pc = "hash" /\ pc' = "search" /\ files[p] # Absent /\ inner' = NotStarted
      /\ UNCHANGED <<args, files, outer, size, list, quiet>>
  BY DEF HashSrc
<1>2. p \in Paths /\ ~Has(list, p) /\ AtFile(outer)
  BY <1>1, PassFile DEF DupInv, TypeOK, Places, NodeFresh
<1>3. PICK intact \in BOOLEAN :
        node' = [path |-> p, size |-> size, md |-> files[p], intact |-> intact, low |-> <<>>]
  BY DEF HashSrc
<1>4. node' \in Nodes /\ node'.path = p /\ node'.md = files[p] /\ node'.low = <<>>
  <2>1. files[p] \in Contents /\ size \in Nat
    BY <1>1, <1>2 DEF DupInv, TypeOK
  <2> QED
    BY <1>2, <1>3, <2>1 DEF Nodes
<1>5. Range(node'.low) = {} /\ Members(node') = {p} /\ NodeOnce(node')
  BY <1>4 DEF Members, NodeOnce, Range, IsInjective
<1>6. Fresh(list, node')
  BY <1>2, <1>5 DEF Fresh
<1>7. NotStarted \in Walks /\ WalkOK(NotStarted)
  BY TreeShape DEF NotStarted, Walks, WalkOK
<1>8. TypeOK'
  BY <1>1, <1>4, <1>7 DEF DupInv, TypeOK, args
<1>9. Places'
  BY <1>1, <1>2, <1>4, <1>7 DEF DupInv, Places
<1>10. NodeFresh'
  BY <1>1, <1>5, <1>6 DEF NodeFresh
<1>11. Listing' /\ Alike'
  <2>1. \A m \in Members(node') : files'[m] = node'.md
    BY <1>1, <1>4, <1>5
  <2> QED
    BY <1>1, <2>1 DEF DupInv, Listing, Alike
<1> QED
  BY <1>8, <1>9, <1>10, <1>11 DEF DupInv

\* A step of the inner walk.
LEMMA InnerSteps ==
  ASSUME DupInv, EnterDir \/ Stat, UNCHANGED quiet
  PROVE  DupInv'
<1>1. pc = "search" /\ UNCHANGED <<args, files, outer, size, node, list, quiet>>
  BY DEF EnterDir, Stat
<1>2. /\ inner' \in Walks /\ WalkOK(inner') /\ pc' \in {"search", "compare"}
      /\ \A p : Ahead(inner', p) => Ahead(inner, p)
      /\ pc' = "compare" => /\ AtFile(inner')
                            /\ File(inner') # node.path /\ ~Has(list, File(inner'))
  <2>1. CASE EnterDir
    BY <2>1, EnterNext DEF EnterDir, DupInv, TypeOK, Places
  <2>2. CASE Stat
    <3>1. AtFile(inner) /\ inner \in Walks /\ WalkOK(inner)
      BY <2>2 DEF Stat, DupInv, TypeOK, Places
    <3>2. /\ Pass(inner) \in Walks /\ WalkOK(Pass(inner))
          /\ \A p : Ahead(Pass(inner), p) => Ahead(inner, p)
      BY <3>1, PassFile
    <3>3. \/ pc' = "compare" /\ inner' = inner /\ ~HavePath(File(inner)) /\ File(inner) # node.path
          \/ inner' = Pass(inner) /\ pc' = pc
      BY <2>2 DEF Stat
    <3> QED
      BY <1>1, <3>1, <3>2, <3>3, HavePathIsHas
  <2> QED
    BY <2>1, <2>2
<1>3. TypeOK'
  BY <1>1, <1>2 DEF DupInv, TypeOK, args
<1>4. Places'
  BY <1>1, <1>2 DEF DupInv, Places
<1>5. NodeFresh'
  BY <1>1, <1>2 DEF DupInv, NodeFresh
<1>6. Listing' /\ Alike'
  BY <1>1, <1>2 DEF DupInv, Listing, Alike
<1> QED
  BY <1>3, <1>4, <1>5, <1>6 DEF DupInv

\* The file that is compared was ahead of the walk, so it is no member yet; and
\* behind the walk, it stays the only one of it.
LEMMA CompareStep ==
  ASSUME DupInv, Compare, UNCHANGED quiet
  PROVE  DupInv'
<1> DEFINE q == File(inner)
<1>1. /\ pc = "compare" /\ pc' = "search" /\ inner' = Pass(inner)
      /\ UNCHANGED <<args, files, outer, size, list, quiet>>
  BY DEF Compare
<1>2. AtFile(inner) /\ inner \in Walks /\ WalkOK(inner) /\ node \in Nodes /\ Fresh(list, node)
  BY <1>1 DEF DupInv, TypeOK, Places, NodeFresh
<1>3. /\ q \in Paths /\ Ahead(inner, q) /\ inner' \in Walks /\ WalkOK(inner') /\ ~Ahead(inner', q)
      /\ \A p : Ahead(inner', p) => Ahead(inner, p)
  BY <1>1, <1>2, PassFile
<1>4. q \notin Members(node) /\ ~Has(list, q)
  BY <1>1, <1>3 DEF DupInv, NodeFresh, Members
<1>5. \/ node' = node
      \/ node' = [node EXCEPT !.low = Append(@, q)] /\ node.md = files[q]
  BY DEF Compare, HashCmp
<1>6. /\ node' \in Nodes /\ Fresh(list, node')
      /\ node'.path = node.path /\ node'.md = node.md
      /\ \A p \in Range(node'.low) : p \in Range(node.low) \/ (p = q /\ node.md = files[q])
  <2>1. CASE node' = node
    BY <1>2, <2>1
  <2>2. CASE node' = [node EXCEPT !.low = Append(@, q)] /\ node.md = files[q]
    <3> DEFINE m == [node EXCEPT !.low = Append(@, q)]
    <3>1. /\ m \in Nodes /\ Fresh(list, m) /\ m.path = node.path /\ m.md = node.md
          /\ Range(m.low) = Range(node.low) \cup {q}
      BY <1>2, <1>3, <1>4, MemberAdded
    <3>2. node' = m
      BY <2>2
    <3> HIDE DEF m
    <3> QED
      BY <2>2, <3>1, <3>2
  <2> QED
    BY <1>5, <2>1, <2>2
<1>7. TypeOK'
  BY <1>1, <1>3, <1>6 DEF DupInv, TypeOK, args
<1>8. Places'
  BY <1>1, <1>3, <1>6 DEF DupInv, Places
<1>9. NodeFresh'
  <2>1. \A p \in Range(node'.low) : ~Ahead(inner', p)
    BY <1>1, <1>3, <1>6 DEF DupInv, NodeFresh
  <2> QED
    BY <1>1, <1>6, <2>1 DEF NodeFresh
<1>10. Listing' /\ Alike'
  <2>1. quiet => \A p \in Members(node') : files[p] = node'.md
    BY <1>1, <1>6 DEF DupInv, Alike, Members
  <2> QED
    BY <1>1, <2>1 DEF DupInv, Listing, Alike
<1> QED
  BY <1>7, <1>8, <1>9, <1>10 DEF DupInv

\* A node with members goes to its place in the list.
LEMMA DoneStep ==
  ASSUME DupInv, SearchDone, UNCHANGED quiet
  PROVE  DupInv'
<1>1. /\ pc = "search" /\ pc' = "scan" /\ node' = NoNode /\ outer' = Pass(outer)
      /\ UNCHANGED <<args, files, size, inner, quiet>>
  BY DEF SearchDone
<1>2. node \in Nodes /\ Fresh(list, node) /\ list \in Seq(Nodes) /\ ListOnce(list)
  BY <1>1 DEF DupInv, TypeOK, Places, NodeFresh, Listing
<1>3. outer' \in Walks /\ WalkOK(outer')
  BY <1>1, PassFile DEF DupInv, TypeOK, Places
<1>4. /\ list' \in Seq(Nodes) /\ ListOnce(list')
      /\ \A k, l \in DOMAIN list' : k < l => list'[k].size <= list'[l].size
      /\ \A k \in DOMAIN list' : \/ \E j \in DOMAIN list : list'[k] = list[j]
                                 \/ list'[k] = node /\ node.low # <<>>
  <2>1. CASE UNCHANGED list
    BY <1>2, <2>1 DEF DupInv, Listing
  <2>2. CASE node.low # <<>> /\ AddNode(node)
    <3>1. PICK i \in 1..(Len(list) + 1) :
            /\ \A k \in 1..(i - 1) : list[k].size <= node.size
            /\ i <= Len(list) => list[i].size > node.size
            /\ list' = InsertAt(list, i, node)
      BY <2>2 DEF AddNode
    <3>2. /\ list' \in Seq(Nodes) /\ DOMAIN list' = 1..(Len(list) + 1)
          /\ \A j \in 1..(Len(list) + 1) :
               list'[j] = IF j < i THEN list[j] ELSE IF j = i THEN node ELSE list[j - 1]
      BY <1>2, <3>1, InsertAtProps
    <3>3. ListOnce(list')
      BY <1>2, <3>1, Inserted
    <3>4. DOMAIN list = 1..Len(list) /\ Len(list) \in Nat
      BY <1>2
    <3>5. \A k, l \in DOMAIN list : k < l => list[k].size <= list[l].size
      BY DEF DupInv, Listing
    <3>6. \A k \in DOMAIN list : list[k].size \in Nat
      <4>1. \A k \in DOMAIN list : list[k] \in Nodes
        BY <1>2
      <4> QED
        BY <4>1 DEF Nodes
    <3>7. node.size \in Nat
      BY <1>2 DEF Nodes
    <3>8. \A k \in DOMAIN list : k >= i => list[k].size > node.size
      <4> SUFFICES ASSUME NEW k \in DOMAIN list, k >= i PROVE list[k].size > node.size
        OBVIOUS
      <4>1. i \in DOMAIN list /\ list[i].size > node.size
        BY <3>1, <3>4
      <4>2. list[i].size <= list[k].size
        BY <3>4, <3>5, <3>6, <4>1
      <4> QED
        BY <3>6, <3>7, <4>1, <4>2
    <3>9. ASSUME NEW k \in DOMAIN list', NEW l \in DOMAIN list', k < l
          PROVE  list'[k].size <= list'[l].size
      <4>1. CASE l < i
        BY <3>2, <3>4, <3>5, <3>9, <4>1
      <4>2. CASE l = i
        BY <3>1, <3>2, <3>4, <3>9, <4>2
      <4>3. CASE l > i
        <5>1. list'[l] = list[l - 1] /\ l - 1 \in DOMAIN list /\ l - 1 >= i
          BY <3>2, <3>4, <4>3
        <5>2. list[l - 1].size > node.size
          BY <3>8, <5>1
        <5>3. CASE k < i
          <6>1. list'[k] = list[k] /\ k \in DOMAIN list /\ k < l - 1
            BY <3>2, <3>4, <5>1, <5>3
          <6> QED
            BY <3>5, <5>1, <6>1
        <5>4. CASE k = i
          BY <3>2, <3>6, <3>7, <5>1, <5>2, <5>4
        <5>5. CASE k > i
          <6>1. list'[k] = list[k - 1] /\ k - 1 \in DOMAIN list /\ k - 1 < l - 1
            BY <3>2, <3>4, <3>9, <5>1, <5>5
          <6> QED
            BY <3>5, <5>1, <6>1
        <5> QED
          BY <3>2, <3>4, <5>3, <5>4, <5>5
      <4> QED
        BY <3>2, <3>4, <4>1, <4>2, <4>3
    <3>10. \A k \in DOMAIN list' : (\E j \in DOMAIN list : list'[k] = list[j]) \/ list'[k] = node
      BY <3>2, <3>4
    <3> QED
      BY <2>2, <3>2, <3>3, <3>9, <3>10
  <2> QED
    BY <2>1, <2>2 DEF SearchDone
<1>5. TypeOK'
  BY <1>1, <1>3, <1>4 DEF DupInv, TypeOK, args
<1>6. Places'
  BY <1>1, <1>3 DEF DupInv, Places
<1>7. NodeFresh'
  BY <1>1 DEF NodeFresh
<1>8. Listing'
  BY <1>1, <1>4 DEF Listing
<1>9. Alike'
  <2> SUFFICES ASSUME quiet, NEW k \in DOMAIN list'
               PROVE  Len(list'[k].low) >= 1 /\ \A p \in Members(list'[k]) : files[p] = list'[k].md
    BY <1>1 DEF Alike
  <2>1. CASE \E j \in DOMAIN list : list'[k] = list[j]
    BY <1>1, <2>1 DEF DupInv, Alike
  <2>2. CASE list'[k] = node /\ node.low # <<>>
    <3>1. Len(node.low) >= 1
      BY <1>2, <2>2 DEF Nodes
    <3> QED
      BY <1>1, <2>2, <3>1 DEF DupInv, Alike
  <2> QED
    BY <1>4, <2>1, <2>2
<1> QED
  BY <1>5, <1>6, <1>7, <1>8, <1>9 DEF DupInv

\* rearr_list keeps what each set names.
LEMMA RearrStep ==
  ASSUME DupInv, Rearr, UNCHANGED quiet
  PROVE  DupInv'
<1>1. /\ pc = "scan" /\ pc' = "done" /\ node = NoNode
      /\ UNCHANGED <<args, files, outer, size, node, inner, quiet>>
  BY DEF Rearr, DupInv, Places
<1>2. list \in Seq(Nodes) /\ ListOnce(list)
  BY <1>1 DEF DupInv, TypeOK, Listing
<1>3. list' = [k \in DOMAIN list |-> [list[k] EXCEPT !.low = <<list[k].path>> \o @]]
  BY DEF Rearr
<1>4. DOMAIN list' = DOMAIN list /\ Len(list) \in Nat /\ DOMAIN list = 1..Len(list)
  BY <1>2, <1>3
<1>5. ASSUME NEW k \in DOMAIN list
      PROVE  /\ list'[k] \in Nodes /\ list'[k].size = list[k].size /\ list'[k].md = list[k].md
             /\ Len(list'[k].low) = Len(list[k].low) + 1
             /\ DOMAIN list'[k].low = 1..(Len(list[k].low) + 1)
             /\ list'[k].low[1] = list[k].path
             /\ \A a \in DOMAIN list'[k].low :
                  a # 1 => a - 1 \in DOMAIN list[k].low /\ list'[k].low[a] = list[k].low[a - 1]
  <2>1. list[k] \in Nodes /\ list[k].path \in Paths /\ list[k].low \in Seq(Paths)
    <3>1. list[k] \in Nodes
      BY <1>2
    <3> QED
      BY <3>1 DEF Nodes
  <2> DEFINE low == list[k].low
             turned == <<list[k].path>> \o low
  <2>2. list'[k] = [list[k] EXCEPT !.low = turned]
    BY <1>3
  <2>3. /\ turned \in Seq(Paths) /\ Len(turned) = Len(low) + 1 /\ DOMAIN turned = 1..(Len(low) + 1)
        /\ turned[1] = list[k].path
        /\ \A a \in 2..(Len(low) + 1) : a - 1 \in DOMAIN low /\ turned[a] = low[a - 1]
    BY <2>1
  <2> HIDE DEF turned
  <2>4. /\ list'[k] \in Nodes /\ list'[k].size = list[k].size /\ list'[k].md = list[k].md
        /\ list'[k].low = turned
    BY <2>1, <2>2, <2>3 DEF Nodes
  <2> QED
    BY <2>1, <2>3, <2>4
<1>6. list' \in Seq(Nodes)
  <2>1. \A k \in 1..Len(list) : list'[k] \in Nodes
    BY <1>4, <1>5
  <2>2. list' = [k \in 1..Len(list) |-> list'[k]]
    BY <1>3, <1>4
  <2> QED
    BY <1>4, <2>1, <2>2
<1>7. ASSUME NEW k \in DOMAIN list', NEW a \in DOMAIN list'[k].low
      PROVE  list'[k].low[a] \in Members(list[k])
  BY <1>4, <1>5 DEF Members, Range
<1>8. ASSUME NEW k \in DOMAIN list', NEW l \in DOMAIN list',
             NEW a \in DOMAIN list'[k].low, NEW b \in DOMAIN list'[l].low,
             list'[k].low[a] = list'[l].low[b]
      PROVE  k = l /\ a = b
  <2>1. k = l
    BY <1>2, <1>4, <1>7, <1>8 DEF ListOnce
  <2>2. NodeOnce(list[k])
    BY <1>2, <1>4 DEF ListOnce
  <2>3. a = 1 <=> b = 1
    BY <1>4, <1>5, <1>8, <2>1, <2>2 DEF NodeOnce, Range
  <2>4. CASE a # 1 /\ b # 1
    <3>1. /\ a - 1 \in DOMAIN list[k].low /\ b - 1 \in DOMAIN list[k].low
          /\ list[k].low[a - 1] = list[k].low[b - 1]
      BY <1>4, <1>5, <1>8, <2>1, <2>4
    <3>2. a - 1 = b - 1
      BY <2>2, <3>1 DEF NodeOnce, IsInjective
    <3>3. a \in Nat /\ b \in Nat
      BY <1>2, <1>4, <1>5, <2>1 DEF Nodes
    <3> QED
      BY <2>1, <3>2, <3>3
  <2> QED
    BY <2>1, <2>3, <2>4
<1>9. TypeOK'
  BY <1>1, <1>6 DEF DupInv, TypeOK, Ended, args
<1>10. Places'
  BY <1>1 DEF DupInv, Places
<1>11. NodeFresh'
  BY <1>1 DEF NodeFresh
<1>12. Listing'
  <2>1. \A k, l \in DOMAIN list' : k < l => list'[k].size <= list'[l].size
    BY <1>4, <1>5 DEF DupInv, Listing
  <2> QED
    BY <1>1, <1>8, <2>1 DEF Listing
<1>13. Alike'
  <2> SUFFICES ASSUME quiet, NEW k \in DOMAIN list'
               PROVE  /\ Len(list'[k].low) >= 2
                      /\ \A a \in DOMAIN list'[k].low : files[list'[k].low[a]] = list'[k].md
    BY <1>1 DEF Alike
  <2>1. Len(list[k].low) >= 1 /\ \A p \in Members(list[k]) : files[p] = list[k].md
    BY <1>1, <1>4 DEF DupInv, Alike
  <2>2. Len(list[k].low) \in Nat
    BY <1>2, <1>4 DEF Nodes
  <2> QED
    BY <1>4, <1>5, <1>7, <2>1, <2>2
<1> QED
  BY <1>9, <1>10, <1>11, <1>12, <1>13 DEF DupInv

\* What other programs do changes no list, and is not undisturbed.
LEMMA InterfereStep ==
  ASSUME DupInv, Interfere
  PROVE  DupInv'
<1>1. quiet' = FALSE /\ UNCHANGED <<args, pc, outer, size, node, inner, list>>
  BY DEF Interfere
<1>2. files' \in [Paths -> Contents \cup {Absent}]
  BY DEF Interfere, DupInv, TypeOK
<1>3. TypeOK'
  BY <1>1, <1>2 DEF DupInv, TypeOK, args
<1>4. Places' /\ NodeFresh' /\ Listing' /\ Alike'
  BY <1>1 DEF DupInv, Places, NodeFresh, Listing, Alike
<1> QED
  BY <1>3, <1>4 DEF DupInv

\* Every step keeps the invariant.
LEMMA DupNext == DupInv /\ [Next]_vars => DupInv'
<1> SUFFICES ASSUME DupInv, [Next]_vars PROVE DupInv'
  OBVIOUS
<1>1. CASE Step
  <2>1. UNCHANGED quiet /\ Search
    BY <1>1 DEF Step
  <2>2. CASE ReadArguments
    BY <2>1, <2>2, OutsideSteps DEF ReadArguments
  <2>3. CASE EnterSrcDir \/ StatSrc
    BY <2>1, <2>3, OuterSteps
  <2>4. CASE HashSrc
    BY <2>1, <2>4, HashStep
  <2>5. CASE SearchDone
    BY <2>1, <2>5, DoneStep
  <2>6. CASE Rearr
    BY <2>1, <2>6, RearrStep
  <2>7. CASE EnterDir \/ Stat
    BY <2>1, <2>7, InnerSteps
  <2>8. CASE Compare
    BY <2>1, <2>8, CompareStep
  <2>9. CASE ScanFails \/ StatFails \/ OpenFails
    BY <2>1, <2>9, OutsideSteps DEF ScanFails, StatFails, OpenFails
  <2> QED
    BY <2>1, <2>2, <2>3, <2>4, <2>5, <2>6, <2>7, <2>8, <2>9 DEF Search
<1>2. CASE Interfere
  BY <1>2, InterfereStep
<1>3. CASE UNCHANGED vars
  BY <1>3 DEF DupInv, TypeOK, Places, NodeFresh, Listing, Alike, vars, args
<1> QED
  BY <1>1, <1>2, <1>3 DEF Next

(***************************************************************************)
(* Nothing is left out.                                                    *)
(***************************************************************************)

\* Where the extension occurs in a name.
Occurrences(name) ==
  {i \in 0..(Len(name) - Len(Extension)) : SubSeq(name, i + 1, i + Len(Extension)) = Extension}

\* The inputs the promise is kept for: digests that survive strcpy and fill the node
\* (fsha1), a smallest size in whole bytes, and an extension that no name has twice.
\* (Complete itself leaves out the limits that a double does not hold.)
Plain ==
  /\ Clean = Contents /\ Whole
  /\ \A arg \in MinSizes \ {Tilde} : arg.unit = "none" => arg.tenths % 10 = 0
  /\ Extension \in Seq(Range(Extension))
  /\ \A p \in Paths :
       /\ NameOf[p] \in Seq(Range(NameOf[p]))
       /\ Extension # <<>> => \A i, j \in Occurrences(NameOf[p]) : i = j

\* What both walks look for.
Candidate(p) ==
  /\ files[p] # Absent
  /\ FiltReg(NameOf[p])
  /\ InRange(SizeOf[files[p]]) /\ SizeOf[files[p]] >= 1

\* S is the set of all candidates with this content.
AllWith(S, md) == \A q \in Paths : q \in S <=> Candidate(q) /\ files[q] = md

\* No other candidate has the content of p.
Alone(p) == \A q \in Paths : Candidate(q) /\ files[q] = files[p] => q = p

\* scandir has left only files of the extension.
Sieved(walk) == \A k \in walk.rest : FiltReg(NameOf[Tree[walk.dir][k]])

Limits ==
  /\ pc \notin {"args", "exit1"} => lminsize = Bytes(typed[1]) /\ lmaxsize = Bytes(typed[2])
  /\ pc = "args" => list = <<>> /\ outer = NotStarted

\* What the outer walk has passed is in a set that is full, or has no twin.
Settled ==
  /\ \A k \in DOMAIN list : AllWith(Members(list[k]), list[k].md)
  /\ \A p \in Paths : Candidate(p) /\ ~Ahead(outer, p) => Has(list, p) \/ Alone(p)

\* What the inner walk has passed is a member of the node if it is a twin of its path.
Gathered ==
  /\ node.intact /\ node.size = SizeOf[node.md]
  /\ node.path = File(outer) /\ node.md = files[node.path]
  /\ \A p \in Members(node) : Candidate(p)
  /\ \A q \in Paths : Candidate(q) /\ files[q] = node.md /\ ~Ahead(inner, q) => q \in Members(node)

\* The same behind rearr_list.
TurnedRound ==
  /\ \A k \in DOMAIN list : AllWith(Range(list[k].low), list[k].md)
  /\ \A p \in Paths : Candidate(p) => Alone(p) \/ \E k \in DOMAIN list : p \in Range(list[k].low)

FullInv ==
  /\ Limits
  /\ Sieved(outer) /\ Sieved(inner)
  /\ quiet =>
       /\ pc \in {"scan", "hash", "search", "compare"} => Settled
       /\ pc = "hash" => Candidate(File(outer)) /\ size = SizeOf[files[File(outer)]]
       /\ pc \in {"search", "compare"} => Gathered
       /\ pc = "compare" => Candidate(File(inner))
       /\ pc = "done" => TurnedRound

\* The walk passes one file at a time.
LEMMA PassLeaves ==
  ASSUME NEW walk \in Walks, WalkOK(walk), AtFile(walk)
  PROVE  \A p : Ahead(walk, p) => Ahead(Pass(walk), p) \/ p = File(walk)
<1>1. Pass(walk).dir = walk.dir /\ Pass(walk).rest = walk.rest \ {First(walk)}
  BY DEF Pass, Walks
<1> QED
  BY <1>1 DEF Ahead, File

\* scandir leaves out only what the walk does not look for.
LEMMA EnterLeaves ==
  ASSUME NEW walk \in Walks, WalkOK(walk), AtDirectory(walk)
  PROVE  \A p : Ahead(walk, p) /\ files[p] # Absent /\ FiltReg(NameOf[p]) => Ahead(Enter(walk), p)
<1> SUFFICES ASSUME NEW p, Ahead(walk, p), files[p] # Absent, FiltReg(NameOf[p])
             PROVE  Ahead(Enter(walk), p)
  OBVIOUS
<1>1. PICK d \in DOMAIN Tree : \E k \in DOMAIN Tree[d] : Tree[d][k] = p /\ d > walk.dir
  BY DEF Ahead, AtDirectory
<1>2. PICK k \in DOMAIN Tree[d] : Tree[d][k] = p
  BY <1>1
<1>3. d \in Nat /\ walk.dir \in Nat /\ d > walk.dir
  BY <1>1, TreeShape DEF WalkOK
<1>4. CASE d = walk.dir + 1
  <2>1. k \in Enter(walk).rest /\ Enter(walk).dir = d
    BY <1>2, <1>4 DEF Enter
  <2> QED
    BY <1>2, <2>1 DEF Ahead
<1>5. CASE d > walk.dir + 1
  <2>1. d > Enter(walk).dir
    BY <1>5 DEF Enter
  <2> QED
    BY <1>2, <2>1 DEF Ahead
<1> QED
  BY <1>3, <1>4, <1>5

\* At the end nothing is ahead of a walk, at the start everything.
LEMMA WalkEnds ==
  ASSUME NEW walk \in Walks, WalkOK(walk), AtEnd(walk)
  PROVE  \A p : ~Ahead(walk, p)
BY TreeShape DEF Ahead, AtEnd

LEMMA WalkStarts == \A p \in Paths : Ahead(NotStarted, p)
<1> SUFFICES ASSUME NEW p \in Paths PROVE Ahead(NotStarted, p)
  OBVIOUS
<1>1. PICK d \in DOMAIN Tree : \E k \in DOMAIN Tree[d] : Tree[d][k] = p
  BY DEF Paths, Range
<1>2. d > 0
  BY TreeShape
<1> QED
  BY <1>1, <1>2 DEF Ahead, NotStarted

\* Where no name has the extension twice, filt_reg takes the files that end in it.
LEMMA FiltRegIsSuffix ==
  ASSUME Plain, NEW p \in Paths
  PROVE  FiltReg(NameOf[p]) <=> IsSuffix(Extension, NameOf[p])
<1> DEFINE e == Extension
           n == NameOf[p]
           last == Len(n) - Len(e)
<1>1. /\ e \in Seq(Range(e)) /\ n \in Seq(Range(n))
      /\ Len(e) \in Nat /\ Len(n) \in Nat
      /\ DOMAIN e = 1..Len(e) /\ DOMAIN n = 1..Len(n)
      /\ e # <<>> => \A i, j \in Occurrences(n) : i = j
  <2>1. e \in Seq(Range(e)) /\ n \in Seq(Range(n))
    BY DEF Plain
  <2>2. e # <<>> => \A i, j \in Occurrences(n) : i = j
    BY DEF Plain
  <2> HIDE DEF e, n
  <2> QED
    BY <2>1, <2>2
<1> HIDE DEF e, n
<1>2. FiltReg(n) <=> e = <<>> \/ last \in Occurrences(n)
  <2>1. FiltReg(n) <=> \/ e = <<>>
                       \/ \E i \in Occurrences(n) : (\A j \in Occurrences(n) : i <= j)
                                                    /\ i + Len(e) = Len(n)
    BY DEF FiltReg, Occurrences, e
  <2>2. \A i \in Occurrences(n) : i \in Int /\ (i + Len(e) = Len(n) <=> i = last) /\ i <= i
    BY <1>1 DEF Occurrences, e
  <2> HIDE DEF last
  <2> QED
    BY <1>1, <2>1, <2>2
<1>3. /\ Reverse(e) \in Seq(Range(e)) /\ Len(Reverse(e)) = Len(e)
      /\ \A i \in 1..Len(e) : Reverse(e)[i] = e[Len(e) - i + 1]
  BY <1>1 DEF Reverse
<1>4. /\ Reverse(n) \in Seq(Range(n)) /\ Len(Reverse(n)) = Len(n)
      /\ \A i \in 1..Len(n) : Reverse(n)[i] = n[Len(n) - i + 1]
  BY <1>1 DEF Reverse
<1>5. IsSuffix(e, n) <=> /\ Len(e) <= Len(n)
                         /\ \A i \in 1..Len(e) : e[Len(e) - i + 1] = n[Len(n) - i + 1]
  <2> DEFINE a == Reverse(e)
             b == Reverse(n)
  <2>1. IsSuffix(e, n) <=> Len(a) <= Len(b) /\ SubSeq(a, 1, Len(a)) = SubSeq(b, 1, Len(a))
    BY DEF IsSuffix, IsPrefix
  <2>2. ASSUME Len(e) <= Len(n)
        PROVE  SubSeq(a, 1, Len(a)) = SubSeq(b, 1, Len(a)) <=> \A i \in 1..Len(e) : a[i] = b[i]
    <3>1. a \in Seq(Range(e)) /\ b \in Seq(Range(n)) /\ Len(a) = Len(e) /\ Len(b) = Len(n)
      BY <1>3, <1>4
    <3> HIDE DEF a, b
    <3>2. SubSeq(a, 1, Len(a)) = [i \in 1..Len(e) |-> a[i]]
      BY <1>1, <3>1
    <3>3. SubSeq(b, 1, Len(a)) = [i \in 1..Len(e) |-> b[i]]
      BY <1>1, <2>2, <3>1
    <3> QED
      BY <3>2, <3>3
  <2>3. ASSUME Len(e) <= Len(n)
        PROVE  \A i \in 1..Len(e) : a[i] = e[Len(e) - i + 1] /\ b[i] = n[Len(n) - i + 1]
    BY <1>1, <1>3, <1>4, <2>3
  <2> QED
    BY <1>3, <1>4, <2>1, <2>2, <2>3
<1>6. last \in Occurrences(n) <=> /\ Len(e) <= Len(n)
                                  /\ \A j \in 1..Len(e) : e[j] = n[last + j]
  <2>1. last \in Occurrences(n) <=> Len(e) <= Len(n) /\ SubSeq(n, last + 1, last + Len(e)) = e
    BY <1>1 DEF Occurrences, e
  <2>2. ASSUME Len(e) <= Len(n)
        PROVE  SubSeq(n, last + 1, last + Len(e)) = e <=> \A j \in 1..Len(e) : e[j] = n[last + j]
    <3>1. last \in Nat /\ last + Len(e) = Len(n)
      BY <1>1, <2>2
    <3> HIDE DEF last
    <3>2. SubSeq(n, last + 1, last + Len(e)) = [j \in 1..Len(e) |-> n[last + j]]
      BY <1>1, <3>1
    <3>3. e = [j \in 1..Len(e) |-> e[j]]
      BY <1>1
    <3> QED
      BY <3>2, <3>3
  <2> QED
    BY <2>1, <2>2
<1>7. ASSUME Len(e) <= Len(n)
      PROVE  (\A i \in 1..Len(e) : e[Len(e) - i + 1] = n[Len(n) - i + 1])
               <=> \A j \in 1..Len(e) : e[j] = n[last + j]
  <2>1. ASSUME \A i \in 1..Len(e) : e[Len(e) - i + 1] = n[Len(n) - i + 1], NEW j \in 1..Len(e)
        PROVE  e[j] = n[last + j]
    <3> DEFINE i == Len(e) - j + 1
    <3>1. i \in 1..Len(e) /\ Len(e) - i + 1 = j /\ Len(n) - i + 1 = last + j
      BY <1>1
    <3> QED
      BY <2>1, <3>1
  <2>2. ASSUME \A j \in 1..Len(e) : e[j] = n[last + j], NEW i \in 1..Len(e)
        PROVE  e[Len(e) - i + 1] = n[Len(n) - i + 1]
    <3>1. Len(e) - i + 1 \in 1..Len(e) /\ last + (Len(e) - i + 1) = Len(n) - i + 1
      BY <1>1
    <3> QED
      BY <2>2, <3>1
  <2> QED
    BY <2>1, <2>2
<1>8. e = <<>> => IsSuffix(e, n)
  BY <1>1, <1>5
<1> QED
  BY <1>2, <1>5, <1>6, <1>7, <1>8 DEF e, n

\* The limits that main makes are those that were typed, if a double holds them.
LEMMA LimitsAreTyped ==
  ASSUME Plain, TypeOK, lminsize = Bytes(typed[1]), lmaxsize = Bytes(typed[2]),
         typed[1] \notin Inexact, typed[2] \notin Inexact, NEW bytes \in Nat
  PROVE  InRange(bytes) /\ bytes >= 1 <=> Asked(bytes)
<1>1. typed[1] \in MinSizes /\ typed[2] \in MaxSizes
  BY DEF TypeOK
<1>2. ASSUME NEW arg \in MinSizes \cup MaxSizes, arg # Tilde, arg \notin Inexact
      PROVE  /\ Units[arg.unit] \in Nat /\ arg.tenths \in Nat
             /\ arg.tenths * Units[arg.unit] \in Nat
             /\ Bytes(arg) = (arg.tenths * Units[arg.unit]) \div 10
             /\ Bytes(arg) \in Nat
             /\ arg.unit # "none" => (arg.tenths * Units[arg.unit]) % 10 = 0
             /\ arg.unit = "none" => arg.tenths * Units[arg.unit] = arg.tenths
  <2>1. arg \in [tenths : Nat, unit : {"none", "KB", "MB", "GB"}]
    BY <1>2, SizesAssumption DEF Units
  <2>2. arg.tenths \in Nat /\ Bytes(arg) = (arg.tenths * Units[arg.unit]) \div 10
    BY <1>2, <2>1 DEF Bytes
  <2>3. \/ arg.unit = "none" /\ Units[arg.unit] = 1
        \/ arg.unit = "KB" /\ Units[arg.unit] = 1000
        \/ arg.unit = "MB" /\ Units[arg.unit] = 1000000
        \/ arg.unit = "GB" /\ Units[arg.unit] = 1000000000
    BY <2>1 DEF Units
  <2>4. \A m \in Nat : /\ m * 1 = m /\ m * 1000 \in Nat /\ m * 1000000 \in Nat /\ m * 1000000000 \in Nat
                       /\ (m * 1000) % 10 = 0 /\ (m * 1000000) % 10 = 0 /\ (m * 1000000000) % 10 = 0
    OBVIOUS
  <2>5. \A m \in Nat : m \div 10 \in Nat
    OBVIOUS
  <2>6. arg.tenths * Units[arg.unit] \in Nat
    BY <2>2, <2>3, <2>4
  <2> QED
    BY <2>2, <2>3, <2>4, <2>5, <2>6
<1>3. (lminsize = -1 \/ lminsize <= bytes)
        <=> (typed[1] # Tilde => 10 * bytes >= typed[1].tenths * Units[typed[1].unit])
  <2>1. CASE typed[1] = Tilde
    BY <2>1 DEF Bytes
  <2>2. CASE typed[1] # Tilde
    <3> DEFINE m == typed[1].tenths * Units[typed[1].unit]
    <3>1. m \in Nat /\ lminsize = m \div 10 /\ lminsize \in Nat /\ m % 10 = 0
      BY <1>1, <1>2, <2>2 DEF Plain
    <3> HIDE DEF m
    <3>2. m \div 10 <= bytes <=> 10 * bytes >= m
      BY <3>1
    <3> QED
      BY <2>2, <3>1, <3>2 DEF m
  <2> QED
    BY <2>1, <2>2
<1>4. (lmaxsize = -1 \/ bytes <= lmaxsize)
        <=> (typed[2] # Tilde => 10 * bytes <= typed[2].tenths * Units[typed[2].unit])
  <2>1. CASE typed[2] = Tilde
    BY <2>1 DEF Bytes
  <2>2. CASE typed[2] # Tilde
    <3> DEFINE m == typed[2].tenths * Units[typed[2].unit]
    <3>1. m \in Nat /\ lmaxsize = m \div 10 /\ lmaxsize \in Nat
      BY <1>1, <1>2, <2>2
    <3> HIDE DEF m
    <3>2. bytes <= m \div 10 <=> 10 * bytes <= m
      BY <3>1
    <3> QED
      BY <2>2, <3>1, <3>2 DEF m
  <2> QED
    BY <2>1, <2>2
<1> QED
  BY <1>3, <1>4 DEF InRange, Asked

\* The candidates are what the user asked for.
LEMMA CandidatesAreWanted ==
  ASSUME Plain, TypeOK, lminsize = Bytes(typed[1]), lmaxsize = Bytes(typed[2]),
         typed[1] \notin Inexact, typed[2] \notin Inexact
  PROVE  \A p \in Paths : Candidate(p) <=> p \in Wanted
<1> SUFFICES ASSUME NEW p \in Paths, files[p] # Absent
             PROVE  Candidate(p) <=> p \in Wanted
  BY DEF Candidate, Wanted
<1>1. SizeOf[files[p]] \in Nat
  BY ContentAssumption DEF TypeOK
<1> QED
  BY <1>1, FiltRegIsSuffix, LimitsAreTyped DEF Candidate, Wanted

\* What the walks leave and add has the extension.
LEMMA SievedSteps ==
  ASSUME NEW walk \in Walks, WalkOK(walk)
  PROVE  /\ Sieved(walk) /\ AtFile(walk) => Sieved(Pass(walk)) /\ FiltReg(NameOf[File(walk)])
         /\ AtDirectory(walk) => Sieved(Enter(walk))
         /\ Sieved(NotStarted)
<1>1. ASSUME Sieved(walk), AtFile(walk)
      PROVE  Sieved(Pass(walk)) /\ FiltReg(NameOf[File(walk)])
  <2>1. Pass(walk).dir = walk.dir /\ Pass(walk).rest = walk.rest \ {First(walk)}
    BY DEF Pass, Walks
  <2>2. walk.rest \in SUBSET Nat /\ walk.rest # {}
    BY <1>1, TreeShape DEF WalkOK, AtFile
  <2>3. First(walk) \in walk.rest
    BY <2>2, Smallest DEF First
  <2> QED
    BY <1>1, <2>1, <2>3 DEF Sieved, File
<1>2. AtDirectory(walk) => Sieved(Enter(walk))
  BY DEF Enter, Sieved
<1> QED
  BY <1>1, <1>2 DEF Sieved, NotStarted

\* The arguments, the ways out, and other programs.
LEMMA FullOutside ==
  ASSUME DupInv, FullInv, pc # "done", ReadArguments \/ GiveUp, UNCHANGED quiet
  PROVE  FullInv'
<1>0. (Sieved(outer) /\ Sieved(inner))'
  BY DEF FullInv, ReadArguments, GiveUp, Sieved
<1>1. CASE GiveUp
  <2>1. pc' = "exit1"
    BY <1>1 DEF GiveUp
  <2> QED
    BY <1>0, <2>1 DEF FullInv, Limits
<1>2. CASE ReadArguments /\ pc' # "exit1"
  <2>1. /\ pc = "args" /\ pc' = "scan" /\ list' = <<>> /\ outer' = NotStarted
        /\ lminsize' = Bytes(typed[1]) /\ lmaxsize' = Bytes(typed[2]) /\ typed' = typed
    BY <1>2 DEF ReadArguments, FullInv, Limits
  <2>2. Limits'
    BY <2>1 DEF Limits
  <2>3. Settled'
    <3>1. \A p \in Paths : Ahead(outer, p)'
      BY <2>1, WalkStarts
    <3> QED
      BY <2>1, <3>1 DEF Settled
  <2> QED
    BY <1>0, <2>1, <2>2, <2>3 DEF FullInv
<1>3. CASE pc' = "exit1"
  BY <1>0, <1>3 DEF FullInv, Limits
<1> QED
  BY <1>1, <1>2, <1>3

LEMMA FullInterfere ==
  ASSUME FullInv, Interfere
  PROVE  FullInv'
BY DEF FullInv, Limits, Interfere, args

\* The outer walk passes a file that is no candidate, or is in a set already.
LEMMA FullOuter ==
  ASSUME DupInv, FullInv, EnterSrcDir \/ StatSrc, UNCHANGED quiet
  PROVE  FullInv'
<1>1. pc = "scan" /\ pc' \in {"scan", "hash"} /\ UNCHANGED <<args, files, node, inner, list, quiet>>
  BY DEF EnterSrcDir, StatSrc
<1>2. outer \in Walks /\ WalkOK(outer)
  BY DEF DupInv, TypeOK, Places
<1>3. Limits'
  BY <1>1 DEF FullInv, Limits, args
<1>4. ASSUME quiet
      PROVE  /\ \A p \in Paths : Candidate(p) /\ ~Ahead(outer', p) => Has(list, p) \/ Alone(p)
             /\ pc' = "hash" => Candidate(File(outer')) /\ size' = SizeOf[files[File(outer')]]
  <2>1. \A p \in Paths : Candidate(p) /\ ~Ahead(outer, p) => Has(list, p) \/ Alone(p)
    BY <1>1, <1>4 DEF FullInv, Settled
  <2>2. CASE EnterSrcDir
    <3>1. outer' = Enter(outer) /\ AtDirectory(outer) /\ pc' = "scan"
      BY <2>2 DEF EnterSrcDir
    <3>2. \A p : Candidate(p) /\ Ahead(outer, p) => Ahead(outer', p)
      BY <1>2, <3>1, EnterLeaves DEF Candidate
    <3> QED
      BY <2>1, <3>1, <3>2
  <2>3. CASE StatSrc
    <3> DEFINE p == File(outer)
               st_size == SizeOf[files[p]]
    <3>1. AtFile(outer) /\ files[p] # Absent
      BY <2>3 DEF StatSrc
    <3>2. p \in Paths
      BY <1>2, <3>1, PassFile
    <3>3. CASE InRange(st_size) /\ st_size >= 1 /\ ~HavePath(p)
      <4>1. pc' = "hash" /\ size' = st_size /\ outer' = outer
        BY <2>3, <3>3 DEF StatSrc
      <4>2. FiltReg(NameOf[p])
        BY <1>2, <3>1, SievedSteps DEF FullInv
      <4> QED
        BY <2>1, <3>1, <3>3, <4>1, <4>2 DEF Candidate
    <3>4. CASE ~(InRange(st_size) /\ st_size >= 1 /\ ~HavePath(p))
      <4>1. pc' = pc /\ outer' = Pass(outer)
        BY <2>3, <3>4 DEF StatSrc
      <4>2. Candidate(p) => Has(list, p)
        BY <3>4, HavePathIsHas DEF Candidate
      <4>3. \A q : Ahead(outer, q) => Ahead(outer', q) \/ q = p
        BY <1>2, <3>1, <4>1, PassLeaves
      <4> QED
        BY <1>1, <2>1, <4>1, <4>2, <4>3
    <3> QED
      BY <3>3, <3>4
  <2> QED
    BY <2>2, <2>3
<1>5. quiet => Settled'
  <2>1. ASSUME quiet, NEW k \in DOMAIN list PROVE AllWith(Members(list[k]), list[k].md)'
    <3>1. AllWith(Members(list[k]), list[k].md)
      BY <1>1, <2>1 DEF FullInv, Settled
    <3> QED
      BY <1>1, <3>1 DEF AllWith, Candidate, InRange, args
  <2> QED
    BY <1>1, <1>4, <2>1 DEF Settled, Has, Alone, Candidate, InRange, args
<1>6. quiet /\ pc' = "hash" => Candidate(File(outer))' /\ size' = SizeOf[files'[File(outer')]]
  BY <1>1, <1>4 DEF Candidate, InRange, args
<1>7. Sieved(outer)'
  BY <1>2, SievedSteps DEF FullInv, EnterSrcDir, StatSrc
<1> QED
  BY <1>1, <1>3, <1>5, <1>6, <1>7 DEF FullInv

\* A step that leaves the list and the outer walk alone, too, settles no other file.
LEMMA SettledStays ==
  ASSUME Settled, UNCHANGED <<args, files, outer, list>>
  PROVE  Settled'
<1>1. ASSUME NEW k \in DOMAIN list PROVE AllWith(Members(list[k]), list[k].md)'
  <2>1. AllWith(Members(list[k]), list[k].md)
    BY DEF Settled
  <2> QED
    BY <2>1 DEF AllWith, Candidate, InRange, args
<1>2. \A p \in Paths : Candidate(p) /\ ~Ahead(outer, p) => Has(list, p) \/ Alone(p)
  BY DEF Settled
<1> QED
  BY <1>1, <1>2 DEF Settled, Has, Alone, Candidate, InRange, args

\* A new node has no members: all of its twins are ahead.
LEMMA FullHash ==
  ASSUME Plain, DupInv, FullInv, HashSrc, UNCHANGED quiet
  PROVE  FullInv'
<1> DEFINE p == File(outer)
<1>1. /\ pc = "hash" /\ pc' = "search" /\ files[p] # Absent /\ inner' = NotStarted
      /\ UNCHANGED <<args, files, outer, size, list, quiet>>
  BY DEF HashSrc
<1>2. p \in Paths /\ files[p] \in Contents
  BY <1>1, PassFile DEF DupInv, TypeOK, Places
<1>3. node' = [path |-> p, size |-> size, md |-> files[p], intact |-> TRUE, low |-> <<>>]
  BY <1>2 DEF HashSrc, Plain
<1>4. Limits' /\ (Sieved(outer) /\ Sieved(inner))'
  <2>1. Sieved(NotStarted)
    BY DEF Sieved, NotStarted
  <2> QED
    BY <1>1, <2>1 DEF FullInv, Limits, args, Sieved
<1>5. quiet => Settled'
  BY <1>1, SettledStays DEF FullInv
<1>6. ASSUME quiet PROVE Gathered'
  <2>1. node'.path = p /\ node'.md = files[p] /\ node'.intact /\ node'.size = size
    BY <1>3
  <2>2. Members(node') = {p}
    BY <1>3 DEF Members, Range
  <2>3. size = SizeOf[files[p]] /\ Candidate(p)
    BY <1>1, <1>6 DEF FullInv
  <2>4. \A q : Candidate(q)' <=> Candidate(q)
    BY <1>1 DEF Candidate, InRange, args
  <2>5. \A q \in Paths : Ahead(inner', q)
    BY <1>1, WalkStarts
  <2>6. \A q \in Members(node') : Candidate(q)'
    BY <2>2, <2>3, <2>4
  <2> HIDE DEF p
  <2>7. File(outer)' = p
    BY <1>1 DEF p
  <2> QED
    BY <1>1, <2>1, <2>3, <2>5, <2>6, <2>7 DEF Gathered
<1> QED
  BY <1>1, <1>4, <1>5, <1>6 DEF FullInv

\* What the inner walk has not looked for yet is no twin of the file at hand: no set in
\* the list has its content, since that set would be full and hold it.
LEMMA NoSetLikeNode ==
  ASSUME DupInv, FullInv, quiet, pc \in {"search", "compare"}
  PROVE  \A q \in Paths : Candidate(q) /\ files[q] = node.md => ~Has(list, q)
<1> SUFFICES ASSUME NEW q \in Paths, Candidate(q), files[q] = node.md,
                    NEW k \in DOMAIN list, q \in Members(list[k])
             PROVE  FALSE
  BY DEF Has
<1>1. AllWith(Members(list[k]), list[k].md) /\ Gathered
  BY DEF FullInv, Settled
<1>2. node \in Nodes /\ Fresh(list, node)
  BY DEF DupInv, Places, NodeFresh
<1>3. list[k].md = node.md
  BY <1>1 DEF AllWith
<1>4. node.path \in Paths /\ Candidate(node.path) /\ files[node.path] = node.md
  BY <1>1, <1>2 DEF Gathered, Members, Nodes
<1>5. node.path \in Members(list[k])
  BY <1>1, <1>3, <1>4 DEF AllWith
<1> QED
  BY <1>2, <1>5 DEF Fresh, Members, Has

\* What holds of the node while the inner walk moves on: if all twins that are left
\* behind are its members, it is as full as before.
LEMMA GatheredStays ==
  ASSUME Gathered, UNCHANGED <<args, files, outer, node>>,
         \A q \in Paths : Candidate(q) /\ files[q] = node.md /\ Ahead(inner, q)
                            => Ahead(inner', q) \/ q \in Members(node)
  PROVE  Gathered'
<1>1. \A q \in Paths : Candidate(q) /\ files[q] = node.md /\ ~Ahead(inner', q) => q \in Members(node)
  BY DEF Gathered
<1>2. \A q : Candidate(q)' <=> Candidate(q)
  BY DEF Candidate, InRange, args
<1>3. \A q \in Members(node) : Candidate(q)'
  BY <1>2 DEF Gathered
<1> QED
  BY <1>1, <1>2, <1>3 DEF Gathered

\* The inner walk passes no twin of the file at hand.
LEMMA FullInner ==
  ASSUME DupInv, FullInv, EnterDir \/ Stat, UNCHANGED quiet
  PROVE  FullInv'
<1>1. /\ pc = "search" /\ pc' \in {"search", "compare"}
      /\ UNCHANGED <<args, files, outer, size, node, list, quiet>>
  BY DEF EnterDir, Stat
<1>2. inner \in Walks /\ WalkOK(inner) /\ node \in Nodes
  BY <1>1 DEF DupInv, TypeOK, Places
<1>3. Limits' /\ (Sieved(outer) /\ Sieved(inner))'
  <2>1. inner' = inner \/ (AtFile(inner) /\ inner' = Pass(inner))
          \/ (AtDirectory(inner) /\ inner' = Enter(inner))
    BY DEF EnterDir, Stat
  <2>2. Sieved(inner')
    BY <1>2, <2>1, SievedSteps DEF FullInv
  <2> QED
    BY <1>1, <2>2 DEF FullInv, Limits, args, Sieved
<1>4. quiet => Settled'
  BY <1>1, SettledStays DEF FullInv
<1>5. ASSUME quiet
      PROVE  /\ \A q \in Paths : Candidate(q) /\ files[q] = node.md /\ Ahead(inner, q)
                                   => Ahead(inner', q) \/ q \in Members(node)
             /\ pc' = "compare" => Candidate(File(inner)) /\ inner' = inner
  <2>1. CASE EnterDir
    BY <1>2, <2>1, EnterLeaves DEF EnterDir, Candidate
  <2>2. CASE Stat
    <3> DEFINE q == File(inner)
               st_size == SizeOf[files[q]]
    <3>1. AtFile(inner) /\ files[q] # Absent
      BY <2>2 DEF Stat
    <3>2. FiltReg(NameOf[q])
      BY <1>2, <3>1, SievedSteps DEF FullInv
    <3>3. Gathered
      BY <1>1, <1>5 DEF FullInv
    <3>4. CASE InRange(st_size) /\ ~HavePath(q) /\ q # node.path /\ st_size = node.size
      <4>1. pc' = "compare" /\ inner' = inner
        BY <2>2, <3>4 DEF Stat
      <4>2. Candidate(node.path) /\ node.size = SizeOf[files[node.path]]
        BY <3>3 DEF Gathered, Members
      <4>3. st_size >= 1
        BY <3>4, <4>2 DEF Candidate
      <4> QED
        BY <3>1, <3>2, <3>4, <4>1, <4>3 DEF Candidate
    <3>5. CASE ~(InRange(st_size) /\ ~HavePath(q) /\ q # node.path /\ st_size = node.size)
      <4>1. inner' = Pass(inner) /\ pc' = "search"
        BY <1>1, <2>2, <3>5 DEF Stat
      <4>2. \A r : Ahead(inner, r) => Ahead(inner', r) \/ r = q
        BY <1>2, <3>1, <4>1, PassLeaves
      <4>3. ASSUME q \in Paths, Candidate(q), files[q] = node.md PROVE q \in Members(node)
        <5>1. InRange(st_size) /\ st_size = node.size
          BY <3>3, <4>3 DEF Gathered, Candidate
        <5>2. ~HavePath(q)
          BY <1>1, <1>5, <4>3, NoSetLikeNode, HavePathIsHas
        <5> QED
          BY <3>5, <5>1, <5>2 DEF Members
      <4> QED
        BY <4>1, <4>2, <4>3
    <3> QED
      BY <3>4, <3>5
  <2> QED
    BY <2>1, <2>2
<1>6. quiet => Gathered'
  BY <1>1, <1>5, GatheredStays DEF FullInv
<1>7. quiet /\ pc' = "compare" => Candidate(File(inner))'
  BY <1>1, <1>5 DEF Candidate, InRange, args
<1> QED
  BY <1>1, <1>3, <1>4, <1>6, <1>7 DEF FullInv

\* The file at hand becomes a member if it is a twin, and then stays behind the walk.
LEMMA FullCompare ==
  ASSUME Plain, DupInv, FullInv, Compare, UNCHANGED quiet
  PROVE  FullInv'
<1> DEFINE q == File(inner)
<1>1. /\ pc = "compare" /\ pc' = "search" /\ inner' = Pass(inner)
      /\ UNCHANGED <<args, files, outer, size, list, quiet>>
  BY DEF Compare
<1>2. inner \in Walks /\ WalkOK(inner) /\ AtFile(inner) /\ node \in Nodes /\ Fresh(list, node)
  BY <1>1 DEF DupInv, TypeOK, Places, NodeFresh
<1>3. Limits' /\ (Sieved(outer) /\ Sieved(inner))'
  <2>1. Sieved(inner')
    BY <1>1, <1>2, SievedSteps DEF FullInv
  <2> QED
    BY <1>1, <2>1 DEF FullInv, Limits, args, Sieved
<1>4. quiet => Settled'
  BY <1>1, SettledStays DEF FullInv
<1>5. ASSUME quiet PROVE Gathered'
  <2>1. Gathered /\ Candidate(q)
    BY <1>1, <1>5 DEF FullInv
  <2>2. q \in Paths /\ q \notin Members(node) /\ ~Has(list, q)
    BY <1>1, <1>2, PassFile DEF DupInv, NodeFresh, Members
  <2>3. IF files[q] = node.md THEN node' = [node EXCEPT !.low = Append(@, q)] ELSE node' = node
    BY <2>1 DEF Compare, HashCmp, Plain, Gathered
  <2>4. /\ node'.path = node.path /\ node'.md = node.md /\ node'.size = node.size
        /\ node'.intact = node.intact
        /\ Members(node') = IF files[q] = node.md THEN Members(node) \cup {q} ELSE Members(node)
    <3>1. CASE files[q] = node.md
      <4> DEFINE m == [node EXCEPT !.low = Append(@, q)]
      <4>1. /\ m \in Nodes /\ m.path = node.path /\ m.md = node.md
            /\ Range(m.low) = Range(node.low) \cup {q}
        BY <1>2, <2>2, MemberAdded
      <4>2. m.size = node.size /\ m.intact = node.intact
        BY <1>2 DEF Nodes
      <4>3. node' = m
        BY <2>3, <3>1
      <4> HIDE DEF m
      <4> QED
        BY <3>1, <4>1, <4>2, <4>3 DEF Members
    <3>2. CASE files[q] # node.md
      BY <2>3, <3>2
    <3> QED
      BY <3>1, <3>2
  <2>5. \A r : Ahead(inner, r) => Ahead(inner', r) \/ r = q
    BY <1>1, <1>2, PassLeaves
  <2> HIDE DEF q
  <2>6. \A r \in Paths : Candidate(r) /\ files[r] = node.md /\ ~Ahead(inner', r) => r \in Members(node')
    BY <2>1, <2>4, <2>5 DEF Gathered
  <2>7. \A r : Candidate(r)' <=> Candidate(r)
    BY <1>1 DEF Candidate, InRange, args
  <2>8. \A r \in Members(node') : Candidate(r)'
    BY <2>1, <2>4, <2>7 DEF Gathered
  <2> QED
    BY <1>1, <2>1, <2>4, <2>6, <2>7, <2>8 DEF Gathered
<1> QED
  BY <1>1, <1>3, <1>4, <1>5 DEF FullInv

\* When the inner walk is over the node is full; without members its file has no twin.
LEMMA FullDone ==
  ASSUME DupInv, FullInv, SearchDone, UNCHANGED quiet
  PROVE  FullInv'
<1>1. /\ pc = "search" /\ pc' = "scan" /\ outer' = Pass(outer) /\ AtEnd(inner)
      /\ UNCHANGED <<args, files, size, inner, quiet>>
  BY DEF SearchDone
<1>2. /\ outer \in Walks /\ WalkOK(outer) /\ AtFile(outer) /\ inner \in Walks /\ WalkOK(inner)
      /\ node \in Nodes /\ list \in Seq(Nodes)
  BY <1>1 DEF DupInv, TypeOK, Places
<1>3. Limits' /\ (Sieved(outer) /\ Sieved(inner))'
  <2>1. Sieved(outer')
    BY <1>1, <1>2, SievedSteps DEF FullInv
  <2> QED
    BY <1>1, <2>1 DEF FullInv, Limits, args, Sieved
<1>4. /\ \A k \in DOMAIN list' : \/ \E j \in DOMAIN list : list'[k] = list[j]
                                 \/ list'[k] = node
      /\ \A j \in DOMAIN list : \E k \in DOMAIN list' : list'[k] = list[j]
      /\ node.low # <<>> => \E k \in DOMAIN list' : list'[k] = node
  <2>1. CASE node.low = <<>>
    BY <2>1 DEF SearchDone
  <2>2. CASE node.low # <<>>
    <3>1. PICK i \in 1..(Len(list) + 1) : list' = InsertAt(list, i, node)
      BY <2>2 DEF SearchDone, AddNode
    <3>2. /\ DOMAIN list' = 1..(Len(list) + 1)
          /\ \A j \in 1..(Len(list) + 1) :
               list'[j] = IF j < i THEN list[j] ELSE IF j = i THEN node ELSE list[j - 1]
      BY <1>2, <3>1, InsertAtProps
    <3>3. DOMAIN list = 1..Len(list) /\ Len(list) \in Nat
      BY <1>2
    <3>4. ASSUME NEW j \in DOMAIN list PROVE \E k \in DOMAIN list' : list'[k] = list[j]
      <4>1. CASE j < i
        BY <3>2, <3>3, <4>1
      <4>2. CASE j >= i
        <5>1. j + 1 \in DOMAIN list' /\ ~(j + 1 < i) /\ j + 1 # i /\ (j + 1) - 1 = j
          BY <3>2, <3>3, <4>2
        <5> QED
          BY <3>2, <5>1
      <4> QED
        BY <3>3, <4>1, <4>2
    <3>5. i \in DOMAIN list' /\ list'[i] = node
      BY <3>2
    <3>6. ASSUME NEW k \in DOMAIN list'
          PROVE  (\E j \in DOMAIN list : list'[k] = list[j]) \/ list'[k] = node
      <4>1. CASE k < i
        BY <3>2, <3>3, <4>1
      <4>2. CASE k = i
        BY <3>2, <4>2
      <4>3. CASE k > i
        <5>1. k - 1 \in DOMAIN list /\ ~(k < i) /\ k # i
          BY <3>2, <3>3, <4>3
        <5> QED
          BY <3>2, <5>1
      <4> QED
        BY <3>2, <3>3, <4>1, <4>2, <4>3
    <3> QED
      BY <3>4, <3>5, <3>6
  <2> QED
    BY <2>1, <2>2
<1>5. ASSUME quiet PROVE Settled'
  <2>1. Settled /\ Gathered
    BY <1>1, <1>5 DEF FullInv
  <2>2. AllWith(Members(node), node.md)
    <3>1. \A p \in Members(node) : files[p] = node.md /\ Candidate(p)
      BY <1>1, <1>5, <2>1 DEF DupInv, Alike, Gathered
    <3>2. \A q \in Paths : Candidate(q) /\ files[q] = node.md => q \in Members(node)
      BY <1>1, <1>2, <2>1, WalkEnds DEF Gathered
    <3> QED
      BY <3>1, <3>2 DEF AllWith
  <2>3. \A k \in DOMAIN list' : AllWith(Members(list'[k]), list'[k].md)
    BY <1>4, <2>1, <2>2 DEF Settled
  <2>4. \A p : Has(list, p) => Has(list', p)
    BY <1>4 DEF Has
  <2>5. Has(list', node.path) \/ Alone(node.path)
    <3>1. CASE node.low = <<>>
      <4>1. Members(node) = {node.path}
        BY <3>1 DEF Members, Range
      <4> QED
        BY <2>1, <2>2, <4>1 DEF AllWith, Alone, Gathered
    <3>2. CASE node.low # <<>>
      BY <1>4, <3>2 DEF Has, Members
    <3> QED
      BY <3>1, <3>2
  <2>6. \A p : Ahead(outer, p) => Ahead(outer', p) \/ p = node.path
    BY <1>1, <1>2, <2>1, PassLeaves DEF Gathered
  <2>7. \A p \in Paths : Candidate(p) /\ ~Ahead(outer', p) => Has(list', p) \/ Alone(p)
    BY <2>1, <2>4, <2>5, <2>6 DEF Settled
  <2>8. \A p : Candidate(p)' <=> Candidate(p)
    BY <1>1 DEF Candidate, InRange, args
  <2>9. \A p : Alone(p)' <=> Alone(p)
    BY <1>1, <2>8 DEF Alone
  <2>10. ASSUME NEW k \in DOMAIN list' PROVE AllWith(Members(list[k]), list[k].md)'
    BY <1>1, <2>3, <2>8 DEF AllWith
  <2> QED
    BY <1>1, <2>7, <2>8, <2>9, <2>10 DEF Settled
<1> QED
  BY <1>1, <1>3, <1>5 DEF FullInv

\* rearr_list puts the path of each set among its members.
LEMMA FullRearr ==
  ASSUME DupInv, FullInv, Rearr, UNCHANGED quiet
  PROVE  FullInv'
<1>1. /\ pc = "scan" /\ pc' = "done" /\ AtEnd(outer)
      /\ UNCHANGED <<args, files, outer, size, inner, quiet>>
  BY DEF Rearr
<1>2. outer \in Walks /\ WalkOK(outer) /\ list \in Seq(Nodes)
  BY DEF DupInv, TypeOK, Places
<1>3. Limits' /\ (Sieved(outer) /\ Sieved(inner))'
  BY <1>1 DEF FullInv, Limits, args, Sieved
<1>4. DOMAIN list' = DOMAIN list
      /\ \A k \in DOMAIN list : list'[k].md = list[k].md /\ Range(list'[k].low) = Members(list[k])
  <2>1. list' = [k \in DOMAIN list |-> [list[k] EXCEPT !.low = <<list[k].path>> \o @]]
    BY DEF Rearr
  <2>2. ASSUME NEW k \in DOMAIN list
        PROVE  list'[k].md = list[k].md /\ Range(list'[k].low) = Members(list[k])
    <3>1. list[k] \in Nodes
      BY <1>2
    <3> DEFINE low == list[k].low
               turned == <<list[k].path>> \o low
    <3>2. low \in Seq(Paths) /\ Len(low) \in Nat /\ DOMAIN low = 1..Len(low)
      BY <3>1 DEF Nodes
    <3>3. /\ DOMAIN turned = 1..(Len(low) + 1) /\ turned[1] = list[k].path
          /\ \A a \in 2..(Len(low) + 1) : turned[a] = low[a - 1]
      BY <3>1, <3>2 DEF Nodes
    <3> HIDE DEF turned
    <3>4. list'[k].md = list[k].md /\ list'[k].low = turned
      BY <2>1, <3>1 DEF Nodes, turned
    <3>5. \A a \in DOMAIN turned : turned[a] = list[k].path \/ turned[a] \in Range(low)
      BY <3>2, <3>3 DEF Range
    <3>6. \A a \in DOMAIN low : a + 1 \in DOMAIN turned /\ turned[a + 1] = low[a]
      BY <3>2, <3>3
    <3>7. 1 \in DOMAIN turned
      BY <3>2, <3>3
    <3>8. Range(turned) = {list[k].path} \cup Range(low)
      BY <3>3, <3>5, <3>6, <3>7 DEF Range
    <3> QED
      BY <3>4, <3>8 DEF Members
  <2> QED
    BY <2>1, <2>2
<1>5. ASSUME quiet PROVE TurnedRound'
  <2>1. Settled
    BY <1>1, <1>5 DEF FullInv
  <2>2. \A k \in DOMAIN list' : AllWith(Range(list'[k].low), list'[k].md)
    BY <1>4, <2>1 DEF Settled
  <2>3. \A p \in Paths : Candidate(p) => Alone(p) \/ \E k \in DOMAIN list' : p \in Range(list'[k].low)
    BY <1>1, <1>2, <1>4, <2>1, WalkEnds DEF Settled, Has
  <2>4. \A p : Candidate(p)' <=> Candidate(p)
    BY <1>1 DEF Candidate, InRange, args
  <2>5. \A p : Alone(p)' <=> Alone(p)
    BY <1>1, <2>4 DEF Alone
  <2>6. ASSUME NEW k \in DOMAIN list' PROVE AllWith(Range(list[k].low), list[k].md)'
    BY <1>1, <2>2, <2>4 DEF AllWith
  <2> QED
    BY <2>3, <2>4, <2>5, <2>6 DEF TurnedRound
<1> QED
  BY <1>1, <1>3, <1>5 DEF FullInv

LEMMA FullInit == Init => FullInv
<1>1. Init => Sieved(outer) /\ Sieved(inner)
  BY DEF Init, Sieved, NotStarted
<1> QED
  BY <1>1 DEF Init, FullInv, Limits

LEMMA FullNext == Plain /\ DupInv /\ FullInv /\ [Next]_vars => FullInv'
<1> SUFFICES ASSUME Plain, DupInv, FullInv, [Next]_vars PROVE FullInv'
  OBVIOUS
<1>1. CASE Step
  <2>1. UNCHANGED quiet /\ Search
    BY <1>1 DEF Step
  <2>2. CASE ReadArguments
    BY <2>1, <2>2, FullOutside DEF ReadArguments
  <2>3. CASE EnterSrcDir \/ StatSrc
    BY <2>1, <2>3, FullOuter
  <2>4. CASE HashSrc
    BY <2>1, <2>4, FullHash
  <2>5. CASE SearchDone
    BY <2>1, <2>5, FullDone
  <2>6. CASE Rearr
    BY <2>1, <2>6, FullRearr
  <2>7. CASE EnterDir \/ Stat
    BY <2>1, <2>7, FullInner
  <2>8. CASE Compare
    BY <2>1, <2>8, FullCompare
  <2>9. CASE ScanFails \/ StatFails \/ OpenFails
    BY <2>1, <2>9, FullOutside DEF ScanFails, StatFails, OpenFails
  <2> QED
    BY <2>1, <2>2, <2>3, <2>4, <2>5, <2>6, <2>7, <2>8, <2>9 DEF Search
<1>2. CASE Interfere
  BY <1>2, FullInterfere
<1>3. CASE UNCHANGED vars
  <2>1. UNCHANGED <<args, files, pc, outer, size, node, inner, list, quiet>>
    BY <1>3 DEF vars
  <2>2. \A p : Candidate(p)' <=> Candidate(p)
    BY <2>1 DEF Candidate, InRange, args
  <2>3. \A p : Alone(p)' <=> Alone(p)
    BY <2>1, <2>2 DEF Alone
  <2>4. Limits' /\ (Sieved(outer) /\ Sieved(inner))'
    BY <2>1 DEF FullInv, Limits, args, Sieved
  <2>5. Settled => Settled'
    BY <2>1, SettledStays
  <2>6. Gathered => Gathered'
    BY <2>1, GatheredStays
  <2>7. TurnedRound => TurnedRound'
    <3> SUFFICES ASSUME TurnedRound PROVE TurnedRound'
      OBVIOUS
    <3>1. ASSUME NEW k \in DOMAIN list PROVE AllWith(Range(list[k].low), list[k].md)'
      BY <2>1, <2>2 DEF TurnedRound, AllWith
    <3> QED
      BY <2>1, <2>2, <2>3, <3>1 DEF TurnedRound
  <2>8. Candidate(File(outer))' <=> Candidate(File(outer))
    BY <2>1 DEF Candidate, InRange, args
  <2>9. Candidate(File(inner))' <=> Candidate(File(inner))
    BY <2>1 DEF Candidate, InRange, args
  <2> QED
    BY <2>1, <2>4, <2>5, <2>6, <2>7, <2>8, <2>9 DEF FullInv
<1> QED
  BY <1>1, <1>2, <1>3 DEF Next

(***************************************************************************)
(* The theorems.                                                           *)
(***************************************************************************)

\* Every variable keeps its type: the limits are those of the arguments, and the
\* list holds nodes of struct file_list.
THEOREM TypeCorrect == Spec => []TypeOK
<1>1. Init => DupInv
  BY DupInit
<1>2. DupInv /\ [Next]_vars => DupInv'
  BY DupNext
<1>3. DupInv => TypeOK
  BY DEF DupInv
<1> QED
  BY <1>1, <1>2, <1>3, PTL DEF Spec

\* However other programs change the files during the search, search_src_file and
\* search_file put no file into two sets, nor twice into one.
THEOREM EachListedOnce == Spec => []ListedOnce
<1>1. DupInv => ListedOnce
  <2> SUFFICES ASSUME DupInv, pc # "done" PROVE ListedOnce
    BY DEF ListedOnce
  <2>1. ListOnce(list)
    BY DEF DupInv, Listing
  <2>2. ASSUME node # NoNode
        PROVE  /\ NodeOnce(node) /\ ~HavePath(node.path)
               /\ \A a \in DOMAIN node.low : ~HavePath(node.low[a])
    <3>1. Fresh(list, node)
      BY <2>2 DEF DupInv, TypeOK, Ended, Places, NodeFresh
    <3> QED
      BY <3>1, HavePathIsHas DEF Fresh, Members, Range
  <2> QED
    BY <2>1, <2>2 DEF ListedOnce, ListOnce, NodeOnce, Members
<1>2. Init => DupInv
  BY DupInit
<1>3. DupInv /\ [Next]_vars => DupInv'
  BY DupNext
<1> QED
  BY <1>1, <1>2, <1>3, PTL DEF Spec

\* Undisturbed, the search gives the prompts what they assume of it: sets of at least
\* two files that are there, all of one content, that share none, the smaller files first.
THEOREM DeliversSets == Spec => []Delivers
<1>1. DupInv => Delivers
  <2> SUFFICES ASSUME DupInv, quiet, pc = "done" PROVE Delivers
    BY DEF Delivers
  <2>1. DOMAIN Report = DOMAIN list
        /\ \A k \in DOMAIN list : /\ Report[k] = list[k].low /\ Report[k] \in Seq(Paths)
                                  /\ list[k].md \in Contents
    <3>1. \A k \in DOMAIN list : list[k] \in Nodes
      BY DEF DupInv, TypeOK
    <3> QED
      BY <3>1 DEF Report, Nodes
  <2>2. ASSUME NEW k \in DOMAIN list, NEW a \in DOMAIN Report[k]
        PROVE  /\ Report[k][a] \in DOMAIN Found
               /\ Found[Report[k][a]] = list[k].md
    <3>1. files[Report[k][a]] = list[k].md /\ Report[k][a] \in Paths
      BY <2>1 DEF DupInv, Alike
    <3>2. files[Report[k][a]] # Absent
      BY <2>1, <3>1, ContentAssumption
    <3> QED
      BY <3>1, <3>2 DEF Found
  <2>3. ASSUME NEW k \in DOMAIN list
        PROVE  /\ Report[k] \in Seq(DOMAIN Found) /\ Len(Report[k]) >= 2
               /\ \A a \in DOMAIN Report[k] : Found[Report[k][a]] = Found[Report[k][1]]
    <3>1. Len(Report[k]) >= 2
      BY <2>1 DEF DupInv, Alike
    <3>2. 1 \in DOMAIN Report[k]
      BY <2>1, <3>1
    <3>3. Report[k] \in Seq(DOMAIN Found)
      <4> DEFINE s == Report[k]
      <4>1. s \in Seq(Paths) /\ \A a \in DOMAIN s : s[a] \in DOMAIN Found
        BY <2>1, <2>2
      <4> HIDE DEF s
      <4>2. s \in Seq(DOMAIN Found)
        BY <4>1
      <4> QED
        BY <4>2 DEF s
    <3> QED
      BY <2>2, <3>1, <3>2, <3>3
  <2>4. ASSUME NEW k \in DOMAIN list, NEW l \in DOMAIN list,
               NEW a \in DOMAIN Report[k], NEW b \in DOMAIN Report[l],
               Report[k][a] = Report[l][b]
        PROVE  k = l /\ a = b
    BY <2>1, <2>4 DEF DupInv, Listing
  <2>5. \A k, l \in DOMAIN list : k < l => list[k].size <= list[l].size
    BY DEF DupInv, Listing
  <2>6. Report \in Seq(Seq(DOMAIN Found))
    <3>1. DOMAIN Report = 1..Len(list) /\ Len(list) \in Nat
      BY <2>1 DEF DupInv, TypeOK
    <3>2. Report = [k \in 1..Len(list) |-> list[k].low]
      BY <2>1, <3>1 DEF Report
    <3>3. \A k \in 1..Len(list) : list[k].low \in Seq(DOMAIN Found)
      BY <2>1, <2>3, <3>1
    <3> QED
      BY <3>1, <3>2, <3>3
  <2> HIDE DEF Report, Found
  <2>7. IsReport(Report, Found)
    BY <2>1, <2>3, <2>4, <2>6 DEF IsReport
  <2> QED
    BY <2>5, <2>7 DEF Delivers
<1>2. Init => DupInv
  BY DupInit
<1>3. DupInv /\ [Next]_vars => DupInv'
  BY DupNext
<1> QED
  BY <1>1, <1>2, <1>3, PTL DEF Spec

\* Undisturbed, fsha1 reports exactly what was asked for: any two files of one content
\* within the limits and with the extension share a set, and no other file is in one.
\* Plain says for which inputs (ssu_find.c:93, ssu_find.c:70, ssu_find-md5.c:76), and Complete
\* leaves out the limits whose product is no whole number as a double (ssu_find-md5.c:77).
THEOREM NothingLeftOut == ASSUME Plain PROVE Spec => []Complete
<1>1. DupInv /\ FullInv => Complete
  <2> SUFFICES ASSUME DupInv, FullInv, quiet, pc = "done", Range(typed) \cap Inexact = {}
               PROVE  Complete
    BY DEF Complete
  <2>1. TurnedRound /\ lminsize = Bytes(typed[1]) /\ lmaxsize = Bytes(typed[2])
    BY DEF FullInv, Limits
  <2>2. \A p \in Paths : Candidate(p) <=> p \in Wanted
    <3>1. typed[1] \in Range(typed) /\ typed[2] \in Range(typed)
      BY DEF DupInv, TypeOK, Range
    <3> QED
      BY <2>1, <3>1, CandidatesAreWanted DEF DupInv
  <2>3. DOMAIN Report = DOMAIN list /\ \A k \in DOMAIN list : Report[k] = list[k].low
    BY DEF Report
  <2>4. Wanted \subseteq Paths
    BY DEF Wanted
  <2>5. ASSUME NEW p \in Wanted, NEW q \in Wanted, p # q, files[p] = files[q]
        PROVE  \E k \in DOMAIN Report : {p, q} \subseteq Range(Report[k])
    <3>1. p \in Paths /\ q \in Paths /\ Candidate(p) /\ Candidate(q)
      BY <2>2, <2>4
    <3>2. ~Alone(p)
      BY <2>5, <3>1 DEF Alone
    <3>3. PICK k \in DOMAIN list : p \in Range(list[k].low)
      BY <2>1, <3>1, <3>2 DEF TurnedRound
    <3>4. q \in Range(list[k].low)
      BY <2>1, <2>5, <3>1, <3>3 DEF TurnedRound, AllWith
    <3> QED
      BY <2>3, <3>3, <3>4
  <2>6. ASSUME NEW k \in DOMAIN Report PROVE Range(Report[k]) \subseteq Wanted
    <3>1. list[k] \in Nodes
      BY <2>3 DEF DupInv, TypeOK
    <3>2. Range(list[k].low) \subseteq Paths
      BY <3>1 DEF Nodes, Range
    <3> QED
      BY <2>1, <2>2, <2>3, <3>2 DEF TurnedRound, AllWith
  <2> QED
    BY <2>5, <2>6 DEF Complete
<1>2. Init => DupInv /\ FullInv
  BY DupInit, FullInit
<1>3. DupInv /\ FullInv /\ [Next]_vars => (DupInv /\ FullInv)'
  BY DupNext, FullNext
<1> QED
  BY <1>1, <1>2, <1>3, PTL DEF Spec
-----------------------------------------------------------------------------
(***************************************************************************)
(* Why the search ends (SearchEnds): each of its steps takes it further    *)
(* along one of its two finite walks, the outer one before all, and no     *)
(* other program takes it back.                                            *)
(***************************************************************************)

\* The walk is in a later directory, or has fewer of the files of this one left.
Forward(walk, later) ==
  \/ walk.dir < later.dir /\ later.dir <= Len(Tree)
  \/ walk.dir = later.dir /\ later.rest \subseteq walk.rest /\ later.rest # walk.rest

\* How far the search is with the file at hand of the outer walk.
Phase(at) ==
  CASE at = "args" -> 0
    [] at = "scan" -> 1
    [] at = "hash" -> 2
    [] at \in {"search", "compare"} -> 3
    [] OTHER -> 4

\* Each step of the search is one forward: on the outer walk, with the file at hand, or on
\* the inner walk; every other step leaves it where it is.
SearchAdvances ==
  [][/\ Search =>
          \/ Forward(outer, outer')
          \/ outer' = outer /\ Phase(pc) < Phase(pc')
          \/ outer' = outer /\ Phase(pc) = Phase(pc') /\ Forward(inner, inner')
          \/ outer' = outer /\ inner' = inner /\ pc = "search" /\ pc' = "compare"
     /\ ~Search => UNCHANGED <<outer, inner, pc>>]_vars

\* scandir and the next turn of a loop over f_res take a walk forward.
LEMMA EnterForward ==
  ASSUME NEW walk \in Walks, WalkOK(walk), AtDirectory(walk)
  PROVE  Forward(walk, Enter(walk))
<1>1. walk.dir \in Nat /\ walk.dir < Len(Tree) /\ Len(Tree) \in Nat
  BY TreeShape DEF WalkOK, AtDirectory
<1>2. Enter(walk).dir = walk.dir + 1
  BY DEF Enter
<1> QED
  BY <1>1, <1>2 DEF Forward

LEMMA PassForward ==
  ASSUME NEW walk \in Walks, WalkOK(walk), AtFile(walk)
  PROVE  Forward(walk, Pass(walk))
<1>1. walk.rest # {} /\ walk.rest \in SUBSET Nat
  BY TreeShape DEF WalkOK, AtFile
<1>2. First(walk) \in walk.rest
  BY <1>1, Smallest DEF First
<1>3. Pass(walk).dir = walk.dir /\ Pass(walk).rest = walk.rest \ {First(walk)}
  BY DEF Pass, Walks
<1> QED
  BY <1>2, <1>3 DEF Forward

\* Each step of search_src_file and search_file, and each way out of them, is a step
\* forward, whatever other programs do between any two of them, and what they do takes
\* neither walk back: behind finitely many steps the search is over.  This is the
\* safety half of SearchEnds; the fairness of Step is the other.
THEOREM SearchAlwaysAdvances == Spec => SearchAdvances
<1>1. ASSUME DupInv, [Next]_vars, Search
      PROVE  \/ Forward(outer, outer')
             \/ outer' = outer /\ Phase(pc) < Phase(pc')
             \/ outer' = outer /\ Phase(pc) = Phase(pc') /\ Forward(inner, inner')
             \/ outer' = outer /\ inner' = inner /\ pc = "search" /\ pc' = "compare"
  <2>1. outer \in Walks /\ inner \in Walks /\ WalkOK(outer) /\ WalkOK(inner)
    BY <1>1 DEF DupInv, TypeOK, Places
  <2>2. CASE ReadArguments
    <3>1. outer' = outer /\ pc = "args" /\ pc' \in {"scan", "exit1"}
      BY <2>2 DEF ReadArguments
    <3> QED
      BY <3>1 DEF Phase
  <2>3. CASE EnterSrcDir
    BY <2>1, <2>3, EnterForward DEF EnterSrcDir
  <2>4. CASE StatSrc
    BY <2>1, <2>4, PassForward DEF StatSrc, Phase
  <2>5. CASE SearchDone
    BY <1>1, <2>1, <2>5, PassForward DEF SearchDone, DupInv, Places
  <2>6. CASE EnterDir
    BY <2>1, <2>6, EnterForward DEF EnterDir
  <2>7. CASE Stat
    BY <2>1, <2>7, PassForward DEF Stat
  <2>8. CASE Compare
    BY <1>1, <2>1, <2>8, PassForward DEF Compare, DupInv, Places, Phase
  <2>9. CASE ScanFails \/ StatFails \/ OpenFails
    BY <2>9 DEF ScanFails, StatFails, OpenFails, GiveUp, Phase
  <2>10. CASE HashSrc
    BY <2>10 DEF HashSrc, Phase
  <2>11. CASE Rearr
    <3>1. outer' = outer /\ pc = "scan" /\ pc' = "done"
      BY <2>11 DEF Rearr
    <3> QED
      BY <3>1 DEF Phase
  <2> QED
    BY <1>1, <2>2, <2>3, <2>4, <2>5, <2>6, <2>7, <2>8, <2>9, <2>10, <2>11 DEF Search
<1>2. [Next]_vars /\ ~Search => UNCHANGED <<outer, inner, pc>>
  BY DEF Next, Step, Interfere, vars
<1>3. DupInv /\ [Next]_vars =>
        [/\ Search =>
              \/ Forward(outer, outer')
              \/ outer' = outer /\ Phase(pc) < Phase(pc')
              \/ outer' = outer /\ Phase(pc) = Phase(pc') /\ Forward(inner, inner')
              \/ outer' = outer /\ inner' = inner /\ pc = "search" /\ pc' = "compare"
         /\ ~Search => UNCHANGED <<outer, inner, pc>>]_vars
  BY <1>1, <1>2
<1> QED
  BY <1>3, DupInit, DupNext, PTL DEF Spec, SearchAdvances
=============================================================================
