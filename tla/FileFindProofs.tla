---------------------------- MODULE FileFindProofs ----------------------------
(***************************************************************************)
(* Proofs about FileFind, for every tree of files: the two walks make the  *)
(* same decisions on a tree that does not change, find exactly what was    *)
(* asked for, and the user never gets to a row that was not filled.        *)
(***************************************************************************)
EXTENDS FileFind, FiniteSetTheorems, FunctionTheorems, TLAPS

-----------------------------------------------------------------------------
(***************************************************************************)
(* Numbers and sets.                                                       *)
(***************************************************************************)

\* The numbers below a bound that have a property have a smallest one.
LEMMA Smallest ==
  ASSUME NEW T \in SUBSET Nat, T # {}
  PROVE  \E n \in T : \A m \in T : n <= m
<1> DEFINE R == OpToRel(<, Nat)
<1>1. IsWellFoundedOn(R, Nat)
  BY NatLessThanWellFounded DEF OpToRel
<1>2. R = {ss \in Nat \X Nat : ss[1] < ss[2]}
  BY DEF OpToRel
<1> HIDE DEF R
<1>3. PICK n \in T : \A m \in T : <<m, n>> \notin R
  BY <1>1, WFMin
<1>4. \A m \in T : ~(m < n)
  BY <1>2, <1>3
<1> QED
  BY <1>4

\* What a fold that adds up the values of f asks of the partial sums g.
Partial(f, g, s) ==
  IF s = {} THEN 0
  ELSE LET q == CHOOSE r \in s : TRUE IN f[q] + g[s \ {q}]

\* The subsets of S with up to n elements have such sums.
HasSums(S, f, n) ==
  \E g \in [SUBSET S -> Nat] :
    \A s \in SUBSET S : Cardinality(s) <= n => g[s] = Partial(f, g, s)

LEMMA SumsExist ==
  ASSUME NEW S, IsFiniteSet(S), NEW f \in [S -> Nat]
  PROVE  \A n \in Nat : HasSums(S, f, n)
<1> DEFINE Good(n) == \E g \in [SUBSET S -> Nat] :
             \A s \in SUBSET S : Cardinality(s) <= n => g[s] = Partial(f, g, s)
           Bad == {n \in Nat : ~Good(n)}
<1>0. \A s \in SUBSET S : IsFiniteSet(s) /\ Cardinality(s) \in Nat
  BY FS_Subset, FS_CardinalityType
<1>1. Good(0)
  <2> DEFINE g == [s \in SUBSET S |-> 0]
  <2>1. g \in [SUBSET S -> Nat]
    OBVIOUS
  <2>2. ASSUME NEW s \in SUBSET S, Cardinality(s) <= 0
        PROVE  g[s] = Partial(f, g, s)
    <3>1. s = {}
      BY <1>0, <2>2, FS_EmptySet
    <3> QED BY <3>1 DEF Partial
  <2> HIDE DEF g
  <2> QED BY <2>1, <2>2
<1>2. ASSUME NEW n \in Nat, Good(n) PROVE Good(n + 1)
  <2>1. PICK h \in [SUBSET S -> Nat] :
          \A s \in SUBSET S : Cardinality(s) <= n => h[s] = Partial(f, h, s)
    BY <1>2
  <2> DEFINE g == [s \in SUBSET S |-> IF Cardinality(s) <= n THEN h[s] ELSE Partial(f, h, s)]
  <2>2. ASSUME NEW s \in SUBSET S, s # {}
        PROVE  LET q == CHOOSE r \in s : TRUE
               IN  q \in s /\ q \in S /\ s \ {q} \in SUBSET S
                   /\ Cardinality(s \ {q}) = Cardinality(s) - 1
    <3> DEFINE q == CHOOSE r \in s : TRUE
    <3>1. q \in s
      BY <2>2
    <3> HIDE DEF q
    <3>2. Cardinality(s \ {q}) = Cardinality(s) - 1
      BY <1>0, <3>1, FS_RemoveElement
    <3>3. q \in S /\ s \ {q} \in SUBSET S
      BY <3>1
    <3> QED BY <3>1, <3>2, <3>3 DEF q
  <2>3. \A s \in SUBSET S : Partial(f, h, s) \in Nat
    <3> TAKE s \in SUBSET S
    <3>1. CASE s = {}
      BY <3>1 DEF Partial
    <3>2. CASE s # {}
      <4> DEFINE q == CHOOSE r \in s : TRUE
      <4>1. q \in S /\ s \ {q} \in SUBSET S
        BY <2>2, <3>2
      <4> HIDE DEF q
      <4>2. f[q] \in Nat /\ h[s \ {q}] \in Nat
        BY <2>1, <4>1
      <4>3. f[q] + h[s \ {q}] \in Nat
        BY <4>2
      <4> QED BY <3>2, <4>3 DEF Partial, q
    <3> QED BY <3>1, <3>2
  <2>4. g \in [SUBSET S -> Nat]
    BY <2>1, <2>3
  <2>5. ASSUME NEW s \in SUBSET S, Cardinality(s) <= n + 1
        PROVE  g[s] = Partial(f, g, s)
    <3>1. CASE s = {}
      <4>1. Cardinality(s) <= n
        BY <3>1, FS_EmptySet
      <4>2. g[s] = h[s] /\ h[s] = Partial(f, h, s)
        BY <2>1, <4>1
      <4> QED BY <3>1, <4>2 DEF Partial
    <3>2. CASE s # {}
      <4> DEFINE q == CHOOSE r \in s : TRUE
      <4>1. s \ {q} \in SUBSET S /\ Cardinality(s \ {q}) = Cardinality(s) - 1
        BY <2>2, <3>2
      <4>2. g[s \ {q}] = h[s \ {q}]
        BY <1>0, <2>5, <4>1
      <4>3. Partial(f, g, s) = Partial(f, h, s)
        BY <4>2 DEF Partial
      <4> QED BY <2>1, <4>3
    <3> QED BY <3>1, <3>2
  <2> HIDE DEF g
  <2> QED BY <2>4, <2>5
<1> HIDE DEF Good
<1>3. Bad = {}
  <2> SUFFICES ASSUME Bad # {} PROVE FALSE
    OBVIOUS
  <2>1. PICK n \in Bad : \A m \in Bad : n <= m
    BY Smallest
  <2>2. n # 0 /\ n \in Nat
    BY <1>1, <2>1
  <2>3. n - 1 \in Nat /\ n - 1 \notin Bad
    BY <2>1, <2>2
  <2>4. Good(n - 1 + 1)
    BY <1>2, <2>3
  <2> QED BY <2>1, <2>2, <2>4
<1>4. \A n \in Nat : Good(n)
  BY <1>3
<1> QED BY <1>4 DEF Good, HasSums

\* The sum of a function of natural numbers is one.
LEMMA SumType ==
  ASSUME NEW S, IsFiniteSet(S), NEW f \in [S -> Nat]
  PROVE  FoldFunction(+, 0, f) \in Nat
<1>0. \A s \in SUBSET S : IsFiniteSet(s) /\ Cardinality(s) \in Nat
  BY FS_Subset, FS_CardinalityType
<1> DEFINE Sums(g) == g = [s \in SUBSET S |-> Partial(f, g, s)]
           iter == CHOOSE g : Sums(g)
<1>1. FoldFunction(+, 0, f) = iter[S]
  <2>1. DOMAIN f = S
    OBVIOUS
  <2> QED BY <2>1 DEF FoldFunction, FoldFunctionOnSet, MapThenFoldSet, Partial
<1>2. \E g : Sums(g)
  <2> DEFINE size_of == Cardinality(S)
  <2>0. size_of \in Nat /\ \A s \in SUBSET S : Cardinality(s) <= size_of
    BY <1>0, FS_Subset
  <2> HIDE DEF size_of
  <2>a. \A n \in Nat : HasSums(S, f, n)
    BY SumsExist
  <2>1. PICK g \in [SUBSET S -> Nat] :
          \A s \in SUBSET S : Cardinality(s) <= size_of => g[s] = Partial(f, g, s)
    BY <2>0, <2>a DEF HasSums
  <2>2. \A s \in SUBSET S : g[s] = Partial(f, g, s)
    BY <2>0, <2>1
  <2>3. g = [s \in SUBSET S |-> Partial(f, g, s)]
    BY <2>1, <2>2
  <2> QED BY <2>3
<1>3. Sums(iter)
  BY <1>2
<1> HIDE DEF iter
<1>4. \A s \in SUBSET S : iter[s] = Partial(f, iter, s)
  BY <1>3
<1> DEFINE Bad == {n \in Nat : \E s \in SUBSET S : Cardinality(s) = n /\ iter[s] \notin Nat}
<1>5. Bad = {}
  <2> SUFFICES ASSUME Bad # {} PROVE FALSE
    OBVIOUS
  <2>1. PICK n \in Bad : \A m \in Bad : n <= m
    BY Smallest
  <2>2. PICK s \in SUBSET S : Cardinality(s) = n /\ iter[s] \notin Nat
    BY <2>1
  <2>3. s # {}
    BY <1>4, <2>2 DEF Partial
  <2> DEFINE q == CHOOSE r \in s : TRUE
  <2>4. q \in s
    BY <2>3
  <2>5. iter[s] = f[q] + iter[s \ {q}]
    BY <1>4, <2>3 DEF Partial
  <2> HIDE DEF q
  <2>6. s \ {q} \in SUBSET S /\ Cardinality(s \ {q}) = n - 1 /\ n - 1 \in Nat
    BY <1>0, <2>2, <2>4, FS_RemoveElement
  <2>7. iter[s \ {q}] \in Nat
    <3>1. n - 1 \notin Bad
      BY <2>1, <2>6
    <3> QED BY <2>6, <3>1
  <2> QED BY <2>2, <2>4, <2>5, <2>7
<1>6. S \in SUBSET S /\ Cardinality(S) \in Nat
  BY <1>0
<1> QED BY <1>1, <1>5, <1>6
-----------------------------------------------------------------------------
(***************************************************************************)
(* Paths.                                                                  *)
(***************************************************************************)

\* A prefix has the same names as far as it goes.
LEMMA PrefixNames ==
  ASSUME NEW a \in Seq(Nat), NEW b \in Seq(Nat)
  PROVE  /\ IsPrefix(a, b) <=> Len(a) <= Len(b) /\ \A k \in 1..Len(a) : a[k] = b[k]
         /\ IsStrictPrefix(a, b) <=> Len(a) < Len(b) /\ \A k \in 1..Len(a) : a[k] = b[k]
<1>1. IsPrefix(a, b) => Len(a) <= Len(b) /\ \A k \in 1..Len(a) : a[k] = b[k]
  <2> SUFFICES ASSUME IsPrefix(a, b) PROVE Len(a) <= Len(b) /\ \A k \in 1..Len(a) : a[k] = b[k]
    OBVIOUS
  <2>1. Len(a) <= Len(b) /\ SubSeq(a, 1, Len(a)) = SubSeq(b, 1, Len(a))
    BY DEF IsPrefix
  <2>2. \A k \in 1..Len(a) : SubSeq(a, 1, Len(a))[k] = a[k] /\ SubSeq(b, 1, Len(a))[k] = b[k]
    BY <2>1
  <2> QED BY <2>1, <2>2
<1>2. Len(a) <= Len(b) /\ (\A k \in 1..Len(a) : a[k] = b[k]) => IsPrefix(a, b)
  <2> SUFFICES ASSUME Len(a) <= Len(b), \A k \in 1..Len(a) : a[k] = b[k]
               PROVE  SubSeq(a, 1, Len(a)) = SubSeq(b, 1, Len(a))
    BY DEF IsPrefix
  <2> QED OBVIOUS
<1>3. Len(a) = Len(b) /\ (\A k \in 1..Len(a) : a[k] = b[k]) => a = b
  OBVIOUS
<1> QED BY <1>1, <1>2, <1>3 DEF IsStrictPrefix

\* A path is its directory and its name.
LEMMA PathParts ==
  ASSUME NEW p \in Seq(Nat), p # <<>>
  PROVE  /\ Front(p) \in Seq(Nat) /\ Last(p) \in Nat
         /\ Len(p) \in Nat /\ Len(p) >= 1 /\ Len(Front(p)) = Len(p) - 1
         /\ p = Append(Front(p), Last(p))
         /\ \A k \in 1..(Len(p) - 1) : Front(p)[k] = p[k]
<1>1. Len(p) \in Nat /\ Len(p) >= 1 /\ p[Len(p)] \in Nat
  OBVIOUS
<1>2. /\ SubSeq(p, 1, Len(p) - 1) \in Seq(Nat)
      /\ Len(SubSeq(p, 1, Len(p) - 1)) = Len(p) - 1
      /\ \A k \in 1..(Len(p) - 1) : SubSeq(p, 1, Len(p) - 1)[k] = p[k]
  <2> DEFINE h == Len(p) - 1
  <2>1. h \in 0..Len(p)
    BY <1>1
  <2> HIDE DEF h
  <2>2. /\ SubSeq(p, 1, h) \in Seq(Nat)
        /\ Len(SubSeq(p, 1, h)) = h
        /\ \A k \in 1..h : SubSeq(p, 1, h)[k] = p[k]
    BY <1>1, <2>1
  <2> QED BY <2>2 DEF h
<1>3. p = Append(SubSeq(p, 1, Len(p) - 1), p[Len(p)])
  BY <1>1
<1> QED BY <1>1, <1>2, <1>3 DEF Front, Last

LEMMA AppendParts ==
  ASSUME NEW d \in Seq(Nat), NEW n \in Nat
  PROVE  /\ Append(d, n) \in Seq(Nat) /\ Append(d, n) # <<>>
         /\ Front(Append(d, n)) = d /\ Last(Append(d, n)) = n
         /\ Len(Append(d, n)) = Len(d) + 1
  BY DEF Front, Last

\* What is above a path is above its directory, or is it.
LEMMA PrefixOfFront ==
  ASSUME NEW r \in Seq(Nat), NEW p \in Seq(Nat), p # <<>>
  PROVE  /\ IsStrictPrefix(r, p) <=> IsPrefix(r, Front(p))
         /\ IsPrefix(r, p) <=> r = p \/ IsPrefix(r, Front(p))
<1>1. /\ Front(p) \in Seq(Nat) /\ Len(p) >= 1 /\ Len(Front(p)) = Len(p) - 1
      /\ \A k \in 1..(Len(p) - 1) : Front(p)[k] = p[k]
  BY PathParts
<1>2. IsStrictPrefix(r, p) <=> IsPrefix(r, Front(p))
  <2> DEFINE f == Front(p)
  <2>1. f \in Seq(Nat)
    BY <1>1
  <2>2. IsStrictPrefix(r, p) <=> Len(r) < Len(p) /\ \A k \in 1..Len(r) : r[k] = p[k]
    BY PrefixNames
  <2> HIDE DEF f
  <2>3. IsPrefix(r, f) <=> Len(r) <= Len(f) /\ \A k \in 1..Len(r) : r[k] = f[k]
    BY <2>1, PrefixNames
  <2>4. Len(r) \in Nat /\ Len(p) \in Nat
    OBVIOUS
  <2>5. Len(f) = Len(p) - 1 /\ \A k \in 1..(Len(p) - 1) : f[k] = p[k]
    BY <1>1 DEF f
  <2>6. Len(r) < Len(p) <=> Len(r) <= Len(f)
    BY <2>4, <2>5
  <2>7. Len(r) < Len(p) => \A k \in 1..Len(r) : f[k] = p[k]
    BY <2>4, <2>5
  <2>8. IsStrictPrefix(r, p) <=> IsPrefix(r, f)
    BY <2>2, <2>3, <2>6, <2>7
  <2> QED BY <2>8 DEF f
<1>3. IsPrefix(r, r)
  BY PrefixNames
<1> QED BY <1>2, <1>3 DEF IsStrictPrefix

LEMMA PrefixOrder ==
  ASSUME NEW a \in Seq(Nat), NEW b \in Seq(Nat), NEW c \in Seq(Nat)
  PROVE  /\ IsPrefix(a, a)
         /\ IsPrefix(a, b) /\ IsPrefix(b, c) => IsPrefix(a, c)
         /\ IsPrefix(a, b) /\ IsStrictPrefix(b, c) => IsStrictPrefix(a, c)
         /\ IsStrictPrefix(a, b) /\ IsPrefix(b, c) => IsStrictPrefix(a, c)
         /\ IsPrefix(a, b) /\ IsPrefix(b, a) => a = b
         /\ IsPrefix(a, c) /\ IsPrefix(b, c) => IsPrefix(a, b) \/ IsStrictPrefix(b, a)
<1>0. Len(a) \in Nat /\ Len(b) \in Nat /\ Len(c) \in Nat
  OBVIOUS
<1>1. /\ IsPrefix(a, b) <=> Len(a) <= Len(b) /\ \A k \in 1..Len(a) : a[k] = b[k]
      /\ IsStrictPrefix(a, b) <=> Len(a) < Len(b) /\ \A k \in 1..Len(a) : a[k] = b[k]
  BY PrefixNames
<1>2. /\ IsPrefix(b, c) <=> Len(b) <= Len(c) /\ \A k \in 1..Len(b) : b[k] = c[k]
      /\ IsStrictPrefix(b, c) <=> Len(b) < Len(c) /\ \A k \in 1..Len(b) : b[k] = c[k]
  BY PrefixNames
<1>3. /\ IsPrefix(a, c) <=> Len(a) <= Len(c) /\ \A k \in 1..Len(a) : a[k] = c[k]
      /\ IsStrictPrefix(a, c) <=> Len(a) < Len(c) /\ \A k \in 1..Len(a) : a[k] = c[k]
  BY PrefixNames
<1>4. /\ IsPrefix(b, a) <=> Len(b) <= Len(a) /\ \A k \in 1..Len(b) : b[k] = a[k]
      /\ IsStrictPrefix(b, a) <=> Len(b) < Len(a) /\ \A k \in 1..Len(b) : b[k] = a[k]
  BY PrefixNames
<1>5. IsPrefix(a, a)
  BY PrefixNames
<1>6. IsPrefix(a, b) /\ IsPrefix(b, c) => IsPrefix(a, c)
  BY <1>0, <1>1, <1>2, <1>3
<1>7. IsPrefix(a, b) /\ IsStrictPrefix(b, c) => IsStrictPrefix(a, c)
  BY <1>0, <1>1, <1>2, <1>3
<1>8. IsStrictPrefix(a, b) /\ IsPrefix(b, c) => IsStrictPrefix(a, c)
  BY <1>0, <1>1, <1>2, <1>3
<1>9. IsPrefix(a, b) /\ IsPrefix(b, a) => a = b
  <2>1. Len(a) = Len(b) /\ (\A k \in 1..Len(a) : a[k] = b[k]) => a = b
    <3>1. IsStrictPrefix(a, b) => Len(a) < Len(b)
      BY <1>1
    <3> QED BY <1>0, <1>1, <3>1 DEF IsStrictPrefix
  <2>2. IsPrefix(a, b) /\ IsPrefix(b, a) => Len(a) = Len(b)
    BY <1>0, <1>1, <1>4
  <2> QED BY <1>1, <2>1, <2>2
<1>10. IsPrefix(a, c) /\ IsPrefix(b, c) => IsPrefix(a, b) \/ IsStrictPrefix(b, a)
  BY <1>0, <1>1, <1>2, <1>3, <1>4
<1> QED BY <1>5, <1>6, <1>7, <1>8, <1>9, <1>10

\* Every prefix of a path is a path.
LEMMA PrefixClosed ==
  ASSUME NEW p \in Paths, NEW n \in 0..Len(p)
  PROVE  SubSeq(p, 1, n) \in Paths
<1>0. p \in Seq(Nat) /\ Len(p) \in Nat
  BY PathsAssumption
<1> DEFINE Bad == {m \in Nat : m <= Len(p) /\ SubSeq(p, 1, Len(p) - m) \notin Paths}
<1>1. Bad = {}
  <2> SUFFICES ASSUME Bad # {} PROVE FALSE
    OBVIOUS
  <2>1. PICK m \in Bad : \A j \in Bad : m <= j
    BY Smallest
  <2>2. m # 0
    <3>1. SubSeq(p, 1, Len(p) - 0) = p
      BY <1>0
    <3> QED BY <2>1, <3>1
  <2> DEFINE q == SubSeq(p, 1, Len(p) - (m - 1))
  <2>0. m \in 1..Len(p)
    BY <1>0, <2>1, <2>2
  <2>3. q \in Paths
    <3>1. m - 1 \in Nat /\ m - 1 <= Len(p) /\ ~(m <= m - 1)
      BY <1>0, <2>0
    <3>2. m - 1 \notin Bad
      BY <2>1, <3>1
    <3> QED BY <3>1, <3>2
  <2>4. q \in Seq(Nat) /\ Len(q) = Len(p) - (m - 1) /\ q # <<>>
        /\ \A k \in 1..Len(q) : q[k] = p[k]
    <3> DEFINE h == Len(p) - (m - 1)
    <3>1. h \in 1..Len(p)
      BY <1>0, <2>0
    <3> HIDE DEF h
    <3>2. SubSeq(p, 1, h) \in Seq(Nat) /\ Len(SubSeq(p, 1, h)) = h
          /\ \A k \in 1..h : SubSeq(p, 1, h)[k] = p[k]
      BY <1>0, <3>1
    <3>3. SubSeq(p, 1, h) # <<>>
      BY <3>1, <3>2
    <3> QED BY <3>2, <3>3 DEF h
  <2>5. Front(q) = SubSeq(p, 1, Len(p) - m)
    <3> HIDE DEF q
    <3>1. /\ Front(q) \in Seq(Nat) /\ Len(Front(q)) = Len(p) - m
          /\ \A k \in 1..(Len(p) - m) : Front(q)[k] = p[k]
      <4>1. Len(q) - 1 = Len(p) - m
        BY <1>0, <2>0, <2>4
      <4>2. Front(q) \in Seq(Nat) /\ Len(Front(q)) = Len(q) - 1
            /\ \A k \in 1..(Len(q) - 1) : Front(q)[k] = q[k]
        BY <2>4, PathParts
      <4>3. \A k \in 1..(Len(p) - m) : k \in 1..Len(q) /\ k \in 1..(Len(q) - 1)
        BY <1>0, <2>0, <2>4
      <4> QED BY <2>4, <4>1, <4>2, <4>3
    <3>2. SubSeq(p, 1, Len(p) - m) \in Seq(Nat) /\ Len(SubSeq(p, 1, Len(p) - m)) = Len(p) - m
          /\ \A k \in 1..(Len(p) - m) : SubSeq(p, 1, Len(p) - m)[k] = p[k]
      BY <1>0, <2>1
    <3> QED BY <3>1, <3>2
  <2>6. Front(q) \in Paths
    BY <2>3, <2>4, PathsAssumption
  <2> QED BY <2>1, <2>5, <2>6
<1>2. Len(p) - n \in Nat /\ Len(p) - n <= Len(p) /\ Len(p) - (Len(p) - n) = n
  BY <1>0
<1>3. Len(p) - n \notin Bad
  BY <1>1
<1> QED BY <1>2, <1>3
-----------------------------------------------------------------------------
(***************************************************************************)
(* The order of the subdirectories.                                        *)
(***************************************************************************)

\* A sequence of all elements of T by ascending keys.
Sorts(s, T, key) ==
  /\ s \in [1..Cardinality(T) -> T]
  /\ \A k, l \in 1..Cardinality(T) : k < l => key[s[k]] < key[s[l]]

\* There is one: each element goes where as many keys say that are no larger.
LEMMA SortExists ==
  ASSUME NEW T, IsFiniteSet(T), NEW key \in [T -> Nat],
         \A x, y \in T : key[x] = key[y] => x = y
  PROVE  \E s : Sorts(s, T, key)
<1> DEFINE n == Cardinality(T)
           UpTo(x) == {y \in T : key[y] <= key[x]}
           rank == [x \in T |-> Cardinality(UpTo(x))]
<1>1. n \in Nat
  BY FS_CardinalityType
<1>2. \A x \in T : rank[x] \in 1..n
  <2> TAKE x \in T
  <2>1. IsFiniteSet(UpTo(x)) /\ Cardinality(UpTo(x)) <= n
    BY FS_Subset
  <2>2. x \in UpTo(x)
    OBVIOUS
  <2>3. Cardinality(UpTo(x)) \in Nat /\ Cardinality(UpTo(x)) # 0
    BY <2>1, <2>2, FS_CardinalityType, FS_EmptySet
  <2> QED BY <1>1, <2>1, <2>3
<1>3. \A x, y \in T : key[x] < key[y] => rank[x] < rank[y]
  <2> SUFFICES ASSUME NEW x \in T, NEW y \in T, key[x] < key[y]
               PROVE  rank[x] < rank[y]
    OBVIOUS
  <2>1. UpTo(x) \in SUBSET UpTo(y)
    OBVIOUS
  <2>2. y \in UpTo(y) /\ y \notin UpTo(x)
    OBVIOUS
  <2>3. IsFiniteSet(UpTo(y))
    BY FS_Subset
  <2>4. Cardinality(UpTo(x)) <= Cardinality(UpTo(y))
        /\ Cardinality(UpTo(x)) # Cardinality(UpTo(y))
    <3> HIDE DEF UpTo
    <3> QED BY <2>1, <2>2, <2>3, FS_Subset
  <2>5. rank[x] \in Int /\ rank[y] \in Int
    BY <1>2
  <2> QED BY <2>4, <2>5
<1> HIDE DEF rank
<1>4. \A x, y \in T : rank[x] = rank[y] => x = y
  <2> TAKE x, y \in T
  <2>1. key[x] \in Nat /\ key[y] \in Nat /\ rank[x] \in Int /\ rank[y] \in Int
    BY <1>2
  <2>2. key[x] < key[y] \/ key[y] < key[x] \/ key[x] = key[y]
    BY <2>1
  <2> QED BY <1>3, <2>1, <2>2
<1>5. rank \in [T -> 1..n]
  BY <1>2 DEF rank
<1>6. rank \in Injection(T, 1..n)
  BY <1>4, <1>5, Fun_IsInj
<1>7. rank \in Surjection(T, 1..n)
  <2>1. IsFiniteSet(1..n) /\ Cardinality(1..n) = n
    BY <1>1, FS_Interval
  <2> QED BY <1>6, <2>1, FS_Injection
<1>8. \A k \in 1..n : \E x \in T : rank[x] = k
  BY <1>7 DEF Surjection
<1> DEFINE s == [k \in 1..n |-> CHOOSE x \in T : rank[x] = k]
<1>9. \A k \in 1..n : s[k] \in T /\ rank[s[k]] = k
  BY <1>8
<1>10. s \in [1..n -> T]
  BY <1>9
<1> HIDE DEF s
<1>11. \A k, l \in 1..n : k < l => key[s[k]] < key[s[l]]
  <2> SUFFICES ASSUME NEW k \in 1..n, NEW l \in 1..n, k < l, ~(key[s[k]] < key[s[l]])
               PROVE  FALSE
    OBVIOUS
  <2>1. key[s[k]] \in Nat /\ key[s[l]] \in Nat
    BY <1>9
  <2>2. key[s[l]] < key[s[k]] \/ key[s[l]] = key[s[k]]
    BY <2>1
  <2>3. rank[s[l]] <= rank[s[k]]
    BY <1>3, <1>9, <2>2
  <2> QED BY <1>9, <2>3
<1> HIDE DEF n
<1>12. Sorts(s, T, key)
  BY <1>10, <1>11 DEF Sorts, n
<1> QED BY <1>12

\* Whatever sorts T has all of its elements.
LEMMA SortIsAll ==
  ASSUME NEW T, IsFiniteSet(T), NEW key \in [T -> Nat], NEW s, Sorts(s, T, key)
  PROVE  \A x \in T : \E k \in 1..Cardinality(T) : s[k] = x
<1> DEFINE n == Cardinality(T)
<1>1. n \in Nat
  BY FS_CardinalityType
<1>2. s \in [1..n -> T] /\ \A k, l \in 1..n : k < l => key[s[k]] < key[s[l]]
  BY DEF Sorts
<1>3. \A k, l \in 1..n : s[k] = s[l] => k = l
  <2> TAKE k, l \in 1..n
  <2>1. k < l \/ l < k \/ k = l
    OBVIOUS
  <2>2. key[s[k]] \in Nat /\ key[s[l]] \in Nat
    BY <1>2
  <2> QED BY <1>2, <2>1, <2>2
<1>4. IsFiniteSet(1..n) /\ Cardinality(1..n) = n
  BY <1>1, FS_Interval
<1> HIDE DEF n
<1>5. s \in Injection(1..n, T)
  BY <1>2, <1>3, Fun_IsInj
<1>6. s \in Surjection(1..n, T)
  BY <1>4, <1>5, FS_Injection DEF n
<1> QED BY <1>6 DEF Surjection, n

\* The subdirectories that can be entered from d.
Subs(d) == {q \in Paths \ Excluded : IsDir(q) /\ q # <<>> /\ Front(q) = d}

\* SubDirs has each of them once, by name.
LEMMA SubDirsSorted ==
  ASSUME NEW d \in Paths
  PROVE  /\ SubDirs(d) \in Seq(Paths)
         /\ \A k \in DOMAIN SubDirs(d) : SubDirs(d)[k] \in Subs(d)
         /\ \A q \in Subs(d) : \E k \in DOMAIN SubDirs(d) : SubDirs(d)[k] = q
         /\ \A k, l \in DOMAIN SubDirs(d) :
              k < l => Last(SubDirs(d)[k]) < Last(SubDirs(d)[l])
<1> DEFINE T == Subs(d)
           n == Cardinality(T)
           key == [q \in T |-> Last(q)]
<1>1. T \in SUBSET Paths /\ IsFiniteSet(T)
  BY PathsAssumption, FS_Subset DEF Subs
<1>2. n \in Nat
  BY <1>1, FS_CardinalityType
<1>3. \A q \in T : q \in Seq(Nat) /\ q # <<>> /\ Front(q) = d
  BY PathsAssumption DEF Subs
<1>4. key \in [T -> Nat]
  BY <1>3, PathParts
<1>5. \A x, y \in T : key[x] = key[y] => x = y
  <2> TAKE x, y \in T
  <2>1. x = Append(d, Last(x)) /\ y = Append(d, Last(y))
    BY <1>3, PathParts
  <2> QED BY <2>1
<1> HIDE DEF T
<1>6. \E s : Sorts(s, T, key)
  <2> HIDE DEF key
  <2> QED BY <1>1, <1>4, <1>5, SortExists
<1> DEFINE Good(s) == \A k, l \in DOMAIN s : k < l => Last(s[k]) < Last(s[l])
<1>7. \A s \in [1..n -> T] : Good(s) <=> Sorts(s, T, key)
  <2> TAKE s \in [1..n -> T]
  <2>1. \A k \in 1..n : s[k] \in T
    OBVIOUS
  <2>2. \A q \in T : key[q] = Last(q)
    OBVIOUS
  <2>3. DOMAIN s = 1..n
    OBVIOUS
  <2> HIDE DEF key
  <2> QED BY <2>1, <2>2, <2>3 DEF Sorts
<1>8. \E s \in [1..n -> T] : Good(s)
  BY <1>6, <1>7 DEF Sorts
<1>9. SubDirs(d) = CHOOSE s \in [1..n -> T] : Good(s)
  BY DEF SubDirs, T, Subs
<1> DEFINE s == SubDirs(d)
<1> HIDE DEF Good, s
<1>10. s \in [1..n -> T] /\ Good(s)
  BY <1>8, <1>9 DEF s
<1>11. Sorts(s, T, key)
  BY <1>7, <1>10
<1>12. \A x \in T : \E k \in 1..n : s[k] = x
  <2> HIDE DEF key
  <2> QED BY <1>1, <1>4, <1>11, SortIsAll
<1>13. DOMAIN s = 1..n /\ \A k \in 1..n : s[k] \in T
  BY <1>10
<1>14. s \in Seq(Paths)
  BY <1>1, <1>2, <1>10
<1> QED BY <1>10, <1>12, <1>13, <1>14 DEF Good, s, T
-----------------------------------------------------------------------------
(***************************************************************************)
(* The invariant.                                                          *)
(***************************************************************************)

\* a and b differ at some name, and a comes first by the first difference.
Apart(a, b) ==
  \E k \in DOMAIN a \cap DOMAIN b :
    /\ a[k] < b[k]
    /\ \A l \in 1..(k - 1) : a[l] = b[l]

\* The walk looks at the directory a before it looks at b.
Before(a, b) == IsStrictPrefix(a, b) \/ Apart(a, b)

\* The walk gets to d.
Reach(d) ==
  /\ d \in Paths
  /\ IsPrefix(startpath, d)
  /\ Open(startpath, d)
  /\ d = startpath \/ IsDir(d)
  /\ \A r \in Excluded : IsPrefix(r, d) => IsPrefix(r, startpath)

\* c is below a directory that is still to be entered, and is not what has just
\* been looked at in the first of them.
Ahead(c) ==
  \E k \in DOMAIN todo :
    /\ IsPrefix(todo[k], Front(c))
    /\ ~(k = 1 /\ pc = "dirs" /\ Front(c) = todo[1])

\* What the walks find: what was asked for, and a start file in the root.
Found == {c \in Below(startpath) : Alike(c) /\ (c # startfile \/ Front(c) = <<>>)}

Passed == {c \in Found : ~Ahead(c)}

\* The rows behind the first are what s holds, in the order of the tree.
Filled(s) ==
  /\ file_list_length = Cardinality(s) + 1
  /\ \A k \in 1..(file_list_length - 1) : file_list[k] \in s
  /\ \A c \in s : \E k \in 1..(file_list_length - 1) : file_list[k] = c
  /\ \A k, l \in 1..(file_list_length - 1) :
       k < l => TreeBefore(file_list[k], file_list[l])

\* Everything in the rows was found before what is still to be entered.
RowsBefore ==
  \A k \in 1..(file_list_length - 1), l \in DOMAIN todo :
    \/ Before(Front(file_list[k]), todo[l])
    \/ l = 1 /\ pc = "dirs" /\ Front(file_list[k]) = todo[1]

\* What holds whatever the other programs do.
ShapeInv ==
  /\ IsFiniteSet(DOMAIN file_list)
  /\ pc = "prompt" => /\ count = 0 /\ file_list = <<>> /\ file_list_length = 0
                      /\ compared = <<>>
  /\ pc \in {"stat", "dirs"} => todo # <<>>
  /\ pc \in Walking => startfile # <<>>
  /\ pc = "stat" => Candidate \in Paths
  /\ pc \in {"print", "sub", "compare"} => walk = "fill"
  /\ pc \in Walking \cup {"print", "sub", "compare"} /\ walk = "fill" =>
       /\ file_list_length >= 1
       /\ file_list[0] = startfile
       /\ \A k \in 1..(file_list_length - 1) :
            file_list[k] \in Paths /\ Last(file_list[k]) = Name
  /\ compared # <<>> => compared[1] = startfile /\ compared[2] \in Paths

\* What is still to be entered, in the order of the tree: no part lies in another.
TodoApart == \A k, l \in DOMAIN todo : k < l => Apart(todo[k], todo[l])

\* What holds on a tree that does not change.
WalkInv ==
  /\ \A k \in DOMAIN todo : Reach(todo[k])
  /\ TodoApart
  /\ pc = "stat" => Readable(Here) /\ disk[Candidate].kind = Kind
  /\ walk = "count" => count = Cardinality(Passed)
  /\ walk = "fill" => /\ DOMAIN file_list = 0..Cardinality(Found)
                      /\ Filled(Passed)
                      /\ RowsBefore

QuietInv ==
  quiet =>
    /\ pc # "overrun"
    /\ pc \in Walking => WalkInv
    /\ pc \in {"print", "sub"} => Filled(Found)
-----------------------------------------------------------------------------
(***************************************************************************)
(* Types and shape.                                                        *)
(***************************************************************************)

LEMMA EntrySize == \A e \in Entries : e.size \in Nat
<1>1. \A e \in [kind : {"none", "dir"}, size : {0}] : e.size \in Nat
  OBVIOUS
<1>2. \A e \in [kind : {"reg"}, size : Sizes] : e.size \in Nat
  BY NumbersAssumption
<1> QED BY <1>1, <1>2 DEF Entries

\* The size of a directory is a number.
LEMMA DirSizeType ==
  ASSUME disk \in [Paths -> Entries], NEW p
  PROVE  get_dir_size(p) \in Nat
<1> DEFINE reached == {q \in Below(p) : disk[q].kind = "reg" /\ Open(p, q)}
           f == [q \in reached |-> disk[q].size]
<1>1. reached \in SUBSET Paths
  BY DEF Below
<1>2. IsFiniteSet(reached)
  BY <1>1, PathsAssumption, FS_Subset
<1>3. \A q \in Paths : disk[q].size \in Nat
  BY EntrySize
<1>4. f \in [reached -> Nat]
  BY <1>1, <1>3
<1>5. get_dir_size(p) = FoldFunction(+, 0, f)
  BY DEF get_dir_size
<1> HIDE DEF f, reached
<1> QED BY <1>2, <1>4, <1>5, SumType

LEMMA InitShape == Init => TypeOK /\ ShapeInv
<1> SUFFICES ASSUME Init PROVE TypeOK /\ ShapeInv
  OBVIOUS
<1>1. Cardinality(DOMAIN file_list) = 0
  BY FS_EmptySet DEF Init
<1>2. TypeOK
  <2>1. DOMAIN file_list = {} /\ 0..(0 - 1) = {}
    BY DEF Init
  <2>2. DOMAIN file_list = 0..(Cardinality(DOMAIN file_list) - 1)
    BY <1>1, <2>1
  <2>3. file_list_length \in 0..Cardinality(DOMAIN file_list)
    BY <1>1 DEF Init
  <2>4. startfile \in Paths /\ startpath \in Paths /\ disk \in [Paths -> Entries]
    BY PathsAssumption DEF Init
  <2>5. todo \in Seq(Paths) /\ compared \in {<<>>} \cup (Rows \X Rows)
    BY DEF Init
  <2> QED BY <2>1, <2>2, <2>3, <2>4, <2>5 DEF Init, TypeOK, Walking, Ended
<1>3. ShapeInv
  BY FS_EmptySet DEF Init, ShapeInv, Walking
<1> QED BY <1>2, <1>3

LEMMA FindShape == TypeOK /\ ShapeInv /\ Find => TypeOK' /\ ShapeInv'
<1> SUFFICES ASSUME TypeOK, ShapeInv, Find PROVE TypeOK' /\ ShapeInv'
  OBVIOUS
<1>1. PICK f \in StartFiles, p \in StartPaths :
        /\ Exists(f) /\ Exists(p)
        /\ startfile' = f
        /\ startpath' = p
        /\ is_dir' = IsDir(f)
        /\ size' = IF IsDir(f) THEN get_dir_size(f) ELSE disk[f].size
        /\ todo' = <<p>>
        /\ pc' \in Freed(IsDir(f) /\ FreesUnset(f), "name")
  BY DEF Find
<1>2. pc = "prompt" /\ walk' = "count" /\ quiet' = TRUE /\ UNCHANGED <<disk, list, compared>>
  BY DEF Find
<1>3. count = 0 /\ file_list = <<>> /\ file_list_length = 0 /\ compared = <<>>
  BY <1>2 DEF ShapeInv
<1>4. f \in Paths /\ p \in Paths /\ f # <<>>
  BY PathsAssumption
<1>5. size' \in Nat
  <2>1. disk[f].size \in Nat
    BY <1>4, EntrySize DEF TypeOK
  <2>2. get_dir_size(f) \in Nat
    BY DirSizeType DEF TypeOK
  <2> QED BY <1>1, <2>1, <2>2
<1>6. pc' \in {"name", "undefined"}
  BY <1>1 DEF Freed
<1>7. todo' \in Seq(Paths)
  BY <1>1, <1>4
<1>8. is_dir' \in BOOLEAN
  BY <1>1 DEF IsDir
<1>9. TypeOK'
  BY <1>1, <1>2, <1>4, <1>5, <1>6, <1>7, <1>8 DEF TypeOK, Walking, Ended, list
<1>10. ShapeInv'
  BY <1>1, <1>2, <1>3, <1>4, <1>6 DEF ShapeInv, Walking, list
<1> QED BY <1>9, <1>10

\* A step that leaves the rows, the command and the choice alone.
LEMMA SameRowsShape ==
  ASSUME TypeOK, ShapeInv, UNCHANGED <<command, walk, file_list, file_list_length, compared>>,
         disk' \in [Paths -> Entries], quiet' \in BOOLEAN,
         todo' \in Seq(Paths), count' \in Nat,
         pc \in Walking, pc' \in {"name", "stat", "dirs", "undefined", "overrun"},
         pc' \in {"stat", "dirs"} => todo' # <<>>,
         pc' = "stat" => Candidate' \in Paths
  PROVE  TypeOK' /\ ShapeInv'
<1>1. TypeOK'
  BY DEF TypeOK, Walking, Ended, command
<1>2. ShapeInv'
  BY DEF ShapeInv, Walking, command, Name
<1> QED BY <1>1, <1>2

LEMMA WalkShape ==
  TypeOK /\ ShapeInv /\ (ScanName \/ CountMatch \/ ScanDirs) => TypeOK' /\ ShapeInv'
<1> SUFFICES ASSUME TypeOK, ShapeInv PROVE ScanName \/ CountMatch \/ ScanDirs => TypeOK' /\ ShapeInv'
  OBVIOUS
<1>0. disk \in [Paths -> Entries] /\ quiet \in BOOLEAN /\ todo \in Seq(Paths) /\ count \in Nat
  BY DEF TypeOK
<1>1. CASE ScanName
  <2>1. UNCHANGED <<disk, command, walk, todo, count, file_list, file_list_length, compared, quiet>>
    BY <1>1 DEF ScanName, list
  <2>2. pc = "name" /\ todo # <<>> /\ pc' \in {"stat", "dirs", "undefined"}
    BY <1>1 DEF ScanName, Freed
  <2>3. pc' = "stat" => Candidate \in Paths
    BY <1>1 DEF ScanName, Freed
  <2>4. Candidate' = Candidate
    BY <2>1 DEF Candidate, Here, Name, command
  <2>5. /\ disk' \in [Paths -> Entries] /\ quiet' \in BOOLEAN /\ todo' \in Seq(Paths) /\ count' \in Nat
        /\ pc \in Walking /\ pc' \in {"name", "stat", "dirs", "undefined", "overrun"}
        /\ pc' \in {"stat", "dirs"} => todo' # <<>>
        /\ pc' = "stat" => Candidate' \in Paths
    BY <1>0, <2>1, <2>2, <2>3, <2>4 DEF Walking
  <2> QED BY <2>1, <2>5, SameRowsShape
<1>2. CASE CountMatch
  <2>1. UNCHANGED <<disk, command, walk, todo, file_list, file_list_length, compared, quiet>>
    BY <1>2 DEF CountMatch
  <2>2. pc = "stat" /\ pc' \in {"dirs", "undefined"} /\ count' \in {count, count + 1}
    BY <1>2 DEF CountMatch, Freed
  <2>3. todo # <<>>
    BY <2>2 DEF ShapeInv
  <2>5. /\ disk' \in [Paths -> Entries] /\ quiet' \in BOOLEAN /\ todo' \in Seq(Paths) /\ count' \in Nat
        /\ pc \in Walking /\ pc' \in {"name", "stat", "dirs", "undefined", "overrun"}
        /\ pc' \in {"stat", "dirs"} => todo' # <<>>
        /\ pc' = "stat" => Candidate' \in Paths
    BY <1>0, <2>1, <2>2, <2>3 DEF Walking
  <2> QED BY <2>1, <2>5, SameRowsShape
<1>3. CASE ScanDirs
  <2>1. UNCHANGED <<disk, command, walk, count, file_list, file_list_length, compared, quiet>>
    BY <1>3 DEF ScanDirs, list
  <2>2. pc = "dirs" /\ pc' \in {"name", "undefined"}
    BY <1>3 DEF ScanDirs, Freed
  <2>3. todo # <<>>
    BY <2>2 DEF ShapeInv
  <2>4. Here \in Paths /\ Tail(todo) \in Seq(Paths)
    BY <1>0, <2>3 DEF Here
  <2>5. SubDirs(Here) \in Seq(Paths)
    BY <2>4, SubDirsSorted
  <2>6. todo' \in Seq(Paths)
    <3>1. SubDirs(Here) \o Tail(todo) \in Seq(Paths)
      BY <2>4, <2>5
    <3> QED BY <1>3, <2>4, <3>1 DEF ScanDirs
  <2>7. /\ disk' \in [Paths -> Entries] /\ quiet' \in BOOLEAN /\ todo' \in Seq(Paths) /\ count' \in Nat
        /\ pc \in Walking /\ pc' \in {"name", "stat", "dirs", "undefined", "overrun"}
        /\ pc' \in {"stat", "dirs"} => todo' # <<>>
        /\ pc' = "stat" => Candidate' \in Paths
    BY <1>0, <2>1, <2>2, <2>6 DEF Walking
  <2> QED BY <2>1, <2>7, SameRowsShape
<1> QED BY <1>1, <1>2, <1>3

\* What FillMatch does: it writes the row, or it does not, or there is none.
FillsRow ==
  /\ file_list_length \in DOMAIN file_list
  /\ file_list' = [file_list EXCEPT ![file_list_length] = Candidate]
  /\ file_list_length' = file_list_length + 1

LEMMA FillCases ==
  ASSUME FillMatch
  PROVE  /\ pc = "stat" /\ walk = "fill"
         /\ UNCHANGED <<disk, command, walk, todo, count, compared, quiet>>
         /\ \E same \in SizeEquals :
              \/ ~(same /\ NotStartFile) /\ UNCHANGED <<file_list, file_list_length>>
                 /\ pc' \in {"dirs", "undefined"}
              \/ same /\ NotStartFile /\ FillsRow /\ pc' \in {"dirs", "undefined"}
              \/ same /\ NotStartFile /\ file_list_length \notin DOMAIN file_list
                 /\ pc' = "overrun" /\ UNCHANGED <<file_list, file_list_length>>
<1>1. PICK same \in SizeEquals :
         IF ~(same /\ NotStartFile)
         THEN /\ pc' \in Freed(is_dir /\ FreesUnset(Candidate), "dirs")
              /\ UNCHANGED <<file_list, file_list_length>>
         ELSE IF file_list_length \in DOMAIN file_list
         THEN /\ file_list' = [file_list EXCEPT ![file_list_length] = Candidate]
              /\ file_list_length' = file_list_length + 1
              /\ pc' \in Freed(is_dir /\ FreesUnset(Candidate), "dirs")
         ELSE pc' = "overrun" /\ UNCHANGED <<file_list, file_list_length>>
  BY DEF FillMatch
<1>2. Freed(is_dir /\ FreesUnset(Candidate), "dirs") \subseteq {"dirs", "undefined"}
  BY DEF Freed
<1>3. \/ ~(same /\ NotStartFile) /\ UNCHANGED <<file_list, file_list_length>>
         /\ pc' \in {"dirs", "undefined"}
      \/ same /\ NotStartFile /\ FillsRow /\ pc' \in {"dirs", "undefined"}
      \/ same /\ NotStartFile /\ file_list_length \notin DOMAIN file_list
         /\ pc' = "overrun" /\ UNCHANGED <<file_list, file_list_length>>
  BY <1>1, <1>2 DEF FillsRow
<1> QED BY <1>3 DEF FillMatch

LEMMA FillShape == TypeOK /\ ShapeInv /\ FillMatch => TypeOK' /\ ShapeInv'
<1> SUFFICES ASSUME TypeOK, ShapeInv, FillMatch PROVE TypeOK' /\ ShapeInv'
  OBVIOUS
<1>0. disk \in [Paths -> Entries] /\ quiet \in BOOLEAN /\ todo \in Seq(Paths) /\ count \in Nat
  BY DEF TypeOK
<1>1. pc = "stat" /\ walk = "fill" /\ UNCHANGED <<disk, command, walk, todo, count, compared, quiet>>
  BY FillCases
<1>2. todo # <<>> /\ Candidate \in Paths
  BY <1>1 DEF ShapeInv
<1>3. CASE UNCHANGED <<file_list, file_list_length>> /\ pc' \in {"dirs", "undefined", "overrun"}
  <2>1. /\ disk' \in [Paths -> Entries] /\ quiet' \in BOOLEAN /\ todo' \in Seq(Paths) /\ count' \in Nat
        /\ pc \in Walking /\ pc' \in {"name", "stat", "dirs", "undefined", "overrun"}
        /\ pc' \in {"stat", "dirs"} => todo' # <<>>
        /\ pc' = "stat" => Candidate' \in Paths
    BY <1>0, <1>1, <1>2, <1>3 DEF Walking
  <2> QED BY <1>1, <1>3, <2>1, SameRowsShape
<1>4. CASE FillsRow /\ pc' \in {"dirs", "undefined"}
  <2> DEFINE n == Cardinality(DOMAIN file_list)
  <2>0. n \in Nat
    BY FS_CardinalityType DEF ShapeInv
  <2>1. DOMAIN file_list' = DOMAIN file_list
    BY <1>4 DEF FillsRow
  <2>2. file_list_length \in 0..n /\ DOMAIN file_list = 0..(n - 1)
    BY DEF TypeOK
  <2>3. file_list_length' \in 0..n
    <3> HIDE DEF n
    <3> QED BY <1>4, <2>0, <2>2 DEF FillsRow
  <2>4. file_list'[file_list_length] = Candidate
        /\ \A k \in DOMAIN file_list \ {file_list_length} : file_list'[k] = file_list[k]
    BY <1>4 DEF FillsRow
  <2>5. \A k \in DOMAIN file_list' : file_list'[k] \in Rows
    BY <1>2, <2>1, <2>4 DEF Rows, TypeOK
  <2>6. TypeOK'
    BY <1>1, <1>4, <2>1, <2>2, <2>3, <2>5 DEF TypeOK, Walking, Ended, command
  <2>7. file_list_length >= 1 /\ file_list[0] = startfile
        /\ \A k \in 1..(file_list_length - 1) : file_list[k] \in Paths /\ Last(file_list[k]) = Name
    BY <1>1 DEF ShapeInv, Walking
  <2>8. Last(Candidate) = Name
    <3>1. startfile \in Seq(Nat) /\ startfile # <<>> /\ Here \in Seq(Nat)
      <4>1. startfile # <<>>
        BY <1>1 DEF ShapeInv, Walking
      <4>2. startfile \in Paths /\ Here \in Paths
        BY <1>2 DEF TypeOK, Here
      <4> QED BY <4>1, <4>2, PathsAssumption
    <3>2. Name \in Nat
      BY <3>1, PathParts DEF Name
    <3> QED BY <3>1, <3>2, AppendParts DEF Candidate
  <2>9. /\ file_list_length' >= 1 /\ file_list'[0] = startfile'
        /\ \A k \in 1..(file_list_length' - 1) :
             file_list'[k] \in Paths /\ Last(file_list'[k]) = Name'
    <3>1. Name' = Name /\ startfile' = startfile
      BY <1>1 DEF Name, command
    <3>2. file_list_length' = file_list_length + 1 /\ file_list_length \in Nat
          /\ 0..file_list_length \subseteq DOMAIN file_list
      <4> HIDE DEF n
      <4>1. file_list_length \in DOMAIN file_list /\ file_list_length' = file_list_length + 1
        BY <1>4 DEF FillsRow
      <4>2. n \in Nat
        BY <2>0
      <4> QED BY <2>2, <4>1, <4>2
    <3>3. \A k \in 1..(file_list_length' - 1) :
             k = file_list_length \/ k \in 1..(file_list_length - 1)
      BY <3>2
    <3>4. 0 \in DOMAIN file_list \ {file_list_length}
      BY <2>7, <3>2
    <3>5. \A k \in 1..(file_list_length - 1) : k \in DOMAIN file_list \ {file_list_length}
      BY <3>2
    <3> QED BY <1>2, <2>4, <2>7, <2>8, <3>1, <3>2, <3>3, <3>4, <3>5
  <2>10. ShapeInv'
    BY <1>1, <1>2, <1>4, <2>1, <2>9 DEF ShapeInv, Walking, command
  <2> QED BY <2>6, <2>10
<1> QED BY <1>3, <1>4, FillCases

LEMMA CountDoneShape == TypeOK /\ ShapeInv /\ CountDone => TypeOK' /\ ShapeInv'
<1> SUFFICES ASSUME TypeOK, ShapeInv, CountDone PROVE TypeOK' /\ ShapeInv'
  OBVIOUS
<1>1. /\ pc = "name" /\ todo = <<>> /\ walk = "count"
      /\ file_list' = [k \in 0..count |-> IF k = 0 THEN startfile ELSE Unwritten]
      /\ file_list_length' = 1 /\ walk' = "fill" /\ todo' = <<startpath>>
      /\ UNCHANGED <<disk, pc, command, count, compared, quiet>>
  BY DEF CountDone
<1>2. count \in Nat /\ startfile \in Paths /\ startpath \in Paths
  BY DEF TypeOK
<1>3. DOMAIN file_list' = 0..count
  BY <1>1
<1>4. IsFiniteSet(DOMAIN file_list') /\ Cardinality(DOMAIN file_list') = count + 1
  BY <1>2, <1>3, FS_Interval
<1>5. \A k \in DOMAIN file_list' : file_list'[k] \in Rows
  BY <1>1, <1>2, <1>3 DEF Rows
<1>6. todo' \in Seq(Paths)
  BY <1>1, <1>2
<1>7. TypeOK'
  BY <1>1, <1>2, <1>3, <1>4, <1>5, <1>6 DEF TypeOK, command
<1>8. file_list'[0] = startfile'
  BY <1>1, <1>2 DEF command
<1>9. ShapeInv'
  BY <1>1, <1>4, <1>8 DEF ShapeInv, Walking, command
<1> QED BY <1>7, <1>9

\* The end of a command, on a disk that stays.
LEMMA DropShape ==
  ASSUME TypeOK, ShapeInv, DropLocals, pc' \in {"prompt", "undefined"}, UNCHANGED <<disk, quiet>>
  PROVE  TypeOK' /\ ShapeInv'
<1>1. Cardinality(DOMAIN file_list') = 0 /\ IsFiniteSet(DOMAIN file_list')
      /\ DOMAIN file_list' = {} /\ 0..(0 - 1) = {}
  BY FS_EmptySet DEF DropLocals
<1>2. startfile' \in Paths /\ startpath' \in Paths /\ todo' \in Seq(Paths)
      /\ compared' \in {<<>>} \cup (Rows \X Rows)
  BY PathsAssumption DEF DropLocals
<1>3. file_list_length' \in 0..Cardinality(DOMAIN file_list')
      /\ DOMAIN file_list' = 0..(Cardinality(DOMAIN file_list') - 1)
  BY <1>1 DEF DropLocals
<1>4. TypeOK'
  BY <1>1, <1>2, <1>3 DEF TypeOK, DropLocals, Walking, Ended
<1>5. ShapeInv'
  BY <1>1 DEF ShapeInv, DropLocals, Walking
<1> QED BY <1>4, <1>5

LEMMA PrintShape == TypeOK /\ ShapeInv /\ (FillDone \/ PrintRows) => TypeOK' /\ ShapeInv'
<1> SUFFICES ASSUME TypeOK, ShapeInv PROVE FillDone \/ PrintRows => TypeOK' /\ ShapeInv'
  OBVIOUS
<1>1. CASE FillDone
  <2>1. pc = "name" /\ walk = "fill" /\ pc' = "print"
        /\ UNCHANGED <<disk, command, walk, todo, list, compared, quiet>>
    BY <1>1 DEF FillDone
  <2> QED BY <2>1 DEF TypeOK, ShapeInv, command, list, Walking, Ended, Name
<1>2. CASE PrintRows
  <2>1. CASE pc = "print" /\ pc' \in {"sub", "undefined"}
             /\ UNCHANGED <<disk, command, walk, todo, list, compared, quiet>>
    BY <2>1 DEF TypeOK, ShapeInv, command, list, Walking, Ended, Name
  <2>2. CASE DropLocals /\ pc' \in {"prompt", "undefined"} /\ UNCHANGED <<disk, quiet>>
    BY <2>2, DropShape
  <2> QED BY <1>2, <2>1, <2>2 DEF PrintRows, Freed
<1> QED BY <1>1, <1>2

LEMMA RowKnown ==
  ASSUME TypeOK, ShapeInv, pc = "sub"
  PROVE  \A k \in 1..(file_list_length - 1) :
           file_list[k] \in Paths /\ Last(file_list[k]) = Name /\ file_list[0] = startfile
  BY DEF ShapeInv, Walking

LEMMA PromptShape ==
  TypeOK /\ ShapeInv /\ (Exit \/ Spaces \/ Choose \/ Compare) => TypeOK' /\ ShapeInv'
<1> SUFFICES ASSUME TypeOK, ShapeInv
             PROVE  Exit \/ Spaces \/ Choose \/ Compare => TypeOK' /\ ShapeInv'
  OBVIOUS
<1>1. CASE Exit \/ Spaces
  <2>1. pc' \in {"ended", "undefined"}
        /\ UNCHANGED <<disk, command, walk, todo, list, compared, quiet>>
    BY <1>1 DEF Exit, Spaces
  <2> QED BY <2>1 DEF TypeOK, ShapeInv, command, list, Walking, Ended, Name
<1>2. CASE Choose
  <2>1. PICK n \in Typed : /\ Atoi(n) \in 1..(file_list_length - 1)
                           /\ compared' = <<file_list[0], file_list[Atoi(n)]>>
    BY <1>2 DEF Choose
  <2>2. pc = "sub" /\ pc' = "compare" /\ UNCHANGED <<disk, command, walk, todo, list, quiet>>
    BY <1>2 DEF Choose
  <2>3. compared'[1] = startfile /\ compared'[2] \in Paths
    BY <2>1, <2>2, RowKnown
  <2>4. compared' \in Rows \X Rows
    <3>1. startfile \in Paths
      BY DEF TypeOK
    <3> QED BY <2>1, <2>2, <3>1, RowKnown DEF Rows
  <2>5. TypeOK'
    BY <2>2, <2>4 DEF TypeOK, command, list, Walking, Ended
  <2>6. ShapeInv'
    BY <2>2, <2>3 DEF ShapeInv, command, list, Walking, Name
  <2> QED BY <2>5, <2>6
<1>3. CASE Compare
  <2>1. pc' \in {"prompt", "undefined"}
    BY <1>3 DEF Compare, Freed
  <2> QED BY <1>3, <2>1, DropShape DEF Compare
<1> QED BY <1>1, <1>2, <1>3

LEMMA InterfereShape == TypeOK /\ ShapeInv /\ Interfere => TypeOK' /\ ShapeInv'
<1> SUFFICES ASSUME TypeOK, ShapeInv, Interfere PROVE TypeOK' /\ ShapeInv'
  OBVIOUS
<1>1. disk' \in [Paths -> Entries] /\ quiet' = FALSE
      /\ UNCHANGED <<pc, command, walk, todo, list, compared>>
  BY DEF Interfere, TypeOK
<1> QED BY <1>1 DEF TypeOK, ShapeInv, command, list, Candidate, Here, Name

LEMMA NextShape == TypeOK /\ ShapeInv /\ [Next]_vars => TypeOK' /\ ShapeInv'
<1> SUFFICES ASSUME TypeOK, ShapeInv PROVE [Next]_vars => TypeOK' /\ ShapeInv'
  OBVIOUS
<1>1. CASE UNCHANGED vars
  BY <1>1 DEF vars, command, list, TypeOK, ShapeInv, Candidate, Here, Name
<1> QED
  BY <1>1, FindShape, WalkShape, FillShape, CountDoneShape, PrintShape, PromptShape,
     InterfereShape DEF Next, Run

\* Every variable keeps to its type, for every tree and whatever the others do.
THEOREM TypeCorrect == Spec => []TypeOK
<1>1. Init => TypeOK /\ ShapeInv
  BY InitShape
<1>2. TypeOK /\ ShapeInv /\ [Next]_vars => TypeOK' /\ ShapeInv'
  BY NextShape
<1> QED BY <1>1, <1>2, PTL DEF Spec

\* Whatever appears or vanishes between the two walks, what the user chooses is a
\* row that the second walk wrote, and its name is the name of the start file.
THEOREM OnlyListed == Spec => []ChosenListed
<1>1. Init => TypeOK /\ ShapeInv
  BY InitShape
<1>2. TypeOK /\ ShapeInv /\ [Next]_vars => TypeOK' /\ ShapeInv'
  BY NextShape
<1>3. ShapeInv => ChosenListed
  BY PathsAssumption DEF ShapeInv, ChosenListed, Walking
<1> QED BY <1>1, <1>2, <1>3, PTL DEF Spec
-----------------------------------------------------------------------------
(***************************************************************************)
(* The tree and the walk.                                                  *)
(***************************************************************************)

LEMMA ApartAbove ==
  ASSUME NEW a \in Seq(Nat), NEW b \in Seq(Nat), NEW c \in Seq(Nat), Apart(a, b)
  PROVE  /\ ~IsPrefix(a, b) /\ ~IsPrefix(b, a)
         /\ IsPrefix(a, c) => Apart(c, b)
         /\ IsPrefix(b, c) => Apart(a, c)
<1>0. Len(a) \in Nat /\ Len(b) \in Nat /\ Len(c) \in Nat
      /\ DOMAIN a = 1..Len(a) /\ DOMAIN b = 1..Len(b) /\ DOMAIN c = 1..Len(c)
  OBVIOUS
<1>1. PICK k \in DOMAIN a \cap DOMAIN b :
        a[k] < b[k] /\ \A l \in 1..(k - 1) : a[l] = b[l]
  BY DEF Apart
<1>2. a[k] \in Nat /\ b[k] \in Nat /\ a[k] # b[k]
  BY <1>0, <1>1
<1>3. ~IsPrefix(a, b)
  BY <1>0, <1>2, PrefixNames
<1>4. ~IsPrefix(b, a)
  BY <1>0, <1>2, PrefixNames
<1>5. ASSUME IsPrefix(a, c) PROVE Apart(c, b)
  <2>1. Len(a) <= Len(c) /\ \A l \in 1..Len(a) : a[l] = c[l]
    BY <1>5, PrefixNames
  <2>2. k \in DOMAIN c \cap DOMAIN b /\ c[k] = a[k] /\ \A l \in 1..(k - 1) : c[l] = a[l]
    BY <1>0, <1>1, <2>1
  <2> QED BY <1>1, <2>2 DEF Apart
<1>6. ASSUME IsPrefix(b, c) PROVE Apart(a, c)
  <2>1. Len(b) <= Len(c) /\ \A l \in 1..Len(b) : b[l] = c[l]
    BY <1>6, PrefixNames
  <2>2. k \in DOMAIN a \cap DOMAIN c /\ c[k] = b[k] /\ \A l \in 1..(k - 1) : c[l] = b[l]
    BY <1>0, <1>1, <2>1
  <2> QED BY <1>1, <2>2 DEF Apart
<1> QED BY <1>3, <1>4, <1>5, <1>6

LEMMA BeforeBelow ==
  ASSUME NEW a \in Seq(Nat), NEW b \in Seq(Nat), NEW c \in Seq(Nat),
         Before(a, b), IsPrefix(b, c)
  PROVE  Before(a, c)
<1>1. CASE IsStrictPrefix(a, b)
  <2>1. IsStrictPrefix(a, c)
    BY <1>1, PrefixOrder
  <2> QED BY <2>1 DEF Before
<1>2. CASE Apart(a, b)
  BY <1>2, ApartAbove DEF Before
<1> QED BY <1>1, <1>2 DEF Before

\* Two names in one directory.
LEMMA SiblingsApart ==
  ASSUME NEW a \in Seq(Nat), NEW b \in Seq(Nat), a # <<>>, b # <<>>,
         Front(a) = Front(b), Last(a) < Last(b)
  PROVE  Apart(a, b)
<1>1. /\ Len(a) \in Nat /\ Len(a) >= 1 /\ Len(Front(a)) = Len(a) - 1
      /\ \A k \in 1..(Len(a) - 1) : Front(a)[k] = a[k]
  BY PathParts
<1>2. /\ Len(b) \in Nat /\ Len(b) >= 1 /\ Len(Front(b)) = Len(b) - 1
      /\ \A k \in 1..(Len(b) - 1) : Front(b)[k] = b[k]
  BY PathParts
<1>3. Len(a) = Len(b) /\ a[Len(a)] < b[Len(a)] /\ Len(a) \in DOMAIN a \cap DOMAIN b
  BY <1>1, <1>2 DEF Last
<1>4. \A l \in 1..(Len(a) - 1) : a[l] = b[l]
  BY <1>1, <1>2, <1>3
<1> QED BY <1>3, <1>4 DEF Apart

LEMMA PathTypes ==
  /\ \A p \in Paths : p \in Seq(Nat)
  /\ \A p \in Paths : p # <<>> => Front(p) \in Paths
  BY PathsAssumption

\* What the walk finds is in a directory that the walk gets to and can read.
LEMMA FoundParts ==
  ASSUME startpath \in Paths, NEW c \in Paths
  PROVE  c \in Found <=>
           /\ c # <<>> /\ Last(c) = Name
           /\ Reach(Front(c)) /\ Readable(Front(c))
           /\ disk[c].kind = Kind
           /\ size = IF is_dir THEN get_dir_size(c) ELSE disk[c].size
           /\ c # startfile \/ Front(c) = <<>>
<1>0. c \in Seq(Nat) /\ startpath \in Seq(Nat) /\ \A r \in Paths : r \in Seq(Nat)
  BY PathTypes
<1>1. ASSUME c \in Found
      PROVE  c # <<>> /\ Reach(Front(c)) /\ Readable(Front(c))
  <2>1. /\ IsStrictPrefix(startpath, c) /\ Open(startpath, c)
        /\ \A r \in Excluded : IsPrefix(r, Front(c)) => IsPrefix(r, startpath)
    BY <1>1 DEF Found, Alike, Below
  <2>2. c # <<>>
    <3>1. Len(startpath) < Len(c) /\ Len(startpath) \in Nat
      BY <1>0, <2>1, PrefixNames
    <3> QED BY <3>1
  <2> DEFINE d == Front(c)
  <2>3. d \in Paths /\ d \in Seq(Nat) /\ IsPrefix(startpath, d)
    BY <1>0, <2>1, <2>2, PathTypes, PrefixOfFront
  <2>4. IsStrictPrefix(d, c)
    BY <1>0, <2>2, <2>3, PrefixOfFront, PrefixOrder
  <2>5. Readable(d)
    BY <2>1, <2>3, <2>4 DEF Open
  <2>6. Open(startpath, d)
    <3> SUFFICES ASSUME NEW r \in Paths, IsPrefix(startpath, r), IsStrictPrefix(r, d)
                 PROVE  Readable(r)
      BY DEF Open
    <3>1. IsStrictPrefix(r, c)
      <4>1. r \in Seq(Nat) /\ IsPrefix(r, d)
        BY <1>0 DEF IsStrictPrefix
      <4> HIDE DEF d
      <4> QED BY <1>0, <2>3, <2>4, <4>1, PrefixOrder
    <3> QED BY <2>1, <3>1 DEF Open
  <2> QED BY <2>1, <2>2, <2>3, <2>5, <2>6 DEF Reach, Readable
<1>2. ASSUME c # <<>>, Reach(Front(c)), Readable(Front(c))
      PROVE  /\ c \in Below(startpath) /\ Open(startpath, c)
             /\ \A r \in Excluded : IsPrefix(r, Front(c)) => IsPrefix(r, startpath)
  <2>1. IsPrefix(startpath, Front(c)) /\ Open(startpath, Front(c)) /\ Front(c) \in Seq(Nat)
    BY <1>0, <1>2, PathTypes DEF Reach
  <2>2. IsStrictPrefix(startpath, c)
    BY <1>0, <1>2, <2>1, PrefixOfFront
  <2>3. Open(startpath, c)
    <3> SUFFICES ASSUME NEW r \in Paths, IsPrefix(startpath, r), IsStrictPrefix(r, c)
                 PROVE  Readable(r)
      BY DEF Open
    <3>1. IsPrefix(r, Front(c))
      BY <1>0, <1>2, PrefixOfFront
    <3> QED BY <1>2, <2>1, <3>1 DEF Open, IsStrictPrefix
  <2> QED BY <1>2, <2>2, <2>3 DEF Below, Reach
<1> QED BY <1>1, <1>2 DEF Found, Alike

\* The recursion gets to the subdirectories of what it gets to.
LEMMA ReachSub ==
  ASSUME startpath \in Paths, NEW d, Reach(d), Readable(d), NEW q \in Subs(d)
  PROVE  Reach(q) /\ q \in Seq(Nat) /\ q # <<>> /\ Front(q) = d /\ IsStrictPrefix(d, q)
<1>0. d \in Paths /\ d \in Seq(Nat) /\ startpath \in Seq(Nat) /\ \A r \in Paths : r \in Seq(Nat)
  BY PathTypes DEF Reach
<1>1. q \in Paths /\ q \in Seq(Nat) /\ q \notin Excluded /\ IsDir(q) /\ q # <<>> /\ Front(q) = d
  BY PathTypes DEF Subs
<1>2. IsStrictPrefix(d, q)
  BY <1>0, <1>1, PrefixOfFront, PrefixOrder
<1>3. IsPrefix(startpath, d) /\ Open(startpath, d)
      /\ \A r \in Excluded : IsPrefix(r, d) => IsPrefix(r, startpath)
  BY DEF Reach
<1>4. IsPrefix(startpath, q)
  BY <1>0, <1>1, <1>3, PrefixOfFront
<1>5. Open(startpath, q)
  <2> SUFFICES ASSUME NEW r \in Paths, IsPrefix(startpath, r), IsStrictPrefix(r, q)
               PROVE  Readable(r)
    BY DEF Open
  <2>1. IsPrefix(r, d)
    BY <1>0, <1>1, PrefixOfFront
  <2> QED BY <1>3, <2>1 DEF Open, IsStrictPrefix
<1>6. \A r \in Excluded : IsPrefix(r, q) => IsPrefix(r, startpath)
  <2> SUFFICES ASSUME NEW r \in Excluded, IsPrefix(r, q) PROVE IsPrefix(r, startpath)
    OBVIOUS
  <2>1. r \in Seq(Nat) /\ r # q
    BY <1>1, PathsAssumption
  <2>2. IsPrefix(r, d)
    BY <1>1, <2>1, PrefixOfFront
  <2> QED BY <1>3, <2>2
<1> QED BY <1>1, <1>2, <1>4, <1>5, <1>6 DEF Reach

\* What was asked for and is further below a directory that the walk gets to is in
\* or below one of its subdirectories.
LEMMA SubTowards ==
  ASSUME startpath \in Paths, NEW d, Reach(d), NEW c \in Found, IsStrictPrefix(d, Front(c))
  PROVE  Readable(d) /\ \E q \in Subs(d) : IsPrefix(q, Front(c))
<1>0. d \in Paths /\ d \in Seq(Nat) /\ startpath \in Seq(Nat) /\ \A r \in Paths : r \in Seq(Nat)
  BY PathTypes DEF Reach
<1>1. c \in Paths /\ Open(startpath, c)
      /\ \A r \in Excluded : IsPrefix(r, Front(c)) => IsPrefix(r, startpath)
  BY DEF Found, Alike, Below
<1>2. c \in Seq(Nat) /\ c # <<>> /\ Front(c) \in Paths /\ Reach(Front(c))
  BY <1>0, <1>1, FoundParts, PathTypes
<1> DEFINE f == Front(c)
<1>3. f \in Paths /\ f \in Seq(Nat) /\ IsStrictPrefix(f, c)
  BY <1>0, <1>2, PrefixOfFront, PrefixOrder
<1>4. IsStrictPrefix(d, f)
  OBVIOUS
<1>5. IsPrefix(startpath, d)
  BY DEF Reach
<1> HIDE DEF f
<1>6. Len(d) \in Nat /\ Len(f) \in Nat /\ Len(d) < Len(f) /\ \A k \in 1..Len(d) : d[k] = f[k]
  BY <1>0, <1>3, <1>4, PrefixNames
<1> DEFINE n == Len(d) + 1
           q == SubSeq(f, 1, n)
<1>7. n \in 1..Len(f)
  BY <1>6
<1>8. q \in Paths
  BY <1>3, <1>7, PrefixClosed
<1>9. q \in Seq(Nat) /\ Len(q) = n /\ \A k \in 1..n : q[k] = f[k]
  <2> HIDE DEF n
  <2> QED BY <1>3, <1>7
<1> HIDE DEF q
<1>10. q # <<>>
  BY <1>6, <1>9
<1>11. Front(q) = d
  <2>1. /\ Front(q) \in Seq(Nat) /\ Len(Front(q)) = Len(d)
        /\ \A k \in 1..Len(d) : Front(q)[k] = q[k]
    <3>1. /\ Front(q) \in Seq(Nat) /\ Len(Front(q)) = Len(q) - 1
          /\ \A k \in 1..(Len(q) - 1) : Front(q)[k] = q[k]
      BY <1>9, <1>10, PathParts
    <3>2. Len(q) - 1 = Len(d)
      BY <1>6, <1>9
    <3> QED BY <3>1, <3>2
  <2>2. \A k \in 1..Len(d) : Front(q)[k] = d[k]
    BY <1>6, <1>9, <2>1
  <2> DEFINE g == Front(q)
  <2>3. g \in Seq(Nat) /\ Len(g) = Len(d) /\ \A k \in 1..Len(d) : g[k] = d[k]
    BY <2>1, <2>2
  <2> HIDE DEF g
  <2>4. g = d
    <3>1. IsPrefix(g, d) /\ ~IsStrictPrefix(g, d)
      BY <1>0, <1>6, <2>3, PrefixNames
    <3> QED BY <3>1 DEF IsStrictPrefix
  <2> QED BY <2>4 DEF g
<1>12. IsPrefix(q, f)
  BY <1>3, <1>7, <1>9, PrefixNames
<1>13. IsStrictPrefix(d, q)
  BY <1>0, <1>9, <1>10, <1>11, PrefixOfFront, PrefixOrder
<1>14. IsPrefix(startpath, q) /\ IsStrictPrefix(q, c) /\ IsStrictPrefix(d, c)
  <2>1. IsPrefix(d, q) /\ IsPrefix(d, f)
    BY <1>4, <1>13 DEF IsStrictPrefix
  <2>2. IsPrefix(startpath, q)
    BY <1>0, <1>5, <1>9, <2>1, PrefixOrder
  <2>3. IsStrictPrefix(q, c)
    BY <1>2, <1>3, <1>9, <1>12, PrefixOrder
  <2>4. IsStrictPrefix(d, c)
    BY <1>0, <1>2, <1>3, <2>1, PrefixOrder
  <2> QED BY <2>2, <2>3, <2>4
<1>15. Readable(q) /\ Readable(d)
  BY <1>0, <1>1, <1>5, <1>8, <1>14 DEF Open
<1>16. q \notin Excluded
  <2> SUFFICES ASSUME q \in Excluded PROVE FALSE
    OBVIOUS
  <2>1. IsPrefix(q, startpath)
    BY <1>1, <1>12 DEF f
  <2>2. IsPrefix(q, d)
    BY <1>0, <1>5, <1>9, <2>1, PrefixOrder
  <2>3. Len(q) <= Len(d)
    BY <1>0, <1>9, <2>2, PrefixNames
  <2> QED BY <1>6, <1>9, <2>3
<1>17. q \in Subs(d)
  BY <1>8, <1>10, <1>11, <1>15, <1>16 DEF Subs, Readable
<1> QED BY <1>12, <1>15, <1>17 DEF f
-----------------------------------------------------------------------------
(***************************************************************************)
(* The walks on a tree that does not change.                               *)
(***************************************************************************)

\* What depends on the disk and the command alone.
LEMMA SameTree ==
  ASSUME UNCHANGED <<disk, command>>
  PROVE  /\ Found' = Found
         /\ \A d : Reach(d)' <=> Reach(d)
         /\ \A d : Readable(d)' <=> Readable(d)
         /\ Name' = Name /\ Kind' = Kind
<1>0. disk' = disk /\ startfile' = startfile /\ startpath' = startpath
      /\ is_dir' = is_dir /\ size' = size
  BY DEF command
<1>1. \A d : Readable(d)' <=> Readable(d)
  BY <1>0 DEF Readable, IsDir
<1>2. \A p, q : Open(p, q)' <=> Open(p, q)
  BY <1>0 DEF Open, Readable, IsDir
<1>3. \A d : Reach(d)' <=> Reach(d)
  BY <1>0, <1>2 DEF Reach, IsDir
<1>4. \A p : get_dir_size(p)' = get_dir_size(p)
  <2> TAKE p
  <2> DEFINE reached == {q \in Below(p) : disk[q].kind = "reg" /\ Open(p, q)}
             f == [q \in reached |-> disk[q].size]
  <2>1. reached' = reached
    BY <1>0, <1>2 DEF Below
  <2>2. f' = f
    BY <1>0, <2>1
  <2>3. get_dir_size(p) = FoldFunction(+, 0, f)
    BY DEF get_dir_size
  <2>4. get_dir_size(p)' = FoldFunction(+, 0, f')
    BY <1>0 DEF get_dir_size, Below, Open, Readable, IsDir, FoldFunction, FoldFunctionOnSet, MapThenFoldSet
  <2> HIDE DEF f
  <2> QED BY <2>2, <2>3, <2>4
<1>5. Found' = Found
  BY <1>0, <1>2, <1>4 DEF Found, Alike, Below, Name, Kind
<1> QED BY <1>0, <1>1, <1>3, <1>5 DEF Name, Kind

LEMMA FoundFinite ==
  /\ IsFiniteSet(Found) /\ Cardinality(Found) \in Nat
  /\ Passed \in SUBSET Found
  /\ IsFiniteSet(Passed) /\ Cardinality(Passed) \in Nat
  /\ Found \in SUBSET Paths
<1>1. Found \in SUBSET Paths /\ Passed \in SUBSET Found
  BY DEF Found, Alike, Below, Passed
<1>2. IsFiniteSet(Found)
  BY <1>1, PathsAssumption, FS_Subset
<1>3. IsFiniteSet(Passed)
  BY <1>1, <1>2, FS_Subset
<1> QED BY <1>1, <1>2, <1>3, FS_CardinalityType

\* Everything is ahead at the start of a walk, and nothing at its end.
LEMMA WalkStarts ==
  startpath \in Paths /\ todo = <<startpath>> /\ pc = "name" =>
    /\ \A k \in DOMAIN todo : Reach(todo[k])
    /\ \A k, l \in DOMAIN todo : k < l => Apart(todo[k], todo[l])
    /\ Passed = {}
<1> SUFFICES ASSUME startpath \in Paths, todo = <<startpath>>, pc = "name"
             PROVE  /\ \A k \in DOMAIN todo : Reach(todo[k])
                    /\ \A k, l \in DOMAIN todo : k < l => Apart(todo[k], todo[l])
                    /\ Passed = {}
  OBVIOUS
<1>1. DOMAIN todo = {1} /\ todo[1] = startpath
  OBVIOUS
<1>2. Reach(startpath)
  <2>1. IsPrefix(startpath, startpath)
    BY PathTypes, PrefixOrder
  <2>2. Open(startpath, startpath)
    <3> SUFFICES ASSUME NEW r \in Paths, IsPrefix(startpath, r), IsStrictPrefix(r, startpath)
                 PROVE  FALSE
      BY DEF Open
    <3>1. r \in Seq(Nat) /\ startpath \in Seq(Nat) /\ IsPrefix(r, startpath)
      BY PathTypes DEF IsStrictPrefix
    <3>2. r = startpath
      BY <3>1, PrefixOrder
    <3> QED BY <3>2 DEF IsStrictPrefix
  <2> QED BY <2>1, <2>2 DEF Reach
<1>3. Passed = {}
  <2> SUFFICES ASSUME NEW c \in Found PROVE Ahead(c)
    BY DEF Passed
  <2>1. Reach(Front(c))
    BY FoundParts DEF Found, Alike, Below
  <2>2. IsPrefix(todo[1], Front(c)) /\ 1 \in DOMAIN todo
    BY <2>1 DEF Reach
  <2> QED BY <2>2 DEF Ahead
<1>4. \A k, l \in DOMAIN todo : ~(k < l)
  BY <1>1
<1> QED BY <1>1, <1>2, <1>3, <1>4

LEMMA WalkEnds ==
  ASSUME todo = <<>>
  PROVE  Passed = Found
  BY DEF Passed, Ahead

\* What can be found in the directory at hand.
LEMMA FoundHere ==
  ASSUME TypeOK, ShapeInv, todo # <<>>, pc \in Walking
  PROVE  /\ Here = todo[1] /\ 1 \in DOMAIN todo
         /\ Here \in Paths /\ Here \in Seq(Nat)
         /\ Front(Candidate) = Here /\ Last(Candidate) = Name /\ Candidate # <<>>
         /\ Candidate \in Seq(Nat)
         /\ \A c \in Found : Front(c) = Here <=> c = Candidate
<1>1. Here = todo[1] /\ 1 \in DOMAIN todo /\ Here \in Paths /\ Here \in Seq(Nat)
  BY PathTypes DEF Here, TypeOK
<1>2. Name \in Nat
  <2>1. startfile # <<>> /\ startfile \in Seq(Nat)
    BY PathTypes DEF ShapeInv, TypeOK
  <2> QED BY <2>1, PathParts DEF Name
<1>3. /\ Front(Candidate) = Here /\ Last(Candidate) = Name /\ Candidate # <<>>
      /\ Candidate \in Seq(Nat)
  BY <1>1, <1>2, AppendParts DEF Candidate
<1>4. \A c \in Found : Front(c) = Here <=> c = Candidate
  <2> TAKE c \in Found
  <2>1. c \in Paths /\ c # <<>> /\ Last(c) = Name
    <3>1. startpath \in Paths /\ c \in Paths
      BY DEF TypeOK, Found, Alike, Below
    <3> QED BY <3>1, FoundParts
  <2>2. c = Append(Front(c), Last(c))
    BY <2>1, PathTypes, PathParts
  <2> QED BY <1>3, <2>1, <2>2 DEF Candidate
<1> QED BY <1>1, <1>3, <1>4

\* The decision that both walks make is the right one.
LEMMA DecidesRight ==
  ASSUME TypeOK, ShapeInv, WalkInv, pc = "stat", NEW same \in SizeEquals
  PROVE  Candidate \in Found <=> same /\ NotStartFile
<1>1. todo # <<>> /\ Candidate \in Paths
  BY DEF ShapeInv
<1>2. Front(Candidate) = Here /\ Last(Candidate) = Name /\ Candidate # <<>>
  BY <1>1, FoundHere DEF Walking
<1>3. Reach(Here) /\ Readable(Here) /\ disk[Candidate].kind = Kind
  <2>1. Here = todo[1] /\ 1 \in DOMAIN todo
    BY <1>1, FoundHere DEF Walking
  <2> QED BY <2>1 DEF WalkInv
<1>4. same <=> size = IF is_dir THEN get_dir_size(Candidate) ELSE disk[Candidate].size
  BY <1>3 DEF SizeEquals, Kind, TypeOK
<1>5. startpath \in Paths
  BY DEF TypeOK
<1> QED BY <1>1, <1>2, <1>3, <1>4, <1>5, FoundParts DEF NotStartFile

\* What has been looked at is passed, and nothing else is.
LEMMA PassesHere ==
  ASSUME TypeOK, ShapeInv, WalkInv, todo # <<>>, pc \in {"name", "stat"},
         pc' = "dirs", UNCHANGED <<disk, command, todo>>
  PROVE  /\ Candidate \notin Passed
         /\ Passed' = IF Candidate \in Found THEN Passed \cup {Candidate} ELSE Passed
<1>1. /\ Here = todo[1] /\ 1 \in DOMAIN todo
      /\ Here \in Paths /\ Here \in Seq(Nat)
      /\ Front(Candidate) = Here
      /\ \A c \in Found : Front(c) = Here <=> c = Candidate
  BY FoundHere DEF Walking
<1>2. todo \in Seq(Paths) /\ \A k \in DOMAIN todo : todo[k] \in Seq(Nat)
  BY PathTypes DEF TypeOK
<1>3. Found' = Found
  BY SameTree
<1>4. \A c \in Found : Ahead(c)' <=> Ahead(c) /\ c # Candidate
  <2> TAKE c \in Found
  <2>1. CASE c = Candidate
    <3>1. \A k \in DOMAIN todo : k # 1 => ~IsPrefix(todo[k], Here)
      <4> TAKE k \in DOMAIN todo
      <4> HAVE k # 1
      <4>1. Apart(todo[1], todo[k])
        BY <1>1, <1>2 DEF WalkInv, TodoApart
      <4> QED BY <1>1, <1>2, <4>1, ApartAbove
    <3> QED BY <1>1, <2>1, <3>1 DEF Ahead
  <2>2. CASE c # Candidate
    <3>1. Front(c) # todo[1]
      BY <1>1, <2>2
    <3> QED BY <2>2, <3>1 DEF Ahead
  <2> QED BY <2>1, <2>2
<1>5. Candidate \in Found => Ahead(Candidate)
  <2>1. IsPrefix(todo[1], Front(Candidate))
    BY <1>1, PrefixOrder
  <2> QED BY <1>1, <2>1 DEF Ahead
<1>6. Candidate \notin Passed
  BY <1>5 DEF Passed
<1>7. Passed' = {c \in Found : ~Ahead(c)'}
  BY <1>3 DEF Passed
<1> HIDE DEF Ahead
<1> QED BY <1>4, <1>6, <1>7 DEF Passed

LEMMA FoundNothing ==
  ASSUME TypeOK, ShapeInv, todo # <<>>, pc \in Walking,
         ~(Readable(Here) /\ Candidate \in Paths /\ disk[Candidate].kind = Kind)
  PROVE  Candidate \notin Found
<1> SUFFICES ASSUME Candidate \in Found PROVE FALSE
  OBVIOUS
<1>1. Candidate \in Paths /\ startpath \in Paths
  BY DEF Found, Alike, Below, TypeOK
<1>2. Readable(Front(Candidate)) /\ disk[Candidate].kind = Kind
  BY <1>1, FoundParts
<1>3. Front(Candidate) = Here
  BY FoundHere
<1> QED BY <1>1, <1>2, <1>3

LEMMA InitQuiet == Init => QuietInv
  BY DEF Init, QuietInv, Walking

\* A command starts the first walk.
LEMMA FindQuiet == TypeOK /\ ShapeInv /\ Find => QuietInv'
<1> SUFFICES ASSUME TypeOK, ShapeInv, Find PROVE QuietInv'
  OBVIOUS
<1>1. PICK f \in StartFiles, p \in StartPaths :
        /\ startpath' = p /\ todo' = <<p>>
        /\ pc' \in Freed(IsDir(f) /\ FreesUnset(f), "name")
  BY DEF Find
<1>2. pc = "prompt" /\ walk' = "count" /\ count' = count
  BY DEF Find, list
<1>3. count = 0
  BY <1>2 DEF ShapeInv
<1>4. pc' \in {"name", "undefined"}
  BY <1>1 DEF Freed
<1>5. ASSUME pc' = "name" PROVE WalkInv'
  <2>1. startpath' \in Paths /\ todo' = <<startpath'>>
    BY <1>1, PathsAssumption
  <2>2. (startpath \in Paths /\ todo = <<startpath>> /\ pc = "name" =>
           /\ \A k \in DOMAIN todo : Reach(todo[k])
           /\ \A k, l \in DOMAIN todo : k < l => Apart(todo[k], todo[l])
           /\ Passed = {})'
    BY WalkStarts, PTL
  <2>3. /\ (\A k \in DOMAIN todo : Reach(todo[k]))'
        /\ (\A k, l \in DOMAIN todo : k < l => Apart(todo[k], todo[l]))'
        /\ Passed' = {}
    BY <1>5, <2>1, <2>2
  <2>4. count' = Cardinality(Passed')
    BY <1>2, <1>3, <2>3, FS_EmptySet
  <2> QED BY <1>2, <1>5, <2>3, <2>4 DEF WalkInv, TodoApart
<1> QED BY <1>4, <1>5 DEF QuietInv, Walking

\* The second walk starts when the first is at its end.
LEMMA CountDoneQuiet == TypeOK /\ ShapeInv /\ QuietInv /\ CountDone => QuietInv'
<1> SUFFICES ASSUME TypeOK, ShapeInv, QuietInv, CountDone, quiet PROVE QuietInv'
  BY DEF CountDone, QuietInv
<1>1. /\ pc = "name" /\ todo = <<>> /\ walk = "count"
      /\ file_list' = [k \in 0..count |-> IF k = 0 THEN startfile ELSE Unwritten]
      /\ file_list_length' = 1 /\ walk' = "fill" /\ todo' = <<startpath>>
      /\ UNCHANGED <<disk, pc, command, count, compared, quiet>>
  BY DEF CountDone
<1>2. count = Cardinality(Found) /\ Found' = Found
  <2>1. count = Cardinality(Passed)
    BY <1>1 DEF QuietInv, WalkInv, Walking
  <2> QED BY <1>1, <2>1, WalkEnds, SameTree
<1>3. startpath' \in Paths /\ todo' = <<startpath'>> /\ pc' = "name"
  BY <1>1 DEF TypeOK, command
<1>4. (startpath \in Paths /\ todo = <<startpath>> /\ pc = "name" =>
         /\ \A k \in DOMAIN todo : Reach(todo[k])
         /\ \A k, l \in DOMAIN todo : k < l => Apart(todo[k], todo[l])
         /\ Passed = {})'
  BY WalkStarts, PTL
<1>5. /\ (\A k \in DOMAIN todo : Reach(todo[k]))'
      /\ (\A k, l \in DOMAIN todo : k < l => Apart(todo[k], todo[l]))'
      /\ Passed' = {}
  BY <1>3, <1>4
<1>6. DOMAIN file_list' = 0..Cardinality(Found')
  BY <1>1, <1>2
<1>7. file_list_length' = Cardinality(Passed') + 1 /\ 1..(file_list_length' - 1) = {}
  BY <1>1, <1>5, FS_EmptySet
<1>8. Filled(Passed)' /\ RowsBefore'
  BY <1>5, <1>7 DEF Filled, RowsBefore
<1>9. WalkInv'
  BY <1>1, <1>3, <1>5, <1>6, <1>8 DEF WalkInv, TodoApart
<1> QED BY <1>3, <1>9 DEF QuietInv, Walking

\* At its end the rows are what was asked for, and stay that.
LEMMA PrintQuiet == TypeOK /\ ShapeInv /\ QuietInv /\ (FillDone \/ PrintRows) => QuietInv'
<1> SUFFICES ASSUME TypeOK, ShapeInv, QuietInv, FillDone \/ PrintRows, quiet PROVE QuietInv'
  BY DEF FillDone, PrintRows, QuietInv
<1>1. CASE FillDone
  <2>1. pc = "name" /\ todo = <<>> /\ walk = "fill" /\ pc' = "print"
        /\ UNCHANGED <<disk, command, walk, todo, list, compared, quiet>>
    BY <1>1 DEF FillDone
  <2>2. Filled(Found)
    <3>1. Filled(Passed)
      BY <2>1 DEF QuietInv, WalkInv, Walking
    <3> QED BY <2>1, <3>1, WalkEnds
  <2>3. Found' = Found
    BY <2>1, SameTree
  <2>4. Filled(Found)'
    BY <2>1, <2>2, <2>3 DEF Filled, list
  <2> QED BY <2>1, <2>4 DEF QuietInv, Walking
<1>2. CASE PrintRows
  <2>1. CASE pc' \in {"prompt", "undefined"}
    BY <2>1 DEF QuietInv, Walking
  <2>2. CASE pc = "print" /\ pc' = "sub"
             /\ UNCHANGED <<disk, command, walk, todo, list, compared, quiet>>
    <3>1. Found' = Found
      BY <2>2, SameTree
    <3>2. Filled(Found)'
      BY <2>2, <3>1 DEF QuietInv, Filled, list
    <3> QED BY <2>2, <3>2 DEF QuietInv, Walking
  <2> QED BY <1>2, <2>1, <2>2 DEF PrintRows, Freed
<1> QED BY <1>1, <1>2

\* A step that leaves the directories as they are leaves the walk consistent.
LEMMA SameTodo ==
  ASSUME WalkInv, UNCHANGED <<disk, command, todo>>
  PROVE  /\ (\A k \in DOMAIN todo : Reach(todo[k]))'
         /\ (\A k, l \in DOMAIN todo : k < l => Apart(todo[k], todo[l]))'
<1>1. disk' = disk /\ todo' = todo /\ startpath' = startpath
  BY DEF command
<1>2. \A k \in DOMAIN todo : Reach(todo[k])
  BY DEF WalkInv
<1>3. \A k, l \in DOMAIN todo : k < l => Apart(todo[k], todo[l])
  BY DEF WalkInv, TodoApart
<1>4. (\A k \in DOMAIN todo : Reach(todo[k]))'
  BY <1>1, <1>2 DEF Reach, Open, Readable, IsDir
<1>5. (\A k, l \in DOMAIN todo : k < l => Apart(todo[k], todo[l]))'
  BY <1>1, <1>3 DEF Apart
<1> QED BY <1>4, <1>5

LEMMA ScanNameQuiet == TypeOK /\ ShapeInv /\ QuietInv /\ ScanName => QuietInv'
<1> SUFFICES ASSUME TypeOK, ShapeInv, QuietInv, ScanName, quiet PROVE QuietInv'
  BY DEF ScanName, QuietInv
<1>1. /\ pc = "name" /\ todo # <<>>
      /\ UNCHANGED <<disk, command, walk, todo, count, file_list, file_list_length, compared, quiet>>
  BY DEF ScanName, list
<1>2. WalkInv
  BY <1>1 DEF QuietInv, Walking
<1>3. Found' = Found
  BY <1>1, SameTree
<1>4. /\ (\A k \in DOMAIN todo : Reach(todo[k]))'
      /\ (\A k, l \in DOMAIN todo : k < l => Apart(todo[k], todo[l]))'
  BY <1>1, <1>2, SameTodo
<1>5. CASE pc' = "stat" /\ Readable(Here) /\ disk[Candidate].kind = Kind
  <2>1. Passed' = Passed
    BY <1>1, <1>3, <1>5 DEF Passed, Ahead
  <2>2. RowsBefore => RowsBefore'
    BY <1>1, <1>5 DEF RowsBefore
  <2>3. Readable(Here)' /\ (disk[Candidate].kind = Kind)'
    BY <1>1, <1>5 DEF Readable, IsDir, Here, Candidate, Kind, Name, command
  <2>4. Filled(Passed) => Filled(Passed)'
    BY <1>1, <2>1 DEF Filled
  <2>5. WalkInv'
    BY <1>1, <1>2, <1>3, <1>4, <2>1, <2>2, <2>3, <2>4 DEF WalkInv, TodoApart
  <2> QED BY <1>5, <2>5 DEF QuietInv, Walking
<1>6. CASE pc' = "dirs" /\ ~(Readable(Here) /\ Candidate \in Paths /\ disk[Candidate].kind = Kind)
  <2>1. Passed' = Passed
    BY <1>1, <1>2, <1>6, PassesHere, FoundNothing DEF Walking
  <2>2. RowsBefore => RowsBefore'
    BY <1>1, <1>6 DEF RowsBefore
  <2>4. Filled(Passed) => Filled(Passed)'
    BY <1>1, <2>1 DEF Filled
  <2>5. WalkInv'
    BY <1>1, <1>2, <1>3, <1>4, <1>6, <2>1, <2>2, <2>4 DEF WalkInv, TodoApart
  <2> QED BY <1>6, <2>5 DEF QuietInv, Walking
<1>7. CASE pc' = "undefined"
  BY <1>7 DEF QuietInv, Walking
<1> QED BY <1>5, <1>6, <1>7 DEF ScanName, Freed

LEMMA CountMatchQuiet == TypeOK /\ ShapeInv /\ QuietInv /\ CountMatch => QuietInv'
<1> SUFFICES ASSUME TypeOK, ShapeInv, QuietInv, CountMatch, quiet PROVE QuietInv'
  BY DEF CountMatch, QuietInv
<1>1. /\ pc = "stat" /\ walk = "count" /\ pc' \in {"dirs", "undefined"}
      /\ UNCHANGED <<disk, command, walk, todo, file_list, file_list_length, compared, quiet>>
  BY DEF CountMatch, Freed
<1>2. PICK same \in SizeEquals : count' = IF same /\ NotStartFile THEN count + 1 ELSE count
  BY DEF CountMatch
<1>3. WalkInv /\ todo # <<>>
  BY <1>1 DEF QuietInv, Walking, ShapeInv
<1>4. ASSUME pc' = "dirs" PROVE WalkInv'
  <2>1. /\ (\A k \in DOMAIN todo : Reach(todo[k]))'
        /\ (\A k, l \in DOMAIN todo : k < l => Apart(todo[k], todo[l]))'
    BY <1>1, <1>3, SameTodo
  <2>2. /\ Candidate \notin Passed
        /\ Passed' = IF Candidate \in Found THEN Passed \cup {Candidate} ELSE Passed
    BY <1>1, <1>3, <1>4, PassesHere
  <2>3. Candidate \in Found <=> same /\ NotStartFile
    BY <1>1, <1>3, DecidesRight
  <2>4. IsFiniteSet(Passed) /\ count = Cardinality(Passed) /\ count \in Nat
    BY <1>1, <1>3, FoundFinite DEF WalkInv
  <2>5. count' = Cardinality(Passed')
    <3>1. CASE Candidate \in Found
      <4>1. Cardinality(Passed \cup {Candidate}) = Cardinality(Passed) + 1
        BY <2>2, <2>4, FS_AddElement
      <4> QED BY <1>2, <2>2, <2>3, <2>4, <3>1, <4>1
    <3>2. CASE Candidate \notin Found
      BY <1>2, <2>2, <2>3, <2>4, <3>2
    <3> QED BY <3>1, <3>2
  <2> QED BY <1>1, <1>4, <2>1, <2>5 DEF WalkInv, TodoApart
<1> QED BY <1>1, <1>4 DEF QuietInv, Walking

\* The second walk has a row for whatever it finds.
LEMMA FillMatchQuiet == TypeOK /\ ShapeInv /\ QuietInv /\ FillMatch => QuietInv'
<1> SUFFICES ASSUME TypeOK, ShapeInv, QuietInv, FillMatch, quiet PROVE QuietInv'
  BY DEF FillMatch, QuietInv
<1>1. /\ pc = "stat" /\ walk = "fill"
      /\ UNCHANGED <<disk, command, walk, todo, count, compared, quiet>>
  BY FillCases
<1>2. PICK same \in SizeEquals :
        \/ ~(same /\ NotStartFile) /\ UNCHANGED <<file_list, file_list_length>>
           /\ pc' \in {"dirs", "undefined"}
        \/ same /\ NotStartFile /\ FillsRow /\ pc' \in {"dirs", "undefined"}
        \/ same /\ NotStartFile /\ file_list_length \notin DOMAIN file_list
           /\ pc' = "overrun" /\ UNCHANGED <<file_list, file_list_length>>
  BY FillCases
<1>3. WalkInv /\ todo # <<>>
  BY <1>1 DEF QuietInv, Walking, ShapeInv
<1>4. Candidate \in Found <=> same /\ NotStartFile
  BY <1>1, <1>3, DecidesRight
<1>5. /\ IsFiniteSet(Found) /\ Cardinality(Found) \in Nat
      /\ Passed \in SUBSET Found /\ IsFiniteSet(Passed) /\ Cardinality(Passed) \in Nat
      /\ Found \in SUBSET Paths
  BY FoundFinite
<1>6. DOMAIN file_list = 0..Cardinality(Found) /\ Filled(Passed) /\ RowsBefore
  BY <1>1, <1>3 DEF WalkInv
<1>7. file_list_length = Cardinality(Passed) + 1
  BY <1>6 DEF Filled
<1>8. Candidate \notin Passed
  <2>1. /\ Here = todo[1] /\ 1 \in DOMAIN todo /\ Front(Candidate) = Here /\ Here \in Seq(Nat)
    BY <1>1, <1>3, FoundHere DEF Walking
  <2>2. IsPrefix(todo[1], Front(Candidate)) /\ pc # "dirs"
    BY <1>1, <2>1, PrefixOrder
  <2> QED BY <2>1, <2>2 DEF Passed, Ahead
<1>9. ASSUME Candidate \in Found
      PROVE  Cardinality(Passed \cup {Candidate}) = Cardinality(Passed) + 1
             /\ file_list_length \in DOMAIN file_list
  <2>1. Cardinality(Passed \cup {Candidate}) = Cardinality(Passed) + 1
    BY <1>5, <1>8, FS_AddElement
  <2>2. Cardinality(Passed \cup {Candidate}) <= Cardinality(Found)
    BY <1>5, <1>9, FS_Subset
  <2> QED BY <1>5, <1>6, <1>7, <2>1, <2>2
<1>10. pc' \in {"dirs", "undefined"}
  BY <1>2, <1>4, <1>9
<1>11. ASSUME pc' = "dirs" PROVE WalkInv'
  <2>1. /\ (\A k \in DOMAIN todo : Reach(todo[k]))'
        /\ (\A k, l \in DOMAIN todo : k < l => Apart(todo[k], todo[l]))'
    BY <1>1, <1>3, SameTodo
  <2>2. Passed' = IF Candidate \in Found THEN Passed \cup {Candidate} ELSE Passed
    BY <1>1, <1>3, <1>11, PassesHere
  <2>3. Found' = Found
    BY <1>1, SameTree
  <2>4. CASE Candidate \notin Found
    <3>1. UNCHANGED <<file_list, file_list_length>> /\ Passed' = Passed
      BY <1>2, <1>4, <2>2, <2>4
    <3>2. Filled(Passed)'
      BY <1>6, <3>1 DEF Filled
    <3>3. RowsBefore'
      BY <1>1, <1>6, <1>11, <3>1 DEF RowsBefore
    <3> QED BY <1>1, <1>6, <1>11, <2>1, <2>3, <3>1, <3>2, <3>3 DEF WalkInv, TodoApart
  <2>5. CASE Candidate \in Found
    <3> DEFINE n == file_list_length
    <3>1. FillsRow /\ Passed' = Passed \cup {Candidate}
      BY <1>2, <1>4, <1>9, <2>2, <2>5
    <3>2. n \in Nat /\ n >= 1 /\ file_list_length' = n + 1 /\ DOMAIN file_list' = DOMAIN file_list
          /\ file_list'[n] = Candidate
          /\ \A k \in 1..(n - 1) : file_list'[k] = file_list[k]
      <4>1. n \in Nat /\ n >= 1
        BY <1>5, <1>7
      <4>2. n \in DOMAIN file_list
        BY <3>1 DEF FillsRow
      <4>3. \A k \in 1..(n - 1) : k \in DOMAIN file_list /\ k # n
        BY <1>5, <1>6, <4>1, <4>2
      <4> QED BY <3>1, <4>1, <4>2, <4>3 DEF FillsRow
    <3>3. file_list_length' = Cardinality(Passed') + 1
      BY <1>7, <1>9, <2>5, <3>1, <3>2
    <3>4. \A k \in 1..n : k \in 1..(n - 1) \/ k = n
      BY <3>2
    <3>5. 1..(file_list_length' - 1) = 1..n
      BY <3>2
    <3>6. /\ Here = todo[1] /\ 1 \in DOMAIN todo /\ Front(Candidate) = Here
          /\ Here \in Seq(Nat)
      BY <1>1, <1>3, FoundHere DEF Walking
    <3>7. \A k \in 1..(n - 1) : Before(Front(file_list[k]), Here)
      BY <1>1, <1>6, <3>6 DEF RowsBefore
    <3> HIDE DEF n
    <3>8. \A k \in 1..(file_list_length' - 1) : file_list'[k] \in Passed'
      BY <1>6, <3>1, <3>2, <3>4, <3>5 DEF Filled, n
    <3>9. \A c \in Passed' : \E k \in 1..(file_list_length' - 1) : file_list'[k] = c
      <4> TAKE c \in Passed'
      <4>1. CASE c = Candidate
        BY <3>2, <3>5, <4>1
      <4>2. CASE c \in Passed
        <5>1. PICK k \in 1..(n - 1) : file_list[k] = c
          BY <1>6, <4>2 DEF Filled, n
        <5>2. k \in 1..n /\ file_list'[k] = c
          BY <3>2, <5>1
        <5> QED BY <3>5, <5>2
      <4> QED BY <3>1, <4>1, <4>2
    <3>10. \A k, l \in 1..(file_list_length' - 1) :
              k < l => TreeBefore(file_list'[k], file_list'[l])
      <4> SUFFICES ASSUME NEW k \in 1..n, NEW l \in 1..n, k < l
                   PROVE  TreeBefore(file_list'[k], file_list'[l])
        BY <3>5
      <4>1. k \in 1..(n - 1)
        BY <3>2
      <4>2. CASE l \in 1..(n - 1)
        BY <1>6, <3>2, <4>1, <4>2 DEF Filled, n
      <4>3. CASE l = n
        <5>1. Before(Front(file_list[k]), Front(Candidate))
          BY <3>6, <3>7, <4>1
        <5>2. TreeBefore(file_list[k], Candidate)
          BY <5>1 DEF TreeBefore, Before, Apart
        <5> QED BY <3>2, <4>1, <4>3, <5>2
      <4> QED BY <3>4, <4>2, <4>3
    <3>11. Filled(Passed)'
      BY <3>3, <3>8, <3>9, <3>10 DEF Filled, TreeBefore
    <3>12. RowsBefore'
      <4> SUFFICES ASSUME NEW k \in 1..n, NEW l \in DOMAIN todo
                   PROVE  \/ Before(Front(file_list'[k]), todo[l])
                          \/ l = 1 /\ Front(file_list'[k]) = todo[1]
        BY <1>1, <1>11, <3>5 DEF RowsBefore, Before, Apart
      <4>1. CASE k \in 1..(n - 1)
        <5>1. Before(Front(file_list[k]), todo[l])
          BY <1>1, <1>6, <4>1 DEF RowsBefore, n
        <5> QED BY <3>2, <4>1, <5>1
      <4>2. CASE k = n /\ l = 1
        BY <3>2, <3>6, <4>2
      <4>3. CASE k = n /\ l # 1
        <5>1. 1 < l
          BY <4>3 DEF TypeOK
        <5>2. Apart(todo[1], todo[l])
          BY <1>3, <3>6, <5>1 DEF WalkInv, TodoApart
        <5> QED BY <3>2, <3>6, <4>3, <5>2 DEF Before
      <4> QED BY <3>4, <4>1, <4>2, <4>3
    <3> QED BY <1>1, <1>6, <1>11, <2>1, <2>3, <3>2, <3>11, <3>12 DEF WalkInv, TodoApart
  <2> QED BY <2>4, <2>5
<1> QED BY <1>10, <1>11 DEF QuietInv, Walking

\* What is to be entered after a look at the subdirectories: these, then the rest.
LEMMA TodoNext ==
  ASSUME TypeOK, ShapeInv, TodoApart, ScanDirs, pc' = "name"
  PROVE  /\ todo' \in Seq(Paths)
         /\ \A k \in DOMAIN todo' :
              \/ Readable(Here) /\ todo'[k] \in Subs(Here)
              \/ \E j \in DOMAIN todo : j # 1 /\ todo'[k] = todo[j]
         /\ \A j \in DOMAIN todo : j # 1 => \E k \in DOMAIN todo' : todo'[k] = todo[j]
         /\ Readable(Here) =>
              \A q \in Subs(Here) : \E k \in DOMAIN todo' : todo'[k] = q
         /\ TodoApart'
<1>1. pc = "dirs" /\ todo # <<>>
  BY DEF ScanDirs, ShapeInv
<1>2. Here = todo[1] /\ 1 \in DOMAIN todo /\ Here \in Paths /\ Here \in Seq(Nat)
  BY <1>1, FoundHere DEF Walking
<1> DEFINE t == Tail(todo)
<1>3. todo \in Seq(Paths) /\ Len(todo) \in Nat /\ Len(todo) >= 1
      /\ DOMAIN todo = 1..Len(todo) /\ t \in Seq(Paths) /\ Len(t) = Len(todo) - 1
      /\ \A k \in 1..(Len(todo) - 1) : t[k] = todo[k + 1]
  BY <1>1 DEF TypeOK
<1>4. \A k, l \in DOMAIN todo : k < l => Apart(todo[k], todo[l])
  BY DEF TodoApart
<1>5. \A k \in DOMAIN todo : todo[k] \in Seq(Nat)
  BY <1>3, PathTypes
<1>6. CASE ~Readable(Here)
  <2>1. todo' = t
    BY <1>6 DEF ScanDirs
  <2> HIDE DEF t
  <2>2. DOMAIN todo' = 1..(Len(todo) - 1)
    BY <1>3, <2>1
  <2>3. \A k \in DOMAIN todo' : k + 1 \in DOMAIN todo /\ k + 1 # 1 /\ todo'[k] = todo[k + 1]
    BY <1>3, <2>1, <2>2
  <2>4. \A j \in DOMAIN todo : j # 1 => j - 1 \in DOMAIN todo' /\ todo'[j - 1] = todo[j]
    <3> SUFFICES ASSUME NEW j \in DOMAIN todo, j # 1
                 PROVE  j - 1 \in DOMAIN todo' /\ todo'[j - 1] = todo[j]
      OBVIOUS
    <3>1. j - 1 \in DOMAIN todo' /\ j - 1 + 1 = j
      BY <1>3, <2>2
    <3> QED BY <2>3, <3>1
  <2>5. \A k, l \in DOMAIN todo' : k < l => Apart(todo'[k], todo'[l])
    <3> SUFFICES ASSUME NEW k \in DOMAIN todo', NEW l \in DOMAIN todo', k < l
                 PROVE  Apart(todo'[k], todo'[l])
      OBVIOUS
    <3>1. k + 1 < l + 1
      BY <2>2
    <3> QED BY <1>4, <2>3, <3>1
  <2> QED BY <1>3, <1>6, <2>1, <2>3, <2>4, <2>5 DEF TodoApart
<1>7. CASE Readable(Here)
  <2> DEFINE s == SubDirs(Here)
             n == Len(s)
  <2>1. /\ s \in Seq(Paths)
        /\ \A k \in DOMAIN s : s[k] \in Subs(Here)
        /\ \A q \in Subs(Here) : \E k \in DOMAIN s : s[k] = q
        /\ \A k, l \in DOMAIN s : k < l => Last(s[k]) < Last(s[l])
    BY <1>2, SubDirsSorted
  <2>2. todo' = s \o t
    BY <1>7 DEF ScanDirs
  <2> HIDE DEF s, t
  <2>3. n \in Nat /\ DOMAIN s = 1..n
    BY <2>1
  <2> HIDE DEF n
  <2>4. todo' \in Seq(Paths) /\ DOMAIN todo' = 1..(n + Len(todo) - 1)
    BY <1>3, <2>1, <2>2, <2>3 DEF n
  <2>5. \A k \in 1..n : k \in DOMAIN todo' /\ todo'[k] = s[k]
    BY <1>3, <2>1, <2>2, <2>3 DEF n
  <2>6. \A k \in DOMAIN todo' : k \notin 1..n =>
          /\ k > n /\ k - n + 1 \in DOMAIN todo /\ k - n + 1 # 1 /\ todo'[k] = todo[k - n + 1]
    <3> SUFFICES ASSUME NEW k \in DOMAIN todo', k \notin 1..n
                 PROVE  k > n /\ k - n + 1 \in DOMAIN todo /\ k - n + 1 # 1
                        /\ todo'[k] = todo[k - n + 1]
      OBVIOUS
    <3>1. k > n /\ k - n \in 1..(Len(todo) - 1)
      BY <1>3, <2>3, <2>4
    <3>2. todo'[k] = t[k - n]
      BY <1>3, <2>1, <2>2, <2>3, <2>4, <3>1 DEF n
    <3> QED BY <1>3, <3>1, <3>2
  <2>7. \A j \in DOMAIN todo : j # 1 =>
          n + j - 1 \in DOMAIN todo' /\ todo'[n + j - 1] = todo[j]
    <3> SUFFICES ASSUME NEW j \in DOMAIN todo, j # 1
                 PROVE  n + j - 1 \in DOMAIN todo' /\ todo'[n + j - 1] = todo[j]
      OBVIOUS
    <3> DEFINE k == n + j - 1
    <3>1. k \in DOMAIN todo' /\ k \notin 1..n /\ k - n + 1 = j
      BY <1>3, <2>3, <2>4
    <3> HIDE DEF k
    <3>2. todo'[k] = todo[k - n + 1]
      BY <2>6, <3>1
    <3>3. k \in DOMAIN todo' /\ todo'[k] = todo[j]
      BY <3>1, <3>2
    <3> QED BY <3>3 DEF k
  <2>8. \A k \in 1..n : /\ s[k] \in Subs(Here) /\ s[k] \in Seq(Nat) /\ s[k] # <<>>
                        /\ Front(s[k]) = Here /\ IsStrictPrefix(Here, s[k])
    <3> SUFFICES ASSUME NEW q \in Subs(Here)
                 PROVE  q \in Seq(Nat) /\ q # <<>> /\ Front(q) = Here /\ IsStrictPrefix(Here, q)
      BY <2>1, <2>3
    <3>1. q \in Seq(Nat) /\ q # <<>> /\ Front(q) = Here
      BY PathTypes DEF Subs
    <3> QED BY <1>2, <3>1, PrefixOfFront, PrefixOrder
  <2>9. \A k, l \in DOMAIN todo' : k < l => Apart(todo'[k], todo'[l])
    <3> SUFFICES ASSUME NEW k \in DOMAIN todo', NEW l \in DOMAIN todo', k < l
                 PROVE  Apart(todo'[k], todo'[l])
      OBVIOUS
    <3>1. CASE k \in 1..n /\ l \in 1..n
      <4>1. Last(s[k]) < Last(s[l])
        BY <2>1, <2>3, <3>1
      <4> QED BY <2>5, <2>8, <3>1, <4>1, SiblingsApart
    <3>2. CASE k \in 1..n /\ l \notin 1..n
      <4>1. PICK j \in DOMAIN todo : j # 1 /\ todo'[l] = todo[j]
        BY <2>6, <3>2
      <4>2. Apart(Here, todo[j])
        <5>1. 1 < j
          BY <1>3, <4>1
        <5> QED BY <1>2, <1>4, <5>1
      <4>3. IsPrefix(Here, s[k])
        BY <2>8, <3>2 DEF IsStrictPrefix
      <4>4. Apart(s[k], todo[j])
        BY <1>2, <1>5, <2>8, <3>2, <4>2, <4>3, ApartAbove
      <4> QED BY <2>5, <3>2, <4>1, <4>4
    <3>3. CASE k \notin 1..n /\ l \notin 1..n
      <4>1. k - n + 1 < l - n + 1
        BY <2>3, <2>4
      <4>2. /\ k - n + 1 \in DOMAIN todo /\ todo'[k] = todo[k - n + 1]
            /\ l - n + 1 \in DOMAIN todo /\ todo'[l] = todo[l - n + 1]
        BY <2>6, <3>3
      <4> QED BY <1>4, <4>1, <4>2
    <3>4. ~(k \notin 1..n /\ l \in 1..n)
      BY <2>3, <2>4
    <3> QED BY <3>1, <3>2, <3>3, <3>4
  <2>10. \A k \in DOMAIN todo' :
              \/ todo'[k] \in Subs(Here)
              \/ \E j \in DOMAIN todo : j # 1 /\ todo'[k] = todo[j]
    BY <2>5, <2>6, <2>8
  <2>11. \A j \in DOMAIN todo : j # 1 => \E k \in DOMAIN todo' : todo'[k] = todo[j]
    BY <2>7
  <2>12. \A q \in Subs(Here) : \E k \in DOMAIN todo' : todo'[k] = q
    BY <2>1, <2>3, <2>5
  <2> QED BY <1>7, <2>4, <2>9, <2>10, <2>11, <2>12 DEF TodoApart
<1> QED BY <1>6, <1>7

LEMMA ScanDirsQuiet == TypeOK /\ ShapeInv /\ QuietInv /\ ScanDirs => QuietInv'
<1> SUFFICES ASSUME TypeOK, ShapeInv, QuietInv, ScanDirs, quiet PROVE QuietInv'
  BY DEF ScanDirs, QuietInv
<1>1. /\ pc = "dirs" /\ pc' \in {"name", "undefined"}
      /\ UNCHANGED <<disk, command, walk, count, file_list, file_list_length, compared, quiet>>
  BY DEF ScanDirs, list, Freed
<1>2. WalkInv /\ todo # <<>> /\ startpath \in Paths /\ todo \in Seq(Paths)
  BY <1>1 DEF QuietInv, Walking, ShapeInv, TypeOK
<1>3. Here = todo[1] /\ 1 \in DOMAIN todo /\ Here \in Paths /\ Here \in Seq(Nat) /\ Reach(Here)
  <2>1. Here = todo[1] /\ 1 \in DOMAIN todo /\ Here \in Paths /\ Here \in Seq(Nat)
    BY <1>1, <1>2, FoundHere DEF Walking
  <2> QED BY <1>2, <2>1 DEF WalkInv
<1>4. Found' = Found /\ \A d : Reach(d)' <=> Reach(d)
  BY <1>1, SameTree
<1>5. ASSUME pc' = "name" PROVE WalkInv'
  <2>1. /\ todo' \in Seq(Paths)
        /\ \A k \in DOMAIN todo' :
             \/ Readable(Here) /\ todo'[k] \in Subs(Here)
             \/ \E j \in DOMAIN todo : j # 1 /\ todo'[k] = todo[j]
        /\ \A j \in DOMAIN todo : j # 1 => \E k \in DOMAIN todo' : todo'[k] = todo[j]
        /\ Readable(Here) =>
             \A q \in Subs(Here) : \E k \in DOMAIN todo' : todo'[k] = q
        /\ \A k, l \in DOMAIN todo' : k < l => Apart(todo'[k], todo'[l])
    BY <1>2, <1>5, TodoNext DEF WalkInv, TodoApart
  <2>2. \A j \in DOMAIN todo : todo[j] \in Seq(Nat) /\ Reach(todo[j])
    BY <1>2, PathTypes DEF WalkInv
  <2>3. Readable(Here) => \A q \in Subs(Here) :
          Reach(q) /\ q \in Seq(Nat) /\ IsStrictPrefix(Here, q)
    BY <1>2, <1>3, ReachSub
  <2>4. \A k \in DOMAIN todo' : Reach(todo'[k])
    BY <2>1, <2>2, <2>3
  <2>5. (\A k \in DOMAIN todo : Reach(todo[k]))'
    <3>1. disk' = disk /\ startpath' = startpath
      BY <1>1 DEF command
    <3> QED BY <2>4, <3>1 DEF Reach, Open, Readable, IsDir
  <2>6. (\A k, l \in DOMAIN todo : k < l => Apart(todo[k], todo[l]))'
    BY <2>1 DEF Apart
  <2>7. ASSUME NEW c \in Found
        PROVE  Ahead(c) <=> \E k \in DOMAIN todo' : IsPrefix(todo'[k], Front(c))
    <3>1. Front(c) \in Seq(Nat)
      <4>1. c \in Paths
        BY DEF Found, Alike, Below
      <4>2. c # <<>>
        BY <1>2, <4>1, FoundParts
      <4> QED BY <4>1, <4>2, PathTypes, PathParts
    <3>2. ASSUME NEW k \in DOMAIN todo', IsPrefix(todo'[k], Front(c)) PROVE Ahead(c)
      <4>1. CASE Readable(Here) /\ todo'[k] \in Subs(Here)
        <5>1. IsStrictPrefix(Here, Front(c))
          BY <1>3, <2>3, <3>1, <3>2, <4>1, PrefixOrder
        <5> QED BY <1>3, <5>1 DEF Ahead, IsStrictPrefix
      <4>2. CASE \E j \in DOMAIN todo : j # 1 /\ todo'[k] = todo[j]
        BY <3>2, <4>2 DEF Ahead
      <4> QED BY <2>1, <4>1, <4>2
    <3>3. ASSUME Ahead(c) PROVE \E k \in DOMAIN todo' : IsPrefix(todo'[k], Front(c))
      <4>1. PICK j \in DOMAIN todo : /\ IsPrefix(todo[j], Front(c))
                                     /\ ~(j = 1 /\ Front(c) = todo[1])
        BY <1>1, <3>3 DEF Ahead
      <4>2. CASE j = 1
        <5>1. IsStrictPrefix(Here, Front(c))
          BY <1>3, <4>1, <4>2 DEF IsStrictPrefix
        <5>2. Readable(Here) /\ \E q \in Subs(Here) : IsPrefix(q, Front(c))
          BY <1>2, <1>3, <5>1, SubTowards
        <5> QED BY <2>1, <5>2
      <4>3. CASE j # 1
        BY <2>1, <4>1, <4>3
      <4> QED BY <4>2, <4>3
    <3> QED BY <3>2, <3>3
  <2>8. Passed' = Passed
    <3>1. \A c : Ahead(c)' <=> \E k \in DOMAIN todo' : IsPrefix(todo'[k], Front(c))
      BY <1>5 DEF Ahead
    <3>2. Passed' = {c \in Found : ~Ahead(c)'}
      BY <1>4 DEF Passed
    <3> HIDE DEF Ahead
    <3> QED BY <2>7, <3>1, <3>2 DEF Passed
  <2>9. ASSUME walk = "fill"
        PROVE  Filled(Passed)' /\ RowsBefore' /\ DOMAIN file_list' = 0..Cardinality(Found')
    <3>1. DOMAIN file_list = 0..Cardinality(Found) /\ Filled(Passed) /\ RowsBefore
      BY <1>2, <2>9 DEF WalkInv
    <3>2. Filled(Passed)'
      BY <1>1, <2>8, <3>1 DEF Filled
    <3>3. RowsBefore'
      <4> SUFFICES ASSUME NEW k \in 1..(file_list_length - 1), NEW l \in DOMAIN todo'
                   PROVE  Before(Front(file_list[k]), todo'[l])
        BY <1>1 DEF RowsBefore, Before, Apart
      <4> DEFINE r == Front(file_list[k])
      <4>1. r \in Seq(Nat)
        <5>1. file_list[k] \in Found
          BY <3>1 DEF Filled, Passed
        <5>2. file_list[k] \in Paths
          BY <5>1 DEF Found, Alike, Below
        <5>3. file_list[k] # <<>>
          BY <1>2, <5>1, <5>2, FoundParts
        <5> QED BY <5>2, <5>3, PathTypes, PathParts
      <4>2. \A j \in DOMAIN todo : Before(r, todo[j]) \/ (j = 1 /\ r = Here)
        BY <1>3, <3>1 DEF RowsBefore
      <4> HIDE DEF r
      <4>3. Before(r, todo'[l])
        <5>1. CASE Readable(Here) /\ todo'[l] \in Subs(Here)
          <6>1. todo'[l] \in Seq(Nat) /\ IsStrictPrefix(Here, todo'[l]) /\ IsPrefix(Here, todo'[l])
            BY <2>3, <5>1 DEF IsStrictPrefix
          <6>2. CASE Before(r, Here)
            BY <1>3, <4>1, <6>1, <6>2, BeforeBelow
          <6>3. CASE r = Here
            BY <6>1, <6>3 DEF Before
          <6>4. Before(r, Here) \/ r = Here
            BY <1>3, <4>2
          <6> QED BY <6>2, <6>3, <6>4
        <5>2. CASE \E j \in DOMAIN todo : j # 1 /\ todo'[l] = todo[j]
          BY <4>2, <5>2
        <5> QED BY <2>1, <5>1, <5>2
      <4> QED BY <4>3 DEF r
    <3> QED BY <1>1, <1>4, <3>1, <3>2, <3>3
  <2>10. walk = "count" => count' = Cardinality(Passed')
    BY <1>1, <1>2, <2>8 DEF WalkInv
  <2> QED BY <1>1, <1>5, <2>5, <2>6, <2>9, <2>10 DEF WalkInv, TodoApart
<1> QED BY <1>1, <1>5 DEF QuietInv, Walking

LEMMA OtherQuiet ==
  QuietInv /\ (Exit \/ Spaces \/ Choose \/ Compare \/ Interfere) => QuietInv'
<1> SUFFICES ASSUME QuietInv PROVE Exit \/ Spaces \/ Choose \/ Compare \/ Interfere => QuietInv'
  OBVIOUS
<1>1. Exit \/ Spaces => QuietInv'
  BY DEF Exit, Spaces, QuietInv, Walking
<1>2. Choose => QuietInv'
  BY DEF Choose, QuietInv, Walking
<1>3. Compare => QuietInv'
  <2>1. Compare => pc' \in {"prompt", "undefined"}
    BY DEF Compare, Freed
  <2> QED BY <2>1 DEF QuietInv, Walking
<1>4. Interfere => QuietInv'
  BY DEF Interfere, QuietInv
<1> QED BY <1>1, <1>2, <1>3, <1>4

LEMMA StutterQuiet == QuietInv /\ UNCHANGED vars => QuietInv'
<1> SUFFICES ASSUME QuietInv, UNCHANGED vars PROVE QuietInv'
  OBVIOUS
<1>1. UNCHANGED <<disk, command, pc, walk, todo, count, file_list, file_list_length, quiet>>
  BY DEF vars, list
<1>2. Found' = Found
  BY <1>1, SameTree
<1>3. Filled(Found) => Filled(Found)'
  BY <1>1, <1>2 DEF Filled
<1>4. ASSUME WalkInv PROVE WalkInv'
  <2>1. /\ (\A k \in DOMAIN todo : Reach(todo[k]))'
        /\ (\A k, l \in DOMAIN todo : k < l => Apart(todo[k], todo[l]))'
    BY <1>1, <1>4, SameTodo
  <2>2. Passed' = Passed
    BY <1>1, <1>2 DEF Passed, Ahead
  <2>3. Filled(Passed) => Filled(Passed)'
    BY <1>1, <2>2 DEF Filled
  <2>4. RowsBefore => RowsBefore'
    BY <1>1 DEF RowsBefore
  <2>5. Readable(Here) /\ disk[Candidate].kind = Kind => (Readable(Here) /\ disk[Candidate].kind = Kind)'
    BY <1>1 DEF Readable, IsDir, Here, Candidate, Kind, Name, command
  <2> QED BY <1>1, <1>2, <1>4, <2>1, <2>2, <2>3, <2>4, <2>5 DEF WalkInv, TodoApart
<1> QED BY <1>1, <1>3, <1>4 DEF QuietInv

LEMMA NextQuiet == TypeOK /\ ShapeInv /\ QuietInv /\ [Next]_vars => QuietInv'
  BY FindQuiet, CountDoneQuiet, PrintQuiet, ScanNameQuiet, CountMatchQuiet, FillMatchQuiet,
     ScanDirsQuiet, OtherQuiet, StutterQuiet DEF Next, Run

\* On a tree that does not change the second walk never writes a row that the first
\* one has not counted.  The rows have all that was asked for and nothing else but a
\* start file in the root itself, each once and in the order of the tree, for every tree.
THEOREM FindsAll == Spec => []Complete
<1>1. Init => TypeOK /\ ShapeInv /\ QuietInv
  BY InitShape, InitQuiet
<1>2. TypeOK /\ ShapeInv /\ QuietInv /\ [Next]_vars => TypeOK' /\ ShapeInv' /\ QuietInv'
  BY NextShape, NextQuiet
<1>3. TypeOK /\ ShapeInv /\ QuietInv => Complete
  <2> SUFFICES ASSUME TypeOK, ShapeInv, QuietInv, quiet, pc \in {"print", "sub"}
               PROVE  LET rows == [k \in 1..(file_list_length - 1) |-> file_list[k]]
                      IN /\ Range(rows) \ {startfile} = Wanted
                         /\ startfile \in Range(rows) => Front(startfile) = <<>>
                         /\ \A k, l \in DOMAIN rows : k < l => TreeBefore(rows[k], rows[l])
                         /\ file_list[0] = startfile
    BY DEF Complete, QuietInv
  <2>1. Filled(Found)
    BY DEF QuietInv
  <2>2. file_list[0] = startfile
    BY DEF ShapeInv
  <2> DEFINE n == file_list_length - 1
             rows == [k \in 1..n |-> file_list[k]]
  <2>3. Range(rows) = Found
    <3>1. Range(rows) = {file_list[k] : k \in 1..n}
      BY DEF Range
    <3> HIDE DEF rows
    <3> QED BY <2>1, <3>1 DEF Filled
  <2>4. \A k, l \in DOMAIN rows : k < l => TreeBefore(rows[k], rows[l])
    BY <2>1 DEF Filled
  <2>5. Found \ {startfile} = Wanted /\ (startfile \in Found => Front(startfile) = <<>>)
    BY DEF Found, Wanted
  <2> QED BY <2>2, <2>3, <2>4, <2>5
<1> QED BY <1>1, <1>2, <1>3, PTL DEF Spec
-----------------------------------------------------------------------------
(***************************************************************************)
(* Why the command comes back to the user (FindReturns), also while other  *)
(* programs create directories in front of the walks: a directory that was *)
(* entered is never below one that is still to be entered, so that each    *)
(* turn of the recursion leaves fewer of the finitely many paths.          *)
(***************************************************************************)

\* The paths at or below what is still to be entered.
Unvisited == {q \in Paths : \E k \in DOMAIN todo : IsPrefix(todo[k], q)}

\* The steps in one directory, then those behind the walks, then the prompts.
Turn(at) ==
  CASE at = "name" -> 0
    [] at = "stat" -> 1
    [] at = "dirs" -> 2
    [] at \in {"print", "compare"} -> 3
    [] OTHER -> 4

\* Each step of the walks is one forward, and every other step leaves them where they are.
WalksAdvance ==
  [][(pc \in Walking \cup {"print", "compare"}) =>
       /\ Run =>
            \/ walk = "count" /\ walk' = "fill"
            \/ walk' = walk /\ Unvisited' \subseteq Unvisited /\ Unvisited' # Unvisited
            \/ Turn(pc) < Turn(pc') /\ (pc' \in Walking => UNCHANGED <<walk, todo>>)
       /\ ~Run => UNCHANGED <<pc, walk, todo>>]_vars

ApartInv == pc \in Walking => TodoApart

\* A turn of the recursion leaves the directory behind, and adds nothing to what was
\* below it.
LEMMA ScanDirsShrinks ==
  ASSUME TypeOK, ShapeInv, TodoApart, ScanDirs, pc' = "name"
  PROVE  Unvisited' \subseteq Unvisited /\ Unvisited' # Unvisited
<1>1. pc = "dirs" /\ todo # <<>>
  BY DEF ScanDirs, ShapeInv
<1>2. Here = todo[1] /\ 1 \in DOMAIN todo /\ Here \in Paths /\ Here \in Seq(Nat)
  BY <1>1, FoundHere DEF Walking
<1>3. todo \in Seq(Paths) /\ \A j \in DOMAIN todo : todo[j] \in Seq(Nat)
  BY PathTypes DEF TypeOK
<1>4. \A j \in DOMAIN todo : j # 1 => ~IsPrefix(todo[j], Here)
  <2> SUFFICES ASSUME NEW j \in DOMAIN todo, j # 1 PROVE ~IsPrefix(todo[j], Here)
    OBVIOUS
  <2>1. 1 < j
    BY <1>3
  <2>2. Apart(todo[1], todo[j])
    BY <1>2, <2>1 DEF TodoApart
  <2> QED BY <1>2, <1>3, <2>2, ApartAbove
<1>5. \A q \in Subs(Here) : q \in Seq(Nat) /\ IsPrefix(Here, q) /\ ~IsPrefix(q, Here)
  <2> SUFFICES ASSUME NEW q \in Subs(Here)
               PROVE  q \in Seq(Nat) /\ IsPrefix(Here, q) /\ ~IsPrefix(q, Here)
    OBVIOUS
  <2>1. q \in Seq(Nat) /\ q # <<>> /\ Front(q) = Here
    BY PathTypes DEF Subs
  <2>2. IsStrictPrefix(Here, q)
    BY <1>2, <2>1, PrefixOfFront, PrefixOrder
  <2> QED BY <1>2, <2>1, <2>2, PrefixOrder DEF IsStrictPrefix
<1>6. \A k \in DOMAIN todo' :
        \/ todo'[k] \in Subs(Here)
        \/ \E j \in DOMAIN todo : j # 1 /\ todo'[k] = todo[j]
  BY TodoNext
<1>7. ASSUME NEW q \in Unvisited' PROVE q \in Unvisited /\ q # Here
  <2>1. q \in Paths /\ q \in Seq(Nat)
    BY PathTypes DEF Unvisited
  <2>2. PICK k \in DOMAIN todo' : IsPrefix(todo'[k], q)
    BY DEF Unvisited
  <2>3. CASE todo'[k] \in Subs(Here)
    <3>1. IsPrefix(Here, q)
      BY <1>2, <1>5, <2>1, <2>2, <2>3, PrefixOrder
    <3> QED BY <1>2, <1>5, <2>1, <2>2, <2>3, <3>1 DEF Unvisited
  <2>4. ASSUME NEW j \in DOMAIN todo, j # 1, todo'[k] = todo[j]
        PROVE  q \in Unvisited /\ q # Here
    BY <1>4, <2>1, <2>2, <2>4 DEF Unvisited
  <2> QED BY <1>6, <2>3, <2>4
<1>8. Here \in Unvisited
  <2>1. IsPrefix(todo[1], Here)
    BY <1>2, PrefixOrder
  <2> QED BY <1>2, <2>1 DEF Unvisited
<1> QED BY <1>7, <1>8

\* What is to be entered stays in order, whatever other programs do.
LEMMA NextApart == TypeOK /\ ShapeInv /\ ApartInv /\ [Next]_vars => ApartInv'
<1> SUFFICES ASSUME TypeOK, ShapeInv, ApartInv, [Next]_vars, pc' \in Walking
             PROVE  TodoApart'
  BY DEF ApartInv
<1>1. CASE ScanDirs
  <2>1. pc' = "name" /\ pc \in Walking
    BY <1>1 DEF ScanDirs, Freed, Walking
  <2> QED BY <1>1, <2>1, TodoNext DEF ApartInv
<1>2. CASE Find \/ CountDone
  <2>1. \E p : todo' = <<p>>
    BY <1>2 DEF Find, CountDone
  <2>2. \A k, l \in DOMAIN todo' : ~(k < l)
    BY <2>1
  <2> QED BY <2>2 DEF TodoApart
<1>3. CASE todo' = todo /\ pc \in Walking
  BY <1>3 DEF ApartInv, TodoApart
<1>4. \/ ScanDirs \/ Find \/ CountDone
      \/ todo' = todo /\ pc \in Walking
  BY DEF Next, Run, Exit, Spaces, Choose, ScanName, CountMatch, FillMatch, FillDone, PrintRows,
     Compare, Interfere, Walking, Freed, vars
<1> QED BY <1>1, <1>2, <1>3, <1>4

\* Between two inputs each step of find takes it to the second walk, to fewer unvisited
\* paths, or to a later place in one directory, whatever other programs create or delete;
\* and there are finitely many paths.  This is the safety half of FindReturns; the
\* fairness of Run is the other.
THEOREM WalksAlwaysAdvance == Spec => WalksAdvance
<1>1. Init => TypeOK /\ ShapeInv /\ ApartInv
  BY InitShape DEF Init, ApartInv, Walking
<1>2. TypeOK /\ ShapeInv /\ ApartInv /\ [Next]_vars => TypeOK' /\ ShapeInv' /\ ApartInv'
  BY NextShape, NextApart
<1>3. ASSUME TypeOK, ShapeInv, ApartInv, Run
      PROVE  \/ walk = "count" /\ walk' = "fill"
             \/ walk' = walk /\ Unvisited' \subseteq Unvisited /\ Unvisited' # Unvisited
             \/ Turn(pc) < Turn(pc') /\ (pc' \in Walking => UNCHANGED <<walk, todo>>)
  <2>1. CASE ScanDirs
    <3>1. CASE pc' = "name"
      BY <1>3, <2>1, <3>1, ScanDirsShrinks DEF ScanDirs, ApartInv, Walking
    <3>2. CASE pc' = "undefined"
      BY <2>1, <3>2 DEF ScanDirs, Turn, Walking
    <3> QED BY <2>1, <3>1, <3>2 DEF ScanDirs, Freed
  <2>2. CASE CountDone
    BY <2>2 DEF CountDone
  <2>3. CASE ScanName \/ CountMatch \/ FillMatch
    BY <2>3 DEF ScanName, CountMatch, FillMatch, Freed, Turn, Walking
  <2>4. CASE FillDone \/ PrintRows \/ Compare
    BY <2>4 DEF FillDone, PrintRows, Compare, Freed, Turn, Walking
  <2> QED BY <1>3, <2>1, <2>2, <2>3, <2>4 DEF Run
<1>4. ASSUME pc \in Walking \cup {"print", "compare"}, [Next]_vars, ~Run
      PROVE  UNCHANGED <<pc, walk, todo>>
  BY <1>4 DEF Next, Find, Exit, Spaces, Choose, Interfere, Walking, vars
<1>5. TypeOK /\ ShapeInv /\ ApartInv /\ [Next]_vars =>
        [(pc \in Walking \cup {"print", "compare"}) =>
           /\ Run =>
                \/ walk = "count" /\ walk' = "fill"
                \/ walk' = walk /\ Unvisited' \subseteq Unvisited /\ Unvisited' # Unvisited
                \/ Turn(pc) < Turn(pc') /\ (pc' \in Walking => UNCHANGED <<walk, todo>>)
           /\ ~Run => UNCHANGED <<pc, walk, todo>>]_vars
  BY <1>3, <1>4
<1> QED BY <1>1, <1>2, <1>5, PTL DEF Spec, WalksAdvance
===============================================================================
