-------------------------- MODULE CommitStore_proofs --------------------------
(***************************************************************************)
(* Theorems about CommitStore, for every finite set of entries, every      *)
(* number of units an entry takes, every bound and every size of a page.   *)
(*                                                                         *)
(* A payload names its entries by their first units, so it is the payload  *)
(* of one set of entries only, and a checksum of it is that of one ledger. *)
(* What the cell holds is therefore known by the checksum in its place,    *)
(* and where there is none it reads as an error or as the root cell.       *)
(***************************************************************************)
EXTENDS CommitStore, NaturalsInduction, SequenceTheorems, FiniteSetTheorems, WellFoundedInduction, TLAPS

\* Every nonempty set of naturals has a least element.
LEMMA LeastElement ==
  ASSUME NEW S \in SUBSET Nat, S # {}
  PROVE  \E m \in S : \A c \in S : ~ (c < m)
<1>1. IsWellFoundedOn(OpToRel(<, Nat), Nat)
  BY NatLessThanWellFounded
<1>2. PICK m \in S : \A c \in S : <<c, m>> \notin OpToRel(<, Nat)
  BY <1>1, WFMin
<1>3. QED
  BY <1>2 DEF OpToRel

\* The function that FlattenSeq computes with, over the first n slices.
Flattens(f, s, n) == f = [i \in 1 .. n |-> IF i = 1 THEN s[i] ELSE f[i - 1] \o s[i]]

LEMMA FlattensAt ==
  ASSUME NEW s, NEW n \in Nat, NEW f, Flattens(f, s, n), NEW i \in 1 .. n
  PROVE  f[i] = IF i = 1 THEN s[i] ELSE f[i - 1] \o s[i]
BY DEF Flattens

LEMMA FlattensExists ==
  ASSUME NEW s, NEW n \in Nat
  PROVE  \E f : Flattens(f, s, n)
<1> DEFINE Wrong == { k \in Nat : ~ \E f : Flattens(f, s, k) }
<1>1. SUFFICES ASSUME Wrong # {} PROVE FALSE
  OBVIOUS
<1>2. PICK k \in Wrong : \A j \in Wrong : ~ (j < k)
  <2> Wrong \in SUBSET Nat
    OBVIOUS
  <2> HIDE DEF Wrong
  <2> QED
    BY <1>1, LeastElement
<1>3. k \in Nat /\ ~ \E f : Flattens(f, s, k)
  OBVIOUS
<1>4. CASE k = 0
  <2>1. Flattens([i \in 1 .. 0 |-> {}], s, 0)
    BY DEF Flattens
  <2>2. QED
    BY <1>3, <1>4, <2>1
<1>5. CASE k # 0
  <2>1. k - 1 \in Nat /\ k - 1 < k
    BY <1>3, <1>5
  <2>2. PICK f : Flattens(f, s, k - 1)
    BY <1>2, <2>1
  <2> DEFINE last == IF k = 1 THEN s[k] ELSE f[k - 1] \o s[k]
             g == [i \in 1 .. k |-> IF i = k THEN last ELSE f[i]]
  <2>3. \A i \in 1 .. k : g[i] = IF i = 1 THEN s[i] ELSE g[i - 1] \o s[i]
    <3>1. SUFFICES ASSUME NEW i \in 1 .. k
                   PROVE  g[i] = IF i = 1 THEN s[i] ELSE g[i - 1] \o s[i]
      OBVIOUS
    <3>2. CASE i = k
      <4>1. i = 1 \/ (i - 1 \in 1 .. k /\ i - 1 # k)
        BY <1>3
      <4>2. i = 1 \/ g[i - 1] = f[i - 1]
        BY <4>1
      <4> QED
        BY <3>2, <4>2
    <3>3. CASE i # k
      <4>1. i \in 1 .. k - 1
        BY <3>3, <1>3
      <4>2. f[i] = IF i = 1 THEN s[i] ELSE f[i - 1] \o s[i]
        BY <2>1, <2>2, <4>1, FlattensAt
      <4>3. i = 1 \/ (i - 1 \in 1 .. k /\ i - 1 # k)
        BY <1>3
      <4>4. i = 1 \/ g[i - 1] = f[i - 1]
        BY <4>3
      <4> QED
        BY <3>3, <4>2, <4>4
    <3> QED
      BY <3>2, <3>3
  <2>4. g = [i \in 1 .. k |-> g[i]]
    OBVIOUS
  <2> HIDE DEF g
  <2>5. Flattens(g, s, k)
    BY <2>3, <2>4 DEF Flattens
  <2>6. QED
    BY <1>3, <2>5
<1>6. QED
  BY <1>4, <1>5

\* FlattenSeq is the last value of that function.
LEMMA FlattenIs ==
  ASSUME NEW s, Len(s) \in Nat, Len(s) # 0
  PROVE  \E f : Flattens(f, s, Len(s)) /\ FlattenSeq(s) = f[Len(s)]
<1> DEFINE f == CHOOSE f : f = [i \in 1 .. Len(s) |-> IF i = 1 THEN s[i] ELSE f[i - 1] \o s[i]]
<1>1. \E g : Flattens(g, s, Len(s))
  BY FlattensExists
<1>2. Flattens(f, s, Len(s))
  BY <1>1 DEF Flattens
<1>3. FlattenSeq(s) = f[Len(s)]
  BY DEF FlattenSeq
<1> QED
  BY <1>2, <1>3

LEMMA FlattenEmpty == FlattenSeq(<<>>) = <<>>
BY DEF FlattenSeq

\* Up to n slices the computation yields sequences, of units of the slices.
LEMMA FlattensType ==
  ASSUME NEW T, NEW s \in Seq(Seq(T)), NEW f, Flattens(f, s, Len(s))
  PROVE  \A n \in 1 .. Len(s) : f[n] \in Seq(T)
<1> DEFINE Wrong == { n \in 1 .. Len(s) : f[n] \notin Seq(T) }
<1>1. SUFFICES ASSUME Wrong # {} PROVE FALSE
  OBVIOUS
<1>2. PICK n \in Wrong : \A j \in Wrong : ~ (j < n)
  <2> Wrong \in SUBSET Nat
    OBVIOUS
  <2> HIDE DEF Wrong
  <2> QED
    BY <1>1, LeastElement
<1>3. n \in 1 .. Len(s) /\ f[n] \notin Seq(T) /\ s[n] \in Seq(T) /\ Len(s) \in Nat
  OBVIOUS
<1>4. f[n] = IF n = 1 THEN s[n] ELSE f[n - 1] \o s[n]
  BY <1>3, FlattensAt
<1>5. CASE n = 1
  BY <1>3, <1>4, <1>5
<1>6. CASE n # 1
  <2>1. n - 1 \in 1 .. Len(s) /\ n - 1 < n
    BY <1>3, <1>6
  <2>2. f[n - 1] \in Seq(T)
    BY <1>2, <2>1
  <2>3. f[n - 1] \o s[n] \in Seq(T)
    BY <1>3, <2>2, ConcatProperties
  <2> QED
    BY <1>3, <1>4, <1>6, <2>3
<1>7. QED
  BY <1>5, <1>6

LEMMA FlattenType ==
  ASSUME NEW T, NEW s \in Seq(Seq(T))
  PROVE  FlattenSeq(s) \in Seq(T)
<1>1. CASE Len(s) = 0
  <2>1. s = <<>>
    BY <1>1, EmptySeq
  <2> QED
    BY <2>1, FlattenEmpty, EmptySeq
<1>2. CASE Len(s) # 0
  <2>1. Len(s) \in Nat
    OBVIOUS
  <2>2. PICK f : Flattens(f, s, Len(s)) /\ FlattenSeq(s) = f[Len(s)]
    BY <1>2, <2>1, FlattenIs
  <2> QED
    BY <1>2, <2>1, <2>2, FlattensType
<1> QED
  BY <1>1, <1>2

\* The first slice comes first.
LEMMA FlattenHead ==
  ASSUME NEW T, NEW s \in Seq(Seq(T)), s # <<>>
  PROVE  FlattenSeq(s) = Head(s) \o FlattenSeq(Tail(s))
<1> DEFINE t == Tail(s)
<1>1. /\ Len(s) \in Nat /\ Len(s) # 0 /\ t \in Seq(Seq(T))
      /\ Len(t) = Len(s) - 1 /\ \A i \in 1 .. Len(t) : t[i] = s[i + 1]
      /\ Head(s) = s[1] /\ s[1] \in Seq(T)
  BY HeadTailProperties
<1> HIDE DEF t
<1>2. PICK f : Flattens(f, s, Len(s)) /\ FlattenSeq(s) = f[Len(s)]
  BY <1>1, FlattenIs
<1>3. f[1] = s[1]
  BY <1>1, <1>2, FlattensAt
<1>4. CASE Len(s) = 1
  <2>1. t = <<>>
    BY <1>1, <1>4, EmptySeq
  <2> QED
    BY <1>1, <1>2, <1>3, <1>4, <2>1, FlattenEmpty, ConcatEmptySeq DEF t
<1>5. CASE Len(s) # 1
  <2>1. Len(t) \in Nat /\ Len(t) # 0
    BY <1>1, <1>5
  <2>2. PICK g : Flattens(g, t, Len(t)) /\ FlattenSeq(t) = g[Len(t)]
    BY <2>1, FlattenIs
  <2>3. \A n \in 1 .. Len(t) : g[n] \in Seq(T)
    BY <1>1, <2>2, FlattensType
  <2> DEFINE Wrong == { n \in 1 .. Len(t) : f[n + 1] # s[1] \o g[n] }
  <2>4. ASSUME Wrong # {} PROVE FALSE
    <3>1. PICK n \in Wrong : \A j \in Wrong : ~ (j < n)
      <4>1. 1 .. Len(t) \in SUBSET Nat
        BY <2>1
      <4>2. Wrong \in SUBSET 1 .. Len(t)
        BY Zenon
      <4>3. Wrong \in SUBSET Nat
        BY <4>1, <4>2, Zenon
      <4> HIDE DEF Wrong
      <4> QED
        BY <2>4, <4>3, LeastElement
    <3>2. /\ n \in 1 .. Len(t) /\ f[n + 1] # s[1] \o g[n]
          /\ n + 1 \in 1 .. Len(s) /\ t[n] = s[n + 1] /\ t[n] \in Seq(T)
      <4>1. n \in 1 .. Len(t) /\ f[n + 1] # s[1] \o g[n]
        OBVIOUS
      <4>2. n + 1 \in 1 .. Len(s) /\ t[n] = s[n + 1]
        BY <1>1, <4>1
      <4>3. t[n] \in Seq(T)
        BY <1>1, <4>1, ElementOfSeq
      <4> QED
        BY <4>1, <4>2, <4>3
    <3>3. f[n + 1] = f[n] \o s[n + 1]
      <4>1. f[n + 1] = IF n + 1 = 1 THEN s[n + 1] ELSE f[n + 1 - 1] \o s[n + 1]
        <5> DEFINE i == n + 1
        <5>1. i \in 1 .. Len(s)
          BY <3>2
        <5> HIDE DEF i
        <5>2. f[i] = IF i = 1 THEN s[i] ELSE f[i - 1] \o s[i]
          BY <1>1, <1>2, <5>1, FlattensAt
        <5> QED
          BY <5>2 DEF i
      <4>2. n + 1 # 1 /\ n + 1 - 1 = n
        BY <3>2
      <4> QED
        BY <4>1, <4>2
    <3>4. g[n] = IF n = 1 THEN t[n] ELSE g[n - 1] \o t[n]
      BY <2>1, <2>2, <3>2, FlattensAt
    <3>5. CASE n = 1
      BY <1>3, <3>2, <3>3, <3>4, <3>5
    <3>6. CASE n # 1
      <4>1. n - 1 \in 1 .. Len(t) /\ n - 1 < n /\ n - 1 + 1 = n
        BY <3>2, <3>6
      <4>2. f[n] = s[1] \o g[n - 1]
        BY <3>1, <4>1
      <4>3. (s[1] \o g[n - 1]) \o t[n] = s[1] \o (g[n - 1] \o t[n])
        <5>1. g[n - 1] \in Seq(T)
          BY <2>3, <4>1
        <5>2. s[1] \in Seq(T) /\ t[n] \in Seq(T)
          BY <1>1, <3>2
        <5>3. \A a, b, c \in Seq(T) : (a \o b) \o c = a \o (b \o c)
          BY ConcatAssociative
        <5> QED
          BY <5>1, <5>2, <5>3, Zenon
      <4> QED
        BY <3>2, <3>3, <3>4, <3>6, <4>2, <4>3
    <3> QED
      BY <3>5, <3>6
  <2>5. f[Len(t) + 1] = s[1] \o g[Len(t)]
    <3>1. Len(t) \in 1 .. Len(t)
      BY <2>1
    <3> QED
      BY <2>4, <3>1
  <2>6. Len(t) + 1 = Len(s)
    BY <1>1
  <2> QED
    BY <1>1, <1>2, <2>2, <2>5, <2>6 DEF t
<1> QED
  BY <1>4, <1>5

-----------------------------------------------------------------------------
(***************************************************************************)
(* What a sequence holds.                                                  *)
(***************************************************************************)
Holds(s, x) == \E n \in 1 .. Len(s) : s[n] = x

LEMMA ConcatHolds ==
  ASSUME NEW T, NEW s \in Seq(T), NEW t \in Seq(T), NEW x
  PROVE  Holds(s \o t, x) <=> Holds(s, x) \/ Holds(t, x)
<1> DEFINE u == s \o t
<1>1. /\ Len(s) \in Nat /\ Len(t) \in Nat /\ Len(u) = Len(s) + Len(t)
      /\ \A i \in 1 .. Len(s) + Len(t) : u[i] = IF i <= Len(s) THEN s[i] ELSE t[i - Len(s)]
  BY ConcatProperties
<1> HIDE DEF u
<1>2. ASSUME NEW n \in 1 .. Len(u), u[n] = x PROVE Holds(s, x) \/ Holds(t, x)
  <2>1. CASE n <= Len(s)
    <3>1. n \in 1 .. Len(s) /\ s[n] = x
      BY <1>1, <1>2, <2>1
    <3> QED
      BY <3>1 DEF Holds
  <2>2. CASE ~ (n <= Len(s))
    <3>1. n - Len(s) \in 1 .. Len(t) /\ t[n - Len(s)] = x
      BY <1>1, <1>2, <2>2
    <3> QED
      BY <3>1 DEF Holds
  <2> QED
    BY <2>1, <2>2
<1>3. ASSUME NEW n \in 1 .. Len(s), s[n] = x PROVE Holds(u, x)
  <2>1. n \in 1 .. Len(u) /\ u[n] = x
    BY <1>1, <1>3
  <2> QED
    BY <2>1 DEF Holds
<1>4. ASSUME NEW n \in 1 .. Len(t), t[n] = x PROVE Holds(u, x)
  <2>1. n + Len(s) \in 1 .. Len(u) /\ n + Len(s) - Len(s) = n /\ ~ (n + Len(s) <= Len(s))
    BY <1>1
  <2>2. u[n + Len(s)] = x
    BY <1>1, <1>4, <2>1
  <2> QED
    BY <2>1, <2>2 DEF Holds
<1> QED
  BY <1>2, <1>3, <1>4 DEF Holds, u

\* A flattened sequence holds what its slices hold.
LEMMA FlattenHolds ==
  ASSUME NEW T, NEW s \in Seq(Seq(T)), NEW x
  PROVE  Holds(FlattenSeq(s), x) <=> \E n \in 1 .. Len(s) : Holds(s[n], x)
<1>0. Len(s) \in Nat
  OBVIOUS
<1>1. CASE Len(s) = 0
  <2>1. s = <<>>
    BY <1>1, EmptySeq
  <2>2. FlattenSeq(s) = <<>>
    BY <2>1, FlattenEmpty, EmptySeq
  <2>3. Len(FlattenSeq(s)) = 0
    BY <2>2, EmptySeq
  <2>4. 1 .. 0 = {}
    OBVIOUS
  <2> QED
    BY <1>1, <2>3, <2>4 DEF Holds
<1>2. CASE Len(s) # 0
  <2>1. PICK f : Flattens(f, s, Len(s)) /\ FlattenSeq(s) = f[Len(s)]
    BY <1>0, <1>2, FlattenIs
  <2>2. \A n \in 1 .. Len(s) : f[n] \in Seq(T)
    BY <2>1, FlattensType
  <2> DEFINE Exact(n) == Holds(f[n], x) <=> \E i \in 1 .. n : Holds(s[i], x)
             Wrong == { n \in 1 .. Len(s) : ~ Exact(n) }
  <2>3. ASSUME Wrong # {} PROVE FALSE
    <3>1. PICK n \in Wrong : \A j \in Wrong : ~ (j < n)
      <4>1. 1 .. Len(s) \in SUBSET Nat
        BY <1>0
      <4>2. Wrong \in SUBSET 1 .. Len(s)
        BY Zenon
      <4>3. Wrong \in SUBSET Nat
        BY <4>1, <4>2, Zenon
      <4> HIDE DEF Wrong
      <4> QED
        BY <2>3, <4>3, LeastElement
    <3>2. n \in 1 .. Len(s) /\ ~ Exact(n)
      OBVIOUS
    <3>3. f[n] = IF n = 1 THEN s[n] ELSE f[n - 1] \o s[n]
      BY <1>0, <2>1, <3>2, FlattensAt
    <3>4. CASE n = 1
      <4>1. 1 .. 1 = {1}
        OBVIOUS
      <4> QED
        BY <3>2, <3>3, <3>4, <4>1, Zenon
    <3>5. CASE n # 1
      <4>1. n - 1 \in 1 .. Len(s) /\ n - 1 < n /\ 1 .. n = (1 .. n - 1) \cup {n}
        BY <1>0, <3>2, <3>5
      <4>2. Exact(n - 1)
        BY <3>1, <4>1
      <4>3. f[n - 1] \in Seq(T) /\ s[n] \in Seq(T)
        BY <2>2, <3>2, <4>1
      <4>4. Holds(f[n - 1] \o s[n], x) <=> Holds(f[n - 1], x) \/ Holds(s[n], x)
        BY <4>3, ConcatHolds
      <4> QED
        BY <3>2, <3>3, <3>5, <4>1, <4>2, <4>4, Zenon
    <3> QED
      BY <3>4, <3>5
  <2>4. Exact(Len(s))
    <3>1. Len(s) \in 1 .. Len(s)
      BY <1>0, <1>2
    <3> QED
      BY <2>3, <3>1
  <2> QED
    BY <2>1, <2>4
<1> QED
  BY <1>1, <1>2

-----------------------------------------------------------------------------
(***************************************************************************)
(* Entries in their order.                                                 *)
(***************************************************************************)
\* Every entry has its place in the order, and every place its entry.
LEMMA InOrderExact ==
  ASSUME NEW E \in SUBSET Nat, IsFiniteSet(E)
  PROVE  /\ Cardinality(E) \in Nat
         /\ \A n \in 1 .. Cardinality(E) : InOrder(E)[n] \in E
         /\ \A e \in E : \E n \in 1 .. Cardinality(E) : InOrder(E)[n] = e
<1> DEFINE Before(e) == { d \in E : d < e }
           card == Cardinality(E)
           rank == [e \in E |-> Cardinality(Before(e))]
<1>1. card \in Nat
  BY FS_CardinalityType
<1>2. \A e \in E : Before(e) \in SUBSET E /\ e \notin Before(e)
  OBVIOUS
<1>3. \A e \in E : IsFiniteSet(Before(e)) /\ rank[e] \in Nat /\ rank[e] < card
  <2>1. TAKE e \in E
  <2>2. /\ IsFiniteSet(Before(e)) /\ Cardinality(Before(e)) <= card
        /\ Cardinality(Before(e)) # card
    BY <1>2, FS_Subset
  <2>3. Cardinality(Before(e)) \in Nat
    BY <2>2, FS_CardinalityType
  <2> QED
    BY <1>1, <2>2, <2>3
<1>4. \A d, e \in E : d < e => rank[d] < rank[e]
  <2>1. SUFFICES ASSUME NEW d \in E, NEW e \in E, d < e PROVE rank[d] < rank[e]
    OBVIOUS
  <2>2. d \in Nat /\ e \in Nat
    OBVIOUS
  <2>3. Before(d) \in SUBSET Before(e) /\ d \in Before(e) /\ d \notin Before(d)
    <3>1. \A c \in Nat : c < d => c < e
      BY <2>1, <2>2
    <3>2. ~ (d < d)
      BY <2>2
    <3>3. \A c \in Before(d) : c \in E /\ c \in Nat /\ c < e
      BY <3>1
    <3> QED
      BY <2>1, <3>2, <3>3
  <2>4. Cardinality(Before(d)) <= Cardinality(Before(e)) /\ Cardinality(Before(e)) # Cardinality(Before(d))
    BY <1>3, <2>3, FS_Subset
  <2>5. rank[d] \in Nat /\ rank[e] \in Nat
    BY <1>3
  <2> QED
    BY <2>4, <2>5
<1>5. rank \in Injection(E, 0 .. card - 1)
  <2>1. rank \in [E -> 0 .. card - 1]
    BY <1>1, <1>3
  <2>2. \A d, e \in E : rank[d] = rank[e] => d = e
    <3>1. SUFFICES ASSUME NEW d \in E, NEW e \in E, rank[d] = rank[e] PROVE d = e
      OBVIOUS
    <3>2. d \in Nat /\ e \in Nat /\ rank[d] \in Nat /\ rank[e] \in Nat
      BY <1>3
    <3>3. ~ (d < e) /\ ~ (e < d)
      BY <1>4, <3>1, <3>2
    <3> QED
      BY <3>2, <3>3
  <2> HIDE DEF rank
  <2> QED
    BY <2>1, <2>2 DEF Injection, IsInjective
<1>6. rank \in Surjection(E, 0 .. card - 1)
  <2>1. 0 \in Int /\ card - 1 \in Int
    BY <1>1
  <2>2. IsFiniteSet(0 .. card - 1) /\ Cardinality(0 .. card - 1) = card
    <3>1. IsFiniteSet(0 .. card - 1) /\ Cardinality(0 .. card - 1) = IF 0 > card - 1 THEN 0 ELSE card - 1 - 0 + 1
      BY <2>1, FS_Interval
    <3> QED
      BY <3>1, <1>1
  <2> HIDE DEF rank
  <2> QED
    BY <1>5, <2>2, FS_Injection
<1>7. \A n \in 1 .. card : InOrder(E)[n] \in E /\ rank[InOrder(E)[n]] = n - 1
  <2>1. TAKE n \in 1 .. card
  <2>2. n - 1 \in 0 .. card - 1
    BY <1>1
  <2>3. PICK e \in E : rank[e] = n - 1
    BY <1>6, <2>2 DEF Surjection
  <2>4. InOrder(E)[n] = CHOOSE c \in E : Cardinality(Before(c)) = n - 1
    BY DEF InOrder
  <2>5. Cardinality(Before(e)) = n - 1
    BY <2>3
  <2> HIDE DEF Before
  <2>6. InOrder(E)[n] \in E /\ Cardinality(Before(InOrder(E)[n])) = n - 1
    BY <2>4, <2>5
  <2> QED
    BY <2>6
<1>8. \A e \in E : \E n \in 1 .. card : InOrder(E)[n] = e
  <2>1. TAKE e \in E
  <2>2. rank[e] \in Nat /\ rank[e] < card
    BY <1>3
  <2> HIDE DEF rank
  <2>3. PICK n \in 1 .. card : n - 1 = rank[e]
    <3>1. ASSUME NEW r \in Nat, r < card PROVE \E n \in 1 .. card : n - 1 = r
      <4>1. r + 1 \in 1 .. card /\ (r + 1) - 1 = r
        BY <1>1, <3>1
      <4> QED
        BY <4>1
    <3> QED
      BY <2>2, <3>1
  <2>4. InOrder(E)[n] \in E /\ rank[InOrder(E)[n]] = rank[e]
    BY <1>7, <2>3
  <2>5. InOrder(E)[n] = e
    BY <1>5, <2>4 DEF Injection, IsInjective
  <2> QED
    BY <2>5
<1> QED
  BY <1>1, <1>7, <1>8

-----------------------------------------------------------------------------
(***************************************************************************)
(* The units that slices are made of.                                      *)
(***************************************************************************)
PayloadUnit ==
  { <<"entries", n>> : n \in Nat } \cup { <<"entry", e, n>> : e \in Entry, n \in Nat }

ChecksumOf(g, p) == Checksum(g, TRUE, p)

ChecksumUnit == { ChecksumOf(g, p) : g \in Nat, p \in Seq(PayloadUnit) }

HeaderUnit == { <<"cell", n>> : n \in Nat }

NumberUnit == { <<"generation", n>> : n \in Nat } \cup { <<"bytes", n>> : n \in Nat }

MarkerUnit == { <<"marker", TRUE>> }

PlainUnit == { <<"null">>, <<"zero">>, <<"junk">> }

Unit == UNION { PayloadUnit, ChecksumUnit, HeaderUnit, NumberUnit, MarkerUnit, PlainUnit }

LEMMA Numbers ==
  /\ MaxAllocations \in Nat /\ MaxPayload \in Nat /\ MaxRecord \in Nat /\ Slack \in Nat
  /\ PageUnits \in Nat /\ MaxPages \in Nat /\ MaxGeneration \in Nat
  /\ MaxPayload >= 1 /\ MaxRecord >= MaxPayload + 4 /\ PageUnits >= 2
  /\ Entry \in SUBSET Nat /\ IsFiniteSet(Entry)
BY CommitStoreAssumption DEF Frame

LEMMA EntriesFinite ==
  ASSUME NEW E \in SUBSET Entry
  PROVE  E \in SUBSET Nat /\ IsFiniteSet(E) /\ Cardinality(E) \in Nat
<1>1. E \in SUBSET Nat /\ IsFiniteSet(E)
  BY Numbers, FS_Subset
<1> QED
  BY <1>1, FS_CardinalityType

LEMMA EntryUnitsType ==
  ASSUME NEW e \in Entry
  PROVE  /\ EntryUnits(e) \in Seq(PayloadUnit)
         /\ Len(EntryUnits(e)) = Parts(e) /\ Parts(e) \in Nat /\ Parts(e) >= 1
         /\ \A n \in 1 .. Parts(e) : EntryUnits(e)[n] = <<"entry", e, n>>
<1>1. Parts(e) \in Nat /\ Parts(e) >= 1
  BY CommitStoreAssumption
<1>2. \A n \in 1 .. Parts(e) : <<"entry", e, n>> \in PayloadUnit
  BY <1>1 DEF PayloadUnit
<1> DEFINE units == [n \in 1 .. Parts(e) |-> <<"entry", e, n>>]
<1>3. EntryUnits(e) = units
  BY DEF EntryUnits
<1>4. \A n \in 1 .. Parts(e) : units[n] = <<"entry", e, n>>
  OBVIOUS
<1>5. units = [n \in 1 .. Parts(e) |-> units[n]]
  OBVIOUS
<1> HIDE DEF units
<1>6. \A n \in 1 .. Parts(e) : units[n] \in PayloadUnit
  BY <1>2, <1>4
<1>7. units \in Seq(PayloadUnit) /\ Len(units) = Parts(e)
  BY <1>1, <1>5, <1>6
<1> QED
  BY <1>1, <1>3, <1>4, <1>7

\* Slice 1 is the head of the entries, and slice n + 1 the n-th of them.
LEMMA LedgerSlicesType ==
  ASSUME NEW E \in SUBSET Entry
  PROVE  /\ LedgerSlices(E) \in Seq(Seq(PayloadUnit))
         /\ Len(LedgerSlices(E)) = 1 + Cardinality(E)
         /\ LedgerSlices(E)[1] = << <<"entries", Cardinality(E)>> >>
         /\ \A n \in 1 .. Cardinality(E) : LedgerSlices(E)[n + 1] = EntryUnits(InOrder(E)[n])
<1> DEFINE head == << <<"entries", Cardinality(E)>> >>
           rest == [n \in 1 .. Cardinality(E) |-> EntryUnits(InOrder(E)[n])]
<1>1. E \in SUBSET Nat /\ IsFiniteSet(E) /\ Cardinality(E) \in Nat
  BY EntriesFinite
<1>2. head \in Seq(PayloadUnit)
  <2>1. <<"entries", Cardinality(E)>> \in PayloadUnit
    BY <1>1 DEF PayloadUnit
  <2> QED
    BY <2>1
<1>3. <<head>> \in Seq(Seq(PayloadUnit)) /\ Len(<<head>>) = 1 /\ <<head>>[1] = head
  <2> HIDE DEF head
  <2> QED
    BY <1>2
<1>4. \A n \in 1 .. Cardinality(E) : EntryUnits(InOrder(E)[n]) \in Seq(PayloadUnit)
  <2>1. \A n \in 1 .. Cardinality(E) : InOrder(E)[n] \in Entry
    BY <1>1, InOrderExact
  <2> QED
    BY <2>1, EntryUnitsType
<1>5. rest \in Seq(Seq(PayloadUnit)) /\ Len(rest) = Cardinality(E)
  BY <1>1, <1>4
<1>6. \A n \in 1 .. Cardinality(E) : rest[n] = EntryUnits(InOrder(E)[n])
  OBVIOUS
<1>7. LedgerSlices(E) = <<head>> \o rest
  BY DEF LedgerSlices
<1> HIDE DEF head, rest
<1>8. /\ <<head>> \o rest \in Seq(Seq(PayloadUnit))
      /\ Len(<<head>> \o rest) = 1 + Cardinality(E)
      /\ \A i \in 1 .. 1 + Cardinality(E) :
           (<<head>> \o rest)[i] = IF i <= 1 THEN <<head>>[i] ELSE rest[i - 1]
  BY <1>3, <1>5, ConcatProperties
<1>9. (<<head>> \o rest)[1] = head
  BY <1>1, <1>3, <1>8
<1>10. \A n \in 1 .. Cardinality(E) : (<<head>> \o rest)[n + 1] = rest[n]
  <2>1. TAKE n \in 1 .. Cardinality(E)
  <2>2. n + 1 \in 1 .. 1 + Cardinality(E) /\ ~ (n + 1 <= 1) /\ n + 1 - 1 = n
    BY <1>1
  <2> QED
    BY <1>8, <2>2
<1> QED
  BY <1>6, <1>7, <1>8, <1>9, <1>10 DEF head

LEMMA PayloadType ==
  ASSUME NEW E \in SUBSET Entry
  PROVE  Payload(E) \in Seq(PayloadUnit) /\ Len(Payload(E)) \in Nat
<1>1. Payload(E) \in Seq(PayloadUnit)
  BY LedgerSlicesType, FlattenType DEF Payload
<1> QED
  BY <1>1

LEMMA SingletonHolds ==
  ASSUME NEW u, NEW x
  PROVE  Holds(<<u>>, x) <=> u = x
BY DEF Holds

\* The first unit of an entry is in the payload exactly when the entry is.
LEMMA PayloadHolds ==
  ASSUME NEW E \in SUBSET Entry, NEW e \in Entry
  PROVE  Holds(Payload(E), <<"entry", e, 1>>) <=> e \in E
<1> DEFINE x == <<"entry", e, 1>>
           slices == LedgerSlices(E)
<1>1. Holds(Payload(E), x) <=> \E n \in 1 .. Len(slices) : Holds(slices[n], x)
  BY LedgerSlicesType, FlattenHolds DEF Payload
<1>2. E \in SUBSET Nat /\ IsFiniteSet(E) /\ Cardinality(E) \in Nat
  BY EntriesFinite
<1>3. /\ Len(slices) = 1 + Cardinality(E)
      /\ slices[1] = << <<"entries", Cardinality(E)>> >>
      /\ \A n \in 1 .. Cardinality(E) : slices[n + 1] = EntryUnits(InOrder(E)[n])
  BY LedgerSlicesType
<1>4. ~ Holds(slices[1], x)
  <2>1. <<"entries", Cardinality(E)>> # x
    OBVIOUS
  <2> QED
    BY <1>3, <2>1, SingletonHolds
<1>5. ASSUME NEW d \in Entry PROVE Holds(EntryUnits(d), x) <=> d = e
  <2>1. /\ Len(EntryUnits(d)) = Parts(d) /\ Parts(d) \in Nat /\ Parts(d) >= 1
        /\ \A n \in 1 .. Parts(d) : EntryUnits(d)[n] = <<"entry", d, n>>
    BY EntryUnitsType
  <2>2. ASSUME NEW n \in 1 .. Parts(d), <<"entry", d, n>> = x PROVE d = e
    BY <2>2
  <2>3. 1 \in 1 .. Parts(d)
    BY <2>1
  <2> QED
    BY <2>1, <2>2, <2>3 DEF Holds
<1>6. /\ \A n \in 1 .. Cardinality(E) : InOrder(E)[n] \in E
      /\ \A d \in E : \E n \in 1 .. Cardinality(E) : InOrder(E)[n] = d
  BY <1>2, InOrderExact
<1> HIDE DEF x, slices
<1>7. ASSUME NEW n \in 1 .. Len(slices), Holds(slices[n], x) PROVE e \in E
  <2>1. n # 1
    BY <1>4, <1>7
  <2>2. n - 1 \in 1 .. Cardinality(E) /\ n - 1 + 1 = n
    BY <1>2, <1>3, <2>1
  <2>3. slices[n] = EntryUnits(InOrder(E)[n - 1])
    BY <1>3, <2>2
  <2>4. InOrder(E)[n - 1] \in E
    BY <1>6, <2>2
  <2> QED
    BY <1>5, <1>7, <2>3, <2>4
<1>8. ASSUME e \in E PROVE \E n \in 1 .. Len(slices) : Holds(slices[n], x)
  <2>1. PICK n \in 1 .. Cardinality(E) : InOrder(E)[n] = e
    BY <1>6, <1>8
  <2>2. slices[n + 1] = EntryUnits(e)
    BY <1>3, <2>1
  <2>3. n + 1 \in 1 .. Len(slices)
    BY <1>2, <1>3
  <2> QED
    BY <1>5, <2>2, <2>3
<1> QED
  BY <1>1, <1>7, <1>8 DEF x

\* No payload is that of two sets of entries.
LEMMA UniqueReading ==
  ASSUME NEW D \in SUBSET Entry, NEW E \in SUBSET Entry, Payload(D) = Payload(E)
  PROVE  D = E
<1>1. \A e \in Entry : e \in D <=> e \in E
  BY PayloadHolds
<1> QED
  BY <1>1

-----------------------------------------------------------------------------
(***************************************************************************)
(* The units of a record.                                                  *)
(***************************************************************************)
LEMMA FlattenSingle ==
  ASSUME NEW T, NEW s \in Seq(Seq(T)), Len(s) = 1
  PROVE  FlattenSeq(s) = s[1]
<1>1. s # <<>> /\ s[1] \in Seq(T)
  OBVIOUS
<1>2. Tail(s) = <<>>
  <2>1. Tail(s) \in Seq(Seq(T)) /\ Len(Tail(s)) = 0
    BY <1>1, HeadTailProperties
  <2> QED
    BY <2>1, EmptySeq
<1>3. FlattenSeq(s) = Head(s) \o FlattenSeq(Tail(s))
  BY <1>1, FlattenHead
<1>4. Head(s) = s[1]
  BY <1>1
<1> QED
  BY <1>1, <1>2, <1>3, <1>4, FlattenEmpty, ConcatEmptySeq

Drops(s, t, k) ==
  /\ Len(t) = k /\ FlattenSeq(s) = s[1] \o FlattenSeq(t)
  /\ \A n \in 1 .. k : t[n] = s[n + 1]

LEMMA FlattenRest ==
  ASSUME NEW T, NEW s \in Seq(Seq(T)), NEW k \in Nat, Len(s) = k + 1
  PROVE  \E t \in Seq(Seq(T)) : Drops(s, t, k)
<1>1. s # <<>>
  <2>1. Len(<<>>) = 0 /\ k + 1 # 0
    BY EmptySeq
  <2> QED
    BY <2>1
<1>2. Tail(s) \in Seq(Seq(T)) /\ Len(Tail(s)) = Len(s) - 1 /\ \A n \in 1 .. Len(s) - 1 : Tail(s)[n] = s[n + 1]
  BY <1>1, HeadTailProperties
<1>3. FlattenSeq(s) = Head(s) \o FlattenSeq(Tail(s)) /\ Head(s) = s[1]
  BY <1>1, FlattenHead
<1>4. Len(s) - 1 = k
  OBVIOUS
<1> QED
  BY <1>2, <1>3, <1>4 DEF Drops

LEMMA FlattenFive ==
  ASSUME NEW T, NEW s \in Seq(Seq(T)), Len(s) = 5
  PROVE  FlattenSeq(s) = s[1] \o (s[2] \o (s[3] \o (s[4] \o s[5])))
<1>1. \A k \in Nat : \A r \in Seq(Seq(T)) : Len(r) = k + 1 => \E t \in Seq(Seq(T)) : Drops(r, t, k)
  BY FlattenRest
<1>2. PICK t \in Seq(Seq(T)) : Drops(s, t, 4)
  <2>1. 4 \in Nat /\ Len(s) = 4 + 1
    OBVIOUS
  <2> QED
    BY <1>1, <2>1, Zenon
<1>3. PICK u \in Seq(Seq(T)) : Drops(t, u, 3)
  <2>1. 3 \in Nat /\ Len(t) = 3 + 1
    BY <1>2 DEF Drops
  <2> QED
    BY <1>1, <2>1, Zenon
<1>4. PICK v \in Seq(Seq(T)) : Drops(u, v, 2)
  <2>1. 2 \in Nat /\ Len(u) = 2 + 1
    BY <1>3 DEF Drops
  <2> QED
    BY <1>1, <2>1, Zenon
<1>5. PICK w \in Seq(Seq(T)) : Drops(v, w, 1)
  <2>1. 1 \in Nat /\ Len(v) = 1 + 1
    BY <1>4 DEF Drops
  <2> QED
    BY <1>1, <2>1, Zenon
<1>6. FlattenSeq(w) = w[1]
  BY <1>5, FlattenSingle DEF Drops
<1>7. FlattenSeq(s) = s[1] \o FlattenSeq(t) /\ t[1] = s[2] /\ t[2] = s[3] /\ t[3] = s[4] /\ t[4] = s[5]
  BY <1>2 DEF Drops
<1>8. FlattenSeq(t) = t[1] \o FlattenSeq(u) /\ u[1] = t[2] /\ u[2] = t[3] /\ u[3] = t[4]
  BY <1>3 DEF Drops
<1>9. FlattenSeq(u) = u[1] \o FlattenSeq(v) /\ v[1] = u[2] /\ v[2] = u[3]
  BY <1>4 DEF Drops
<1>10. FlattenSeq(v) = v[1] \o FlattenSeq(w) /\ w[1] = v[2]
  BY <1>5 DEF Drops
<1> QED
  BY <1>6, <1>7, <1>8, <1>9, <1>10

LEMMA Prepend ==
  ASSUME NEW T, NEW u \in T, NEW s \in Seq(T)
  PROVE  /\ <<u>> \o s \in Seq(T) /\ Len(<<u>> \o s) = 1 + Len(s)
         /\ (<<u>> \o s)[1] = u /\ \A n \in 1 .. Len(s) : (<<u>> \o s)[1 + n] = s[n]
<1>1. <<u>> \in Seq(T) /\ Len(<<u>>) = 1 /\ <<u>>[1] = u
  OBVIOUS
<1> DEFINE h == <<u>>
<1>2. h \in Seq(T) /\ Len(h) = 1 /\ h[1] = u /\ Len(s) \in Nat
  BY <1>1
<1> HIDE DEF h
<1>3. /\ h \o s \in Seq(T) /\ Len(h \o s) = Len(h) + Len(s)
      /\ \A i \in 1 .. Len(h) + Len(s) : (h \o s)[i] = IF i <= Len(h) THEN h[i] ELSE s[i - Len(h)]
  BY <1>2, ConcatProperties
<1>4. (h \o s)[1] = u
  BY <1>2, <1>3
<1>5. ASSUME NEW n \in 1 .. Len(s) PROVE (h \o s)[1 + n] = s[n]
  <2>1. 1 + n \in 1 .. Len(h) + Len(s) /\ ~ (1 + n <= Len(h)) /\ 1 + n - Len(h) = n
    BY <1>2
  <2> QED
    BY <1>3, <2>1
<1> QED
  BY <1>2, <1>3, <1>4, <1>5 DEF h

LEMMA PayloadUnitsAreUnits == \A s : s \in Seq(PayloadUnit) => s \in Seq(Unit)
<1>1. PayloadUnit \subseteq Unit
  BY DEF Unit
<1>2. SUFFICES ASSUME NEW s, s \in Seq(PayloadUnit) PROVE s \in Seq(Unit)
  OBVIOUS
<1>3. Len(s) \in Nat /\ s = [n \in 1 .. Len(s) |-> s[n]] /\ \A n \in 1 .. Len(s) : s[n] \in PayloadUnit
  BY <1>2
<1> QED
  BY <1>1, <1>3

LEMMA SnapshotUnits ==
  ASSUME NEW g \in Nat, NEW p \in Seq(PayloadUnit)
  PROVE  /\ <<"generation", g>> \in Unit /\ <<"marker", TRUE>> \in Unit
         /\ Checksum(g, TRUE, p) \in Unit /\ <<"bytes", Len(p)>> \in Unit
<1>1. Len(p) \in Nat
  OBVIOUS
<1>2. <<"generation", g>> \in NumberUnit /\ <<"bytes", Len(p)>> \in NumberUnit
  BY <1>1 DEF NumberUnit
<1>3. Checksum(g, TRUE, p) \in ChecksumUnit
  <2>1. ChecksumOf(g, p) \in ChecksumUnit
    BY DEF ChecksumUnit
  <2> QED
    BY <2>1 DEF ChecksumOf
<1>4. <<"marker", TRUE>> \in MarkerUnit
  BY DEF MarkerUnit
<1> QED
  BY <1>2, <1>3, <1>4 DEF Unit

LEMMA NullIsUnit == <<"null">> \in Unit /\ <<"zero">> \in Unit /\ <<"junk">> \in Unit
BY DEF Unit, PlainUnit

LEMMA SnapshotIsSet ==
  ASSUME NEW g, NEW p
  PROVE  Snapshot(g, p) # Unset
<1>1. DOMAIN Snapshot(g, p) = {"generation", "marker", "checksum", "payload"}
  BY DEF Snapshot
<1>2. DOMAIN Unset = 1 .. 0
  BY DEF Unset
<1> QED
  BY <1>1, <1>2

LEMMA SlicesOfSnapshot ==
  ASSUME NEW g \in Nat, NEW p \in Seq(PayloadUnit)
  PROVE  RecordSlices(Snapshot(g, p)) =
           << << <<"generation", g>> >>, << <<"marker", TRUE>> >>, << Checksum(g, TRUE, p) >>,
              << <<"bytes", Len(p)>> >>, p >>
BY SnapshotIsSet DEF RecordSlices, Snapshot

LEMMA RecordSlicesType ==
  /\ RecordSlices(Unset) \in Seq(Seq(Unit))
  /\ \A g \in Nat, p \in Seq(PayloadUnit) : RecordSlices(Snapshot(g, p)) \in Seq(Seq(Unit))
<1>1. <<"null">> \in Unit
  BY NullIsUnit
<1>2. \A u \in Unit : << <<u>> >> \in Seq(Seq(Unit))
  OBVIOUS
<1>3. RecordSlices(Unset) \in Seq(Seq(Unit))
  BY <1>1, <1>2 DEF RecordSlices, Unset
<1>4. \A t, u, v, w \in Unit, s \in Seq(Unit) : << <<t>>, <<u>>, <<v>>, <<w>>, s >> \in Seq(Seq(Unit))
  <2>1. TAKE t, u, v, w \in Unit, s \in Seq(Unit)
  <2>2. <<t>> \in Seq(Unit) /\ <<u>> \in Seq(Unit) /\ <<v>> \in Seq(Unit) /\ <<w>> \in Seq(Unit)
    OBVIOUS
  <2>3. \A a, b, c, d \in Seq(Unit) : <<a, b, c, d, s>> \in Seq(Seq(Unit))
    OBVIOUS
  <2> QED
    BY <2>2, <2>3
<1>5. ASSUME NEW g \in Nat, NEW p \in Seq(PayloadUnit)
      PROVE  RecordSlices(Snapshot(g, p)) \in Seq(Seq(Unit))
  <2>1. /\ <<"generation", g>> \in Unit /\ <<"marker", TRUE>> \in Unit
        /\ Checksum(g, TRUE, p) \in Unit /\ <<"bytes", Len(p)>> \in Unit
    BY SnapshotUnits
  <2>2. p \in Seq(Unit)
    BY PayloadUnitsAreUnits
  <2>3. << << <<"generation", g>> >>, << <<"marker", TRUE>> >>, << Checksum(g, TRUE, p) >>,
           << <<"bytes", Len(p)>> >>, p >> \in Seq(Seq(Unit))
    BY <1>4, <2>1, <2>2, Zenon
  <2> QED
    BY <2>3, SlicesOfSnapshot
<1> QED
  BY <1>3, <1>5

LEMMA BytesUnset == Bytes(Unset) = << <<"null">> >>
<1>1. <<"null">> \in Unit
  BY NullIsUnit
<1>2. << <<"null">> >> \in Seq(Unit)
  BY <1>1
<1> DEFINE slices == RecordSlices(Unset)
<1>3. slices \in Seq(Seq(Unit)) /\ Len(slices) = 1 /\ slices[1] = << <<"null">> >>
  BY RecordSlicesType DEF RecordSlices, Unset
<1> HIDE DEF slices
<1>4. FlattenSeq(slices) = << <<"null">> >>
  BY <1>3, FlattenSingle
<1> QED
  BY <1>4 DEF Bytes, slices

LEMMA BytesSnapshot ==
  ASSUME NEW g \in Nat, NEW p \in Seq(PayloadUnit)
  PROVE  LET units == Bytes(Snapshot(g, p))
         IN  /\ units \in Seq(Unit) /\ Len(units) = 4 + Len(p)
             /\ units[1] = <<"generation", g>> /\ units[2] = <<"marker", TRUE>>
             /\ units[3] = Checksum(g, TRUE, p) /\ units[4] = <<"bytes", Len(p)>>
             /\ \A n \in 1 .. Len(p) : units[4 + n] = p[n]
<1> DEFINE t == <<"generation", g>>
           u == <<"marker", TRUE>>
           v == Checksum(g, TRUE, p)
           w == <<"bytes", Len(p)>>
           units == Bytes(Snapshot(g, p))
<1>1. t \in Unit /\ u \in Unit /\ v \in Unit /\ w \in Unit /\ p \in Seq(Unit) /\ Len(p) \in Nat
  <2>1. t \in Unit /\ u \in Unit /\ v \in Unit /\ w \in Unit
    BY SnapshotUnits
  <2>2. p \in Seq(Unit)
    BY PayloadUnitsAreUnits
  <2>3. Len(p) \in Nat
    OBVIOUS
  <2> QED
    BY <2>1, <2>2, <2>3
<1> DEFINE slices == RecordSlices(Snapshot(g, p))
<1>2. /\ slices \in Seq(Seq(Unit)) /\ Len(slices) = 5
      /\ slices[1] = <<t>> /\ slices[2] = <<u>> /\ slices[3] = <<v>> /\ slices[4] = <<w>> /\ slices[5] = p
  <2>1. slices \in Seq(Seq(Unit))
    BY RecordSlicesType
  <2>2. slices = << <<t>>, <<u>>, <<v>>, <<w>>, p >>
    BY SlicesOfSnapshot
  <2> HIDE DEF t, u, v, w, slices
  <2> QED
    BY <2>1, <2>2
<1>3. units = FlattenSeq(slices)
  BY DEF Bytes
<1> HIDE DEF t, u, v, w, units, slices
<1>4. units = <<t>> \o (<<u>> \o (<<v>> \o (<<w>> \o p)))
  BY <1>2, <1>3, FlattenFive
<1> DEFINE a == <<w>> \o p
           b == <<v>> \o a
           c == <<u>> \o b
           d == <<t>> \o c
<1>5. a \in Seq(Unit) /\ Len(a) = 1 + Len(p) /\ a[1] = w /\ \A n \in 1 .. Len(p) : a[1 + n] = p[n]
  BY <1>1, Prepend
<1> HIDE DEF a
<1>6. b \in Seq(Unit) /\ Len(b) = 1 + Len(a) /\ b[1] = v /\ \A n \in 1 .. Len(a) : b[1 + n] = a[n]
  BY <1>1, <1>5, Prepend
<1> HIDE DEF b
<1>7. c \in Seq(Unit) /\ Len(c) = 1 + Len(b) /\ c[1] = u /\ \A n \in 1 .. Len(b) : c[1 + n] = b[n]
  BY <1>1, <1>6, Prepend
<1> HIDE DEF c
<1>8. d \in Seq(Unit) /\ Len(d) = 1 + Len(c) /\ d[1] = t /\ \A n \in 1 .. Len(c) : d[1 + n] = c[n]
  BY <1>1, <1>7, Prepend
<1> HIDE DEF d
<1>9. Len(d) = 4 + Len(p)
  BY <1>1, <1>5, <1>6, <1>7, <1>8
<1>10. d[2] = u /\ d[3] = v /\ d[4] = w
  <2>1. /\ 1 \in 1 .. Len(c) /\ 2 \in 1 .. Len(c) /\ 3 \in 1 .. Len(c)
        /\ 1 \in 1 .. Len(b) /\ 2 \in 1 .. Len(b) /\ 1 \in 1 .. Len(a)
    BY <1>1, <1>5, <1>6, <1>7
  <2>2. d[1 + 1] = c[1] /\ d[1 + 2] = c[2] /\ d[1 + 3] = c[3] /\ c[1 + 1] = b[1] /\ c[1 + 2] = b[2] /\ b[1 + 1] = a[1]
    BY <1>6, <1>7, <1>8, <2>1
  <2> QED
    BY <1>5, <1>6, <1>7, <2>2
<1>11. ASSUME NEW n \in 1 .. Len(p) PROVE d[4 + n] = p[n]
  <2>1. /\ 1 + n \in 1 .. Len(a) /\ 1 + (1 + n) \in 1 .. Len(b) /\ 1 + (1 + (1 + n)) \in 1 .. Len(c)
        /\ 1 + (1 + (1 + (1 + n))) = 4 + n
    BY <1>1, <1>5, <1>6, <1>7
  <2>2. d[1 + (1 + (1 + (1 + n)))] = c[1 + (1 + (1 + n))]
    BY <1>8, <2>1
  <2>3. c[1 + (1 + (1 + n))] = b[1 + (1 + n)] /\ b[1 + (1 + n)] = a[1 + n]
    BY <1>6, <1>7, <2>1
  <2> QED
    BY <1>5, <2>1, <2>2, <2>3
<1> QED
  BY <1>4, <1>8, <1>9, <1>10, <1>11 DEF t, u, v, w, units, a, b, c, d

-----------------------------------------------------------------------------
(***************************************************************************)
(* What is read from a cell.                                               *)
(***************************************************************************)
ReadOf(mem) ==
  IF mem = <<>> THEN [ok |-> TRUE, record |-> Unset]
  ELSE IF /\ mem[1][1] = "cell"
          /\ mem[1][2] <= Len(mem) - 1
          /\ mem[1][2] <= MaxRecord
  THEN DecodeRecord(SubSeq(mem, 2, 1 + mem[1][2]))
  ELSE [ok |-> FALSE, record |-> Unset]

LEMMA ReadStoreIs == ReadStore = ReadOf(memory)
BY DEF ReadStore, ReadOf

\* The units of a cell after its header.
LEMMA CellPart ==
  ASSUME NEW mem \in Seq(Unit), NEW k \in Nat, 1 + k <= Len(mem)
  PROVE  /\ SubSeq(mem, 2, 1 + k) \in Seq(Unit) /\ Len(SubSeq(mem, 2, 1 + k)) = k
         /\ \A n \in 1 .. k : SubSeq(mem, 2, 1 + k)[n] = mem[1 + n]
<1>1. PICK j \in Int : j = 1 + k
  OBVIOUS
<1>2. 2 \in Int /\ \A i \in 2 .. j : mem[i] \in Unit
  BY <1>1
<1> DEFINE part == SubSeq(mem, 2, j)
<1>3. /\ part \in Seq(Unit) /\ Len(part) = IF 2 <= j THEN j - 2 + 1 ELSE 0
      /\ \A i \in 1 .. j - 2 + 1 : part[i] = mem[2 + i - 1]
  BY <1>2, SubSeqProperties
<1> HIDE DEF part
<1>4. Len(part) = k
  BY <1>1, <1>3
<1>5. \A n \in 1 .. k : part[n] = mem[1 + n]
  <2>1. TAKE n \in 1 .. k
  <2>2. n \in 1 .. j - 2 + 1 /\ 2 + n - 1 = 1 + n
    BY <1>1
  <2> QED
    BY <1>3, <2>2
<1> QED
  BY <1>1, <1>3, <1>4, <1>5 DEF part

LEMMA UnitKinds ==
  /\ \A u \in PayloadUnit : u[1] \in {"entries", "entry"}
  /\ \A u \in ChecksumUnit : u[1] = "checksum"
  /\ \A u \in NumberUnit : u[1] \in {"generation", "bytes"}
  /\ \A u \in MarkerUnit : u[1] = "marker"
  /\ \A u \in PlainUnit : u[1] \in {"null", "zero", "junk"}
<1>1. \A u \in PayloadUnit : u[1] \in {"entries", "entry"}
  BY DEF PayloadUnit
<1>2. \A u \in ChecksumUnit : u[1] = "checksum"
  <2>1. \A g, p : ChecksumOf(g, p)[1] = "checksum"
    BY DEF ChecksumOf, Checksum
  <2> QED
    BY <2>1 DEF ChecksumUnit
<1>3. \A u \in NumberUnit : u[1] \in {"generation", "bytes"}
  BY DEF NumberUnit
<1>4. \A u \in MarkerUnit : u[1] = "marker"
  <2>1. <<"marker", TRUE>>[1] = "marker"
    OBVIOUS
  <2> QED
    BY <2>1, Zenon DEF MarkerUnit
<1>5. \A u \in PlainUnit : u[1] \in {"null", "zero", "junk"}
  BY DEF PlainUnit
<1> QED
  BY <1>1, <1>2, <1>3, <1>4, <1>5

LEMMA CellUnit ==
  ASSUME NEW u \in Unit, u[1] = "cell"
  PROVE  \E n \in Nat : u = <<"cell", n>>
<1>1. u \in HeaderUnit
  BY UnitKinds DEF Unit
<1> QED
  BY <1>1 DEF HeaderUnit

LEMMA ChecksumUnits ==
  ASSUME NEW u \in Unit, u[1] = "checksum"
  PROVE  u \in ChecksumUnit
<1>1. \A v \in HeaderUnit : v[1] = "cell"
  BY DEF HeaderUnit
<1> QED
  BY <1>1, UnitKinds DEF Unit

\* What the record of a ledger is.
LEMMA StoreFacts ==
  ASSUME NEW l, IsLedger(l), l # Genesis
  PROVE  /\ l.generation \in Nat /\ l.entries \in SUBSET Entry
         /\ Cardinality(l.entries) <= MaxAllocations
         /\ l = [generation |-> l.generation, entries |-> l.entries]
         /\ Payload(l.entries) \in Seq(PayloadUnit)
         /\ StoreOf(l) = Snapshot(l.generation, Payload(l.entries))
         /\ StoreOf(l) # Unset
         /\ StoreOf(l).checksum = Checksum(l.generation, TRUE, Payload(l.entries))
<1>1. /\ l.generation \in 0 .. MaxGeneration /\ l.entries \in SUBSET Entry
      /\ Cardinality(l.entries) <= MaxAllocations
      /\ l = [generation |-> l.generation, entries |-> l.entries]
  BY DEF IsLedger
<1>2. l.generation \in Nat
  BY <1>1, Numbers
<1>3. Payload(l.entries) \in Seq(PayloadUnit)
  BY <1>1, PayloadType
<1>4. StoreOf(l) = Snapshot(l.generation, Payload(l.entries))
  BY DEF StoreOf
<1>5. StoreOf(l) # Unset
  BY <1>4, SnapshotIsSet
<1>6. StoreOf(l).checksum = Checksum(l.generation, TRUE, Payload(l.entries))
  BY <1>4 DEF Snapshot
<1> QED
  BY <1>1, <1>2, <1>3, <1>4, <1>5, <1>6

\* A record that holds the payload of a ledger is decoded to its entries.
LEMMA DecodeExact ==
  ASSUME NEW l, IsLedger(l), l # Genesis
  PROVE  Validates(StoreOf(l)) /\ DecodeLedger(StoreOf(l)) = l
<1> DEFINE matching == { entries \in SUBSET Entry :
                           /\ Cardinality(entries) <= MaxAllocations
                           /\ FlattenSeq(LedgerSlices(entries)) = StoreOf(l).payload }
<1>1. /\ l.entries \in SUBSET Entry /\ Cardinality(l.entries) <= MaxAllocations
      /\ l = [generation |-> l.generation, entries |-> l.entries]
      /\ StoreOf(l) = Snapshot(l.generation, Payload(l.entries))
  BY StoreFacts
<1>2. /\ StoreOf(l).payload = Payload(l.entries) /\ StoreOf(l).generation = l.generation
      /\ StoreOf(l).marker = TRUE
      /\ StoreOf(l).checksum = Checksum(l.generation, TRUE, Payload(l.entries))
  BY <1>1 DEF Snapshot
<1>3. Validates(StoreOf(l))
  BY <1>2 DEF Validates
<1>4. l.entries \in matching
  BY <1>1, <1>2 DEF Payload
<1>5. \A E \in matching : E = l.entries
  <2>1. TAKE E \in matching
  <2>2. E \in SUBSET Entry /\ Payload(E) = Payload(l.entries)
    BY <1>2 DEF Payload
  <2> QED
    BY <1>1, <2>2, UniqueReading
<1>6. DecodeLedger(StoreOf(l)) =
        IF matching = {} THEN Failed
        ELSE [generation |-> StoreOf(l).generation, entries |-> CHOOSE entries \in matching : TRUE]
  BY DEF DecodeLedger
<1> HIDE DEF matching
<1>7. matching # {} /\ (CHOOSE entries \in matching : TRUE) = l.entries
  BY <1>4, <1>5
<1> QED
  BY <1>1, <1>2, <1>3, <1>6, <1>7

LEMMA RecoverExact ==
  ASSUME NEW l, IsLedger(l)
  PROVE  Recover([ok |-> TRUE, record |-> StoreOf(l)]) = l
<1>1. CASE l = Genesis
  BY <1>1 DEF StoreOf, Recover
<1>2. CASE l # Genesis
  <2>1. StoreOf(l) # Unset
    BY <1>2, StoreFacts
  <2> QED
    BY <1>2, <2>1, DecodeExact DEF Recover
<1> QED
  BY <1>1, <1>2

\* The units of a record are decoded to it.
LEMMA DecodeBytes ==
  ASSUME NEW l, IsLedger(l), Len(Payload(l.entries)) <= MaxPayload
  PROVE  /\ Bytes(StoreOf(l)) \in Seq(Unit)
         /\ Len(Bytes(StoreOf(l))) \in Nat
         /\ Len(Bytes(StoreOf(l))) <= MaxRecord
         /\ DecodeRecord(Bytes(StoreOf(l))) = [ok |-> TRUE, record |-> StoreOf(l)]
<1> DEFINE units == Bytes(StoreOf(l))
<1>1. CASE l = Genesis
  <2>1. StoreOf(l) = Unset /\ units = << <<"null">> >>
    BY <1>1, BytesUnset DEF StoreOf
  <2>2. <<"null">> \in Unit
    BY NullIsUnit
  <2>3. units \in Seq(Unit) /\ Len(units) = 1
    BY <2>1, <2>2
  <2> QED
    BY <2>1, <2>3, Numbers DEF DecodeRecord
<1>2. CASE l # Genesis
  <2> DEFINE g == l.generation
             p == Payload(l.entries)
  <2>1. /\ g \in Nat /\ p \in Seq(PayloadUnit) /\ StoreOf(l) = Snapshot(g, p) /\ Len(p) \in Nat
    BY <1>2, StoreFacts, LenProperties
  <2>2. Len(p) <= MaxPayload
    OBVIOUS
  <2> HIDE DEF g, p
  <2>3. /\ units \in Seq(Unit) /\ Len(units) = 4 + Len(p)
        /\ units[1] = <<"generation", g>> /\ units[2] = <<"marker", TRUE>>
        /\ units[3] = Checksum(g, TRUE, p) /\ units[4] = <<"bytes", Len(p)>>
        /\ \A n \in 1 .. Len(p) : units[4 + n] = p[n]
    <3>1. units = Bytes(Snapshot(g, p))
      BY <2>1
    <3> HIDE DEF units
    <3> QED
      BY <2>1, <3>1, BytesSnapshot
  <2> HIDE DEF units
  <2>4. units # << <<"null">> >>
    <3>1. Len(<< <<"null">> >>) = 1
      OBVIOUS
    <3> QED
      BY <2>1, <2>3, <3>1
  <2>5. SubSeq(units, 5, Len(units)) = p
    <3> DEFINE part == SubSeq(units, 5, Len(units))
    <3>1. Len(units) \in Int /\ 5 \in Int /\ \A i \in 5 .. Len(units) : units[i] \in Unit
      BY <2>3
    <3>2. /\ part \in Seq(Unit) /\ Len(part) = IF 5 <= Len(units) THEN Len(units) - 5 + 1 ELSE 0
          /\ \A i \in 1 .. Len(units) - 5 + 1 : part[i] = units[5 + i - 1]
      BY <3>1, SubSeqProperties
    <3> HIDE DEF part
    <3>3. Len(part) = Len(p)
      BY <2>1, <2>3, <3>2
    <3>4. \A i \in 1 .. Len(p) : part[i] = p[i]
      <4>1. TAKE i \in 1 .. Len(p)
      <4>2. i \in 1 .. Len(units) - 5 + 1 /\ 5 + i - 1 = 4 + i
        BY <2>1, <2>3
      <4> QED
        BY <2>3, <3>2, <4>2
    <3>5. p \in Seq(Unit)
      BY <2>1, PayloadUnitsAreUnits
    <3> QED
      BY <3>2, <3>3, <3>4, <3>5, SeqEqual DEF part
  <2>6. /\ units[1][1] = "generation" /\ units[1][2] = g /\ units[2][1] = "marker" /\ units[2][2] = TRUE
        /\ units[3][1] = "checksum"
    BY <2>3 DEF Checksum
  <2>7. Len(units) >= 4 /\ Len(units) - 4 <= MaxPayload /\ Len(units) - 4 = Len(p)
    BY <2>1, <2>2, <2>3, Numbers
  <2>8. DecodeRecord(units) =
          [ ok |-> TRUE,
            record |-> [ generation |-> g, marker |-> TRUE, checksum |-> Checksum(g, TRUE, p), payload |-> p ] ]
    <3>1. DecodeRecord(units) =
            [ ok |-> TRUE,
              record |-> [ generation |-> units[1][2], marker |-> units[2][2],
                           checksum |-> units[3], payload |-> SubSeq(units, 4 + 1, Len(units)) ] ]
      BY <2>3, <2>4, <2>6, <2>7 DEF DecodeRecord, Frame
    <3>2. 4 + 1 = 5
      OBVIOUS
    <3> QED
      BY <2>3, <2>5, <2>6, <3>1, <3>2, Zenon
  <2>9. Len(units) \in Nat /\ Len(units) <= MaxRecord
    BY <2>1, <2>2, <2>3, Numbers
  <2> QED
    BY <2>1, <2>3, <2>8, <2>9 DEF Snapshot, units
<1> QED
  BY <1>1, <1>2

\* A cell that holds its record is read as it.
LEMMA ReadExact ==
  ASSUME NEW mem \in Seq(Unit), NEW l, IsLedger(l), Len(Payload(l.entries)) <= MaxPayload,
         mem # <<>>, mem[1] = <<"cell", Len(Bytes(StoreOf(l)))>>,
         Len(mem) >= 1 + Len(Bytes(StoreOf(l))),
         \A n \in 1 .. Len(Bytes(StoreOf(l))) : mem[1 + n] = Bytes(StoreOf(l))[n]
  PROVE  Recover(ReadOf(mem)) = l
<1> DEFINE units == Bytes(StoreOf(l))
           k == Len(units)
           part == SubSeq(mem, 2, 1 + k)
<1>1. /\ units \in Seq(Unit) /\ k \in Nat /\ k <= MaxRecord
      /\ DecodeRecord(units) = [ok |-> TRUE, record |-> StoreOf(l)]
  BY DecodeBytes
<1>2. /\ mem[1] = <<"cell", k>> /\ Len(mem) >= 1 + k /\ \A n \in 1 .. k : mem[1 + n] = units[n]
  OBVIOUS
<1>3. mem[1][1] = "cell" /\ mem[1][2] = k
  BY <1>2
<1> HIDE DEF units, k
<1>4. Len(mem) \in Nat
  OBVIOUS
<1>5. part = units
  <2>1. part \in Seq(Unit) /\ Len(part) = k /\ \A n \in 1 .. k : part[n] = mem[1 + n]
    BY <1>1, <1>2, CellPart
  <2> HIDE DEF part
  <2> QED
    BY <1>1, <1>2, <2>1, SeqEqual DEF k
<1>6. k <= Len(mem) - 1
  BY <1>1, <1>2, <1>4
<1>7. ReadOf(mem) = [ok |-> TRUE, record |-> StoreOf(l)]
  BY <1>1, <1>3, <1>5, <1>6 DEF ReadOf
<1> QED
  BY <1>7, RecoverExact

\* What is read as a snapshot, or as an absent one, and recovered.
LooksLikeRoot(mem) == Len(mem) >= 2 /\ mem[1] = <<"cell", 1>> /\ mem[2] = <<"null">>

LEMMA DecodedRecord ==
  ASSUME NEW units \in Seq(Unit), Recover(DecodeRecord(units)) # Failed, units # << <<"null">> >>
  PROVE  /\ Len(units) >= 4 /\ units[3][1] = "checksum"
         /\ \A l : IsLedger(l) /\ l # Genesis /\ units[3] = StoreOf(l).checksum =>
                     Recover(DecodeRecord(units)) = l
<1> DEFINE part == SubSeq(units, 4 + 1, Len(units))
           record == [ generation |-> units[1][2], marker |-> units[2][2],
                       checksum |-> units[3], payload |-> part ]
<1>1. DecodeRecord(units).ok
  BY DEF Recover
<1>2. /\ Len(units) >= 4 /\ units[3][1] = "checksum"
      /\ DecodeRecord(units) = [ok |-> TRUE, record |-> record]
  BY <1>1 DEF DecodeRecord, Frame
<1> HIDE DEF part
<1>3. record # Unset
  <2>1. DOMAIN record = {"generation", "marker", "checksum", "payload"} /\ DOMAIN Unset = 1 .. 0
    BY DEF Unset
  <2> QED
    BY <2>1
<1>4. Validates(record) /\ Recover(DecodeRecord(units)) = DecodeLedger(record)
  BY <1>2, <1>3 DEF Recover
<1>5. units[2][2] = TRUE /\ units[3] = Checksum(units[1][2], TRUE, part)
  BY <1>4 DEF Validates
<1>6. ASSUME NEW l, IsLedger(l), l # Genesis, units[3] = StoreOf(l).checksum
      PROVE  Recover(DecodeRecord(units)) = l
  <2>1. /\ StoreOf(l) = Snapshot(l.generation, Payload(l.entries))
        /\ StoreOf(l).checksum = Checksum(l.generation, TRUE, Payload(l.entries))
    BY <1>6, StoreFacts
  <2>2. Checksum(units[1][2], TRUE, part) = Checksum(l.generation, TRUE, Payload(l.entries))
    BY <1>5, <1>6, <2>1
  <2>3. units[1][2] = l.generation /\ part = Payload(l.entries)
    <3> DEFINE a == units[1][2]
               c == l.generation
               d == Payload(l.entries)
    <3>1. Checksum(a, TRUE, part) = Checksum(c, TRUE, d)
      BY <2>2
    <3> HIDE DEF a, c, d
    <3>2. <<"checksum", a, TRUE, part>> = <<"checksum", c, TRUE, d>>
      BY <3>1 DEF Checksum
    <3>3. a = c /\ part = d
      BY <3>2
    <3> QED
      BY <3>3 DEF a, c, d
  <2>4. record = Snapshot(l.generation, Payload(l.entries))
    BY <1>5, <2>3 DEF Snapshot
  <2>5. DecodeLedger(StoreOf(l)) = l
    BY <1>6, DecodeExact
  <2> QED
    BY <1>4, <2>1, <2>4, <2>5
<1> QED
  BY <1>2, <1>6

LEMMA ReadCases ==
  ASSUME NEW mem \in Seq(Unit), Recover(ReadOf(mem)) # Failed
  PROVE  \/ Recover(ReadOf(mem)) = Genesis /\ (mem = <<>> \/ LooksLikeRoot(mem))
         \/ /\ mem # <<>> /\ Len(mem) >= 4 /\ mem[4][1] = "checksum"
            /\ \A l : IsLedger(l) /\ l # Genesis /\ mem[4] = StoreOf(l).checksum =>
                        Recover(ReadOf(mem)) = l
<1>1. CASE mem = <<>>
  BY <1>1 DEF ReadOf, Recover
<1>2. CASE mem # <<>>
  <2>1. /\ mem[1][1] = "cell" /\ mem[1][2] <= Len(mem) - 1 /\ mem[1][2] <= MaxRecord
        /\ ReadOf(mem) = DecodeRecord(SubSeq(mem, 2, 1 + mem[1][2]))
    BY <1>2 DEF ReadOf, Recover
  <2>2. Len(mem) \in Nat /\ mem[1] \in Unit
    <3>1. Len(mem) \in Nat /\ Len(mem) # 0
      BY <1>2, EmptySeq
    <3> QED
      BY <3>1, ElementOfSeq
  <2>3. PICK k \in Nat : mem[1] = <<"cell", k>>
    BY <2>1, <2>2, CellUnit
  <2> DEFINE units == SubSeq(mem, 2, 1 + k)
  <2>4. k <= Len(mem) - 1 /\ ReadOf(mem) = DecodeRecord(units)
    BY <2>1, <2>3
  <2>5. 1 + k <= Len(mem)
    BY <2>2, <2>4
  <2>6. units \in Seq(Unit) /\ Len(units) = k /\ \A n \in 1 .. k : units[n] = mem[1 + n]
    BY <2>5, CellPart
  <2> HIDE DEF units
  <2>7. CASE units = << <<"null">> >>
    <3>1. Len(units) = 1 /\ units[1] = <<"null">>
      BY <2>7
    <3>2. k = 1 /\ mem[2] = <<"null">>
      BY <2>6, <3>1
    <3>3. LooksLikeRoot(mem)
      BY <2>2, <2>3, <2>5, <3>2 DEF LooksLikeRoot
    <3>4. DecodeRecord(units) = [ok |-> TRUE, record |-> Unset]
      BY <2>7 DEF DecodeRecord
    <3> QED
      BY <2>4, <3>3, <3>4 DEF Recover
  <2>8. CASE units # << <<"null">> >>
    <3>1. /\ Len(units) >= 4 /\ units[3][1] = "checksum"
          /\ \A l : IsLedger(l) /\ l # Genesis /\ units[3] = StoreOf(l).checksum =>
                      Recover(DecodeRecord(units)) = l
      BY <2>4, <2>6, <2>8, DecodedRecord
    <3>2. Len(mem) >= 4 /\ units[3] = mem[4]
      <4>1. 3 \in 1 .. k /\ 1 + 3 = 4
        BY <2>6, <3>1
      <4> QED
        BY <2>2, <2>5, <2>6, <3>1, <4>1
    <3> QED
      BY <1>2, <2>4, <3>1, <3>2
  <2> QED
    BY <2>7, <2>8
<1> QED
  BY <1>1, <1>2

\* Pages that are added behind the cell change nothing that is read.
LEMMA ReadGrown ==
  ASSUME NEW mem \in Seq(Unit), NEW zeros \in Seq(Unit), mem # <<>>, Recover(ReadOf(mem)) # Failed
  PROVE  ReadOf(mem \o zeros) = ReadOf(mem)
<1> DEFINE grown == mem \o zeros
<1>1. /\ Len(mem) \in Nat /\ Len(mem) # 0 /\ Len(zeros) \in Nat
      /\ mem[1] \in Unit
  <2>1. Len(mem) \in Nat /\ Len(mem) # 0
    BY EmptySeq
  <2> QED
    BY <2>1, ElementOfSeq
<1>2. /\ grown \in Seq(Unit) /\ Len(grown) = Len(mem) + Len(zeros)
      /\ \A i \in 1 .. Len(mem) : grown[i] = mem[i]
  <2>1. /\ grown \in Seq(Unit) /\ Len(grown) = Len(mem) + Len(zeros)
        /\ \A i \in 1 .. Len(mem) + Len(zeros) : grown[i] = IF i <= Len(mem) THEN mem[i] ELSE zeros[i - Len(mem)]
    BY ConcatProperties
  <2> HIDE DEF grown
  <2>2. \A i \in 1 .. Len(mem) : i \in 1 .. Len(mem) + Len(zeros) /\ i <= Len(mem)
    BY <1>1
  <2> QED
    BY <2>1, <2>2
<1> HIDE DEF grown
<1>3. /\ mem[1][1] = "cell" /\ mem[1][2] <= Len(mem) - 1 /\ mem[1][2] <= MaxRecord
      /\ ReadOf(mem) = DecodeRecord(SubSeq(mem, 2, 1 + mem[1][2]))
  BY DEF ReadOf, Recover
<1>4. PICK k \in Nat : mem[1] = <<"cell", k>>
  BY <1>1, <1>3, CellUnit
<1>5. /\ mem[1][2] = k /\ 1 + k <= Len(mem) /\ k <= MaxRecord
      /\ k <= Len(grown) - 1 /\ 1 + k <= Len(grown)
  BY <1>1, <1>2, <1>3, <1>4
<1>6. grown[1] = mem[1] /\ grown # <<>>
  <2>1. Len(<<>>) = 0
    BY EmptySeq
  <2> QED
    BY <1>1, <1>2, <2>1
<1>7. SubSeq(grown, 2, 1 + k) = SubSeq(mem, 2, 1 + k)
  <2> DEFINE a == SubSeq(grown, 2, 1 + k)
             b == SubSeq(mem, 2, 1 + k)
  <2>1. a \in Seq(Unit) /\ Len(a) = k /\ \A n \in 1 .. k : a[n] = grown[1 + n]
    BY <1>2, <1>5, CellPart
  <2>2. b \in Seq(Unit) /\ Len(b) = k /\ \A n \in 1 .. k : b[n] = mem[1 + n]
    BY <1>5, CellPart
  <2> HIDE DEF a, b
  <2>3. \A n \in 1 .. k : grown[1 + n] = mem[1 + n]
    <3>1. \A n \in 1 .. k : 1 + n \in 1 .. Len(mem)
      BY <1>1, <1>5
    <3> QED
      BY <1>2, <3>1
  <2> QED
    BY <2>1, <2>2, <2>3, SeqEqual DEF a, b
<1>8. ReadOf(grown) = DecodeRecord(SubSeq(grown, 2, 1 + k))
  BY <1>3, <1>5, <1>6 DEF ReadOf
<1> QED
  BY <1>3, <1>5, <1>7, <1>8 DEF grown

-----------------------------------------------------------------------------
(***************************************************************************)
(* Types, and what a state that satisfies the invariant recovers.          *)
(***************************************************************************)
BufferType == [units : Seq(Unit), attempted : Nat, capacity : Nat, limit : Nat]

Typed ==
  /\ memory \in Seq(Unit) /\ at \in Nat /\ damaged \in BOOLEAN
  /\ todo \in Seq(Seq(Unit)) /\ buffer \in BufferType
  /\ pc \in {"idle", "ledger", "record", "header", "value"}

SInv == Typed /\ IInv

LEMMA Sentinels ==
  /\ Genesis # Nothing /\ Genesis # Failed /\ Nothing # Failed
  /\ IsLedger(Genesis) /\ ~ IsLedger(Nothing) /\ ~ IsLedger(Failed)
<1>1. Cardinality({}) = 0 /\ 0 <= MaxAllocations /\ 0 \in 0 .. MaxGeneration
  BY FS_EmptySet, Numbers
<1>2. IsLedger(Genesis)
  BY <1>1 DEF IsLedger, Genesis
<1>3. Nothing.generation \notin 0 .. MaxGeneration /\ Failed.generation \notin 0 .. MaxGeneration
  BY Numbers DEF Nothing, Failed
<1>4. ~ IsLedger(Nothing) /\ ~ IsLedger(Failed)
  BY <1>3 DEF IsLedger
<1>5. Nothing # Failed
  <2>1. Nothing.generation # Failed.generation
    BY DEF Nothing, Failed
  <2> QED
    BY <2>1
<1> QED
  BY <1>2, <1>4, <1>5

LEMMA GenesisPayload == Payload(Genesis.entries) \in Seq(PayloadUnit) /\ Len(Payload(Genesis.entries)) <= MaxPayload
<1>1. Genesis.entries = {} /\ {} \in SUBSET Entry
  BY DEF Genesis
<1>2. Cardinality({}) = 0
  BY FS_EmptySet
<1> DEFINE slices == LedgerSlices({})
<1>3. /\ slices \in Seq(Seq(PayloadUnit)) /\ Len(slices) = 1 + Cardinality({})
      /\ slices[1] = << <<"entries", Cardinality({})>> >>
  BY <1>1, LedgerSlicesType
<1> HIDE DEF slices
<1>4. Len(slices) = 1
  BY <1>2, <1>3
<1>5. FlattenSeq(slices) = slices[1]
  BY <1>3, <1>4, FlattenSingle
<1>6. Len(slices[1]) = 1
  BY <1>3
<1> QED
  BY <1>1, <1>5, <1>6, PayloadType, Numbers DEF Payload, slices

LEMMA LedgerPayload ==
  ASSUME NEW l, IsLedger(l)
  PROVE  l.entries \in SUBSET Entry /\ Payload(l.entries) \in Seq(PayloadUnit) /\ Len(Payload(l.entries)) \in Nat
<1>1. l.entries \in SUBSET Entry
  BY DEF IsLedger
<1> QED
  BY <1>1, PayloadType

\* The record of a ledger is typed, whether or not there is a snapshot.
LEMMA BytesType ==
  ASSUME NEW l, IsLedger(l), Len(Payload(l.entries)) <= MaxPayload
  PROVE  /\ RecordSlices(StoreOf(l)) \in Seq(Seq(Unit))
         /\ Bytes(StoreOf(l)) \in Seq(Unit) /\ Len(Bytes(StoreOf(l))) \in Nat
         /\ Len(Bytes(StoreOf(l))) <= MaxRecord
<1>1. CASE l = Genesis
  BY <1>1, RecordSlicesType, DecodeBytes DEF StoreOf
<1>2. CASE l # Genesis
  <2>1. /\ l.generation \in Nat /\ Payload(l.entries) \in Seq(PayloadUnit)
        /\ StoreOf(l) = Snapshot(l.generation, Payload(l.entries))
    BY <1>2, StoreFacts
  <2>2. RecordSlices(StoreOf(l)) \in Seq(Seq(Unit))
    BY <2>1, RecordSlicesType
  <2> QED
    BY <2>2, DecodeBytes
<1> QED
  BY <1>1, <1>2

LEMMA MemoryDomain ==
  ASSUME Typed
  PROVE  DOMAIN memory = 1 .. Len(memory) /\ Len(memory) \in Nat /\ (memory = <<>> <=> Len(memory) = 0)
BY EmptySeq DEF Typed

\* Recovery yields an error, or a ledger that was published or begun: genesis
\* only where nothing was published and no checksum is in its place, any other
\* by its checksum.
LEMMA Recovered ==
  ASSUME SInv, Recover(ReadStore) # Failed
  PROVE  /\ IsLedger(Recover(ReadStore)) /\ Recover(ReadStore) \in {published, pending}
         /\ Recover(ReadStore) = Genesis => published = Genesis /\ ~ HasChecksum
         /\ Recover(ReadStore) # Genesis =>
              HasChecksum /\ memory[4] = StoreOf(Recover(ReadStore)).checksum
<1> DEFINE r == Recover(ReadStore)
<1>1. r = Recover(ReadOf(memory)) /\ memory \in Seq(Unit)
  BY ReadStoreIs DEF SInv, Typed
<1>2. DOMAIN memory = 1 .. Len(memory) /\ Len(memory) \in Nat /\ (memory = <<>> <=> Len(memory) = 0)
  BY MemoryDomain DEF SInv
<1>3. \/ r = Genesis /\ (memory = <<>> \/ LooksLikeRoot(memory))
      \/ /\ memory # <<>> /\ Len(memory) >= 4 /\ memory[4][1] = "checksum"
         /\ \A l : IsLedger(l) /\ l # Genesis /\ memory[4] = StoreOf(l).checksum => r = l
  BY <1>1, ReadCases
<1> HIDE DEF r
<1>4. CASE r = Genesis /\ memory = <<>>
  <2>1. published = Genesis /\ ~ HasChecksum
    BY <1>2, <1>4 DEF SInv, IInv, RootInv, HasChecksum
  <2> QED
    BY <1>4, <2>1, Sentinels DEF r
<1>5. CASE r = Genesis /\ LooksLikeRoot(memory)
  <2>1. RootHeader /\ RootValue
    BY <1>2, <1>5 DEF LooksLikeRoot, RootHeader, RootValue
  <2>2. published = Genesis /\ ~ HasChecksum
    BY <2>1 DEF SInv, IInv, BegunInv
  <2> QED
    BY <1>5, <2>2, Sentinels DEF r
<1>6. CASE /\ memory # <<>> /\ Len(memory) >= 4 /\ memory[4][1] = "checksum"
           /\ \A l : IsLedger(l) /\ l # Genesis /\ memory[4] = StoreOf(l).checksum => r = l
  <2>1. HasChecksum
    BY <1>2, <1>6 DEF HasChecksum
  <2>2. PICK l \in {published, pending} \ {Genesis, Nothing} : memory[4] = StoreOf(l).checksum
    BY <2>1 DEF SInv, IInv, ChecksumInv
  <2>3. IsLedger(l)
    BY <2>2 DEF SInv, IInv, LedgersInv
  <2>4. r = l
    BY <1>6, <2>2, <2>3
  <2> QED
    BY <2>1, <2>2, <2>3, <2>4 DEF r
<1> QED
  BY <1>3, <1>4, <1>5, <1>6

\* PublicationIsExact follows from the invariant.
LEMMA InvariantImplies == SInv => PublicationIsExact
<1>1. SUFFICES ASSUME SInv PROVE PublicationIsExact
  OBVIOUS
<1>2. PublishedIsRecovered
  <2>1. Recover(ReadStore) \in {published, pending, Failed}
    BY <1>1, Recovered
  <2>2. pending = Nothing /\ ~ damaged /\ memory # <<>> /\ memory[1][1] = "cell" => Recover(ReadStore) = published
    BY <1>1 DEF SInv, IInv, IntactInv
  <2> QED
    BY <2>1, <2>2 DEF PublishedIsRecovered
<1>3. EncodingIsExact
  BY <1>1 DEF EncodingIsExact, SInv, IInv, LedgersInv, BufferInv, Payload
<1> QED
  BY <1>2, <1>3 DEF PublicationIsExact

LEMMA InitSInv == Init => SInv
<1>1. SUFFICES ASSUME Init PROVE SInv
  OBVIOUS
<1>2. Buffer(0, 0) \in BufferType
  <2>1. <<>> \in Seq(Unit)
    BY EmptySeq
  <2> QED
    BY <2>1 DEF Buffer, BufferType
<1>3. Typed
  <2>1. <<>> \in Seq(Unit) /\ <<>> \in Seq(Seq(Unit))
    BY EmptySeq
  <2> QED
    BY <1>1, <1>2, <2>1 DEF Init, Typed
<1>4. LedgersInv
  BY <1>1, Sentinels DEF Init, LedgersInv
<1>5. BufferInv
  BY <1>1, EmptySeq DEF Init, BufferInv, Buffer
<1>6. EncodeInv /\ CellInv
  BY <1>1 DEF Init, EncodeInv, CellInv
<1>7. ~ HasChecksum /\ ~ RootHeader /\ ~ RootValue
  BY <1>1, <1>3, MemoryDomain DEF Init, HasChecksum, RootHeader, RootValue
<1>8. RootInv /\ ChecksumInv /\ BegunInv /\ IntactInv
  BY <1>1, <1>7, Sentinels DEF Init, RootInv, ChecksumInv, BegunInv, IntactInv
<1> QED
  BY <1>3, <1>4, <1>5, <1>6, <1>8 DEF SInv, IInv

-----------------------------------------------------------------------------
(***************************************************************************)
(* Steps that leave the cell alone.                                        *)
(***************************************************************************)
CellKept == UNCHANGED <<memory, published, pending, damaged>>

LEMMA CellKeptKeeps ==
  ASSUME SInv, CellKept
  PROVE  ChecksumInv' /\ BegunInv' /\ IntactInv' /\ (HasChecksum' <=> HasChecksum)
<1>1. /\ memory' = memory /\ published' = published /\ pending' = pending /\ damaged' = damaged
      /\ ReadStore' = ReadStore
  BY DEF CellKept, ReadStore
<1>2. (HasChecksum' <=> HasChecksum) /\ (RootHeader' <=> RootHeader) /\ (RootValue' <=> RootValue)
  BY <1>1 DEF HasChecksum, RootHeader, RootValue
<1>3. ChecksumInv'
  BY <1>1, <1>2 DEF SInv, IInv, ChecksumInv
<1>4. BegunInv'
  BY <1>1, <1>2 DEF SInv, IInv, BegunInv
<1>5. IntactInv'
  BY <1>1 DEF SInv, IInv, IntactInv
<1> QED
  BY <1>2, <1>3, <1>4, <1>5

LEMMA StutterKeeps == SInv /\ UNCHANGED vars => SInv'
<1>1. SUFFICES ASSUME SInv, UNCHANGED vars PROVE SInv'
  OBVIOUS
<1>2. /\ memory' = memory /\ pc' = pc /\ store' = store /\ ledger' = ledger /\ todo' = todo
      /\ buffer' = buffer /\ at' = at /\ published' = published /\ pending' = pending
      /\ damaged' = damaged /\ refused' = refused
  BY <1>1 DEF vars, history
<1>3. ChecksumInv' /\ BegunInv' /\ IntactInv' /\ (HasChecksum' <=> HasChecksum)
  BY <1>1, <1>2, CellKeptKeeps DEF CellKept
<1>4. Typed'
  BY <1>1, <1>2 DEF SInv, Typed
<1>5. LedgersInv' /\ BufferInv' /\ EncodeInv' /\ CellInv'
  BY <1>1, <1>2 DEF SInv, IInv, LedgersInv, BufferInv, EncodeInv, CellInv
<1>6. RootInv'
  BY <1>1, <1>2, <1>3 DEF SInv, IInv, RootInv
<1> QED
  BY <1>3, <1>4, <1>5, <1>6 DEF SInv, IInv

\* An attempt that ends leaves nothing to encode or to write.
LEMMA RestKeeps ==
  ASSUME Rest
  PROVE  /\ pc' = "idle" /\ ledger' = Genesis
         /\ at' \in Nat /\ todo' \in Seq(Seq(Unit)) /\ buffer' \in BufferType
         /\ BufferInv' /\ EncodeInv' /\ CellInv'
<1>1. /\ pc' = "idle" /\ ledger' = Genesis /\ at' = 0 /\ todo' = <<>>
      /\ buffer' = [units |-> <<>>, attempted |-> 0, capacity |-> 0, limit |-> 0]
  BY DEF Rest, Buffer
<1>2. <<>> \in Seq(Unit) /\ <<>> \in Seq(Seq(Unit)) /\ Len(<<>>) = 0
  BY EmptySeq
<1>3. at' \in Nat /\ todo' \in Seq(Seq(Unit)) /\ buffer' \in BufferType
  BY <1>1, <1>2 DEF BufferType
<1>4. BufferInv'
  BY <1>1, <1>2 DEF BufferInv
<1>5. EncodeInv' /\ CellInv'
  BY <1>1 DEF EncodeInv, CellInv
<1> QED
  BY <1>1, <1>3, <1>4, <1>5

LEMMA CrashKeeps ==
  ASSUME SInv, Crash
  PROVE  SInv'
<1>1. Rest /\ memory' = memory /\ UNCHANGED history
  BY DEF Crash
<1>2. published' = published /\ pending' = pending /\ damaged' = damaged /\ refused' = refused
  BY <1>1 DEF history
<1>3. ChecksumInv' /\ BegunInv' /\ IntactInv' /\ (HasChecksum' <=> HasChecksum)
  BY <1>1, <1>2, CellKeptKeeps DEF CellKept
<1>4. /\ pc' = "idle" /\ ledger' = Genesis
      /\ at' \in Nat /\ todo' \in Seq(Seq(Unit)) /\ buffer' \in BufferType
      /\ BufferInv' /\ EncodeInv' /\ CellInv'
  BY <1>1, RestKeeps
<1>5. Typed'
  BY <1>1, <1>2, <1>4 DEF SInv, Typed
<1>6. LedgersInv'
  BY <1>2, <1>4, Sentinels DEF SInv, IInv, LedgersInv
<1>7. RootInv'
  BY <1>1, <1>2, <1>3, <1>4 DEF SInv, IInv, RootInv
<1> QED
  BY <1>3, <1>4, <1>5, <1>6, <1>7 DEF SInv, IInv

LEMMA LeastIs ==
  ASSUME NEW m \in Nat, NEW n \in Nat
  PROVE  Least(m, n) \in Nat /\ Least(m, n) <= n /\ Least(m, n) <= m
BY DEF Least

\* A record begins to be encoded: nothing of it is in the buffer yet.
LEMMA EncodeRecordKeeps ==
  ASSUME NEW l, IsLedger(l), Len(Payload(l.entries)) <= MaxPayload,
         EncodeRecord(StoreOf(l)), ledger' = l
  PROVE  /\ pc' = "record" /\ todo' \in Seq(Seq(Unit)) /\ buffer' \in BufferType
         /\ BufferInv' /\ EncodeInv'
<1> DEFINE record == StoreOf(l)
           size == IF record = Unset THEN 0 ELSE Len(record.payload)
           capacity == Least(size + Slack, MaxRecord)
<1>1. size \in Nat
  <2>1. CASE l = Genesis
    BY <2>1 DEF StoreOf
  <2>2. CASE l # Genesis
    <3>1. record = Snapshot(l.generation, Payload(l.entries)) /\ record # Unset
      BY <2>2, StoreFacts
    <3>2. record.payload = Payload(l.entries)
      BY <3>1 DEF Snapshot
    <3> QED
      BY <3>1, <3>2, LedgerPayload
  <2> QED
    BY <2>1, <2>2
<1>2. /\ pc' = "record" /\ store' = record /\ todo' = RecordSlices(record)
      /\ buffer' = [units |-> <<>>, attempted |-> 0, capacity |-> capacity, limit |-> MaxRecord]
  BY DEF EncodeRecord, Buffer
<1> HIDE DEF size
<1>3. capacity \in Nat /\ capacity <= MaxRecord
  <2>1. size + Slack \in Nat /\ MaxRecord \in Nat
    BY <1>1, Numbers
  <2> QED
    BY <2>1, LeastIs
<1> HIDE DEF capacity
<1>4. <<>> \in Seq(Unit) /\ Len(<<>>) = 0
  BY EmptySeq
<1>5. todo' \in Seq(Seq(Unit)) /\ Bytes(record) \in Seq(Unit)
  BY <1>2, BytesType
<1> HIDE DEF record
<1>6. buffer' \in BufferType
  BY <1>2, <1>3, <1>4, Numbers DEF BufferType
<1>7. BufferInv'
  BY <1>2, <1>3, <1>4 DEF BufferInv
<1>8. buffer'.units \o FlattenSeq(todo') = Bytes(record)
  BY <1>2, <1>5, ConcatEmptySeq DEF Bytes
<1>9. EncodeInv'
  BY <1>2, <1>8 DEF EncodeInv, record
<1> QED
  BY <1>2, <1>5, <1>6, <1>7, <1>9

LEMMA WriteRootCellKeeps ==
  ASSUME SInv, WriteRootCell
  PROVE  SInv'
<1>1. /\ pc = "idle" /\ memory = <<>> /\ EncodeRecord(StoreOf(Genesis))
      /\ ledger' = ledger /\ memory' = memory /\ at' = at
      /\ published' = published /\ pending' = pending /\ damaged' = damaged /\ refused' = refused
  BY DEF WriteRootCell, StoreOf, cell, history
<1>2. ledger' = Genesis
  BY <1>1 DEF SInv, IInv, LedgersInv
<1>3. /\ pc' = "record" /\ todo' \in Seq(Seq(Unit)) /\ buffer' \in BufferType
      /\ BufferInv' /\ EncodeInv'
  BY <1>1, <1>2, Sentinels, GenesisPayload, EncodeRecordKeeps
<1>4. ChecksumInv' /\ BegunInv' /\ IntactInv' /\ (HasChecksum' <=> HasChecksum)
  BY <1>1, CellKeptKeeps DEF CellKept
<1>5. published = Genesis /\ pending = Nothing /\ ~ HasChecksum
  <2>1. published = Genesis /\ pending = Nothing
    BY <1>1 DEF SInv, IInv, RootInv
  <2>2. ~ HasChecksum
    BY <1>1, MemoryDomain DEF SInv, HasChecksum
  <2> QED
    BY <2>1, <2>2
<1>6. Typed'
  BY <1>1, <1>3 DEF SInv, Typed
<1>7. LedgersInv'
  BY <1>1, <1>2, <1>3, Sentinels DEF SInv, IInv, LedgersInv
<1>8. CellInv'
  BY <1>1, <1>3, <1>5 DEF SInv, IInv, CellInv
<1>9. RootInv'
  BY <1>1, <1>3, <1>4, <1>5, Sentinels DEF RootInv
<1> QED
  BY <1>3, <1>4, <1>6, <1>7, <1>8, <1>9 DEF SInv, IInv

\* Sequences over a set are sequences over every set that includes it.
LEMMA WiderSeq ==
  ASSUME NEW S, NEW R, \A x \in S : x \in R
  PROVE  \A s \in Seq(S) : s \in Seq(R)
<1>1. TAKE s \in Seq(S)
<1>2. Len(s) \in Nat /\ s = [n \in 1 .. Len(s) |-> s[n]] /\ \A n \in 1 .. Len(s) : s[n] \in S
  OBVIOUS
<1>3. \A n \in 1 .. Len(s) : s[n] \in R
  BY <1>2
<1> QED
  BY <1>2, <1>3

LEMMA SlicesAreUnits == \A s \in Seq(Seq(PayloadUnit)) : s \in Seq(Seq(Unit))
<1>1. \A s \in Seq(PayloadUnit) : s \in Seq(Unit)
  BY PayloadUnitsAreUnits
<1>2. ASSUME NEW S, NEW R, \A x \in S : x \in R PROVE \A s \in Seq(S) : s \in Seq(R)
  BY <1>2, WiderSeq
<1> QED
  BY <1>1, <1>2, Zenon

LEMMA CommitGenerationKeeps ==
  ASSUME SInv, NEW entries \in SUBSET Entry, CommitGeneration(entries)
  PROVE  SInv'
<1> DEFINE r == Recover(ReadStore)
<1>1. /\ pc = "idle" /\ memory # <<>> /\ r # Failed /\ r.generation < MaxGeneration
      /\ Cardinality(r.entries \cup entries) <= MaxAllocations
      /\ pc' = "ledger" /\ published' = r /\ pending' = Nothing
      /\ ledger' = [generation |-> r.generation + 1, entries |-> r.entries \cup entries]
      /\ todo' = LedgerSlices(ledger'.entries)
      /\ buffer' = [units |-> <<>>, attempted |-> 0, capacity |-> 0, limit |-> MaxPayload]
      /\ memory' = memory /\ at' = at /\ damaged' = damaged /\ refused' = refused
  BY DEF CommitGeneration, Buffer, cell
<1>2. /\ IsLedger(r) /\ r \in {published, pending}
      /\ r = Genesis => published = Genesis /\ ~ HasChecksum
      /\ r # Genesis => HasChecksum /\ memory[4] = StoreOf(r).checksum
  BY <1>1, Recovered
<1>3. (HasChecksum' <=> HasChecksum) /\ (RootHeader' <=> RootHeader) /\ (RootValue' <=> RootValue)
      /\ ReadStore' = ReadStore
  BY <1>1 DEF HasChecksum, RootHeader, RootValue, ReadStore
<1> HIDE DEF r
<1>4. IsLedger(ledger') /\ ledger' # Genesis
  <2>1. r.generation \in 0 .. MaxGeneration /\ r.entries \in SUBSET Entry
    BY <1>2 DEF IsLedger
  <2>2. r.generation + 1 \in 0 .. MaxGeneration /\ r.generation + 1 # 0
    BY <1>1, <2>1, Numbers
  <2>3. ledger'.generation = r.generation + 1 /\ ledger'.entries = r.entries \cup entries
    BY <1>1
  <2>4. ledger' \in [generation : 0 .. MaxGeneration, entries : SUBSET Entry]
    BY <1>1, <2>1, <2>2
  <2>5. ledger' # Genesis
    BY <2>2, <2>3 DEF Genesis
  <2> QED
    BY <1>1, <2>2, <2>3, <2>4, <2>5 DEF IsLedger
<1>5. /\ ledger'.entries \in SUBSET Entry /\ Payload(ledger'.entries) \in Seq(PayloadUnit)
  BY <1>4, LedgerPayload
<1>6. todo' \in Seq(Seq(Unit)) /\ Payload(ledger'.entries) \in Seq(Unit)
  <2>1. todo' \in Seq(Seq(PayloadUnit))
    BY <1>1, <1>5, LedgerSlicesType
  <2> QED
    BY <1>5, <2>1, SlicesAreUnits, PayloadUnitsAreUnits
<1>7. <<>> \in Seq(Unit) /\ Len(<<>>) = 0
  BY EmptySeq
<1>8. Typed'
  <2>1. buffer' \in BufferType
    BY <1>1, <1>7, Numbers DEF BufferType
  <2> QED
    BY <1>1, <1>6, <2>1 DEF SInv, Typed
<1>9. LedgersInv'
  BY <1>1, <1>2, <1>4 DEF SInv, IInv, LedgersInv
<1>10. BufferInv'
  BY <1>1, <1>7, Numbers DEF BufferInv
<1>11. EncodeInv'
  <2>1. <<>> \o FlattenSeq(todo') = Payload(ledger'.entries)
    BY <1>1, <1>6, ConcatEmptySeq DEF Payload
  <2> QED
    BY <1>1, <2>1 DEF EncodeInv
<1>12. CellInv'
  BY <1>1 DEF SInv, IInv, CellInv
<1>13. RootInv'
  BY <1>1, Sentinels DEF RootInv
<1>14. ChecksumInv'
  <2>1. ASSUME HasChecksum' PROVE r \in {published', pending'} \ {Genesis, Nothing} /\ memory'[4] = StoreOf(r).checksum
    BY <1>1, <1>2, <1>3, <2>1, Sentinels
  <2> QED
    BY <2>1 DEF ChecksumInv
<1>15. BegunInv'
  BY <1>1, <1>2, <1>3 DEF SInv, IInv, BegunInv
<1>16. IntactInv'
  BY <1>1, <1>3 DEF IntactInv, r
<1> QED
  BY <1>8, <1>9, <1>10, <1>11, <1>12, <1>13, <1>14, <1>15, <1>16 DEF SInv, IInv

LEMMA CommitPayloadKeeps ==
  ASSUME SInv, CommitPayload
  PROVE  SInv'
<1>1. /\ pc = "ledger" /\ todo = <<>> /\ memory' = memory
      /\ published' = published /\ pending' = pending /\ damaged' = damaged /\ refused' = refused
  BY DEF CommitPayload, history
<1>2. ChecksumInv' /\ BegunInv' /\ IntactInv' /\ (HasChecksum' <=> HasChecksum)
  BY <1>1, CellKeptKeeps DEF CellKept
<1>3. CASE Rest
  <2>1. /\ pc' = "idle" /\ ledger' = Genesis
        /\ at' \in Nat /\ todo' \in Seq(Seq(Unit)) /\ buffer' \in BufferType
        /\ BufferInv' /\ EncodeInv' /\ CellInv'
    BY <1>3, RestKeeps
  <2>2. Typed'
    BY <1>1, <2>1 DEF SInv, Typed
  <2>3. LedgersInv'
    BY <1>1, <2>1, Sentinels DEF SInv, IInv, LedgersInv
  <2>4. RootInv'
    BY <1>1, <1>2, <2>1 DEF SInv, IInv, RootInv
  <2> QED
    BY <1>2, <2>1, <2>2, <2>3, <2>4 DEF SInv, IInv
<1>4. CASE /\ Len(buffer.units) <= MaxPayload
           /\ EncodeRecord(Snapshot(ledger.generation, buffer.units)) /\ UNCHANGED <<ledger, at>>
  <2>1. ledger' = ledger /\ at' = at /\ IsLedger(ledger) /\ ledger # Genesis
    BY <1>1, <1>4 DEF SInv, IInv, LedgersInv
  <2>2. buffer.units = Payload(ledger.entries)
    <3>1. buffer.units \in Seq(Unit) /\ buffer.units \o FlattenSeq(todo) = Payload(ledger.entries)
      BY <1>1 DEF SInv, IInv, EncodeInv, Typed, BufferType
    <3> QED
      BY <1>1, <3>1, FlattenEmpty, ConcatEmptySeq
  <2>3. Snapshot(ledger.generation, buffer.units) = StoreOf(ledger)
    BY <2>1, <2>2 DEF StoreOf
  <2>4. /\ pc' = "record" /\ todo' \in Seq(Seq(Unit)) /\ buffer' \in BufferType
        /\ BufferInv' /\ EncodeInv'
    BY <1>4, <2>1, <2>2, <2>3, EncodeRecordKeeps
  <2>5. Typed'
    BY <1>1, <2>1, <2>4 DEF SInv, Typed
  <2>6. LedgersInv'
    BY <1>1, <2>1, <2>4 DEF SInv, IInv, LedgersInv
  <2>7. CellInv'
    BY <1>1, <2>1, <2>4 DEF SInv, IInv, CellInv
  <2>8. RootInv'
    BY <1>1, <1>2, <2>1, <2>4 DEF SInv, IInv, RootInv
  <2> QED
    BY <1>2, <2>4, <2>5, <2>6, <2>7, <2>8 DEF SInv, IInv
<1> QED
  BY <1>3, <1>4 DEF CommitPayload

LEMMA WriteAllKeeps ==
  ASSUME SInv, WriteAll
  PROVE  SInv'
<1> DEFINE attempted == buffer.attempted + Len(Head(todo))
<1>1. /\ pc \in {"ledger", "record"} /\ todo # <<>> /\ memory' = memory
      /\ published' = published /\ pending' = pending /\ damaged' = damaged
  BY DEF WriteAll
<1>2. ChecksumInv' /\ BegunInv' /\ IntactInv' /\ (HasChecksum' <=> HasChecksum)
  BY <1>1, CellKeptKeeps DEF CellKept
<1>3. /\ buffer \in BufferType /\ todo \in Seq(Seq(Unit))
      /\ Head(todo) \in Seq(Unit) /\ Tail(todo) \in Seq(Seq(Unit)) /\ Len(Head(todo)) \in Nat
      /\ FlattenSeq(Tail(todo)) \in Seq(Unit)
      /\ FlattenSeq(todo) = Head(todo) \o FlattenSeq(Tail(todo))
  <2>1. buffer \in BufferType /\ todo \in Seq(Seq(Unit))
    BY DEF SInv, Typed
  <2>2. Head(todo) \in Seq(Unit) /\ Tail(todo) \in Seq(Seq(Unit))
    BY <1>1, <2>1, HeadTailProperties
  <2>3. FlattenSeq(todo) = Head(todo) \o FlattenSeq(Tail(todo))
    BY <1>1, <2>1, FlattenHead
  <2> QED
    BY <2>1, <2>2, <2>3, FlattenType, LenProperties
<1>4. /\ buffer.units \in Seq(Unit) /\ buffer.attempted \in Nat /\ buffer.capacity \in Nat
      /\ buffer.limit \in Nat /\ Len(buffer.units) \in Nat
  BY <1>3 DEF BufferType
<1>5. (buffer.units \o Head(todo)) \o FlattenSeq(Tail(todo)) = buffer.units \o FlattenSeq(todo)
  <2>1. \A a, b, c \in Seq(Unit) : (a \o b) \o c = a \o (b \o c)
    BY ConcatAssociative
  <2>2. (buffer.units \o Head(todo)) \o FlattenSeq(Tail(todo)) = buffer.units \o (Head(todo) \o FlattenSeq(Tail(todo)))
    BY <1>3, <1>4, <2>1, Zenon
  <2> QED
    BY <1>3, <2>2
<1>6. buffer.attempted = Len(buffer.units) /\ Len(buffer.units) <= buffer.capacity /\ buffer.capacity <= buffer.limit
  BY DEF SInv, IInv, BufferInv
<1>7. buffer.units \o Head(todo) \in Seq(Unit) /\ Len(buffer.units \o Head(todo)) = attempted
  <2>1. \A a, b \in Seq(Unit) : a \o b \in Seq(Unit) /\ Len(a \o b) = Len(a) + Len(b)
    BY ConcatProperties
  <2>2. buffer.units \o Head(todo) \in Seq(Unit) /\ Len(buffer.units \o Head(todo)) = Len(buffer.units) + Len(Head(todo))
    BY <1>3, <1>4, <2>1, Zenon
  <2> QED
    BY <1>6, <2>2
\* What was tried to be written is not longer than the whole.
<1>8. attempted <= Len(buffer.units \o FlattenSeq(todo))
  <2>1. Len(FlattenSeq(Tail(todo))) \in Nat
    BY <1>3, LenProperties
  <2>2. Len((buffer.units \o Head(todo)) \o FlattenSeq(Tail(todo))) = attempted + Len(FlattenSeq(Tail(todo)))
    <3>1. \A a, b \in Seq(Unit) : Len(a \o b) = Len(a) + Len(b)
      BY ConcatProperties
    <3>2. Len((buffer.units \o Head(todo)) \o FlattenSeq(Tail(todo))) =
            Len(buffer.units \o Head(todo)) + Len(FlattenSeq(Tail(todo)))
      BY <1>3, <1>7, <3>1, Zenon
    <3> QED
      BY <1>7, <3>2
  <2>3. attempted \in Nat
    BY <1>3, <1>4
  <2> DEFINE rest == Len(FlattenSeq(Tail(todo)))
             whole == Len(buffer.units \o FlattenSeq(todo))
  <2>4. rest \in Nat /\ whole = attempted + rest
    BY <1>5, <2>1, <2>2
  <2> HIDE DEF attempted, rest, whole
  <2>5. attempted <= whole
    BY <2>3, <2>4
  <2> QED
    BY <2>5 DEF whole
<1>9. CASE attempted > buffer.limit
  <2>1. Rest /\ refused' = ledger
    BY <1>9 DEF WriteAll
  <2>2. /\ pc' = "idle" /\ ledger' = Genesis
        /\ at' \in Nat /\ todo' \in Seq(Seq(Unit)) /\ buffer' \in BufferType
        /\ BufferInv' /\ EncodeInv' /\ CellInv'
    BY <2>1, RestKeeps
  <2>3. Len(Payload(ledger.entries)) > MaxPayload
    <3>1. CASE pc = "ledger"
      <4>1. buffer.limit = MaxPayload /\ attempted <= Len(Payload(ledger.entries))
        BY <1>8, <3>1 DEF SInv, IInv, EncodeInv
      <4>2. Len(Payload(ledger.entries)) \in Nat /\ attempted \in Nat
        BY <1>3, <1>4, LedgerPayload DEF SInv, IInv, LedgersInv
      <4> HIDE DEF attempted
      <4> QED
        BY <1>9, <4>1, <4>2, Numbers
    <3>2. CASE pc = "record"
      <4>1. /\ buffer.limit = MaxRecord /\ attempted <= Len(Bytes(StoreOf(ledger)))
            /\ Len(Payload(ledger.entries)) <= MaxPayload
        BY <1>8, <3>2 DEF SInv, IInv, EncodeInv
      <4>2. Len(Bytes(StoreOf(ledger))) \in Nat /\ Len(Bytes(StoreOf(ledger))) <= MaxRecord /\ attempted \in Nat
        BY <1>3, <1>4, <4>1, BytesType DEF SInv, IInv, LedgersInv
      <4> HIDE DEF attempted
      <4> QED
        BY <1>9, <4>1, <4>2, Numbers
    <3> QED
      BY <1>1, <3>1, <3>2
  <2>4. Typed'
    BY <1>1, <2>2 DEF SInv, Typed
  <2>5. LedgersInv'
    BY <1>1, <2>1, <2>2, <2>3, Sentinels DEF SInv, IInv, LedgersInv
  <2>6. RootInv'
    BY <1>1, <1>2, <2>2 DEF SInv, IInv, RootInv
  <2> QED
    BY <1>2, <2>2, <2>4, <2>5, <2>6 DEF SInv, IInv
<1>10. CASE ~ (attempted > buffer.limit)
  <2> DEFINE capacity == IF attempted <= buffer.capacity THEN buffer.capacity
                         ELSE Least(IF attempted <= 2 * buffer.capacity THEN 2 * buffer.capacity ELSE attempted,
                                    buffer.limit)
  <2>1. /\ buffer' = [ buffer EXCEPT !.attempted = attempted, !.units = @ \o Head(todo), !.capacity = capacity ]
        /\ todo' = Tail(todo) /\ pc' = pc /\ store' = store /\ ledger' = ledger /\ at' = at /\ refused' = refused
    BY <1>10 DEF WriteAll
  <2>2. attempted \in Nat /\ attempted <= buffer.limit
    BY <1>3, <1>4, <1>10
  <2> HIDE DEF attempted
  <2>3. capacity \in Nat /\ attempted <= capacity /\ capacity <= buffer.limit
    BY <1>4, <1>6, <2>2 DEF Least
  <2> HIDE DEF capacity
  <2>4. /\ buffer'.units = buffer.units \o Head(todo) /\ buffer'.attempted = attempted
        /\ buffer'.capacity = capacity /\ buffer'.limit = buffer.limit /\ buffer' \in BufferType
    BY <1>3, <1>7, <2>1, <2>2, <2>3 DEF BufferType
  <2>5. Typed'
    BY <1>1, <1>3, <2>1, <2>4 DEF SInv, Typed
  <2>6. LedgersInv'
    BY <1>1, <2>1 DEF SInv, IInv, LedgersInv
  <2>7. BufferInv'
    BY <1>7, <2>3, <2>4 DEF BufferInv
  <2>8. EncodeInv'
    <3>1. buffer'.units \o FlattenSeq(todo') = buffer.units \o FlattenSeq(todo)
      BY <1>5, <2>1, <2>4
    <3> QED
      BY <2>1, <2>4, <3>1 DEF SInv, IInv, EncodeInv
  <2>9. CellInv'
    BY <1>1, <2>1 DEF SInv, IInv, CellInv
  <2>10. RootInv'
    BY <1>1, <1>2, <2>1 DEF SInv, IInv, RootInv
  <2> QED
    BY <1>2, <2>5, <2>6, <2>7, <2>8, <2>9, <2>10 DEF SInv, IInv
<1> QED
  BY <1>9, <1>10

-----------------------------------------------------------------------------
(***************************************************************************)
(* Steps that write the cell.                                              *)
(***************************************************************************)
\* Whole pages are enough for what is required.
LEMMA PagesCover ==
  ASSUME NEW r \in Nat, NEW p \in Nat, p >= 1
  PROVE  /\ (r + p - 1) \div p \in Nat
         /\ ((r + p - 1) \div p) * p \in Nat
         /\ ((r + p - 1) \div p) * p >= r
<1> DEFINE d == (r + p - 1) \div p
           m == (r + p - 1) % p
<1>1. r + p - 1 \in Nat
  OBVIOUS
<1>2. r + p - 1 = p * d + m /\ m \in 0 .. p - 1 /\ d \in Int
  BY <1>1
<1> HIDE DEF d, m
<1>3. p * d >= r
  BY <1>2
<1>4. d >= 0
  BY <1>3, <1>2
<1>5. d * p = p * d
  BY <1>2
<1> QED
  BY <1>2, <1>3, <1>4, <1>5 DEF d

\* A memory that grows keeps what it holds.
LEMMA Grown ==
  ASSUME NEW mem \in Seq(Unit), NEW m \in Nat
  PROVE  LET zeros == [n \in 1 .. m |-> <<"zero">>]
         IN  /\ zeros \in Seq(Unit) /\ mem \o zeros \in Seq(Unit)
             /\ Len(mem) \in Nat /\ Len(mem \o zeros) = Len(mem) + m
             /\ \A n \in 1 .. Len(mem) : (mem \o zeros)[n] = mem[n]
             /\ \A n \in Len(mem) + 1 .. Len(mem) + m : (mem \o zeros)[n] = <<"zero">>
<1> DEFINE zeros == [n \in 1 .. m |-> <<"zero">>]
<1>1. <<"zero">> \in Unit
  BY NullIsUnit
<1>2. zeros \in Seq(Unit) /\ Len(zeros) = m
  <2>1. ASSUME NEW z \in Unit
        PROVE  [n \in 1 .. m |-> z] \in Seq(Unit) /\ Len([n \in 1 .. m |-> z]) = m
    OBVIOUS
  <2> QED
    BY <1>1, <2>1, Zenon
<1>3. \A n \in 1 .. m : zeros[n] = <<"zero">>
  OBVIOUS
<1> HIDE DEF zeros
<1>4. \A a, b \in Seq(Unit) :
        /\ a \o b \in Seq(Unit) /\ Len(a \o b) = Len(a) + Len(b) /\ Len(a) \in Nat
        /\ \A i \in 1 .. Len(a) + Len(b) : (a \o b)[i] = IF i <= Len(a) THEN a[i] ELSE b[i - Len(a)]
  BY ConcatProperties
<1> DEFINE u == mem \o zeros
<1>5. /\ u \in Seq(Unit) /\ Len(u) = Len(mem) + m /\ Len(mem) \in Nat
      /\ \A i \in 1 .. Len(mem) + m : u[i] = IF i <= Len(mem) THEN mem[i] ELSE zeros[i - Len(mem)]
  <2>1. /\ u \in Seq(Unit) /\ Len(u) = Len(mem) + Len(zeros) /\ Len(mem) \in Nat
        /\ \A i \in 1 .. Len(mem) + Len(zeros) : u[i] = IF i <= Len(mem) THEN mem[i] ELSE zeros[i - Len(mem)]
    BY <1>2, <1>4, Zenon
  <2> HIDE DEF u
  <2> QED
    BY <1>2, <2>1
<1> HIDE DEF u
<1>6. \A n \in 1 .. Len(mem) : u[n] = mem[n]
  BY <1>5
<1>7. \A n \in Len(mem) + 1 .. Len(mem) + m : u[n] = <<"zero">>
  <2>1. TAKE n \in Len(mem) + 1 .. Len(mem) + m
  <2>2. n \in 1 .. Len(mem) + m /\ ~ (n <= Len(mem)) /\ n - Len(mem) \in 1 .. m
    BY <1>5
  <2> QED
    BY <1>3, <1>5, <2>2
<1> QED
  BY <1>2, <1>5, <1>6, <1>7 DEF u, zeros

\* What recovery and the invariant look at is the same in a memory that has
\* grown, and a memory that had no page is all zeros.
LEMMA GrownCell ==
  ASSUME SInv, NEW m \in Nat, memory' = memory \o [n \in 1 .. m |-> <<"zero">>],
         published' = published, pending' = pending, damaged' = damaged
  PROVE  /\ memory' \in Seq(Unit) /\ Len(memory') = Len(memory) + m
         /\ (HasChecksum' <=> HasChecksum)
         /\ ChecksumInv' /\ BegunInv' /\ IntactInv'
<1> DEFINE zeros == [n \in 1 .. m |-> <<"zero">>]
<1>1. memory \in Seq(Unit)
  BY DEF SInv, Typed
<1>2. /\ zeros \in Seq(Unit) /\ memory' \in Seq(Unit)
      /\ Len(memory) \in Nat /\ Len(memory') = Len(memory) + m
      /\ \A n \in 1 .. Len(memory) : memory'[n] = memory[n]
      /\ \A n \in Len(memory) + 1 .. Len(memory) + m : memory'[n] = <<"zero">>
  BY <1>1, Grown
<1>3. DOMAIN memory = 1 .. Len(memory) /\ DOMAIN memory' = 1 .. Len(memory) + m
  BY <1>1, <1>2
<1>4. memory' = memory \o zeros
  OBVIOUS
<1> HIDE DEF zeros
<1>5. ASSUME NEW k \in 1 .. 4
      PROVE  k \in DOMAIN memory' => (k \in DOMAIN memory /\ memory'[k] = memory[k]) \/ (k \notin DOMAIN memory /\ memory'[k] = <<"zero">>)
  BY <1>2, <1>3
<1>6. \A k \in 1 .. 4 : k \in DOMAIN memory => k \in DOMAIN memory' /\ memory'[k] = memory[k]
  BY <1>2, <1>3
<1>7. <<"zero">>[1] # "checksum" /\ <<"zero">> # <<"null">> /\ <<"zero">>[1] # "cell"
  OBVIOUS
<1>8. \A n : <<"zero">> # <<"cell", n>>
  OBVIOUS
<1>9. 1 \in 1 .. 4 /\ 2 \in 1 .. 4 /\ 4 \in 1 .. 4
  OBVIOUS
<1>10. HasChecksum' <=> HasChecksum
  BY <1>5, <1>6, <1>7, <1>9 DEF HasChecksum
<1>11. HasChecksum => memory'[4] = memory[4]
  BY <1>6, <1>9 DEF HasChecksum
<1>12. RootHeader' <=> RootHeader
  BY <1>5, <1>6, <1>8, <1>9 DEF RootHeader
<1>13. RootValue' <=> RootValue
  BY <1>5, <1>6, <1>7, <1>9 DEF RootValue
<1>14. ChecksumInv'
  BY <1>10, <1>11 DEF SInv, IInv, ChecksumInv
<1>15. BegunInv'
  BY <1>10, <1>12, <1>13 DEF SInv, IInv, BegunInv
<1>16. IntactInv'
  <2>1. SUFFICES ASSUME pending = Nothing, ~ damaged, memory' # <<>>, memory'[1][1] = "cell"
                 PROVE  Recover(ReadOf(memory')) = published
    BY ReadStoreIs DEF IntactInv, ReadStore, ReadOf
  <2>2. 1 \in DOMAIN memory'
    <3>1. Len(memory') # 0
      BY <1>2, <2>1, EmptySeq
    <3> QED
      BY <1>2, <1>3, <3>1
  <2>3. 1 \in DOMAIN memory /\ memory[1][1] = "cell"
    BY <1>5, <1>7, <1>9, <2>1, <2>2
  <2>4. memory # <<>>
    BY <2>3
  <2>5. Recover(ReadOf(memory)) = published
    BY <2>1, <2>3, <2>4, ReadStoreIs DEF SInv, IInv, IntactInv
  <2>6. published # Failed
    BY Sentinels DEF SInv, IInv, LedgersInv
  <2>7. ReadOf(memory \o zeros) = ReadOf(memory)
    BY <1>1, <1>2, <2>4, <2>5, <2>6, ReadGrown
  <2> QED
    BY <1>4, <2>5, <2>7
<1> QED
  BY <1>2, <1>10, <1>14, <1>15, <1>16

LEMMA GrowCellKeeps ==
  ASSUME SInv, GrowCell
  PROVE  SInv'
<1> DEFINE required == 1 + Len(buffer.units)
           pages == (required + PageUnits - 1) \div PageUnits
           more == IF pages * PageUnits > Len(memory) THEN pages * PageUnits - Len(memory) ELSE 0
<1>1. /\ pc = "record" /\ todo = <<>>
      /\ published' = published /\ pending' = pending /\ damaged' = damaged /\ refused' = refused
  BY DEF GrowCell, history
<1>2. /\ memory \in Seq(Unit) /\ Len(memory) \in Nat
      /\ buffer.units \in Seq(Unit) /\ Len(buffer.units) \in Nat
  BY DEF SInv, Typed, BufferType
<1>3. buffer.units = Bytes(StoreOf(ledger))
  <2>1. buffer.units \o FlattenSeq(todo) = Bytes(StoreOf(ledger))
    BY <1>1 DEF SInv, IInv, EncodeInv
  <2> QED
    BY <1>1, <1>2, <2>1, FlattenEmpty, ConcatEmptySeq
<1>4. CASE /\ pc' = "header" /\ memory' = memory \o [n \in 1 .. more |-> <<"zero">>]
           /\ UNCHANGED <<store, ledger, encoding, at>>
  <2>1. ledger' = ledger /\ todo' = todo /\ buffer' = buffer /\ at' = at
    BY <1>4 DEF encoding
  <2>2. required \in Nat /\ PageUnits \in Nat /\ PageUnits >= 1
    BY <1>2, Numbers
  <2>3. pages * PageUnits \in Nat /\ pages * PageUnits >= required
    <3> HIDE DEF required
    <3> QED
      BY <2>2, PagesCover
  <2> DEFINE size == pages * PageUnits
  <2>4. more = IF size > Len(memory) THEN size - Len(memory) ELSE 0
    OBVIOUS
  <2> HIDE DEF size, more
  <2>5. more \in Nat /\ Len(memory) + more >= required
    <3>1. size \in Nat /\ size >= required
      BY <2>3 DEF size
    <3> QED
      BY <1>2, <2>2, <2>4, <3>1
  <2>6. /\ memory' \in Seq(Unit) /\ Len(memory') = Len(memory) + more
        /\ (HasChecksum' <=> HasChecksum)
        /\ ChecksumInv' /\ BegunInv' /\ IntactInv'
    BY <1>1, <1>4, <2>5, GrownCell
  <2>7. Typed'
    BY <1>4, <2>1, <2>6, <1>1 DEF SInv, Typed
  <2>8. LedgersInv'
    BY <1>1, <1>4, <2>1 DEF SInv, IInv, LedgersInv
  <2>9. BufferInv'
    BY <2>1 DEF SInv, IInv, BufferInv
  <2>10. EncodeInv'
    BY <1>1, <1>4, <2>1 DEF SInv, IInv, EncodeInv
  <2>11. CellInv'
    <3>1. Len(memory') >= 1 + Len(buffer'.units)
      BY <2>1, <2>5, <2>6
    <3>2. buffer'.units = Bytes(StoreOf(ledger')) /\ pending' = Nothing /\ at' = 0
      BY <1>1, <1>3, <2>1 DEF SInv, IInv, CellInv
    <3> QED
      BY <1>4, <3>1, <3>2 DEF CellInv
  <2>12. RootInv'
    <3>1. memory' # <<>>
      <4>1. Len(memory') # 0
        BY <1>2, <2>5, <2>6
      <4> QED
        BY <4>1, EmptySeq
    <3> QED
      BY <1>1, <1>4, <2>1, <2>6, <3>1 DEF SInv, IInv, RootInv
  <2> QED
    BY <2>6, <2>7, <2>8, <2>9, <2>10, <2>11, <2>12 DEF SInv, IInv
<1>5. CASE Rest /\ UNCHANGED memory
  <2>1. /\ pc' = "idle" /\ ledger' = Genesis
        /\ at' \in Nat /\ todo' \in Seq(Seq(Unit)) /\ buffer' \in BufferType
        /\ BufferInv' /\ EncodeInv' /\ CellInv'
    BY <1>5, RestKeeps
  <2>2. ChecksumInv' /\ BegunInv' /\ IntactInv' /\ (HasChecksum' <=> HasChecksum)
    BY <1>1, <1>5, CellKeptKeeps DEF CellKept
  <2>3. Typed'
    BY <1>1, <1>5, <2>1 DEF SInv, Typed
  <2>4. LedgersInv'
    BY <1>1, <2>1, Sentinels DEF SInv, IInv, LedgersInv
  <2>5. RootInv'
    BY <1>1, <1>5, <2>1, <2>2 DEF SInv, IInv, RootInv
  <2> QED
    BY <2>1, <2>2, <2>3, <2>4, <2>5 DEF SInv, IInv
<1> QED
  BY <1>4, <1>5 DEF GrowCell

\* The units of a record: the root cell's is one, another's has its checksum
\* third and does not begin like the root cell's.
LEMMA StoreUnits ==
  ASSUME NEW l, IsLedger(l), Len(Payload(l.entries)) <= MaxPayload
  PROVE  LET units == Bytes(StoreOf(l))
         IN  /\ units \in Seq(Unit) /\ Len(units) \in Nat /\ Len(units) >= 1
             /\ l = Genesis => Len(units) = 1
             /\ l # Genesis => /\ Len(units) >= 4 /\ units[1] # <<"null">>
                               /\ units[3] = StoreOf(l).checksum /\ units[3][1] = "checksum"
<1> DEFINE units == Bytes(StoreOf(l))
<1>1. units \in Seq(Unit) /\ Len(units) \in Nat
  BY BytesType
<1>2. CASE l = Genesis
  <2>1. units = << <<"null">> >>
    BY <1>2, BytesUnset DEF StoreOf
  <2>2. Len(units) = 1
    BY <2>1
  <2> HIDE DEF units
  <2> QED
    BY <1>1, <1>2, <2>2 DEF units
<1>3. CASE l # Genesis
  <2> DEFINE g == l.generation
             p == Payload(l.entries)
  <2>1. g \in Nat /\ p \in Seq(PayloadUnit) /\ StoreOf(l) = Snapshot(g, p)
        /\ StoreOf(l).checksum = Checksum(g, TRUE, p)
    BY <1>3, StoreFacts
  <2> HIDE DEF g, p
  <2>2. /\ Len(Bytes(Snapshot(g, p))) = 4 + Len(p) /\ Bytes(Snapshot(g, p))[1] = <<"generation", g>>
        /\ Bytes(Snapshot(g, p))[3] = Checksum(g, TRUE, p)
    BY <2>1, BytesSnapshot
  <2>3. Len(units) = 4 + Len(p) /\ units[1] = <<"generation", g>> /\ units[3] = StoreOf(l).checksum
    BY <2>1, <2>2
  <2>4. Checksum(g, TRUE, p)[1] = "checksum"
    BY DEF Checksum
  <2>5. Len(p) \in Nat
    BY <2>1
  <2>6. units[3][1] = "checksum"
    BY <2>1, <2>3, <2>4
  <2> HIDE DEF units
  <2>7. Len(units) >= 4 /\ units[1] # <<"null">>
    BY <2>3, <2>5
  <2> QED
    BY <1>1, <1>3, <2>3, <2>6, <2>7 DEF units
<1> QED
  BY <1>2, <1>3

\* While the cell is written its record is that of the ledger, and it has room.
LEMMA Written ==
  ASSUME SInv, pc \in {"header", "value"}
  PROVE  /\ IsLedger(ledger) /\ Len(Payload(ledger.entries)) <= MaxPayload
         /\ buffer.units = Bytes(StoreOf(ledger))
         /\ buffer.units \in Seq(Unit) /\ Len(buffer.units) \in Nat /\ Len(buffer.units) >= 1
         /\ Len(memory) >= 1 + Len(buffer.units)
         /\ memory \in Seq(Unit) /\ Len(memory) \in Nat /\ DOMAIN memory = 1 .. Len(memory)
         /\ ledger = Genesis => published = Genesis /\ ~ HasChecksum /\ Len(buffer.units) = 1
         /\ ledger # Genesis =>
              /\ Len(buffer.units) >= 4 /\ buffer.units[1] # <<"null">>
              /\ buffer.units[3] = StoreOf(ledger).checksum /\ buffer.units[3][1] = "checksum"
<1>1. IsLedger(ledger) /\ Len(Payload(ledger.entries)) <= MaxPayload
  BY DEF SInv, IInv, LedgersInv, EncodeInv
<1>2. buffer.units = Bytes(StoreOf(ledger)) /\ Len(memory) >= 1 + Len(buffer.units)
  BY DEF SInv, IInv, CellInv
<1>3. ledger = Genesis => published = Genesis /\ ~ HasChecksum
  BY DEF SInv, IInv, RootInv
<1>4. memory \in Seq(Unit) /\ Len(memory) \in Nat /\ DOMAIN memory = 1 .. Len(memory)
  BY MemoryDomain DEF SInv, Typed
<1>5. LET units == Bytes(StoreOf(ledger))
      IN  /\ units \in Seq(Unit) /\ Len(units) \in Nat /\ Len(units) >= 1
          /\ ledger = Genesis => Len(units) = 1
          /\ ledger # Genesis => /\ Len(units) >= 4 /\ units[1] # <<"null">>
                                 /\ units[3] = StoreOf(ledger).checksum /\ units[3][1] = "checksum"
  BY <1>1, StoreUnits
<1> QED
  BY <1>1, <1>2, <1>3, <1>4, <1>5

LEMMA WriteHeaderKeeps ==
  ASSUME SInv, WriteHeader
  PROVE  SInv'
<1> DEFINE header == <<"cell", Len(buffer.units)>>
<1>1. /\ pc = "header" /\ pc' = "value" /\ memory' = [memory EXCEPT ![1] = header]
      /\ pending' = ledger /\ ledger' = ledger /\ todo' = todo /\ buffer' = buffer /\ at' = at
      /\ published' = published /\ damaged' = damaged /\ refused' = refused
  BY DEF WriteHeader, encoding
<1>2. /\ IsLedger(ledger) /\ Len(Payload(ledger.entries)) <= MaxPayload
      /\ buffer.units = Bytes(StoreOf(ledger))
      /\ buffer.units \in Seq(Unit) /\ Len(buffer.units) \in Nat /\ Len(buffer.units) >= 1
      /\ Len(memory) >= 1 + Len(buffer.units)
      /\ memory \in Seq(Unit) /\ Len(memory) \in Nat /\ DOMAIN memory = 1 .. Len(memory)
      /\ ledger = Genesis => published = Genesis /\ ~ HasChecksum /\ Len(buffer.units) = 1
      /\ ledger # Genesis => Len(buffer.units) >= 4
  BY <1>1, Written
<1>3. pending = Nothing /\ at = 0
  BY <1>1 DEF SInv, IInv, CellInv
<1>4. header \in Unit /\ header[1] = "cell"
  BY <1>2 DEF Unit, HeaderUnit
<1>5. Len(buffer.units) >= 4 => header # <<"cell", 1>>
  <2>1. \A k \in Nat : k >= 4 => <<"cell", k>> # <<"cell", 1>>
    OBVIOUS
  <2> QED
    BY <1>2, <2>1, Zenon
<1>6. 1 \in DOMAIN memory
  BY <1>2
<1> DEFINE size == Len(memory)
<1> HIDE DEF header
<1>7. /\ memory' \in Seq(Unit) /\ Len(memory') = size /\ DOMAIN memory' = DOMAIN memory
      /\ memory'[1] = header /\ \A n \in DOMAIN memory : n # 1 => memory'[n] = memory[n]
  BY <1>1, <1>2, <1>4, <1>6
<1>8. (HasChecksum' <=> HasChecksum) /\ (HasChecksum => memory'[4] = memory[4])
  BY <1>7 DEF HasChecksum
<1>9. RootValue' <=> RootValue
  BY <1>7 DEF RootValue
<1>10. ledger # Genesis => ~ RootHeader'
  BY <1>2, <1>5, <1>7 DEF RootHeader
<1>11. Typed'
  BY <1>1, <1>7 DEF SInv, Typed
<1>12. LedgersInv'
  BY <1>1, <1>2 DEF SInv, IInv, LedgersInv
<1>13. BufferInv' /\ EncodeInv'
  BY <1>1, <1>2 DEF SInv, IInv, BufferInv, EncodeInv
<1>14. CellInv'
  <2>1. at' = 0 /\ 1 .. 0 = {}
    BY <1>1, <1>3
  <2> QED
    BY <1>1, <1>2, <1>7, <2>1 DEF CellInv, header
<1>15. RootInv'
  <2>1. memory' # <<>>
    BY <1>6, <1>7
  <2> QED
    BY <1>1, <1>2, <1>8, <2>1 DEF RootInv
<1>16. ChecksumInv'
  <2>1. SUFFICES ASSUME HasChecksum PROVE \E l \in {published, ledger} \ {Genesis, Nothing} : memory'[4] = StoreOf(l).checksum
    BY <1>1, <1>8 DEF ChecksumInv
  <2>2. PICK l \in {published, pending} \ {Genesis, Nothing} : memory[4] = StoreOf(l).checksum
    BY <2>1 DEF SInv, IInv, ChecksumInv
  <2> QED
    BY <1>3, <1>8, <2>1, <2>2
<1>17. BegunInv'
  BY <1>1, <1>2, <1>8, <1>9, <1>10 DEF SInv, IInv, BegunInv
<1>18. IntactInv'
  BY <1>1, <1>2, Sentinels DEF IntactInv
<1> QED
  BY <1>11, <1>12, <1>13, <1>14, <1>15, <1>16, <1>17, <1>18 DEF SInv, IInv

LEMMA WriteUnitKeeps ==
  ASSUME SInv, WriteUnit
  PROVE  SInv'
<1> DEFINE unit == buffer.units[at + 1]
<1>1. /\ pc = "value" /\ pc' = "value" /\ at < Len(buffer.units) /\ at' = at + 1
      /\ memory' = [memory EXCEPT ![2 + at] = unit]
      /\ pending' = pending /\ ledger' = ledger /\ todo' = todo /\ buffer' = buffer
      /\ published' = published /\ damaged' = damaged /\ refused' = refused
  BY DEF WriteUnit, encoding, history
<1>2. /\ IsLedger(ledger) /\ Len(Payload(ledger.entries)) <= MaxPayload
      /\ buffer.units = Bytes(StoreOf(ledger))
      /\ buffer.units \in Seq(Unit) /\ Len(buffer.units) \in Nat /\ Len(buffer.units) >= 1
      /\ Len(memory) >= 1 + Len(buffer.units)
      /\ memory \in Seq(Unit) /\ Len(memory) \in Nat /\ DOMAIN memory = 1 .. Len(memory)
      /\ ledger = Genesis => published = Genesis /\ ~ HasChecksum /\ Len(buffer.units) = 1
      /\ ledger # Genesis =>
           /\ Len(buffer.units) >= 4 /\ buffer.units[1] # <<"null">>
           /\ buffer.units[3] = StoreOf(ledger).checksum /\ buffer.units[3][1] = "checksum"
  BY <1>1, Written
<1>3. /\ pending = ledger /\ memory[1] = <<"cell", Len(buffer.units)>>
      /\ \A n \in 1 .. at : memory[1 + n] = buffer.units[n]
  BY <1>1 DEF SInv, IInv, CellInv
<1>4. at \in Nat
  BY DEF SInv, Typed
<1>5. 2 + at \in DOMAIN memory /\ at + 1 \in 1 .. Len(buffer.units)
  BY <1>1, <1>2, <1>4
<1>6. unit \in Unit
  BY <1>2, <1>5
<1> DEFINE size == Len(memory)
<1> HIDE DEF unit
<1>7. /\ memory' \in Seq(Unit) /\ Len(memory') = size /\ DOMAIN memory' = DOMAIN memory
      /\ memory'[2 + at] = unit /\ \A n \in DOMAIN memory : n # 2 + at => memory'[n] = memory[n]
  BY <1>1, <1>2, <1>5, <1>6
<1>8. memory'[1] = memory[1] /\ 1 \in DOMAIN memory
  BY <1>2, <1>4, <1>7
<1>9. at # 2 => (HasChecksum' <=> HasChecksum) /\ (HasChecksum => memory'[4] = memory[4])
  BY <1>4, <1>7 DEF HasChecksum
<1>10. at = 2 => ledger # Genesis /\ memory'[4] = StoreOf(ledger).checksum
  <2>1. SUFFICES ASSUME at = 2 PROVE ledger # Genesis /\ memory'[4] = StoreOf(ledger).checksum
    OBVIOUS
  <2>2. ledger # Genesis
    <3>1. Len(buffer.units) # 1
      <4>1. \A j, k : j = 2 /\ j < k => k # 1
        OBVIOUS
      <4> QED
        BY <1>1, <2>1, <4>1, Zenon
    <3> QED
      BY <1>2, <3>1, Zenon
  <2>3. memory'[4] = unit /\ unit = buffer.units[3]
    BY <1>7, <2>1 DEF unit
  <2> QED
    BY <1>2, <2>2, <2>3
<1>11. ledger = Genesis => ~ HasChecksum'
  BY <1>2, <1>9, <1>10
<1>12. ledger # Genesis => memory'[2] = buffer.units[1] /\ ~ RootValue' /\ ~ RootHeader'
  <2>1. SUFFICES ASSUME ledger # Genesis PROVE memory'[2] = buffer.units[1] /\ ~ RootValue' /\ ~ RootHeader'
    OBVIOUS
  <2>2. memory'[2] = buffer.units[1]
    <3>1. CASE at = 0
      BY <1>7, <3>1 DEF unit
    <3>2. CASE at # 0
      <4>1. 1 \in 1 .. at /\ 2 # 2 + at /\ 2 \in DOMAIN memory /\ 1 + 1 = 2
        BY <1>2, <1>4, <3>2
      <4> QED
        BY <1>3, <1>7, <4>1
    <3> QED
      BY <3>1, <3>2
  <2>3. memory'[1] # <<"cell", 1>>
    BY <1>2, <1>3, <1>8, <2>1
  <2> QED
    BY <1>2, <2>1, <2>2, <2>3 DEF RootValue, RootHeader
<1>13. Typed'
  BY <1>1, <1>4, <1>7 DEF SInv, Typed
<1>14. LedgersInv'
  BY <1>1 DEF SInv, IInv, LedgersInv
<1>15. BufferInv' /\ EncodeInv'
  BY <1>1 DEF SInv, IInv, BufferInv, EncodeInv
<1>16. CellInv'
  <2>1. \A n \in 1 .. at + 1 : memory'[1 + n] = buffer.units[n]
    <3>1. TAKE n \in 1 .. at + 1
    <3>2. CASE n = at + 1
      <4>1. 1 + n = 2 + at
        BY <1>4, <3>2
      <4> QED
        BY <1>7, <3>2, <4>1 DEF unit
    <3>3. CASE n # at + 1
      <4>1. n \in 1 .. at /\ 1 + n # 2 + at /\ 1 + n \in DOMAIN memory
        BY <1>1, <1>2, <1>4, <3>3
      <4> QED
        BY <1>3, <1>7, <4>1
    <3> QED
      BY <3>2, <3>3
  <2>2. at + 1 <= Len(buffer.units)
    BY <1>1, <1>2, <1>4
  <2> QED
    BY <1>1, <1>2, <1>3, <1>7, <1>8, <2>1, <2>2 DEF CellInv
<1>17. RootInv'
  <2>1. memory' # <<>>
    BY <1>7, <1>8
  <2> QED
    BY <1>1, <1>2, <1>3, <1>11, <2>1 DEF RootInv
<1>18. ChecksumInv'
  <2>1. SUFFICES ASSUME HasChecksum' PROVE \E l \in {published, ledger} \ {Genesis, Nothing} : memory'[4] = StoreOf(l).checksum
    BY <1>1, <1>3 DEF ChecksumInv
  <2>2. CASE at = 2
    BY <1>2, <1>10, <2>2, Sentinels
  <2>3. CASE at # 2
    <3>1. HasChecksum /\ memory'[4] = memory[4]
      BY <1>9, <2>1, <2>3
    <3>2. PICK l \in {published, pending} \ {Genesis, Nothing} : memory[4] = StoreOf(l).checksum
      BY <3>1 DEF SInv, IInv, ChecksumInv
    <3> QED
      BY <1>3, <3>1, <3>2
  <2> QED
    BY <2>2, <2>3
<1>19. BegunInv'
  BY <1>1, <1>2, <1>11, <1>12 DEF BegunInv
<1>20. IntactInv'
  BY <1>1, <1>2, <1>3, Sentinels DEF IntactInv
<1> QED
  BY <1>13, <1>14, <1>15, <1>16, <1>17, <1>18, <1>19, <1>20 DEF SInv, IInv

LEMMA PublishKeeps ==
  ASSUME SInv, Publish
  PROVE  SInv'
<1>1. /\ pc = "value" /\ at = Len(buffer.units) /\ Rest
      /\ published' = ledger /\ pending' = Nothing /\ memory' = memory
      /\ damaged' = damaged /\ refused' = refused
  BY DEF Publish
<1>2. /\ IsLedger(ledger) /\ Len(Payload(ledger.entries)) <= MaxPayload
      /\ buffer.units = Bytes(StoreOf(ledger))
      /\ buffer.units \in Seq(Unit) /\ Len(buffer.units) \in Nat /\ Len(buffer.units) >= 1
      /\ Len(memory) >= 1 + Len(buffer.units)
      /\ memory \in Seq(Unit) /\ Len(memory) \in Nat /\ DOMAIN memory = 1 .. Len(memory)
      /\ ledger = Genesis => published = Genesis /\ ~ HasChecksum
      /\ ledger # Genesis =>
           /\ Len(buffer.units) >= 4 /\ buffer.units[1] # <<"null">>
           /\ buffer.units[3] = StoreOf(ledger).checksum
  BY <1>1, Written
<1>3. /\ memory[1] = <<"cell", Len(buffer.units)>>
      /\ \A n \in 1 .. Len(buffer.units) : memory[1 + n] = buffer.units[n]
  BY <1>1 DEF SInv, IInv, CellInv
<1>4. /\ pc' = "idle" /\ ledger' = Genesis
      /\ at' \in Nat /\ todo' \in Seq(Seq(Unit)) /\ buffer' \in BufferType
      /\ BufferInv' /\ EncodeInv' /\ CellInv'
  BY <1>1, RestKeeps
<1>5. 1 \in DOMAIN memory /\ memory # <<>>
  <2>1. 1 \in DOMAIN memory
    BY <1>2
  <2> QED
    BY <2>1
<1>6. (HasChecksum' <=> HasChecksum) /\ (RootHeader' <=> RootHeader) /\ (RootValue' <=> RootValue)
      /\ ReadStore' = ReadOf(memory)
  <2>1. (HasChecksum' <=> HasChecksum) /\ (RootHeader' <=> RootHeader) /\ (RootValue' <=> RootValue)
        /\ ReadStore' = ReadStore
    BY <1>1 DEF HasChecksum, RootHeader, RootValue, ReadStore
  <2> QED
    BY <2>1, ReadStoreIs
<1>7. Recover(ReadOf(memory)) = ledger
  BY <1>2, <1>3, <1>5, ReadExact
<1>8. ASSUME ledger # Genesis
      PROVE  memory[4] = StoreOf(ledger).checksum /\ ~ RootHeader /\ ~ RootValue
  <2>1. Len(buffer.units) >= 4 /\ buffer.units[1] # <<"null">> /\ buffer.units[3] = StoreOf(ledger).checksum
    BY <1>2, <1>8
  <2>2. 1 \in 1 .. Len(buffer.units) /\ 3 \in 1 .. Len(buffer.units)
    BY <1>2, <2>1
  <2>3. memory[1 + 1] = buffer.units[1] /\ memory[1 + 3] = buffer.units[3]
    BY <1>3, <2>2
  <2>4. memory[2] = buffer.units[1] /\ memory[4] = buffer.units[3]
    <3>1. 1 + 1 = 2 /\ 1 + 3 = 4
      OBVIOUS
    <3> QED
      BY <2>3, <3>1, Zenon
  <2>5. memory[1] # <<"cell", 1>>
    <3>1. \A k \in Nat : k >= 4 => <<"cell", k>> # <<"cell", 1>>
      OBVIOUS
    <3> QED
      BY <1>2, <1>3, <2>1, <3>1, Zenon
  <2> QED
    BY <2>1, <2>4, <2>5 DEF RootHeader, RootValue
<1>9. Typed'
  BY <1>1, <1>2, <1>4 DEF SInv, Typed
<1>10. LedgersInv'
  BY <1>1, <1>2, <1>4, Sentinels DEF SInv, IInv, LedgersInv
<1>11. RootInv'
  BY <1>1, <1>4, <1>5, Sentinels DEF RootInv
<1>12. ChecksumInv'
  <2>1. SUFFICES ASSUME HasChecksum
                 PROVE  ledger \in {published', pending'} \ {Genesis, Nothing} /\ memory'[4] = StoreOf(ledger).checksum
    BY <1>6 DEF ChecksumInv
  <2> QED
    BY <1>1, <1>2, <1>8, <2>1, Sentinels
<1>13. BegunInv'
  BY <1>1, <1>2, <1>6, <1>8 DEF BegunInv
<1>14. IntactInv'
  BY <1>1, <1>6, <1>7 DEF IntactInv
<1> QED
  BY <1>4, <1>9, <1>10, <1>11, <1>12, <1>13, <1>14 DEF SInv, IInv

\* A damaged unit is never a checksum.
LEMMA DamagesAreUnits ==
  ASSUME NEW unit \in Damages
  PROVE  unit \in Unit /\ unit[1] # "checksum"
<1>1. CASE unit \in {<<"junk">>, <<"null">>}
  <2>1. unit[1] # "checksum"
    BY <1>1
  <2> QED
    BY <1>1, <2>1, NullIsUnit
<1>2. CASE \E n \in 0 .. MaxRecord + 1 : unit = <<"cell", n>>
  <2>1. PICK n \in 0 .. MaxRecord + 1 : unit = <<"cell", n>>
    BY <1>2
  <2>2. n \in Nat
    BY <2>1, Numbers
  <2>3. unit \in HeaderUnit /\ unit[1] = "cell"
    BY <2>1, <2>2 DEF HeaderUnit
  <2> QED
    BY <2>3 DEF Unit
<1>3. CASE \E g \in 0 .. MaxGeneration : unit = <<"generation", g>>
  <2>1. PICK g \in 0 .. MaxGeneration : unit = <<"generation", g>>
    BY <1>3
  <2>2. g \in Nat
    BY <2>1, Numbers
  <2>3. unit \in NumberUnit /\ unit[1] = "generation"
    BY <2>1, <2>2 DEF NumberUnit
  <2> QED
    BY <2>3 DEF Unit
<1>4. CASE \E e \in Entry : unit = <<"entry", e, 1>>
  <2>1. PICK e \in Entry : unit = <<"entry", e, 1>>
    BY <1>4
  <2>2. unit \in PayloadUnit /\ unit[1] = "entry"
    BY <2>1 DEF PayloadUnit
  <2> QED
    BY <2>2 DEF Unit
<1> QED
  BY <1>1, <1>2, <1>3, <1>4 DEF Damages

LEMMA DamageKeeps ==
  ASSUME SInv, NEW n \in DOMAIN memory, NEW unit \in Damages, Damage(n, unit)
  PROVE  SInv'
<1>1. /\ pc = "idle" /\ ~ damaged /\ memory' = [memory EXCEPT ![n] = unit] /\ damaged' = TRUE
      /\ pc' = pc /\ ledger' = ledger /\ todo' = todo /\ buffer' = buffer /\ at' = at
      /\ published' = published /\ pending' = pending /\ refused' = refused
  BY DEF Damage, encoding
<1>2. unit \in Unit /\ unit[1] # "checksum"
  BY DamagesAreUnits
<1>3. memory \in Seq(Unit) /\ memory # <<>>
  <2>1. memory \in Seq(Unit)
    BY DEF SInv, Typed
  <2> QED
    BY <2>1
<1>4. /\ memory' \in Seq(Unit) /\ DOMAIN memory' = DOMAIN memory
      /\ memory'[n] = unit /\ \A k \in DOMAIN memory : k # n => memory'[k] = memory[k]
  <2>1. memory' \in Seq(Unit)
    BY <1>1, <1>2, <1>3
  <2> QED
    BY <1>1, <2>1
<1>5. memory' # <<>>
  BY <1>4
<1>6. HasChecksum' => HasChecksum /\ memory'[4] = memory[4]
  BY <1>2, <1>4 DEF HasChecksum
<1>7. Typed'
  BY <1>1, <1>4 DEF SInv, Typed
<1>8. LedgersInv' /\ BufferInv' /\ EncodeInv'
  BY <1>1 DEF SInv, IInv, LedgersInv, BufferInv, EncodeInv
<1>9. CellInv'
  BY <1>1 DEF SInv, IInv, CellInv
<1>10. RootInv'
  BY <1>1, <1>5, <1>6 DEF SInv, IInv, RootInv
<1>11. ChecksumInv'
  BY <1>1, <1>6 DEF SInv, IInv, ChecksumInv
<1>12. BegunInv'
  <2>1. SUFFICES ASSUME published # Genesis \/ HasChecksum
                 PROVE  ~ (RootHeader' /\ RootValue')
    BY <1>1, <1>6 DEF BegunInv
  <2>2. ~ RootHeader /\ ~ RootValue
    BY <1>1, <2>1 DEF SInv, IInv, BegunInv
  <2>3. CASE n = 1
    BY <1>4, <2>2, <2>3 DEF RootValue
  <2>4. CASE n # 1
    BY <1>4, <2>2, <2>4 DEF RootHeader
  <2> QED
    BY <2>3, <2>4
<1>13. IntactInv'
  BY <1>1 DEF IntactInv
<1> QED
  BY <1>7, <1>8, <1>9, <1>10, <1>11, <1>12, <1>13 DEF SInv, IInv

LEMMA NextKeeps ==
  ASSUME SInv, [Next]_vars
  PROVE  SInv'
<1>1. CASE UNCHANGED vars
  BY <1>1, StutterKeeps
<1>2. CASE WriteRootCell
  BY <1>2, WriteRootCellKeeps
<1>3. ASSUME NEW entries \in SUBSET Entry, CommitGeneration(entries) PROVE SInv'
  BY <1>3, CommitGenerationKeeps
<1>4. CASE WriteAll
  BY <1>4, WriteAllKeeps
<1>5. CASE CommitPayload
  BY <1>5, CommitPayloadKeeps
<1>6. CASE GrowCell
  BY <1>6, GrowCellKeeps
<1>7. CASE WriteHeader
  BY <1>7, WriteHeaderKeeps
<1>8. CASE WriteUnit
  BY <1>8, WriteUnitKeeps
<1>9. CASE Publish
  BY <1>9, PublishKeeps
<1>10. CASE Crash
  BY <1>10, CrashKeeps
<1>11. ASSUME NEW n \in DOMAIN memory, NEW unit \in Damages, Damage(n, unit) PROVE SInv'
  BY <1>11, DamageKeeps
<1> QED
  BY <1>1, <1>2, <1>3, <1>4, <1>5, <1>6, <1>7, <1>8, <1>9, <1>10, <1>11 DEF Next

-----------------------------------------------------------------------------
(***************************************************************************)
(* The theorems.                                                           *)
(***************************************************************************)
\* The invariant holds, for every set of entries, bound and page size: through
\* encoding, growth, writing in any part, damage of a unit and the end of the
\* process after any step.
THEOREM InductiveInvariant == Spec => [](Typed /\ IInv)
<1>1. Init => SInv
  BY InitSInv
<1>2. SInv /\ [Next]_vars => SInv'
  BY NextKeeps
<1> QED
  BY <1>1, <1>2, PTL DEF Spec, SInv

\* Recovery yields the ledger last published or the one whose writing has
\* begun, or an error, and what was published when no write was begun; a
\* ledger is refused for its size exactly when it is too long.
THEOREM PublicationExact == Spec => []PublicationIsExact
<1>1. Spec => []SInv
  BY InductiveInvariant, PTL DEF SInv
<1>2. SInv => PublicationIsExact
  BY InvariantImplies
<1> QED
  BY <1>1, <1>2, PTL

=============================================================================
