------------------------ MODULE CborPreflight_proofs ------------------------
(***************************************************************************)
(* Theorems about CborPreflight, for every set of bytes and every bound on *)
(* a record, its payload, its texts, its nesting and its entries.          *)
(***************************************************************************)
EXTENDS CborPreflight, NaturalsInduction, SequenceTheorems, WellFoundedInduction, TLAPS

\* Every nonempty set of naturals has a least element.
LEMMA LeastElement ==
  ASSUME NEW S \in SUBSET Nat, S # {}
  PROVE  \E m \in S : \A c \in S : ~ (c < m)
<1>1. IsWellFoundedOn(OpToRel(<, Nat), Nat)
  BY NatLessThanWellFounded
<1>2. PICK m \in S : \A c \in S : <<c, m>> \notin OpToRel(<, Nat)
  BY <1>1, WFMin
<1>3. QED
  BY <1>2 DEF OpToRel

-----------------------------------------------------------------------------
(***************************************************************************)
(* The head of a value.                                                    *)
(***************************************************************************)
Octet == 0 .. 255

Octets == Seq(Octet)

\* One more byte of a number.
Digits(s, p, x, n) == 256 * x + s[p + n]

\* The function that Argument computes with, over the first w bytes.
Counts(f, s, p, w) == f = [n \in 0 .. w |-> IF n = 0 THEN 0 ELSE Digits(s, p, f[n - 1], n)]

\* It exists.
LEMMA CountsExists ==
  ASSUME NEW s, NEW p, NEW w \in Nat
  PROVE  \E f : Counts(f, s, p, w)
<1> DEFINE Wrong == { k \in Nat : ~ \E f : Counts(f, s, p, k) }
<1>1. SUFFICES ASSUME Wrong # {} PROVE FALSE
  OBVIOUS
<1>2. PICK k \in Wrong : \A j \in Wrong : ~ (j < k)
  <2> Wrong \in SUBSET Nat
    OBVIOUS
  <2> HIDE DEF Wrong
  <2> QED
    BY <1>1, LeastElement
<1>3. k \in Nat /\ ~ \E f : Counts(f, s, p, k)
  OBVIOUS
<1>4. CASE k = 0
  <2>1. Counts([n \in 0 .. 0 |-> 0], s, p, 0)
    BY DEF Counts
  <2> QED
    BY <1>3, <1>4, <2>1
<1>5. CASE k # 0
  <2>1. k - 1 \in Nat /\ k - 1 < k
    BY <1>3, <1>5
  <2>2. PICK f : Counts(f, s, p, k - 1)
    BY <1>2, <2>1
  <2> DEFINE last == Digits(s, p, f[k - 1], k)
             g == [n \in 0 .. k |-> IF n = k THEN last ELSE f[n]]
  <2>3. \A n \in 0 .. k : g[n] = IF n = 0 THEN 0 ELSE Digits(s, p, g[n - 1], n)
    <3>1. SUFFICES ASSUME NEW n \in 0 .. k
                   PROVE  g[n] = IF n = 0 THEN 0 ELSE Digits(s, p, g[n - 1], n)
      OBVIOUS
    <3>2. n # 0 => n - 1 \in 0 .. k /\ n - 1 # k
      BY <1>3
    <3>3. n # 0 => g[n - 1] = f[n - 1]
      BY <3>2
    <3>4. CASE n = k
      <4>1. g[n] = last /\ n # 0
        BY <1>5, <3>4
      <4> QED
        BY <3>3, <3>4, <4>1
    <3>5. CASE n # k
      <4>1. n \in 0 .. k - 1
        BY <1>3, <3>5
      <4>2. f[n] = IF n = 0 THEN 0 ELSE Digits(s, p, f[n - 1], n)
        <5>1. \A i \in 0 .. k - 1 : f[i] = IF i = 0 THEN 0 ELSE Digits(s, p, f[i - 1], i)
          BY <2>2, Zenon DEF Counts
        <5> QED
          BY <4>1, <5>1, Zenon
      <4> QED
        BY <3>3, <3>5, <4>2
    <3> QED
      BY <3>4, <3>5
  <2>4. g = [n \in 0 .. k |-> g[n]]
    OBVIOUS
  <2> HIDE DEF g
  <2>5. Counts(g, s, p, k)
    BY <2>3, <2>4 DEF Counts
  <2> QED
    BY <1>3, <2>5
<1> QED
  BY <1>4, <1>5

\* Bytes make naturals.
LEMMA CountsType ==
  ASSUME NEW s \in Octets, NEW p \in Nat, NEW w \in Nat, NEW f, Counts(f, s, p, w), p + w <= Len(s)
  PROVE  f[w] \in Nat
<1> DEFINE Wrong == { n \in 0 .. w : f[n] \notin Nat }
<1>1. SUFFICES ASSUME Wrong # {} PROVE FALSE
  OBVIOUS
<1>2. PICK n \in Wrong : \A j \in Wrong : ~ (j < n)
  <2> Wrong \in SUBSET Nat
    OBVIOUS
  <2> HIDE DEF Wrong
  <2> QED
    BY <1>1, LeastElement
<1>3. n \in 0 .. w /\ f[n] \notin Nat
  OBVIOUS
<1>4. f[n] = IF n = 0 THEN 0 ELSE Digits(s, p, f[n - 1], n)
  <2>1. \A i \in 0 .. w : f[i] = IF i = 0 THEN 0 ELSE Digits(s, p, f[i - 1], i)
    BY Zenon DEF Counts
  <2> QED
    BY <1>3, <2>1, Zenon
<1>5. n # 0
  BY <1>3, <1>4
<1>6. n - 1 \in 0 .. w /\ n - 1 < n /\ p + n \in 1 .. Len(s)
  BY <1>3, <1>5 DEF Octets
<1>7. f[n - 1] \in Nat
  BY <1>2, <1>6
<1>8. s[p + n] \in 0 .. 255
  <2>1. s[p + n] \in Octet
    BY <1>6 DEF Octets
  <2> QED
    BY <2>1 DEF Octet
<1>9. \A a \in Nat : \A b \in 0 .. 255 : 256 * a + b \in Nat
  OBVIOUS
<1> QED
  BY <1>3, <1>4, <1>5, <1>7, <1>8, <1>9 DEF Digits

\* What a head says, and that its numbers are naturals.
LEMMA HeadIs ==
  ASSUME NEW s \in Octets, NEW p \in 1 .. Len(s), HeadIsWhole(s, p)
  PROVE  /\ Width(s, p) \in Nat /\ p + Width(s, p) <= Len(s)
         /\ Argument(s, p) \in Nat /\ Children(s, p) \in Nat /\ StringLength(s, p) \in Nat
         /\ Major(s, p) \in 0 .. 7
         /\ Major(s, p) \in {2, 3} => Children(s, p) = 0 /\ StringLength(s, p) = Argument(s, p)
         /\ Major(s, p) \notin {2, 3} => StringLength(s, p) = 0
<1>1. s[p] \in 0 .. 255
  <2>1. s[p] \in Octet
    BY DEF Octets
  <2> QED
    BY <2>1 DEF Octet
<1>2. Major(s, p) \in 0 .. 7 /\ Info(s, p) \in 0 .. 31
  <2>1. \A b \in 0 .. 255 : b \div 32 \in 0 .. 7 /\ b % 32 \in 0 .. 31
    OBVIOUS
  <2> QED
    BY <1>1, <2>1, Zenon DEF Major, Info
<1>3. Info(s, p) <= 27 /\ p + Width(s, p) <= Len(s)
  BY DEF HeadIsWhole
<1>4. Width(s, p) \in {0, 1, 2, 4, 8}
  <2>1. CASE Info(s, p) < 24
    BY <2>1 DEF Width
  <2>2. CASE ~ Info(s, p) < 24
    <3>1. Info(s, p) - 23 \in 1 .. 4
      <4>1. \A i \in 0 .. 31 : i <= 27 /\ ~ i < 24 => i - 23 \in 1 .. 4
        OBVIOUS
      <4> QED
        BY <1>2, <1>3, <2>2, <4>1, Zenon
    <3>2. \A i \in 1 .. 4 : <<1, 2, 4, 8>>[i] \in {0, 1, 2, 4, 8}
      <4>1. \A i \in 1 .. 4 : i = 1 \/ i = 2 \/ i = 3 \/ i = 4
        OBVIOUS
      <4> QED
        BY <4>1
    <3> QED
      BY <2>2, <3>1, <3>2 DEF Width
  <2> QED
    BY <2>1, <2>2
<1>5. Argument(s, p) \in Nat
  <2> DEFINE w == Width(s, p)
             number == CHOOSE f : f = [n \in 0 .. w |-> IF n = 0 THEN 0 ELSE Digits(s, p, f[n - 1], n)]
  <2>1. Argument(s, p) = IF w = 0 THEN Info(s, p) ELSE number[w]
    BY DEF Argument, Digits
  <2>2. w \in Nat /\ p \in Nat /\ p + w <= Len(s)
    BY <1>3, <1>4 DEF Octets
  <2> HIDE DEF w
  <2>3. Counts(number, s, p, w)
    <3>1. \E f : f = [n \in 0 .. w |-> IF n = 0 THEN 0 ELSE Digits(s, p, f[n - 1], n)]
      <4>1. PICK f : Counts(f, s, p, w)
        BY <2>2, CountsExists
      <4> QED
        BY <4>1, Zenon DEF Counts
    <3>2. number = [n \in 0 .. w |-> IF n = 0 THEN 0 ELSE Digits(s, p, number[n - 1], n)]
      BY <3>1, Zenon
    <3> QED
      BY <3>2, Zenon DEF Counts
  <2> HIDE DEF number
  <2>4. number[w] \in Nat
    BY <2>2, <2>3, CountsType
  <2> QED
    <3>1. Info(s, p) \in Nat
      <4>1. \A b \in 0 .. 31 : b \in Nat
        OBVIOUS
      <4> QED
        BY <1>2, <4>1, Zenon
    <3> QED
      BY <2>1, <2>4, <3>1, Zenon
<1>6. Children(s, p) \in Nat /\ (Major(s, p) \in {2, 3} => Children(s, p) = 0)
  BY <1>2, <1>5 DEF Children
<1>7. /\ StringLength(s, p) \in Nat
      /\ Major(s, p) \in {2, 3} => StringLength(s, p) = Argument(s, p)
      /\ Major(s, p) \notin {2, 3} => StringLength(s, p) = 0
  BY <1>5 DEF StringLength
<1> QED
  BY <1>2, <1>3, <1>4, <1>5, <1>6, <1>7

-----------------------------------------------------------------------------
(***************************************************************************)
(* Values within values.                                                   *)
(***************************************************************************)
\* The function that Levels is, up to n.
Climbs(f, s, n) == f = [k \in 0 .. n |-> IF k = 0 THEN {} ELSE ValuesOf(s, f[k - 1])]

\* It exists.
LEMMA ClimbsExists ==
  ASSUME NEW s, NEW n \in Nat
  PROVE  \E f : Climbs(f, s, n)
<1> DEFINE Wrong == { k \in Nat : ~ \E f : Climbs(f, s, k) }
<1>1. SUFFICES ASSUME Wrong # {} PROVE FALSE
  OBVIOUS
<1>2. PICK k \in Wrong : \A j \in Wrong : ~ (j < k)
  <2> Wrong \in SUBSET Nat
    OBVIOUS
  <2> HIDE DEF Wrong
  <2> QED
    BY <1>1, LeastElement
<1>3. k \in Nat /\ ~ \E f : Climbs(f, s, k)
  OBVIOUS
<1>4. CASE k = 0
  <2>1. Climbs([m \in 0 .. 0 |-> {}], s, 0)
    BY DEF Climbs
  <2> QED
    BY <1>3, <1>4, <2>1
<1>5. CASE k # 0
  <2>1. k - 1 \in Nat /\ k - 1 < k
    BY <1>3, <1>5
  <2>2. PICK f : Climbs(f, s, k - 1)
    BY <1>2, <2>1
  <2> DEFINE last == ValuesOf(s, f[k - 1])
             g == [m \in 0 .. k |-> IF m = k THEN last ELSE f[m]]
  <2>3. \A m \in 0 .. k : g[m] = IF m = 0 THEN {} ELSE ValuesOf(s, g[m - 1])
    <3>1. SUFFICES ASSUME NEW m \in 0 .. k
                   PROVE  g[m] = IF m = 0 THEN {} ELSE ValuesOf(s, g[m - 1])
      OBVIOUS
    <3>2. m # 0 => m - 1 \in 0 .. k /\ m - 1 # k
      BY <1>3
    <3>3. m # 0 => g[m - 1] = f[m - 1]
      BY <3>2
    <3>4. CASE m = k
      <4>1. g[m] = last /\ m # 0
        BY <1>5, <3>4
      <4> QED
        BY <3>3, <3>4, <4>1
    <3>5. CASE m # k
      <4>1. m \in 0 .. k - 1
        BY <1>3, <3>5
      <4>2. f[m] = IF m = 0 THEN {} ELSE ValuesOf(s, f[m - 1])
        <5>1. \A i \in 0 .. k - 1 : f[i] = IF i = 0 THEN {} ELSE ValuesOf(s, f[i - 1])
          BY <2>2, Zenon DEF Climbs
        <5> QED
          BY <4>1, <5>1, Zenon
      <4> QED
        BY <3>3, <3>5, <4>2
    <3> QED
      BY <3>4, <3>5
  <2>4. g = [m \in 0 .. k |-> g[m]]
    OBVIOUS
  <2> HIDE DEF g
  <2>5. Climbs(g, s, k)
    BY <2>3, <2>4 DEF Climbs
  <2> QED
    BY <1>3, <2>5
<1> QED
  BY <1>4, <1>5

\* What Levels holds: nothing, and then values over the level before.
LEMMA LevelsIs ==
  ASSUME NEW s
  PROVE  /\ Levels(s)[0] = {}
         /\ \A k \in 1 .. MaxNesting + 1 : Levels(s)[k] = ValuesOf(s, Levels(s)[k - 1])
         /\ \A k \in 0 .. MaxNesting + 1 : Levels(s)[k] \subseteq Spans(s)
<1> DEFINE n == MaxNesting + 1
           values == CHOOSE f : f = [k \in 0 .. n |-> IF k = 0 THEN {} ELSE ValuesOf(s, f[k - 1])]
<1>1. Levels(s) = values
  BY DEF Levels
<1>2. n \in Nat
  BY CborAssumption
<1> HIDE DEF n
<1>3. \E f : f = [k \in 0 .. n |-> IF k = 0 THEN {} ELSE ValuesOf(s, f[k - 1])]
  <2>1. PICK f : Climbs(f, s, n)
    BY <1>2, ClimbsExists
  <2> QED
    BY <2>1, Zenon DEF Climbs
<1>4. values = [k \in 0 .. n |-> IF k = 0 THEN {} ELSE ValuesOf(s, values[k - 1])]
  BY <1>3, Zenon
<1> HIDE DEF values
<1>5. \A k \in 0 .. n : values[k] = IF k = 0 THEN {} ELSE ValuesOf(s, values[k - 1])
  BY <1>4, Zenon
<1>6. values[0] = {}
  BY <1>2, <1>5
<1>7. \A k \in 1 .. n : values[k] = ValuesOf(s, values[k - 1])
  BY <1>2, <1>5
<1>8. \A parts : ValuesOf(s, parts) \subseteq Spans(s)
  BY DEF ValuesOf
<1>9. \A k \in 0 .. n : values[k] \subseteq Spans(s)
  <2>1. \A k \in 0 .. n : k = 0 \/ k \in 1 .. n
    BY <1>2
  <2> QED
    BY <1>6, <1>7, <1>8, <2>1
<1> QED
  BY <1>1, <1>6, <1>7, <1>9 DEF n

-----------------------------------------------------------------------------
(***************************************************************************)
(* Rows of values.                                                         *)
(***************************************************************************)
\* None of them take no byte.
LEMMA RowNone ==
  ASSUME NEW s \in Octets, NEW a \in 0 .. Len(s), NEW b, NEW parts
  PROVE  Row(s, 0, a, b, parts) <=> a = b
<1>1. Len(s) \in Nat
  BY DEF Octets
<1>2. ASSUME a = b PROVE Row(s, 0, a, b, parts)
  <2> DEFINE cut == [i \in 0 .. 0 |-> a]
  <2>1. cut \in [0 .. 0 -> 0 .. Len(s)] /\ cut[0] = a /\ \A k \in 1 .. 0 : FALSE
    OBVIOUS
  <2> QED
    BY <1>2, <2>1, Zenon DEF Row
<1>3. ASSUME Row(s, 0, a, b, parts) PROVE a = b
  BY <1>3 DEF Row
<1> QED
  BY <1>2, <1>3

\* One more begins with the first.
LEMMA RowMore ==
  ASSUME NEW s \in Octets, NEW n \in Nat, n # 0, NEW a, NEW b, NEW parts \in SUBSET Spans(s)
  PROVE  Row(s, n, a, b, parts) <=> \E e : <<a, e>> \in parts /\ Row(s, n - 1, e, b, parts)
<1>1. Len(s) \in Nat
  BY DEF Octets
<1>2. ASSUME Row(s, n, a, b, parts)
      PROVE  \E e : <<a, e>> \in parts /\ Row(s, n - 1, e, b, parts)
  <2>1. PICK cut \in [0 .. n -> 0 .. Len(s)] :
          cut[0] = a /\ cut[n] = b /\ \A k \in 1 .. n : <<cut[k - 1], cut[k]>> \in parts
    BY <1>2, Zenon DEF Row
  <2> DEFINE rest == [i \in 0 .. n - 1 |-> cut[i + 1]]
  <2>2. \A i \in 0 .. n - 1 : i + 1 \in 0 .. n /\ cut[i + 1] \in 0 .. Len(s)
    OBVIOUS
  <2>3. rest \in [0 .. n - 1 -> 0 .. Len(s)] /\ rest[0] = cut[1] /\ rest[n - 1] = b
    <3>1. 0 \in 0 .. n - 1 /\ n - 1 \in 0 .. n - 1 /\ 0 + 1 = 1 /\ n - 1 + 1 = n
      OBVIOUS
    <3> QED
      BY <2>1, <2>2, <3>1
  <2>4. ASSUME NEW k \in 1 .. n - 1 PROVE <<rest[k - 1], rest[k]>> \in parts
    <3>1. k - 1 \in 0 .. n - 1 /\ k \in 0 .. n - 1 /\ k + 1 \in 1 .. n /\ k - 1 + 1 = k /\ k + 1 - 1 = k
      OBVIOUS
    <3>2. rest[k - 1] = cut[k] /\ rest[k] = cut[k + 1]
      BY <3>1
    <3>3. \A i \in 1 .. n : \A j : i - 1 = j => <<cut[j], cut[i]>> \in parts
      BY <2>1
    <3>4. <<cut[k], cut[k + 1]>> \in parts
      <4> DEFINE i == k + 1
      <4>1. i \in 1 .. n /\ i - 1 = k
        OBVIOUS
      <4> HIDE DEF i
      <4>2. <<cut[k], cut[i]>> \in parts
        BY <3>3, <4>1, Zenon
      <4> QED
        BY <4>2 DEF i
    <3> QED
      BY <3>2, <3>4, Zenon
  <2> HIDE DEF rest
  <2>5. Row(s, n - 1, cut[1], b, parts)
    BY <2>3, <2>4, Zenon DEF Row
  <2>6. <<a, cut[1]>> \in parts
    <3>1. 1 \in 1 .. n /\ 1 - 1 = 0
      OBVIOUS
    <3>2. <<cut[1 - 1], cut[1]>> \in parts
      BY <2>1, <3>1, Zenon
    <3> QED
      BY <2>1, <3>1, <3>2, Zenon
  <2> QED
    BY <2>5, <2>6
<1>3. ASSUME NEW e, <<a, e>> \in parts, Row(s, n - 1, e, b, parts)
      PROVE  Row(s, n, a, b, parts)
  <2>1. PICK rest \in [0 .. n - 1 -> 0 .. Len(s)] :
          rest[0] = e /\ rest[n - 1] = b /\ \A k \in 1 .. n - 1 : <<rest[k - 1], rest[k]>> \in parts
    BY <1>3, Zenon DEF Row
  <2> DEFINE cut == [i \in 0 .. n |-> IF i = 0 THEN a ELSE rest[i - 1]]
  <2>2. a \in 0 .. Len(s)
    BY <1>3 DEF Spans
  <2>3. \A i \in 1 .. n : i - 1 \in 0 .. n - 1 /\ rest[i - 1] \in 0 .. Len(s) /\ cut[i] = rest[i - 1]
    OBVIOUS
  <2>4. \A i \in 0 .. n : cut[i] \in 0 .. Len(s)
    <3>1. \A i \in 0 .. n : i = 0 \/ i \in 1 .. n
      OBVIOUS
    <3> QED
      BY <2>2, <2>3, <3>1
  <2>5. cut \in [0 .. n -> 0 .. Len(s)] /\ cut[0] = a /\ cut[n] = b
    <3>1. n \in 1 .. n /\ 0 \in 0 .. n
      OBVIOUS
    <3>2. cut[n] = b
      BY <2>1, <2>3, <3>1, Zenon
    <3> QED
      BY <2>4, <3>1, <3>2
  <2>6. ASSUME NEW k \in 1 .. n PROVE <<cut[k - 1], cut[k]>> \in parts
    <3>1. cut[k] = rest[k - 1]
      BY <2>3
    <3>2. CASE k = 1
      <4>1. k - 1 = 0 /\ cut[0] = a
        BY <3>2
      <4> QED
        BY <1>3, <2>1, <3>1, <4>1, Zenon
    <3>3. CASE k # 1
      <4>1. k - 1 \in 1 .. n - 1 /\ k - 1 \in 1 .. n
        BY <3>3
      <4>2. cut[k - 1] = rest[k - 1 - 1]
        BY <2>3, <4>1, Zenon
      <4>3. <<rest[k - 1 - 1], rest[k - 1]>> \in parts
        BY <2>1, <4>1, Zenon
      <4> QED
        BY <3>1, <4>2, <4>3, Zenon
    <3> QED
      BY <3>2, <3>3
  <2> HIDE DEF cut
  <2> QED
    BY <2>5, <2>6, Zenon DEF Row
<1> QED
  BY <1>2, <1>3

\* Every value takes a byte.
LEMMA RowLength ==
  ASSUME NEW s \in Octets, NEW parts \in SUBSET Spans(s)
  PROVE  \A n \in Nat : \A a, b : Row(s, n, a, b, parts) => a \in Nat /\ b \in 0 .. Len(s) /\ a + n <= b
<1> DEFINE Fits(n) == \A a, b : Row(s, n, a, b, parts) => a \in Nat /\ b \in 0 .. Len(s) /\ a + n <= b
           Wrong == { n \in Nat : ~ Fits(n) }
<1>1. SUFFICES ASSUME Wrong # {} PROVE FALSE
  OBVIOUS
<1>2. PICK n \in Wrong : \A j \in Wrong : ~ (j < n)
  <2> Wrong \in SUBSET Nat
    OBVIOUS
  <2> HIDE DEF Wrong
  <2> QED
    BY <1>1, LeastElement
<1>3. n \in Nat /\ ~ Fits(n) /\ \A j \in Nat : j < n => Fits(j)
  BY <1>2
<1> HIDE DEF Wrong
<1>4. PICK a, b : Row(s, n, a, b, parts) /\ ~ (a \in Nat /\ b \in 0 .. Len(s) /\ a + n <= b)
  BY <1>3
<1>5. CASE n = 0
  <2>1. PICK cut \in [0 .. n -> 0 .. Len(s)] : cut[0] = a /\ cut[n] = b
    BY <1>4 DEF Row
  <2>2. a \in 0 .. Len(s)
    BY <1>5, <2>1
  <2>3. a = b
    BY <1>5, <2>1
  <2> QED
    BY <1>4, <1>5, <2>2, <2>3
<1>6. CASE n # 0
  <2>1. PICK e : <<a, e>> \in parts /\ Row(s, n - 1, e, b, parts)
    BY <1>3, <1>4, <1>6, RowMore
  <2>2. e \in Nat /\ b \in 0 .. Len(s) /\ e + (n - 1) <= b
    <3>1. n - 1 \in Nat /\ n - 1 < n
      BY <1>3, <1>6
    <3> QED
      BY <1>3, <2>1, <3>1
  <2>3. a \in Nat /\ a < e
    BY <2>1 DEF Spans
  <2> QED
    BY <1>3, <1>4, <2>2, <2>3
<1> QED
  BY <1>5, <1>6

\* A value at p is its head, and its entries behind head and string.
Behind(s, p) == p + 1 + Width(s, p + 1) + StringLength(s, p + 1)

Opens(s, p) ==
  /\ HeadIsWhole(s, p + 1) /\ StringIsBounded(s, p + 1)
  /\ Behind(s, p) <= Len(s)

\* What an opened head leaves to be read.
LEMMA OpensIs ==
  ASSUME NEW s \in Octets, NEW p \in 0 .. Len(s), HeadIsWhole(s, p + 1)
  PROVE  /\ Len(s) \in Nat /\ p + 1 \in 1 .. Len(s)
         /\ Behind(s, p) \in Nat /\ p < Behind(s, p)
         /\ Children(s, p + 1) \in Nat
<1>1. Len(s) \in Nat
  BY DEF Octets
<1>2. p + 1 \in 1 .. Len(s)
  BY <1>1 DEF HeadIsWhole
<1> DEFINE h == p + 1
<1>3. h \in 1 .. Len(s) /\ HeadIsWhole(s, h)
  BY <1>2
<1> HIDE DEF h
<1>4. Width(s, h) \in Nat /\ StringLength(s, h) \in Nat /\ Children(s, h) \in Nat
  BY <1>3, HeadIs
<1>5. \A w, l \in Nat : p + 1 + w + l \in Nat /\ p < p + 1 + w + l
  OBVIOUS
<1>6. Behind(s, p) = p + 1 + Width(s, h) + StringLength(s, h)
  BY DEF Behind, h
<1>7. Behind(s, p) \in Nat /\ p < Behind(s, p)
  BY <1>4, <1>5, <1>6, Zenon
<1> QED
  BY <1>1, <1>2, <1>4, <1>7 DEF h

\* A value, by its head and its entries.
LEMMA ValueIs ==
  ASSUME NEW s \in Octets, NEW p \in 0 .. Len(s), NEW e, NEW parts \in SUBSET Spans(s)
  PROVE  <<p, e>> \in ValuesOf(s, parts)
           <=> Opens(s, p) /\ Row(s, Children(s, p + 1), Behind(s, p), e, parts)
<1> DEFINE h == p + 1
           body == h + Width(s, h)
           c == Children(s, h)
           Formed == /\ HeadIsWhole(s, h) /\ body <= e
                     /\ StringIsBounded(s, h)
                     /\ IF Major(s, h) \in {2, 3} THEN e = body + Argument(s, h)
                        ELSE c <= e - body /\ Row(s, c, body, e, parts)
<1>1. <<p, e>> \in ValuesOf(s, parts) <=> <<p, e>> \in Spans(s) /\ Formed
  <2>1. <<p, e>>[1] = p /\ <<p, e>>[2] = e
    OBVIOUS
  <2> QED
    BY <2>1 DEF ValuesOf
<1>2. <<p, e>> \in Spans(s) <=> e \in 0 .. Len(s) /\ p < e
  BY DEF Spans
<1>3. Len(s) \in Nat
  BY DEF Octets
<1> SUFFICES ASSUME HeadIsWhole(s, h)
             PROVE  <<p, e>> \in Spans(s) /\ Formed
                      <=> Opens(s, p) /\ Row(s, c, Behind(s, p), e, parts)
  BY <1>1 DEF Opens
<1>4. h \in 1 .. Len(s) /\ h \in Nat /\ p < h
  BY <1>3, OpensIs
<1> HIDE DEF h
<1>5. /\ Width(s, h) \in Nat /\ h + Width(s, h) <= Len(s)
      /\ Argument(s, h) \in Nat /\ c \in Nat
      /\ Major(s, h) \in {2, 3} => c = 0 /\ StringLength(s, h) = Argument(s, h)
      /\ Major(s, h) \notin {2, 3} => StringLength(s, h) = 0
  BY <1>4, HeadIs
<1>6. Behind(s, p) = body + StringLength(s, h)
  BY DEF Behind, h
<1>7. body \in Nat /\ h <= body /\ body <= Len(s)
  BY <1>4, <1>5
<1>8. Opens(s, p) <=> StringIsBounded(s, h) /\ Behind(s, p) <= Len(s)
  BY DEF Opens, h
<1> HIDE DEF body, c
<1>9. CASE Major(s, h) \in {2, 3}
  <2> DEFINE next == body + Argument(s, h)
  <2>1. next \in Nat /\ body <= next /\ p < next
    BY <1>4, <1>5, <1>7
  <2>2. Behind(s, p) = next /\ c = 0
    BY <1>5, <1>6, <1>9
  <2>3. next <= Len(s) => (Row(s, 0, next, e, parts) <=> e = next)
    <3>1. next <= Len(s) => next \in 0 .. Len(s)
      BY <1>3, <2>1
    <3>2. next = e <=> e = next
      OBVIOUS
    <3> HIDE DEF next
    <3> QED
      BY <3>1, <3>2, RowNone
  <2> HIDE DEF next
  <2>4. Formed <=> body <= e /\ StringIsBounded(s, h) /\ e = next
    BY <1>9 DEF next
  <2>5. e = next => (e \in 0 .. Len(s) <=> next <= Len(s))
    BY <1>3, <2>1
  <2>6. e = next => p < e /\ body <= e
    BY <2>1
  <2> HIDE DEF Formed
  <2> QED
    BY <1>2, <1>8, <2>2, <2>3, <2>4, <2>5, <2>6
<1>10. CASE Major(s, h) \notin {2, 3}
  <2>1. Behind(s, p) = body
    BY <1>5, <1>6, <1>7, <1>10
  <2>2. Formed <=> body <= e /\ StringIsBounded(s, h) /\ c <= e - body /\ Row(s, c, body, e, parts)
    BY <1>10
  <2>3. Row(s, c, body, e, parts) => e \in 0 .. Len(s) /\ body + c <= e
    BY <1>5, RowLength
  <2>4. \A n \in Nat : e \in 0 .. Len(s) /\ body + n <= e => p < e /\ body <= e /\ n <= e - body
    BY <1>3, <1>4, <1>7
  <2>5. Row(s, c, body, e, parts) => e \in 0 .. Len(s) /\ p < e /\ body <= e /\ c <= e - body
    BY <1>5, <2>3, <2>4
  <2> HIDE DEF Formed
  <2> QED
    BY <1>2, <1>7, <1>8, <2>1, <2>2, <2>5
<1> QED
  BY <1>9, <1>10

-----------------------------------------------------------------------------
(***************************************************************************)
(* What the open containers still want.                                    *)
(***************************************************************************)
\* Nothing, at the end only.
LEMMA CompletesNone ==
  ASSUME NEW s \in Octets, NEW p \in 0 .. Len(s)
  PROVE  Completes(s, p, <<>>) <=> p = Len(s)
<1>1. Len(s) \in Nat /\ Len(<<>>) = 0
  BY DEF Octets
<1>2. ASSUME p = Len(s) PROVE Completes(s, p, <<>>)
  <2> DEFINE ends == [i \in 1 .. 0 + 1 |-> p]
  <2>1. ends \in [1 .. 0 + 1 -> 0 .. Len(s)] /\ ends[0 + 1] = p /\ ends[1] = p
    OBVIOUS
  <2>2. \A k \in 1 .. 0 : FALSE
    OBVIOUS
  <2> HIDE DEF ends
  <2> QED
    BY <1>1, <1>2, <2>1, <2>2, Zenon DEF Completes
<1>3. ASSUME Completes(s, p, <<>>) PROVE p = Len(s)
  <2>1. PICK ends : ends[0 + 1] = p /\ ends[1] = Len(s)
    BY <1>1, <1>3 DEF Completes
  <2> QED
    BY <2>1
<1> QED
  BY <1>2, <1>3

\* The innermost container first.
LEMMA CompletesMore ==
  ASSUME NEW s \in Octets, NEW wanted \in Seq(Nat), NEW n \in Nat, NEW p \in 0 .. Len(s)
  PROVE  Completes(s, p, Append(wanted, n))
           <=> \E e : /\ Row(s, n, p, e, Levels(s)[MaxNesting + 1 - Len(wanted)])
                      /\ Completes(s, e, wanted)
<1> DEFINE K == Len(wanted)
           more == Append(wanted, n)
           Part(k, a, b, m) == Row(s, m, a, b, Levels(s)[MaxNesting + 2 - k])
<1>1. /\ K \in Nat /\ Len(more) = K + 1 /\ more[K + 1] = n
      /\ \A k \in 1 .. K : more[k] = wanted[k]
  OBVIOUS
<1>2. \A q, w : Completes(s, q, w) <=>
        \E ends \in [1 .. Len(w) + 1 -> 0 .. Len(s)] :
          /\ ends[Len(w) + 1] = q /\ ends[1] = Len(s)
          /\ \A k \in 1 .. Len(w) : Part(k, ends[k + 1], ends[k], w[k])
  BY DEF Completes
<1>3. MaxNesting + 2 - (K + 1) = MaxNesting + 1 - K
  BY <1>1, CborAssumption
<1>4. \A a, b, m : Part(K + 1, a, b, m) <=> Row(s, m, a, b, Levels(s)[MaxNesting + 1 - K])
  BY <1>3
<1> HIDE DEF Part, K, more
<1>5. ASSUME Completes(s, p, more)
      PROVE  \E e : Part(K + 1, p, e, n) /\ Completes(s, e, wanted)
  <2>1. PICK ends \in [1 .. K + 1 + 1 -> 0 .. Len(s)] :
          /\ ends[K + 1 + 1] = p /\ ends[1] = Len(s)
          /\ \A k \in 1 .. K + 1 : Part(k, ends[k + 1], ends[k], more[k])
    <3>1. \E f \in [1 .. Len(more) + 1 -> 0 .. Len(s)] :
            /\ f[Len(more) + 1] = p /\ f[1] = Len(s)
            /\ \A k \in 1 .. Len(more) : Part(k, f[k + 1], f[k], more[k])
      BY <1>2, <1>5, Zenon
    <3>2. Len(more) = K + 1
      BY <1>1
    <3> QED
      BY <3>1, <3>2, Zenon
  <2> DEFINE fewer == [i \in 1 .. K + 1 |-> ends[i]]
  <2>2. \A i \in 1 .. K + 1 : i \in 1 .. K + 1 + 1 /\ fewer[i] = ends[i]
    BY <1>1
  <2>3. fewer \in [1 .. K + 1 -> 0 .. Len(s)]
    BY <2>2
  <2>4. fewer[K + 1] = ends[K + 1] /\ fewer[1] = Len(s) /\ K + 1 \in 1 .. K + 1
    BY <1>1, <2>1, <2>2
  <2>5. ASSUME NEW k \in 1 .. K PROVE Part(k, fewer[k + 1], fewer[k], wanted[k])
    <3>1. k \in 1 .. K + 1 /\ k + 1 \in 1 .. K + 1
      BY <1>1
    <3>2. fewer[k + 1] = ends[k + 1] /\ fewer[k] = ends[k] /\ more[k] = wanted[k]
      BY <1>1, <2>2, <3>1
    <3>3. Part(k, ends[k + 1], ends[k], more[k])
      BY <2>1, <3>1, Zenon
    <3> QED
      BY <3>2, <3>3, Zenon
  <2> HIDE DEF fewer
  <2>6. Completes(s, ends[K + 1], wanted)
    <3>1. \E f \in [1 .. Len(wanted) + 1 -> 0 .. Len(s)] :
            /\ f[Len(wanted) + 1] = ends[K + 1] /\ f[1] = Len(s)
            /\ \A k \in 1 .. Len(wanted) : Part(k, f[k + 1], f[k], wanted[k])
      BY <2>3, <2>4, <2>5, Zenon DEF K
    <3> QED
      BY <1>2, <3>1, Zenon
  <2>7. Part(K + 1, p, ends[K + 1], n)
    <3>1. Part(K + 1, ends[K + 1 + 1], ends[K + 1], more[K + 1])
      BY <2>1, <2>4, Zenon
    <3> QED
      BY <1>1, <2>1, <3>1, Zenon
  <2> QED
    BY <2>6, <2>7, Zenon
<1>6. ASSUME NEW e, Part(K + 1, p, e, n), Completes(s, e, wanted)
      PROVE  Completes(s, p, more)
  <2>1. PICK ends \in [1 .. K + 1 -> 0 .. Len(s)] :
          /\ ends[K + 1] = e /\ ends[1] = Len(s)
          /\ \A k \in 1 .. K : Part(k, ends[k + 1], ends[k], wanted[k])
    BY <1>2, <1>6, Zenon DEF K
  <2> DEFINE longer == [i \in 1 .. K + 1 + 1 |-> IF i = K + 1 + 1 THEN p ELSE ends[i]]
  <2>2. \A i \in 1 .. K + 1 : i \in 1 .. K + 1 + 1 /\ i # K + 1 + 1 /\ longer[i] = ends[i]
    BY <1>1
  <2>3. longer[K + 1 + 1] = p /\ 1 \in 1 .. K + 1 /\ K + 1 \in 1 .. K + 1
    BY <1>1
  <2>4. \A i \in 1 .. K + 1 + 1 : longer[i] \in 0 .. Len(s)
    <3>1. \A i \in 1 .. K + 1 + 1 : i = K + 1 + 1 \/ i \in 1 .. K + 1
      BY <1>1
    <3> QED
      BY <2>2, <2>3, <3>1
  <2>5. longer \in [1 .. K + 1 + 1 -> 0 .. Len(s)]
    <3>1. longer = [i \in 1 .. K + 1 + 1 |-> longer[i]]
      OBVIOUS
    <3> HIDE DEF longer
    <3> QED
      BY <2>4, <3>1
  <2>6. longer[1] = Len(s) /\ longer[K + 1] = e
    BY <2>1, <2>2, <2>3, Zenon
  <2> HIDE DEF longer
  <2>7. ASSUME NEW k \in 1 .. K + 1 PROVE Part(k, longer[k + 1], longer[k], more[k])
    <3>1. CASE k = K + 1
      BY <1>1, <1>6, <2>3, <2>6, <3>1, Zenon
    <3>2. CASE k # K + 1
      <4>1. k \in 1 .. K /\ k + 1 \in 1 .. K + 1
        BY <1>1, <3>2
      <4>2. longer[k + 1] = ends[k + 1] /\ longer[k] = ends[k] /\ more[k] = wanted[k]
        BY <1>1, <2>2, <4>1, Zenon
      <4>3. Part(k, ends[k + 1], ends[k], wanted[k])
        BY <2>1, <4>1, Zenon
      <4> QED
        BY <4>2, <4>3, Zenon
    <3> QED
      BY <3>1, <3>2
  <2>8. \E f \in [1 .. Len(more) + 1 -> 0 .. Len(s)] :
          /\ f[Len(more) + 1] = p /\ f[1] = Len(s)
          /\ \A k \in 1 .. Len(more) : Part(k, f[k + 1], f[k], more[k])
    BY <1>1, <2>3, <2>5, <2>6, <2>7, Zenon
  <2> QED
    BY <1>2, <2>8, Zenon
<1>7. Completes(s, p, more) <=> \E e : Part(K + 1, p, e, n) /\ Completes(s, e, wanted)
  BY <1>5, <1>6, Zenon
<1> QED
  BY <1>4, <1>7, Zenon DEF K, more


\* A value that is wanted is opened, and then its entries are wanted first.
LEMMA ValueStep ==
  ASSUME NEW s \in Octets, NEW wanted \in Seq(Nat), NEW n \in Nat, n # 0, NEW p \in 0 .. Len(s),
         Len(wanted) <= MaxNesting
  PROVE  Completes(s, p, Append(wanted, n))
           <=> /\ Opens(s, p)
               /\ Completes(s, Behind(s, p), Append(Append(wanted, n - 1), Children(s, p + 1)))
<1> DEFINE K == Len(wanted)
           outer == Levels(s)[MaxNesting + 1 - K]
           inner == Levels(s)[MaxNesting - K]
           fewer == Append(wanted, n - 1)
           c == Children(s, p + 1)
           next == Behind(s, p)
<1>1. K \in Nat /\ MaxNesting \in Nat /\ n - 1 \in Nat /\ Len(s) \in Nat
  BY CborAssumption DEF Octets
<1>2. outer = ValuesOf(s, inner) /\ outer \in SUBSET Spans(s) /\ inner \in SUBSET Spans(s)
  <2>1. MaxNesting + 1 - K \in 1 .. MaxNesting + 1 /\ MaxNesting + 1 - K - 1 = MaxNesting - K
        /\ MaxNesting + 1 - K \in 0 .. MaxNesting + 1 /\ MaxNesting - K \in 0 .. MaxNesting + 1
    BY <1>1
  <2>2. /\ \A k \in 1 .. MaxNesting + 1 : Levels(s)[k] = ValuesOf(s, Levels(s)[k - 1])
        /\ \A k \in 0 .. MaxNesting + 1 : Levels(s)[k] \subseteq Spans(s)
    BY LevelsIs, Zenon
  <2>3. \A k \in 1 .. MaxNesting + 1 : \A j : k - 1 = j => Levels(s)[k] = ValuesOf(s, Levels(s)[j])
    BY <2>2, Zenon
  <2>4. outer = ValuesOf(s, inner)
    <3> DEFINE i == MaxNesting + 1 - K
               j == MaxNesting - K
    <3>1. i \in 1 .. MaxNesting + 1 /\ i - 1 = j
      BY <1>1
    <3> HIDE DEF i, j
    <3>2. Levels(s)[i] = ValuesOf(s, Levels(s)[j])
      BY <2>3, <3>1, Zenon
    <3> QED
      BY <3>2 DEF i, j
  <2>5. outer \subseteq Spans(s) /\ inner \subseteq Spans(s)
    BY <2>1, <2>2, Zenon
  <2> QED
    BY <2>4, <2>5, Zenon
<1>3. fewer \in Seq(Nat) /\ Len(fewer) = K + 1 /\ MaxNesting + 1 - Len(fewer) = MaxNesting - K
  BY <1>1
<1>4. \A q \in 0 .. Len(s) : \A m \in Nat :
        Completes(s, q, Append(wanted, m)) <=> \E e : Row(s, m, q, e, outer) /\ Completes(s, e, wanted)
  BY CompletesMore, Zenon
<1>5. \A q \in 0 .. Len(s) : \A m \in Nat :
        Completes(s, q, Append(fewer, m)) <=> \E e : Row(s, m, q, e, inner) /\ Completes(s, e, fewer)
  <2>1. \A w \in Seq(Nat) : \A q \in 0 .. Len(s) : \A m \in Nat :
          Completes(s, q, Append(w, m)) <=> \E e : Row(s, m, q, e, Levels(s)[MaxNesting + 1 - Len(w)])
                                                   /\ Completes(s, e, w)
    BY CompletesMore
  <2> HIDE DEF fewer
  <2>2. \A q \in 0 .. Len(s) : \A m \in Nat :
          Completes(s, q, Append(fewer, m)) <=> \E e : Row(s, m, q, e, Levels(s)[MaxNesting + 1 - Len(fewer)])
                                                       /\ Completes(s, e, fewer)
    BY <1>3, <2>1, Zenon
  <2> QED
    BY <1>3, <2>2, Zenon
<1>6. \A e : Row(s, n, p, e, outer) <=> \E f : <<p, f>> \in outer /\ Row(s, n - 1, f, e, outer)
  BY <1>2, RowMore, Zenon
<1>7. \A f : <<p, f>> \in outer <=> Opens(s, p) /\ Row(s, c, next, f, inner)
  BY <1>2, ValueIs, Zenon
<1>8. \A f : <<p, f>> \in outer => f \in 0 .. Len(s)
  BY <1>2 DEF Spans
<1>9. Opens(s, p) => next \in 0 .. Len(s) /\ c \in Nat
  BY <1>1, OpensIs DEF Opens
<1> HIDE DEF outer, inner, fewer, c, next, K
<1>10. Completes(s, p, Append(wanted, n))
         <=> \E f : <<p, f>> \in outer /\ Completes(s, f, fewer)
  <2>1. \A f \in 0 .. Len(s) : Completes(s, f, fewer)
          <=> \E e : Row(s, n - 1, f, e, outer) /\ Completes(s, e, wanted)
    BY <1>1, <1>4, Zenon DEF fewer
  <2>2. Completes(s, p, Append(wanted, n)) <=> \E e : Row(s, n, p, e, outer) /\ Completes(s, e, wanted)
    BY <1>4, Zenon
  <2> QED
    BY <1>6, <1>8, <2>1, <2>2, Zenon
<1>11. Opens(s, p) => (Completes(s, next, Append(fewer, c))
                         <=> \E f : Row(s, c, next, f, inner) /\ Completes(s, f, fewer))
  BY <1>5, <1>9, Zenon
<1>12. Completes(s, p, Append(wanted, n)) <=> Opens(s, p) /\ Completes(s, next, Append(fewer, c))
  BY <1>7, <1>10, <1>11, Zenon
<1> QED
  BY <1>12, Zenon DEF next, fewer, c

\* A value below the last level completes nothing.
LEMMA TooDeep ==
  ASSUME NEW s \in Octets, NEW wanted \in Seq(Nat), NEW n \in Nat, n # 0, NEW p \in 0 .. Len(s),
         Len(wanted) = MaxNesting + 1
  PROVE  ~ Completes(s, p, Append(wanted, n))
<1> DEFINE none == Levels(s)[MaxNesting + 1 - Len(wanted)]
<1>1. none = {}
  <2>1. MaxNesting + 1 - Len(wanted) = 0
    BY CborAssumption
  <2>2. Levels(s)[0] = {}
    BY LevelsIs, Zenon
  <2> QED
    BY <2>1, <2>2, Zenon
<1>2. Completes(s, p, Append(wanted, n)) <=> \E e : Row(s, n, p, e, none) /\ Completes(s, e, wanted)
  BY CompletesMore, Zenon
<1> HIDE DEF none
<1>3. none \in SUBSET Spans(s)
  BY <1>1
<1>4. \A e : ~ Row(s, n, p, e, none)
  <2>1. \A e : Row(s, n, p, e, none) <=> \E f : <<p, f>> \in none /\ Row(s, n - 1, f, e, none)
    BY <1>3, RowMore, Zenon
  <2> QED
    BY <1>1, <2>1
<1> QED
  BY <1>2, <1>4

\* There are at least as many bytes as entries are wanted.
LEMMA EntriesFit ==
  ASSUME NEW s \in Octets, NEW wanted \in Seq(Nat), NEW n \in Nat, NEW p \in 0 .. Len(s),
         Len(wanted) <= MaxNesting + 1, Completes(s, p, Append(wanted, n))
  PROVE  p + n <= Len(s)
<1> DEFINE parts == Levels(s)[MaxNesting + 1 - Len(wanted)]
<1>1. PICK e : Row(s, n, p, e, parts)
  BY CompletesMore, Zenon
<1>2. parts \in SUBSET Spans(s)
  <2>1. MaxNesting + 1 - Len(wanted) \in 0 .. MaxNesting + 1
    BY CborAssumption
  <2>2. \A k \in 0 .. MaxNesting + 1 : Levels(s)[k] \subseteq Spans(s)
    BY LevelsIs, Zenon
  <2> QED
    BY <2>1, <2>2, Zenon
<1> HIDE DEF parts
<1>3. e \in 0 .. Len(s) /\ p + n <= e
  BY <1>1, <1>2, RowLength
<1> QED
  BY <1>3 DEF Octets

\* A container that wants nothing more is left.
LEMMA ReturnStep ==
  ASSUME NEW s \in Octets, NEW wanted \in Seq(Nat), NEW p \in 0 .. Len(s)
  PROVE  Completes(s, p, Append(wanted, 0)) <=> Completes(s, p, wanted)
<1> DEFINE parts == Levels(s)[MaxNesting + 1 - Len(wanted)]
<1>1. 0 \in Nat
  OBVIOUS
<1>2. Completes(s, p, Append(wanted, 0)) <=> \E e : Row(s, 0, p, e, parts) /\ Completes(s, e, wanted)
  BY <1>1, CompletesMore, Zenon
<1> HIDE DEF parts
<1>3. \A e : Row(s, 0, p, e, parts) <=> p = e
  BY RowNone
<1> QED
  BY <1>2, <1>3, Zenon

\* The bytes are a value when one value is wanted of all of them.
LEMMA WholeValue ==
  ASSUME NEW s \in Octets
  PROVE  IsValue(s) <=> Completes(s, 0, <<1>>)
<1> DEFINE parts == Levels(s)[MaxNesting + 1]
<1>1. Len(s) \in Nat /\ 0 \in 0 .. Len(s) /\ <<>> \in Seq(Nat) /\ 1 \in Nat /\ 1 # 0
      /\ Append(<<>>, 1) = <<1>> /\ Len(<<>>) = 0 /\ MaxNesting + 1 - 0 = MaxNesting + 1
      /\ 1 - 1 = 0 /\ MaxNesting + 1 \in 0 .. MaxNesting + 1
  BY CborAssumption DEF Octets
<1>2. parts \in SUBSET Spans(s)
  BY <1>1, LevelsIs
<1>3. Completes(s, 0, <<1>>) <=> \E e : Row(s, 1, 0, e, parts) /\ Completes(s, e, <<>>)
  <2>1. \A w \in Seq(Nat) : \A q \in 0 .. Len(s) : \A m \in Nat :
          Completes(s, q, Append(w, m)) <=> \E e : Row(s, m, q, e, Levels(s)[MaxNesting + 1 - Len(w)])
                                                   /\ Completes(s, e, w)
    BY CompletesMore
  <2>2. Completes(s, 0, Append(<<>>, 1))
          <=> \E e : Row(s, 1, 0, e, Levels(s)[MaxNesting + 1 - Len(<<>>)]) /\ Completes(s, e, <<>>)
    BY <1>1, <2>1, Zenon
  <2> QED
    BY <1>1, <2>2, Zenon
<1> HIDE DEF parts
<1>4. \A e : Row(s, 1, 0, e, parts) <=> <<0, e>> \in parts
  <2>1. \A e : Row(s, 1, 0, e, parts) <=> \E f : <<0, f>> \in parts /\ Row(s, 1 - 1, f, e, parts)
    BY <1>1, <1>2, RowMore, Zenon
  <2>2. \A f : <<0, f>> \in parts => f \in 0 .. Len(s)
    BY <1>2 DEF Spans
  <2>3. \A f \in 0 .. Len(s) : \A e : Row(s, 0, f, e, parts) <=> f = e
    BY RowNone, Zenon
  <2>4. \A f, e : Row(s, 1 - 1, f, e, parts) <=> Row(s, 0, f, e, parts)
    OBVIOUS
  <2>5. \A f, e : <<0, f>> \in parts => (Row(s, 1 - 1, f, e, parts) <=> f = e)
    BY <2>2, <2>3, <2>4, Zenon
  <2>6. ASSUME NEW e, Row(s, 1, 0, e, parts) PROVE <<0, e>> \in parts
    <3>1. PICK f : <<0, f>> \in parts /\ Row(s, 1 - 1, f, e, parts)
      BY <2>1, <2>6
    <3>2. f = e
      BY <2>5, <3>1
    <3> QED
      BY <3>1, <3>2
  <2>7. ASSUME NEW e, <<0, e>> \in parts PROVE Row(s, 1, 0, e, parts)
    <3>1. Row(s, 1 - 1, e, e, parts)
      BY <2>5, <2>7
    <3> QED
      BY <2>1, <2>7, <3>1
  <2> QED
    BY <2>6, <2>7
<1>5. \A e \in 0 .. Len(s) : Completes(s, e, <<>>) <=> e = Len(s)
  BY CompletesNone, Zenon
<1>6. \A e : <<0, e>> \in parts => e \in 0 .. Len(s)
  BY <1>2 DEF Spans
<1>7. Completes(s, 0, <<1>>) <=> <<0, Len(s)>> \in parts
  BY <1>1, <1>3, <1>4, <1>5, <1>6
<1> QED
  BY <1>7 DEF IsValue, parts


\* A value has a head, and a byte for each of its entries behind it.
LEMMA ValueHead ==
  ASSUME NEW s \in Octets, IsValue(s)
  PROVE  /\ s # <<>> /\ HeadIsWhole(s, 1)
         /\ Children(s, 1) \in Nat /\ Children(s, 1) + 1 <= Len(s)
<1>1. /\ Len(s) \in Nat /\ 0 \in 0 .. Len(s) /\ <<>> \in Seq(Nat) /\ 1 \in Nat /\ 1 # 0
      /\ Append(<<>>, 1) = <<1>> /\ Len(<<>>) = 0 /\ 0 <= MaxNesting /\ MaxNesting \in Nat
      /\ 0 + 1 = 1
  BY CborAssumption DEF Octets
<1>2. \A w \in Seq(Nat) : \A n \in Nat : n # 0 /\ Len(w) <= MaxNesting =>
        (Completes(s, 0, Append(w, n))
           <=> Opens(s, 0) /\ Completes(s, Behind(s, 0), Append(Append(w, n - 1), Children(s, 0 + 1))))
  BY <1>1, ValueStep
<1>3. Completes(s, 0, Append(<<>>, 1))
  BY <1>1, WholeValue
<1>4. Opens(s, 0) /\ Completes(s, Behind(s, 0), Append(Append(<<>>, 1 - 1), Children(s, 0 + 1)))
  BY <1>1, <1>2, <1>3, Zenon
<1> DEFINE w == Append(<<>>, 1 - 1)
           c == Children(s, 0 + 1)
           q == Behind(s, 0)
<1>5. HeadIsWhole(s, 0 + 1) /\ q <= Len(s)
  BY <1>4 DEF Opens
<1>6. q \in Nat /\ 0 < q /\ c \in Nat /\ 0 + 1 \in 1 .. Len(s)
  BY <1>1, <1>5, OpensIs, Zenon
<1>7. q \in 0 .. Len(s) /\ w \in Seq(Nat) /\ Len(w) <= MaxNesting + 1
  BY <1>1, <1>5, <1>6
<1>8. Completes(s, q, Append(w, c))
  BY <1>4
<1> HIDE DEF q, c, w
<1>9. q + c <= Len(s)
  BY <1>6, <1>7, <1>8, EntriesFit
<1>10. c + 1 <= Len(s)
  BY <1>1, <1>6, <1>9
<1>11. s # <<>>
  BY <1>1, <1>6
<1> QED
  BY <1>1, <1>5, <1>6, <1>10, <1>11, Zenon DEF c

\* The innermost container, and those around it.
LEMMA Innermost ==
  ASSUME NEW l \in Seq(Nat), l # <<>>
  PROVE  /\ Front(l) \in Seq(Nat) /\ Last(l) \in Nat /\ Len(l) \in Nat
         /\ Len(Front(l)) = Len(l) - 1
         /\ l = Append(Front(l), Last(l))
         /\ [l EXCEPT ![Len(l)] = @ - 1] = Append(Front(l), Last(l) - 1)
<1> DEFINE K == Len(l) - 1
           f == SubSeq(l, 1, K)
<1>1. K \in Nat /\ Len(l) = K + 1 /\ \A k \in 1 .. K + 1 : l[k] \in Nat
  BY DEF K
<1>2. f \in Seq(Nat) /\ Len(f) = K /\ \A k \in 1 .. K : f[k] = l[k]
  BY <1>1
<1>3. Front(l) = f /\ Last(l) = l[K + 1]
  BY <1>1 DEF Front, Last
<1>4. l = Append(f, l[K + 1])
  BY <1>1, <1>2
<1>5. [l EXCEPT ![Len(l)] = @ - 1] = Append(f, l[K + 1] - 1)
  BY <1>1, <1>2
<1> QED
  BY <1>1, <1>2, <1>3, <1>4, <1>5

-----------------------------------------------------------------------------
(***************************************************************************)
(* The verdict.                                                            *)
(***************************************************************************)
\* The types, as the lemmas above want them.
LEMMA WalkIsTyped ==
  ASSUME TypeInv
  PROVE  /\ bytes \in Octets /\ Len(bytes) \in Nat
         /\ pos \in 0 .. Len(bytes) /\ left \in Seq(Nat) /\ Len(left) <= MaxNesting + 2
         /\ MaxNesting \in Nat /\ MaxAllocations \in Nat
<1>1. bytes \in Seq(Octet)
  <2>1. Byte \subseteq Octet
    BY CborAssumption DEF Octet
  <2>2. bytes \in Seq(Byte)
    BY DEF TypeInv
  <2> QED
    BY <2>1, <2>2, SeqMonotonic
<1> QED
  BY <1>1, CborAssumption DEF TypeInv, Octets

\* The initial states.
LEMMA InitInv == Init => IInv
<1> SUFFICES ASSUME Init PROVE IInv
  OBVIOUS
<1>1. 0 \in 0 .. Len(bytes) /\ <<>> \in Seq(Nat) /\ Len(<<>>) <= MaxNesting + 2 /\ 0 <= Len(bytes)
      /\ MaxAllocations \in Nat
  BY CborAssumption DEF Init
<1> QED
  BY <1>1 DEF Init, IInv, TypeInv, WalkInv, DecodeInv, PreflightIsExact

\* A step that changes nothing.
LEMMA StutterKeeps == IInv /\ UNCHANGED vars => IInv'
BY DEF IInv, vars, TypeInv, WalkInv, DecodeInv, PreflightIsExact, Admissible

\* Bytes arrive before anything is walked.
LEMMA TypeKeeps ==
  ASSUME IInv, NEW b \in Byte, Type(b)
  PROVE  IInv'
<1>1. bytes' \in Seq(Byte) /\ Len(bytes') = Len(bytes) + 1 /\ Len(bytes) \in Nat
  BY DEF IInv, TypeInv, Type
<1>2. MaxAllocations \in Nat /\ reserved = 0 /\ pos = 0 /\ 0 \in 0 .. Len(bytes')
  BY <1>1, CborAssumption DEF IInv, TypeInv, Type
<1>3. TypeInv'
  BY <1>1, <1>2 DEF IInv, TypeInv, Type
<1>4. WalkInv' /\ DecodeInv' /\ PreflightIsExact'
  BY <1>1, <1>2 DEF Type, WalkInv, DecodeInv, PreflightIsExact
<1> QED
  BY <1>3, <1>4 DEF IInv

\* One value is wanted of all the bytes.
LEMMA StartKeeps ==
  ASSUME IInv, Start
  PROVE  IInv'
<1>1. /\ bytes \in Octets /\ Len(bytes) \in Nat /\ MaxNesting \in Nat /\ MaxAllocations \in Nat
      /\ pos = 0 /\ reserved = 0
  BY WalkIsTyped DEF IInv, TypeInv, Start
<1>2. CASE Admissible
  <2>1. pc' = "walk" /\ left' = <<1>> /\ UNCHANGED <<bytes, use, pos, reserved>>
    BY <1>2 DEF Start, Admissible
  <2>2. <<1>> \in Seq(Nat) /\ Len(<<1>>) <= MaxNesting + 2
    BY <1>1
  <2>3. TypeInv'
    BY <2>1, <2>2 DEF IInv, TypeInv, Start
  <2>4. WalkInv'
    <3>1. IsValue(bytes) <=> Completes(bytes, pos, <<1>>)
      BY <1>1, WholeValue
    <3> QED
      BY <1>2, <2>1, <3>1 DEF WalkInv, Admissible
  <2>5. DecodeInv' /\ PreflightIsExact'
    BY <1>1, <2>1 DEF DecodeInv, PreflightIsExact
  <2> QED
    BY <2>3, <2>4, <2>5 DEF IInv
<1>3. CASE ~ Admissible
  <2>1. pc' = "refused" /\ UNCHANGED <<bytes, use, pos, left, reserved>>
    BY <1>3 DEF Start, Admissible
  <2>2. TypeInv'
    BY <1>1, <2>1 DEF IInv, TypeInv, Start
  <2>3. PreflightIsExact'
    <3>1. IsValue(bytes) => bytes # <<>>
      BY <1>1, ValueHead
    <3> QED
      BY <1>1, <1>3, <2>1, <3>1 DEF PreflightIsExact, Admissible
  <2>4. WalkInv' /\ DecodeInv'
    BY <2>1 DEF WalkInv, DecodeInv
  <2> QED
    BY <2>2, <2>3, <2>4 DEF IInv
<1> QED
  BY <1>2, <1>3

\* A head is admitted exactly when the bytes may still be a value.
LEMMA ValueKeeps ==
  ASSUME IInv, Value
  PROVE  IInv'
<1> DEFINE w == Front(left)
           n == Last(left)
           c == Children(bytes, pos + 1)
           next == Behind(bytes, pos)
           fewer == Append(w, n - 1)
<1>1. /\ bytes \in Octets /\ Len(bytes) \in Nat
      /\ pos \in 0 .. Len(bytes) /\ left \in Seq(Nat) /\ Len(left) <= MaxNesting + 2
      /\ MaxNesting \in Nat /\ MaxAllocations \in Nat
      /\ pc = "walk" /\ left # <<>> /\ n > 0
      /\ reserved = 0 /\ Admissible
      /\ IsValue(bytes) <=> Completes(bytes, pos, left)
  BY WalkIsTyped DEF IInv, TypeInv, WalkInv, Value
<1>2. /\ w \in Seq(Nat) /\ n \in Nat /\ Len(left) \in Nat
      /\ Len(w) = Len(left) - 1
      /\ left = Append(w, n)
      /\ [left EXCEPT ![Len(left)] = @ - 1] = fewer
  BY <1>1, Innermost
<1>3. n # 0 /\ n - 1 \in Nat
  BY <1>1, <1>2
<1>4. UNCHANGED <<bytes, use, reserved>>
  BY DEF Value
<1> HIDE DEF w, n
<1>5. fewer \in Seq(Nat) /\ Len(fewer) = Len(left)
  BY <1>2, <1>3
<1> HIDE DEF fewer
<1>6. Len(w) <= MaxNesting =>
        (Completes(bytes, pos, left) <=> Opens(bytes, pos) /\ Completes(bytes, next, Append(fewer, c)))
  BY <1>1, <1>2, <1>3, ValueStep DEF fewer
<1>7. HeadIsWhole(bytes, pos + 1) =>
        /\ next \in Nat /\ pos < next /\ c \in Nat /\ pos + 1 \in 1 .. Len(bytes)
        /\ Width(bytes, pos + 1) \in Nat /\ StringLength(bytes, pos + 1) \in Nat
        /\ Major(bytes, pos + 1) \in {4, 5} => StringLength(bytes, pos + 1) = 0
  <2>1. SUFFICES ASSUME HeadIsWhole(bytes, pos + 1)
                 PROVE  /\ next \in Nat /\ pos < next /\ c \in Nat /\ pos + 1 \in 1 .. Len(bytes)
                        /\ Width(bytes, pos + 1) \in Nat /\ StringLength(bytes, pos + 1) \in Nat
                        /\ Major(bytes, pos + 1) \in {4, 5} => StringLength(bytes, pos + 1) = 0
    OBVIOUS
  <2>2. next \in Nat /\ pos < next /\ c \in Nat /\ pos + 1 \in 1 .. Len(bytes)
    BY <1>1, <2>1, OpensIs
  <2> DEFINE h == pos + 1
  <2>3. h \in 1 .. Len(bytes) /\ HeadIsWhole(bytes, h)
    BY <2>1, <2>2
  <2> HIDE DEF h
  <2>4. /\ Width(bytes, h) \in Nat /\ StringLength(bytes, h) \in Nat
        /\ Major(bytes, h) \notin {2, 3} => StringLength(bytes, h) = 0
    BY <1>1, <2>3, HeadIs
  <2>5. Major(bytes, h) \in {4, 5} => Major(bytes, h) \notin {2, 3}
    OBVIOUS
  <2> QED
    BY <2>2, <2>4, <2>5 DEF h
<1> DEFINE rest == Len(bytes) - (pos + 1) - Width(bytes, pos + 1)
<1>8. Admitted <=> /\ Len(left) <= MaxNesting + 1
                   /\ HeadIsWhole(bytes, pos + 1)
                   /\ StringIsBounded(bytes, pos + 1)
                   /\ StringLength(bytes, pos + 1) <= rest
                   /\ Major(bytes, pos + 1) \in {4, 5} => c <= rest
  BY DEF Admitted
<1>9. next = pos + 1 + Width(bytes, pos + 1) + StringLength(bytes, pos + 1)
  BY DEF Behind
<1>10. HeadIsWhole(bytes, pos + 1) =>
         /\ StringLength(bytes, pos + 1) <= rest <=> next <= Len(bytes)
         /\ Major(bytes, pos + 1) \in {4, 5} /\ next + c <= Len(bytes) => c <= rest
  <2>1. \A p, x, l, k, m \in Nat : /\ l <= m - (p + 1) - x <=> p + 1 + x + l <= m
                                   /\ l = 0 /\ (p + 1 + x + l) + k <= m => k <= m - (p + 1) - x
    OBVIOUS
  <2>2. pos \in Nat
    BY <1>1
  <2> HIDE DEF next, c
  <2> QED
    BY <1>1, <1>7, <1>9, <2>1, <2>2, Zenon
<1> HIDE DEF next, c, rest
<1>11. CASE Admitted
  <2>1. pos' = next /\ left' = Append(fewer, c) /\ pc' = pc
    BY <1>2, <1>11, Zenon DEF Value, next, c, Behind
  <2>2. Opens(bytes, pos) /\ Len(w) <= MaxNesting /\ c \in Nat /\ next \in 0 .. Len(bytes)
    <3>1. HeadIsWhole(bytes, pos + 1) /\ StringIsBounded(bytes, pos + 1) /\ next <= Len(bytes)
          /\ Len(left) <= MaxNesting + 1
      BY <1>8, <1>10, <1>11
    <3>2. Len(w) <= MaxNesting
      BY <1>1, <1>2, <3>1
    <3>3. next \in Nat /\ c \in Nat
      BY <1>7, <3>1
    <3>4. next \in 0 .. Len(bytes)
      BY <1>1, <3>1, <3>3
    <3> QED
      BY <3>1, <3>2, <3>3, <3>4 DEF Opens, next
  <2>3. left' \in Seq(Nat) /\ Len(left') <= MaxNesting + 2
    BY <1>1, <1>2, <1>5, <2>1, <2>2
  <2>4. TypeInv'
    BY <1>1, <1>4, <2>1, <2>2, <2>3 DEF IInv, TypeInv
  <2>5. WalkInv'
    <3>1. IsValue(bytes) <=> Completes(bytes, pos', left')
      BY <1>1, <1>6, <2>1, <2>2
    <3> QED
      BY <1>1, <1>4, <2>1, <3>1 DEF WalkInv, Admissible
  <2>6. DecodeInv' /\ PreflightIsExact'
    BY <1>1, <1>4, <2>1 DEF IInv, DecodeInv, PreflightIsExact
  <2> QED
    BY <2>4, <2>5, <2>6 DEF IInv
<1>12. CASE ~ Admitted
  <2>1. pc' = "refused" /\ UNCHANGED <<pos, left>>
    BY <1>12 DEF Value
  <2>2. ~ Completes(bytes, pos, left)
    <3>1. CASE Len(w) <= MaxNesting
      <4>1. SUFFICES ASSUME Completes(bytes, pos, left) PROVE FALSE
        OBVIOUS
      <4>2. Opens(bytes, pos) /\ Completes(bytes, next, Append(fewer, c))
        BY <1>6, <3>1, <4>1
      <4>3. HeadIsWhole(bytes, pos + 1) /\ StringIsBounded(bytes, pos + 1) /\ next <= Len(bytes)
        BY <4>2 DEF Opens, next
      <4>4. c \in Nat /\ next \in 0 .. Len(bytes) /\ Len(left) <= MaxNesting + 1
        BY <1>1, <1>2, <1>7, <3>1, <4>3
      <4>5. next + c <= Len(bytes)
        BY <1>1, <1>5, <4>2, <4>4, EntriesFit
      <4> QED
        BY <1>8, <1>10, <1>12, <4>3, <4>4, <4>5
    <3>2. CASE ~ Len(w) <= MaxNesting
      <4>1. Len(w) = MaxNesting + 1
        BY <1>1, <1>2, <3>2
      <4> QED
        BY <1>1, <1>2, <1>3, <4>1, TooDeep
    <3> QED
      BY <3>1, <3>2
  <2>3. TypeInv'
    BY <1>1, <1>4, <2>1 DEF IInv, TypeInv
  <2>4. WalkInv' /\ DecodeInv' /\ PreflightIsExact'
    BY <1>1, <1>4, <2>1, <2>2 DEF IInv, WalkInv, DecodeInv, PreflightIsExact
  <2> QED
    BY <2>3, <2>4 DEF IInv
<1> QED
  BY <1>11, <1>12

\* A container that has all its entries wants nothing.
LEMMA ReturnKeeps ==
  ASSUME IInv, Return
  PROVE  IInv'
<1>1. /\ bytes \in Octets /\ Len(bytes) \in Nat
      /\ pos \in 0 .. Len(bytes) /\ left \in Seq(Nat) /\ Len(left) <= MaxNesting + 2
      /\ MaxNesting \in Nat /\ MaxAllocations \in Nat
      /\ pc = "walk" /\ left # <<>> /\ Last(left) = 0
      /\ reserved = 0 /\ Admissible
      /\ IsValue(bytes) <=> Completes(bytes, pos, left)
      /\ left' = Front(left) /\ UNCHANGED <<bytes, use, pc, pos, reserved>>
  BY WalkIsTyped DEF IInv, TypeInv, WalkInv, Return
<1> DEFINE w == Front(left)
<1>2. w \in Seq(Nat) /\ Len(w) <= MaxNesting + 2 /\ left = Append(w, 0)
  BY <1>1, Innermost
<1> HIDE DEF w
<1>3. Completes(bytes, pos, left) <=> Completes(bytes, pos, w)
  BY <1>1, <1>2, ReturnStep
<1>4. TypeInv'
  BY <1>1, <1>2 DEF IInv, TypeInv, w
<1>5. WalkInv' /\ DecodeInv' /\ PreflightIsExact'
  BY <1>1, <1>3 DEF WalkInv, DecodeInv, PreflightIsExact, Admissible, w
<1> QED
  BY <1>4, <1>5 DEF IInv

\* Nothing is wanted any more: the end decides.
LEMMA ExactKeeps ==
  ASSUME IInv, Exact
  PROVE  IInv'
<1>1. /\ bytes \in Octets /\ Len(bytes) \in Nat
      /\ pos \in 0 .. Len(bytes) /\ MaxAllocations \in Nat
      /\ pc = "walk" /\ left = <<>>
      /\ reserved = 0 /\ Admissible
      /\ IsValue(bytes) <=> Completes(bytes, pos, <<>>)
      /\ UNCHANGED <<bytes, use, pos, left, reserved>>
      /\ pc' = IF pos # Len(bytes) THEN "refused" ELSE IF use = "ledger" THEN "decode" ELSE "accepted"
  BY WalkIsTyped DEF IInv, TypeInv, WalkInv, Exact
<1>2. IsValue(bytes) <=> pos = Len(bytes)
  BY <1>1, CompletesNone
<1>3. use \in {"record", "ledger"}
  BY DEF IInv, TypeInv
<1>4. TypeInv'
  BY <1>1 DEF IInv, TypeInv
<1>5. WalkInv' /\ DecodeInv'
  BY <1>1, <1>2 DEF WalkInv, DecodeInv, Admissible
<1>6. PreflightIsExact'
  BY <1>1, <1>2, <1>3 DEF PreflightIsExact, Admissible
<1> QED
  BY <1>4, <1>5, <1>6 DEF IInv

\* What is reserved was announced by a head whose entries are there.
LEMMA ReserveKeeps ==
  ASSUME IInv, Reserve
  PROVE  IInv'
<1> DEFINE entries == Argument(bytes, 1)
<1>1. /\ bytes \in Octets /\ Len(bytes) \in Nat /\ MaxAllocations \in Nat
      /\ pc = "decode" /\ use = "ledger" /\ reserved = 0 /\ Admissible /\ IsValue(bytes)
      /\ UNCHANGED <<bytes, use, pos, left>>
  BY WalkIsTyped DEF IInv, TypeInv, DecodeInv, Reserve
<1>2. Major(bytes, 1) = 4 /\ Len(bytes) <= MaxRecord
  BY <1>1 DEF Admissible
<1>3. Children(bytes, 1) = entries
  BY <1>2 DEF Children
<1>4. entries \in Nat /\ entries + 1 <= Len(bytes)
  <2>1. Children(bytes, 1) \in Nat /\ Children(bytes, 1) + 1 <= Len(bytes)
    BY <1>1, ValueHead
  <2> QED
    BY <1>3, <2>1
<1> HIDE DEF entries
<1>5. CASE entries > MaxAllocations
  <2>1. pc' = "refused" /\ reserved' = 0
    BY <1>1, <1>5 DEF Reserve, entries
  <2>2. ~ (Children(bytes, 1) <= MaxAllocations)
    BY <1>1, <1>3, <1>4, <1>5
  <2>3. TypeInv'
    BY <1>1, <2>1 DEF IInv, TypeInv
  <2>4. WalkInv' /\ DecodeInv' /\ PreflightIsExact'
    BY <1>1, <2>1, <2>2 DEF WalkInv, DecodeInv, PreflightIsExact
  <2> QED
    BY <2>3, <2>4 DEF IInv
<1>6. CASE ~ entries > MaxAllocations
  <2>1. pc' = "accepted"
        /\ reserved' = IF entries = 0 THEN 0 ELSE IF entries + 1 <= MaxAllocations THEN entries + 1 ELSE MaxAllocations
    BY <1>6 DEF Reserve, entries
  <2>2. reserved' \in Nat /\ reserved' <= Len(bytes) /\ reserved' <= MaxAllocations
    BY <1>1, <1>4, <1>6, <2>1
  <2>3. Children(bytes, 1) <= MaxAllocations
    BY <1>1, <1>3, <1>4, <1>6
  <2>4. TypeInv'
    BY <1>1, <2>1, <2>2 DEF IInv, TypeInv
  <2>5. WalkInv' /\ DecodeInv'
    BY <2>1 DEF WalkInv, DecodeInv
  <2>6. PreflightIsExact'
    BY <1>1, <1>2, <2>1, <2>2, <2>3 DEF PreflightIsExact
  <2> QED
    BY <2>4, <2>5, <2>6 DEF IInv
<1> QED
  BY <1>5, <1>6

\* Whatever has been walked, the bytes are a value exactly when the rest of
\* them is what the open containers still want.
THEOREM InductiveInvariant == Spec => []IInv
<1>1. Init => IInv
  BY InitInv
<1>2. IInv /\ [Next]_vars => IInv'
  <2>1. SUFFICES ASSUME IInv, [Next]_vars PROVE IInv'
    OBVIOUS
  <2>2. CASE UNCHANGED vars
    BY <2>1, <2>2, StutterKeeps
  <2>3. ASSUME NEW b \in Byte, Type(b) PROVE IInv'
    BY <2>1, <2>3, TypeKeeps
  <2>4. CASE Start
    BY <2>1, <2>4, StartKeeps
  <2>5. CASE Value
    BY <2>1, <2>5, ValueKeeps
  <2>6. CASE Return
    BY <2>1, <2>6, ReturnKeeps
  <2>7. CASE Exact
    BY <2>1, <2>7, ExactKeeps
  <2>8. CASE Reserve
    BY <2>1, <2>8, ReserveKeeps
  <2> QED
    BY <2>1, <2>2, <2>3, <2>4, <2>5, <2>6, <2>7, <2>8 DEF Next
<1> QED
  BY <1>1, <1>2, PTL DEF Spec

\* The walk accepts exactly the bytes that are one value within the bounds,
\* and no more is reserved than bytes were received.
THEOREM PreflightExact == Spec => []PreflightIsExact
<1>1. IInv => PreflightIsExact
  BY DEF IInv
<1> QED
  BY <1>1, InductiveInvariant, PTL

=============================================================================
