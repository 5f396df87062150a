-------------------------- MODULE Canonical_proofs --------------------------
(***************************************************************************)
(* Theorems about Canonical, for every set of characters, every set of     *)
(* namespaces and every bound on the length of a key and of a list.        *)
(***************************************************************************)
EXTENDS Canonical, NaturalsInduction, SequenceTheorems, WellFoundedInduction, TLAPS

\* Every nonempty set of naturals has a least element.
LEMMA LeastElement ==
  ASSUME NEW S \in SUBSET Nat, S # {}
  PROVE  \E m \in S : \A c \in S : ~ (c < m)
<1>1. IsWellFoundedOn(OpToRel(<, Nat), Nat)
  BY NatLessThanWellFounded
<1>2. PICK m \in S : \A c \in S : <<c, m>> \notin OpToRel(<, Nat)
  BY <1>1, WFMin
<1>3. QED
  BY <1>2 DEF OpToRel

-----------------------------------------------------------------------------
(***************************************************************************)
(* The order of texts.                                                     *)
(***************************************************************************)
Text == Seq(Nat)

\* Texts agree before n.
Agree(s, t, n) == \A k \in 1 .. n - 1 : s[k] = t[k]

\* The first n where s is before t: s ends there, or has the lesser character.
Cut(s, t, n) ==
  /\ n \in 1 .. Len(s) + 1 /\ n \in 1 .. Len(t)
  /\ Agree(s, t, n)
  /\ n = Len(s) + 1 \/ (n <= Len(s) /\ s[n] < t[n])

\* A prefix is the text's first characters.
LEMMA PrefixIs ==
  ASSUME NEW T, NEW s \in Seq(T), NEW n \in 0 .. Len(s)
  PROVE  /\ Prefix(s, n) \in Seq(T) /\ Len(Prefix(s, n)) = n
         /\ \A k \in 1 .. n : Prefix(s, n)[k] = s[k]
<1> DEFINE p == SubSeq(s, 1, n)
<1>1. Len(s) \in Nat /\ n \in Int /\ 1 \in Int /\ \A i \in 1 .. n : s[i] \in T
  OBVIOUS
<1>2. /\ p \in Seq(T) /\ Len(p) = (IF 1 <= n THEN n - 1 + 1 ELSE 0)
      /\ \A i \in 1 .. n - 1 + 1 : p[i] = s[1 + i - 1]
  BY <1>1, SubSeqProperties
<1> HIDE DEF p
<1>3. Len(p) = n
  BY <1>1, <1>2
<1>4. \A k \in 1 .. n : p[k] = s[k]
  <2>1. TAKE k \in 1 .. n
  <2>2. k \in 1 .. n - 1 + 1 /\ 1 + k - 1 = k
    BY <1>1
  <2> QED
    BY <1>2, <2>2
<1> QED
  BY <1>2, <1>3, <1>4 DEF Prefix, p

\* Two texts have a prefix in common exactly when they agree on it.
LEMMA SamePrefix ==
  ASSUME NEW T, NEW s \in Seq(T), NEW t \in Seq(T), NEW n \in Nat, n <= Len(s), n <= Len(t)
  PROVE  Prefix(s, n) = Prefix(t, n) <=> \A k \in 1 .. n : s[k] = t[k]
<1>1. n \in 0 .. Len(s) /\ n \in 0 .. Len(t)
  OBVIOUS
<1>2. /\ Prefix(s, n) \in Seq(T) /\ Len(Prefix(s, n)) = n
      /\ \A k \in 1 .. n : Prefix(s, n)[k] = s[k]
  BY <1>1, PrefixIs
<1>3. /\ Prefix(t, n) \in Seq(T) /\ Len(Prefix(t, n)) = n
      /\ \A k \in 1 .. n : Prefix(t, n)[k] = t[k]
  BY <1>1, PrefixIs
<1> DEFINE p == Prefix(s, n)
           q == Prefix(t, n)
<1> HIDE DEF p, q
<1>4. p = q => \A k \in 1 .. n : s[k] = t[k]
  BY <1>2, <1>3 DEF p, q
<1>5. (\A k \in 1 .. n : s[k] = t[k]) => p = q
  <2>1. SUFFICES ASSUME \A k \in 1 .. n : s[k] = t[k] PROVE p = q
    OBVIOUS
  <2>2. p \in Seq(T) /\ q \in Seq(T) /\ Len(p) = Len(q) /\ \A k \in 1 .. Len(p) : p[k] = q[k]
    BY <1>2, <1>3, <2>1 DEF p, q
  <2> QED
    BY <2>2, SeqEqual
<1> QED
  BY <1>4, <1>5 DEF p, q

\* A beginning, position by position.
LEMMA StartsWithIs ==
  ASSUME NEW T, NEW s \in Seq(T), NEW t \in Seq(T)
  PROVE  StartsWith(s, t) <=> Len(t) <= Len(s) /\ \A k \in 1 .. Len(t) : s[k] = t[k]
<1>1. Len(s) \in Nat /\ Len(t) \in Nat
  OBVIOUS
<1>2. Len(t) <= Len(s) => (Prefix(s, Len(t)) = Prefix(t, Len(t)) <=> \A k \in 1 .. Len(t) : s[k] = t[k])
  BY <1>1, SamePrefix
<1>3. Prefix(t, Len(t)) = t
  <2>1. Len(t) \in 0 .. Len(t)
    BY <1>1
  <2> DEFINE p == Prefix(t, Len(t))
  <2>2. p \in Seq(T) /\ Len(p) = Len(t) /\ \A k \in 1 .. Len(t) : p[k] = t[k]
    BY <2>1, PrefixIs
  <2> HIDE DEF p
  <2> QED
    BY <2>2, SeqEqual DEF p
<1> QED
  BY <1>2, <1>3 DEF StartsWith

\* The order of texts: by the first character that differs, or by length.
LEMMA TextLessIs ==
  ASSUME NEW s \in Text, NEW t \in Text
  PROVE  TextLess(s, t) <=> \E n \in Nat : Cut(s, t, n)
<1>1. Len(s) \in Nat /\ Len(t) \in Nat /\ s \in Seq(Nat) /\ t \in Seq(Nat)
  BY DEF Text
<1>2. s # t /\ StartsWith(t, s) => Cut(s, t, Len(s) + 1)
  <2>1. SUFFICES ASSUME s # t, StartsWith(t, s) PROVE Cut(s, t, Len(s) + 1)
    OBVIOUS
  <2>2. Len(s) <= Len(t) /\ \A k \in 1 .. Len(s) : t[k] = s[k]
    BY <1>1, <2>1, StartsWithIs
  <2>3. Len(s) # Len(t)
    <3>1. Len(s) = Len(t) => s = t
      BY <1>1, <2>2, SeqEqual
    <3> QED
      BY <2>1, <3>1
  <2>4. Len(s) + 1 \in 1 .. Len(t) /\ Len(s) + 1 - 1 = Len(s) /\ Len(s) + 1 \in 1 .. Len(s) + 1
    BY <1>1, <2>2, <2>3
  <2> QED
    BY <2>2, <2>4 DEF Cut, Agree
<1>3. ASSUME NEW n \in 1 .. Len(s), n <= Len(t), Prefix(s, n - 1) = Prefix(t, n - 1), s[n] < t[n]
      PROVE  n \in Nat /\ Cut(s, t, n)
  <2>1. n - 1 \in Nat /\ n - 1 <= Len(s) /\ n - 1 <= Len(t) /\ n \in Nat
        /\ n \in 1 .. Len(s) + 1 /\ n \in 1 .. Len(t) /\ n <= Len(s)
    BY <1>1, <1>3
  <2>2. \A k \in 1 .. n - 1 : s[k] = t[k]
    BY <1>1, <1>3, <2>1, SamePrefix
  <2> QED
    BY <1>3, <2>1, <2>2 DEF Cut, Agree
<1>4. ASSUME NEW n \in Nat, Cut(s, t, n) PROVE TextLess(s, t)
  <2>1. n \in 1 .. Len(s) + 1 /\ n \in 1 .. Len(t) /\ \A k \in 1 .. n - 1 : s[k] = t[k]
    BY <1>4 DEF Cut, Agree
  <2>2. CASE n = Len(s) + 1
    <3>1. Len(s) <= Len(t) /\ Len(s) # Len(t) /\ n - 1 = Len(s)
      BY <1>1, <2>1, <2>2
    <3>2. s # t
      BY <3>1
    <3>3. StartsWith(t, s)
      BY <1>1, <2>1, <3>1, StartsWithIs
    <3> QED
      BY <3>2, <3>3 DEF TextLess
  <2>3. CASE n <= Len(s) /\ s[n] < t[n]
    <3>1. n - 1 \in Nat /\ n - 1 <= Len(s) /\ n - 1 <= Len(t) /\ n \in 1 .. Len(s) /\ n <= Len(t)
      BY <1>1, <2>1, <2>3
    <3>2. Prefix(s, n - 1) = Prefix(t, n - 1)
      BY <1>1, <2>1, <3>1, SamePrefix
    <3> QED
      BY <2>3, <3>1, <3>2 DEF TextLess
  <2> QED
    BY <1>4, <2>2, <2>3 DEF Cut
<1>5. Len(s) + 1 \in Nat
  BY <1>1
<1> QED
  BY <1>2, <1>3, <1>4, <1>5 DEF TextLess

\* No text is before itself.
LEMMA TextIrreflexive ==
  ASSUME NEW s \in Text
  PROVE  ~ TextLess(s, s)
<1>1. SUFFICES ASSUME NEW n \in Nat, Cut(s, s, n) PROVE FALSE
  BY TextLessIs
<1>2. Len(s) \in Nat /\ \A k \in 1 .. Len(s) : s[k] \in Nat
  BY DEF Text
<1>3. n \in 1 .. Len(s) /\ (n = Len(s) + 1 \/ s[n] < s[n])
  BY <1>1 DEF Cut
<1>4. n # Len(s) + 1 /\ s[n] \in Nat
  BY <1>2, <1>3
<1> QED
  BY <1>3, <1>4

\* The order of texts is transitive.
LEMMA TextTransitive ==
  ASSUME NEW s \in Text, NEW t \in Text, NEW u \in Text, TextLess(s, t), TextLess(t, u)
  PROVE  TextLess(s, u)
<1>1. /\ Len(s) \in Nat /\ Len(t) \in Nat /\ Len(u) \in Nat
      /\ \A k \in 1 .. Len(s) : s[k] \in Nat
      /\ \A k \in 1 .. Len(t) : t[k] \in Nat
      /\ \A k \in 1 .. Len(u) : u[k] \in Nat
  BY DEF Text
<1>2. PICK n \in Nat : Cut(s, t, n)
  BY TextLessIs
<1>3. PICK m \in Nat : Cut(t, u, m)
  BY TextLessIs
<1>4. /\ n \in 1 .. Len(s) + 1 /\ n \in 1 .. Len(t) /\ \A k \in 1 .. n - 1 : s[k] = t[k]
      /\ n = Len(s) + 1 \/ (n <= Len(s) /\ s[n] < t[n])
  BY <1>2 DEF Cut, Agree
<1>5. /\ m \in 1 .. Len(t) + 1 /\ m \in 1 .. Len(u) /\ \A k \in 1 .. m - 1 : t[k] = u[k]
      /\ m = Len(t) + 1 \/ (m <= Len(t) /\ t[m] < u[m])
  BY <1>3 DEF Cut, Agree
<1>6. CASE n < m
  <2>1. n \in 1 .. Len(u) /\ n \in 1 .. m - 1 /\ t[n] = u[n]
    BY <1>1, <1>4, <1>5, <1>6
  <2>2. \A k \in 1 .. n - 1 : s[k] = u[k]
    BY <1>1, <1>4, <1>5, <1>6
  <2>3. Cut(s, u, n)
    BY <1>4, <2>1, <2>2 DEF Cut, Agree
  <2> QED
    BY <2>3, TextLessIs
<1>7. CASE m < n
  <2>1. m \in 1 .. Len(s) /\ m \in 1 .. Len(s) + 1 /\ m <= Len(s) /\ m # Len(t) + 1 /\ m \in 1 .. n - 1
    BY <1>1, <1>4, <1>5, <1>7
  <2>2. s[m] = t[m] /\ t[m] < u[m]
    BY <1>4, <1>5, <2>1
  <2>3. \A k \in 1 .. m - 1 : s[k] = u[k]
    BY <1>1, <1>4, <1>5, <1>7
  <2>4. Cut(s, u, m)
    BY <1>5, <2>1, <2>2, <2>3 DEF Cut, Agree
  <2> QED
    BY <2>4, TextLessIs
<1>8. CASE n = m
  <2>1. \A k \in 1 .. n - 1 : s[k] = u[k]
    BY <1>4, <1>5, <1>8
  <2>2. n = Len(s) + 1 \/ (n <= Len(s) /\ s[n] < u[n])
    <3>1. CASE n <= Len(s) /\ s[n] < t[n]
      <4>1. m # Len(t) + 1 /\ n \in 1 .. Len(s) /\ n \in 1 .. Len(u)
        BY <1>1, <1>4, <1>5, <1>8, <3>1
      <4>2. t[n] < u[n]
        BY <1>5, <1>8, <4>1
      <4>3. s[n] \in Nat /\ t[n] \in Nat /\ u[n] \in Nat
        BY <1>1, <1>4, <4>1
      <4> QED
        BY <3>1, <4>2, <4>3
    <3> QED
      BY <1>4, <3>1
  <2>3. Cut(s, u, n)
    BY <1>4, <1>5, <1>8, <2>1, <2>2 DEF Cut, Agree
  <2> QED
    BY <2>3, TextLessIs
<1> QED
  BY <1>6, <1>7, <1>8

\* Of two texts one is before the other.
LEMMA TextTotal ==
  ASSUME NEW s \in Text, NEW t \in Text, s # t
  PROVE  TextLess(s, t) \/ TextLess(t, s)
<1>1. /\ Len(s) \in Nat /\ Len(t) \in Nat /\ s \in Seq(Nat) /\ t \in Seq(Nat)
      /\ \A k \in 1 .. Len(s) : s[k] \in Nat
      /\ \A k \in 1 .. Len(t) : t[k] \in Nat
  BY DEF Text
<1> DEFINE Differ == { k \in Nat : 1 <= k /\ k <= Len(s) /\ k <= Len(t) /\ s[k] # t[k] }
<1>2. CASE Differ = {}
  <2>1. \A k \in Nat : 1 <= k /\ k <= Len(s) /\ k <= Len(t) => s[k] = t[k]
    BY <1>2
  <2>2. Len(s) # Len(t)
    <3>1. SUFFICES ASSUME Len(s) = Len(t) PROVE s = t
      OBVIOUS
    <3>2. \A k \in 1 .. Len(s) : s[k] = t[k]
      BY <1>1, <2>1, <3>1
    <3> QED
      BY <1>1, <3>1, <3>2, SeqEqual
  <2>3. CASE Len(s) < Len(t)
    <3>1. Cut(s, t, Len(s) + 1) /\ Len(s) + 1 \in Nat
      BY <1>1, <2>1, <2>3 DEF Cut, Agree
    <3> QED
      BY <3>1, TextLessIs
  <2>4. CASE Len(t) < Len(s)
    <3>1. Cut(t, s, Len(t) + 1) /\ Len(t) + 1 \in Nat
      BY <1>1, <2>1, <2>4 DEF Cut, Agree
    <3> QED
      BY <3>1, TextLessIs
  <2> QED
    BY <1>1, <2>2, <2>3, <2>4
<1>3. CASE Differ # {}
  <2>1. PICK n \in Differ : \A j \in Differ : ~ (j < n)
    <3>1. Differ \in SUBSET Nat
      OBVIOUS
    <3> HIDE DEF Differ
    <3> QED
      BY <1>3, <3>1, LeastElement
  <2>2. n \in Nat /\ 1 <= n /\ n <= Len(s) /\ n <= Len(t) /\ s[n] # t[n]
    OBVIOUS
  <2>3. \A k \in 1 .. n - 1 : s[k] = t[k]
    <3>1. TAKE k \in 1 .. n - 1
    <3>2. k \in Nat /\ 1 <= k /\ k <= Len(s) /\ k <= Len(t) /\ k < n
      BY <1>1, <2>2
    <3> QED
      BY <2>1, <3>2
  <2>4. s[n] \in Nat /\ t[n] \in Nat
    BY <1>1, <2>2
  <2>5. CASE s[n] < t[n]
    <3>1. Cut(s, t, n)
      BY <1>1, <2>2, <2>3, <2>5 DEF Cut, Agree
    <3> QED
      BY <2>2, <3>1, TextLessIs
  <2>6. CASE t[n] < s[n]
    <3>1. Cut(t, s, n)
      BY <1>1, <2>2, <2>3, <2>6 DEF Cut, Agree
    <3> QED
      BY <2>2, <3>1, TextLessIs
  <2> QED
    BY <2>2, <2>4, <2>5, <2>6
<1> QED
  BY <1>2, <1>3

\* What lies between a text and one that begins with it begins with it, too.
LEMMA Between ==
  ASSUME NEW p \in Text, NEW y \in Text, NEW u \in Text,
         StartsWith(u, p), ~ TextLess(y, p), ~ TextLess(u, y)
  PROVE  StartsWith(y, p)
<1>1. /\ Len(p) \in Nat /\ Len(y) \in Nat /\ Len(u) \in Nat
      /\ p \in Seq(Nat) /\ y \in Seq(Nat) /\ u \in Seq(Nat)
  BY DEF Text
<1>2. Len(p) <= Len(u) /\ \A k \in 1 .. Len(p) : u[k] = p[k]
  BY <1>1, StartsWithIs
<1>3. CASE y = p
  BY <1>1, <1>3, StartsWithIs
<1>4. CASE y # p
  <2>1. PICK n \in Nat : Cut(p, y, n)
    BY <1>4, TextTotal, TextLessIs
  <2>2. /\ n \in 1 .. Len(p) + 1 /\ n \in 1 .. Len(y) /\ \A k \in 1 .. n - 1 : p[k] = y[k]
        /\ n = Len(p) + 1 \/ (n <= Len(p) /\ p[n] < y[n])
    BY <2>1 DEF Cut, Agree
  <2>3. CASE n = Len(p) + 1
    <3>1. n - 1 = Len(p) /\ Len(p) <= Len(y)
      BY <1>1, <2>2, <2>3
    <3> QED
      BY <1>1, <2>2, <3>1, StartsWithIs
  <2>4. CASE n <= Len(p) /\ p[n] < y[n]
    <3>1. n \in 1 .. Len(u) + 1 /\ n <= Len(u) /\ n \in 1 .. Len(p) /\ \A k \in 1 .. n - 1 : k \in 1 .. Len(p)
      BY <1>1, <1>2, <2>2, <2>4
    <3>2. u[n] = p[n] /\ \A k \in 1 .. n - 1 : u[k] = y[k]
      BY <1>2, <2>2, <3>1
    <3>3. Cut(u, y, n)
      BY <2>2, <2>4, <3>1, <3>2 DEF Cut, Agree
    <3> QED
      BY <3>3, TextLessIs
  <2> QED
    BY <2>2, <2>3, <2>4
<1> QED
  BY <1>3, <1>4

\* A text is not before one that it begins with.
LEMMA PrefixFirst ==
  ASSUME NEW s \in Text, NEW t \in Text, StartsWith(t, s)
  PROVE  s = t \/ TextLess(s, t)
BY DEF TextLess

\* Of two that a text begins with one begins with the other.
LEMMA PrefixesNest ==
  ASSUME NEW key \in Text, NEW s \in Text, NEW t \in Text, StartsWith(key, s), StartsWith(key, t)
  PROVE  StartsWith(s, t) \/ StartsWith(t, s)
<1>1. Len(s) \in Nat /\ Len(t) \in Nat /\ key \in Seq(Nat) /\ s \in Seq(Nat) /\ t \in Seq(Nat)
  BY DEF Text
<1>2. /\ \A k \in 1 .. Len(s) : key[k] = s[k]
      /\ \A k \in 1 .. Len(t) : key[k] = t[k]
  BY <1>1, StartsWithIs
<1>3. CASE Len(s) <= Len(t)
  <2>1. \A k \in 1 .. Len(s) : t[k] = s[k]
    BY <1>1, <1>2, <1>3
  <2> QED
    BY <1>1, <1>3, <2>1, StartsWithIs
<1>4. CASE Len(t) <= Len(s)
  <2>1. \A k \in 1 .. Len(t) : s[k] = t[k]
    BY <1>1, <1>2, <1>4
  <2> QED
    BY <1>1, <1>4, <2>1, StartsWithIs
<1> QED
  BY <1>1, <1>3, <1>4

-----------------------------------------------------------------------------
(***************************************************************************)
(* The order of items.  It is total up to items of one text, which only    *)
(* records are told apart by.                                              *)
(***************************************************************************)
Item == [text : Text, at : Nat]

Before(u, x, y) ==
  \/ TextLess(x.text, y.text)
  \/ u = "records" /\ x.text = y.text /\ x.at < y.at

Leq(u, x, y) == ~ Before(u, y, x)

\* An item before another is not after it.
LEMMA BeforeLeq ==
  ASSUME NEW u, NEW x \in Item, NEW y \in Item, Before(u, x, y)
  PROVE  Leq(u, x, y)
<1>1. x.text \in Text /\ y.text \in Text /\ x.at \in Nat /\ y.at \in Nat
  BY DEF Item
<1>2. SUFFICES ASSUME Before(u, y, x) PROVE FALSE
  BY DEF Leq
<1> DEFINE s == x.text
           t == y.text
<1>3. ~ TextLess(s, s) /\ ~ (TextLess(s, t) /\ TextLess(t, s)) /\ (s = t => ~ TextLess(s, t) /\ ~ TextLess(t, s))
  <2> HIDE DEF s, t
  <2>1. s \in Text /\ t \in Text
    BY <1>1 DEF s, t
  <2> QED
    BY <2>1, TextIrreflexive, TextTransitive
<1> QED
  BY <1>1, <1>2, <1>3 DEF Before

\* No item is before itself.
LEMMA LeqReflexive ==
  ASSUME NEW u, NEW x \in Item
  PROVE  Leq(u, x, x)
<1>1. x.text \in Text /\ x.at \in Nat
  BY DEF Item
<1>2. ~ TextLess(x.text, x.text)
  <2> DEFINE s == x.text
  <2>1. s \in Text
    BY <1>1
  <2> HIDE DEF s
  <2>2. ~ TextLess(s, s)
    BY <2>1, TextIrreflexive
  <2> QED
    BY <2>2 DEF s
<1> QED
  BY <1>1, <1>2 DEF Leq, Before

\* What an item that is not greater than another amounts to.
LEMMA LeqIs ==
  ASSUME NEW u, NEW x \in Item, NEW y \in Item
  PROVE  Leq(u, x, y) <=> \/ TextLess(x.text, y.text)
                          \/ x.text = y.text /\ (u = "records" => x.at <= y.at)
<1>1. x.text \in Text /\ y.text \in Text /\ x.at \in Nat /\ y.at \in Nat
  BY DEF Item
<1>2. \A s, t \in Text : /\ ~ TextLess(s, s)
                         /\ TextLess(s, t) => ~ TextLess(t, s)
                         /\ s = t \/ TextLess(s, t) \/ TextLess(t, s)
  <2>1. TAKE s, t \in Text
  <2>2. ~ TextLess(s, s)
    BY TextIrreflexive
  <2>3. TextLess(s, t) => ~ TextLess(t, s)
    BY <2>2, TextTransitive
  <2>4. s = t \/ TextLess(s, t) \/ TextLess(t, s)
    BY TextTotal
  <2> QED
    BY <2>2, <2>3, <2>4
<1> DEFINE s == x.text
           t == y.text
<1>3. /\ ~ TextLess(s, s) /\ ~ TextLess(t, t)
      /\ TextLess(s, t) => ~ TextLess(t, s)
      /\ s = t \/ TextLess(s, t) \/ TextLess(t, s)
  BY <1>1, <1>2, Zenon
<1>4. ~ (y.at < x.at) <=> x.at <= y.at
  BY <1>1
<1>5. Leq(u, x, y) <=> ~ TextLess(t, s) /\ ~ (u = "records" /\ t = s /\ y.at < x.at)
  BY DEF Leq, Before
<1> DEFINE i == x.at
           j == y.at
<1> HIDE DEF s, t
<1> QED
  BY <1>3, <1>4, <1>5 DEF s, t

\* Not being after is transitive, since the order is total.
LEMMA LeqTransitive ==
  ASSUME NEW u, NEW x \in Item, NEW y \in Item, NEW z \in Item, Leq(u, x, y), Leq(u, y, z)
  PROVE  Leq(u, x, z)
<1>1. /\ x.text \in Text /\ y.text \in Text /\ z.text \in Text
      /\ x.at \in Nat /\ y.at \in Nat /\ z.at \in Nat
  BY DEF Item
<1>2. TextLess(x.text, y.text) \/ (x.text = y.text /\ (u = "records" => x.at <= y.at))
  BY LeqIs
<1>3. TextLess(y.text, z.text) \/ (y.text = z.text /\ (u = "records" => y.at <= z.at))
  BY LeqIs
<1>4. TextLess(x.text, y.text) /\ TextLess(y.text, z.text) => TextLess(x.text, z.text)
  <2>1. \A a, b, c \in Text : TextLess(a, b) /\ TextLess(b, c) => TextLess(a, c)
    BY TextTransitive
  <2> QED
    BY <1>1, <2>1, Zenon
<1>5. x.at <= y.at /\ y.at <= z.at => x.at <= z.at
  BY <1>1
<1>6. TextLess(x.text, z.text) \/ (x.text = z.text /\ (u = "records" => x.at <= z.at))
  BY <1>2, <1>3, <1>4, <1>5, Zenon
<1> QED
  BY <1>6, LeqIs

\* A list whose neighbours are in order is in order.
LEMMA NeighboursInOrder ==
  ASSUME NEW u, NEW N \in Nat, NEW v \in [1 .. N -> Item],
         \A n \in 1 .. N - 1 : Leq(u, v[n], v[n + 1])
  PROVE  \A m, n \in 1 .. N : m < n => Leq(u, v[m], v[n])
<1>1. SUFFICES ASSUME NEW m \in 1 .. N PROVE \A n \in 1 .. N : m < n => Leq(u, v[m], v[n])
  OBVIOUS
<1> DEFINE Wrong == { n \in Nat : m < n /\ n <= N /\ ~ Leq(u, v[m], v[n]) }
<1>2. CASE Wrong = {}
  BY <1>2
<1>3. CASE Wrong # {}
  <2>1. PICK n \in Wrong : \A j \in Wrong : ~ (j < n)
    <3>1. Wrong \in SUBSET Nat
      OBVIOUS
    <3> HIDE DEF Wrong
    <3> QED
      BY <1>3, <3>1, LeastElement
  <2>2. n \in Nat /\ m < n /\ n <= N /\ ~ Leq(u, v[m], v[n])
    OBVIOUS
  <2>3. n - 1 \in 1 .. N - 1 /\ n - 1 \in Nat /\ n - 1 < n /\ (n - 1) + 1 = n /\ n - 1 \in 1 .. N /\ n \in 1 .. N
    BY <2>2
  <2>4. v[m] \in Item /\ v[n - 1] \in Item /\ v[n] \in Item
    BY <2>3
  <2>5. Leq(u, v[n - 1], v[n])
    <3>1. Leq(u, v[n - 1], v[(n - 1) + 1])
      BY <2>3
    <3> QED
      BY <2>3, <3>1
  <2>6. CASE m = n - 1
    BY <2>2, <2>5, <2>6
  <2>7. CASE m # n - 1
    <3>1. m < n - 1 /\ n - 1 <= N
      BY <2>2, <2>7
    <3>2. n - 1 \notin Wrong
      BY <2>1, <2>3
    <3>3. Leq(u, v[m], v[n - 1])
      BY <2>3, <3>1, <3>2
    <3> QED
      BY <2>2, <2>4, <2>5, <3>3, LeqTransitive
  <2> QED
    BY <2>6, <2>7
<1> QED
  BY <1>2, <1>3

-----------------------------------------------------------------------------
(***************************************************************************)
(* Heaps.  The list v has N items, its nodes count from 0, r is the first  *)
(* node whose children are in order, e the length of the heap and h the    *)
(* hole, or -1.                                                            *)
(***************************************************************************)
At(v, k) == v[k + 1]

ChildOf(c, p) == c = 2 * p + 1 \/ c = 2 * p + 2

HeapExcept(u, v, r, e, h) ==
  \A p \in r .. e - 1, c \in 0 .. e - 1 :
    p # h /\ ChildOf(c, p) => Leq(u, At(v, c), At(v, p))

Grand(u, v, r, e, h) ==
  \A p \in r .. e - 1, c \in 0 .. e - 1 :
    ChildOf(h, p) /\ ChildOf(c, h) => Leq(u, At(v, c), At(v, p))

Behind(u, v, e, N) ==
  \A j \in e .. N - 1 : \A i \in 0 .. j - 1 : Leq(u, At(v, i), At(v, j))

\* Every position of a list holds an item.
LEMMA AtType ==
  ASSUME NEW N \in Nat, NEW v \in [1 .. N -> Item], NEW k \in 0 .. N - 1
  PROVE  At(v, k) \in Item
<1>1. k + 1 \in 1 .. N
  OBVIOUS
<1> QED
  BY <1>1 DEF At

Exchanged(v, i, j) == [v EXCEPT ![i + 1] = At(v, j), ![j + 1] = At(v, i)]

ItemsOf(v, N) == { v[n] : n \in 1 .. N }

Distinct(v, N) == \A m, n \in 1 .. N : v[m] = v[n] => m = n

\* An exchange of two nodes keeps the items.
LEMMA ExchangedIs ==
  ASSUME NEW N \in Nat, NEW v \in [1 .. N -> Item], NEW i \in 0 .. N - 1, NEW j \in 0 .. N - 1
  PROVE  /\ Exchanged(v, i, j) \in [1 .. N -> Item]
         /\ \A k \in 0 .. N - 1 :
              At(Exchanged(v, i, j), k) =
                IF k = i THEN At(v, j) ELSE IF k = j THEN At(v, i) ELSE At(v, k)
         /\ ItemsOf(Exchanged(v, i, j), N) = ItemsOf(v, N)
         /\ Distinct(v, N) => Distinct(Exchanged(v, i, j), N)
<1> DEFINE w == Exchanged(v, i, j)
           a == i + 1
           b == j + 1
<1>1. a \in 1 .. N /\ b \in 1 .. N
  OBVIOUS
<1>2. w = [v EXCEPT ![a] = v[b], ![b] = v[a]]
  BY DEF Exchanged, At
<1>3. \A k \in Int : (k + 1 = a <=> k = i) /\ (k + 1 = b <=> k = j)
  OBVIOUS
<1>4. \A k \in 0 .. N - 1 : k + 1 \in 1 .. N /\ k \in Int
  OBVIOUS
<1> HIDE DEF w, a, b
<1>5. w \in [1 .. N -> Item] /\ \A n \in 1 .. N : w[n] = IF n = a THEN v[b] ELSE IF n = b THEN v[a] ELSE v[n]
  <2>1. v[a] \in Item /\ v[b] \in Item
    BY <1>1
  <2> QED
    BY <1>1, <1>2, <2>1
<1>6. At(v, i) = v[a] /\ At(v, j) = v[b]
  BY DEF At, a, b
<1>7. \A k \in 0 .. N - 1 : At(w, k) = IF k = i THEN At(v, j) ELSE IF k = j THEN At(v, i) ELSE At(v, k)
  <2>1. TAKE k \in 0 .. N - 1
  <2>2. At(w, k) = w[k + 1] /\ At(v, k) = v[k + 1]
    BY DEF At
  <2> QED
    BY <1>3, <1>4, <1>5, <1>6, <2>2
<1>8. { w[n] : n \in 1 .. N } = { v[n] : n \in 1 .. N }
  <2>1. \A n \in 1 .. N : \E m \in 1 .. N : w[n] = v[m]
    BY <1>1, <1>5
  <2>2. \A n \in 1 .. N : \E m \in 1 .. N : v[n] = w[m]
    <3>1. w[a] = v[b] /\ w[b] = v[a]
      BY <1>1, <1>5
    <3>2. \A n \in 1 .. N : n # a /\ n # b => w[n] = v[n]
      BY <1>5
    <3> QED
      BY <1>1, <3>1, <3>2
  <2>3. \A x : (\E n \in 1 .. N : x = w[n]) <=> (\E n \in 1 .. N : x = v[n])
    BY <2>1, <2>2
  <2> QED
    BY <2>3, Zenon
<1>9. ASSUME \A m, n \in 1 .. N : v[m] = v[n] => m = n, NEW m \in 1 .. N, NEW n \in 1 .. N, w[m] = w[n]
      PROVE  m = n
  <2> DEFINE from(k) == IF k = a THEN b ELSE IF k = b THEN a ELSE k
  <2>1. from(m) \in 1 .. N /\ from(n) \in 1 .. N /\ w[m] = v[from(m)] /\ w[n] = v[from(n)]
    BY <1>1, <1>5
  <2>2. from(m) = from(n)
    BY <1>9, <2>1
  <2> QED
    BY <2>2
<1>10. ItemsOf(w, N) = ItemsOf(v, N)
  BY <1>8 DEF ItemsOf
<1>11. Distinct(v, N) => Distinct(w, N)
  BY <1>9 DEF Distinct
<1> QED
  BY <1>5, <1>7, <1>10, <1>11 DEF w

\* An exchange leaves a list of the same length.
LEMMA ExchangedType ==
  ASSUME NEW T, NEW N \in Nat, NEW v \in [1 .. N -> T], NEW i \in 0 .. N - 1, NEW j \in 0 .. N - 1
  PROVE  Exchanged(v, i, j) \in [1 .. N -> T]
<1>1. i + 1 \in 1 .. N /\ j + 1 \in 1 .. N
  OBVIOUS
<1>2. v[i + 1] \in T /\ v[j + 1] \in T
  BY <1>1
<1> QED
  BY <1>1, <1>2 DEF Exchanged, At

\* Where the second half of the nodes begins there are no children.
LEMMA HeapStart ==
  ASSUME NEW u, NEW v, NEW N \in Nat, NEW h
  PROVE  N \div 2 \in Nat /\ N \div 2 <= N /\ HeapExcept(u, v, N \div 2, N, h) /\ Behind(u, v, N, N)
<1> DEFINE r == N \div 2
<1>1. r \in Nat /\ r <= N /\ 2 * r + 1 >= N
  OBVIOUS
<1> HIDE DEF r
<1>2. ASSUME NEW p \in r .. N - 1, NEW c \in 0 .. N - 1 PROVE ~ ChildOf(c, p)
  <2>1. 2 * p >= 2 * r
    BY <1>1
  <2> QED
    BY <1>1, <2>1 DEF ChildOf
<1>3. HeapExcept(u, v, r, N, h)
  BY <1>2 DEF HeapExcept
<1>4. N .. N - 1 = {}
  OBVIOUS
<1>5. Behind(u, v, N, N)
  BY <1>4 DEF Behind
<1> QED
  BY <1>1, <1>3, <1>5 DEF r

\* The next root is the hole.
LEMMA HeapNext ==
  ASSUME NEW u, NEW v, NEW r \in Nat, NEW e \in Nat, r > 0, HeapExcept(u, v, r, e, -1)
  PROVE  HeapExcept(u, v, r - 1, e, r - 1) /\ Grand(u, v, r - 1, e, r - 1)
<1>1. \A p \in r - 1 .. e - 1 : p # r - 1 => p \in r .. e - 1 /\ p # -1
  OBVIOUS
<1>2. \A p \in r - 1 .. e - 1 : ~ ChildOf(r - 1, p)
  BY DEF ChildOf
<1> QED
  BY <1>1, <1>2 DEF HeapExcept, Grand

\* The hole moves to a child that neither its sibling nor the hole is above.
LEMMA SiftStep ==
  ASSUME NEW u, NEW N \in Nat, NEW v \in [1 .. N -> Item],
         NEW r \in Nat, NEW e \in Nat, e <= N,
         NEW h \in r .. e - 1, NEW d \in 0 .. e - 1, ChildOf(d, h),
         HeapExcept(u, v, r, e, h), Grand(u, v, r, e, h), Behind(u, v, e, N),
         Leq(u, At(v, h), At(v, d)),
         \A c \in 0 .. e - 1 : ChildOf(c, h) => Leq(u, At(v, c), At(v, d))
  PROVE  LET w == Exchanged(v, h, d)
         IN  HeapExcept(u, w, r, e, d) /\ Grand(u, w, r, e, d) /\ Behind(u, w, e, N) /\ d \in r .. e - 1
<1> DEFINE w == Exchanged(v, h, d)
<1>1. h \in 0 .. N - 1 /\ d \in 0 .. N - 1 /\ h \in 0 .. e - 1
  OBVIOUS
<1>2. \A k \in 0 .. N - 1 :
        At(w, k) = IF k = h THEN At(v, d) ELSE IF k = d THEN At(v, h) ELSE At(v, k)
  BY <1>1, ExchangedIs
<1>3. d # h /\ d \in r .. e - 1 /\ d > h
  BY DEF ChildOf
<1>4. \A k \in 0 .. e - 1 : k \in 0 .. N - 1
  OBVIOUS
<1>5. \A p \in r .. e - 1 : p \in 0 .. e - 1 /\ p \in 0 .. N - 1
  OBVIOUS
<1> HIDE DEF w
\* A node has one parent, which comes before it.
<1>6. \A c, p, q \in Nat : ChildOf(c, p) /\ ChildOf(c, q) => p = q
  BY DEF ChildOf
<1>7. \A c, p \in Nat : ChildOf(c, p) => p < c
  BY DEF ChildOf
<1>8. ASSUME NEW p \in r .. e - 1, NEW c \in 0 .. e - 1, p # d, ChildOf(c, p)
      PROVE  Leq(u, At(w, c), At(w, p))
  <2>1. p \in Nat /\ c \in Nat /\ h \in Nat /\ d \in Nat /\ p # c
    BY <1>1, <1>7, <1>8
  <2>2. CASE p = h
    <3>1. At(w, p) = At(v, d)
      BY <1>1, <1>2, <2>2
    <3>2. CASE c = d
      <4>1. At(w, c) = At(v, h)
        BY <1>1, <1>2, <1>3, <3>2
      <4> QED
        BY <3>1, <4>1
    <3>3. CASE c # d
      <4>1. At(w, c) = At(v, c)
        BY <1>2, <1>4, <2>1, <2>2, <3>3
      <4> QED
        BY <1>8, <2>2, <3>1, <4>1
    <3> QED
      BY <3>2, <3>3
  <2>3. CASE p # h
    <3>1. At(w, p) = At(v, p)
      BY <1>2, <1>5, <1>8, <2>3
    <3>2. c # d
      BY <1>6, <1>8, <2>1, <2>3
    <3>3. CASE c = h
      <4>1. At(w, c) = At(v, d)
        BY <1>1, <1>2, <3>3
      <4>2. Leq(u, At(v, d), At(v, p))
        BY <1>8, <3>3 DEF Grand
      <4> QED
        BY <3>1, <4>1, <4>2
    <3>4. CASE c # h
      <4>1. At(w, c) = At(v, c)
        BY <1>2, <1>4, <3>2, <3>4
      <4>2. Leq(u, At(v, c), At(v, p))
        BY <1>8, <2>3 DEF HeapExcept
      <4> QED
        BY <3>1, <4>1, <4>2
    <3> QED
      BY <3>3, <3>4
  <2> QED
    BY <2>2, <2>3
<1>9. ASSUME NEW p \in r .. e - 1, NEW c \in 0 .. e - 1, ChildOf(d, p), ChildOf(c, d)
      PROVE  Leq(u, At(w, c), At(w, p))
  <2>1. p \in Nat /\ c \in Nat /\ h \in Nat /\ d \in Nat
    BY <1>1
  <2>2. p = h
    BY <1>6, <1>9, <2>1
  <2>3. c # h /\ c # d
    BY <1>3, <1>7, <1>9, <2>1
  <2>4. At(w, c) = At(v, c) /\ At(w, p) = At(v, d)
    BY <1>1, <1>2, <1>4, <2>2, <2>3
  <2>5. Leq(u, At(v, c), At(v, d))
    BY <1>3, <1>9 DEF HeapExcept
  <2> QED
    BY <2>4, <2>5
<1>10. ASSUME NEW j \in e .. N - 1, NEW i \in 0 .. j - 1
       PROVE  Leq(u, At(w, i), At(w, j))
  <2>1. j \in 0 .. N - 1 /\ j # h /\ j # d /\ i \in 0 .. N - 1 /\ h \in 0 .. j - 1 /\ d \in 0 .. j - 1
    OBVIOUS
  <2>2. At(w, j) = At(v, j) /\ At(w, i) \in {At(v, h), At(v, d), At(v, i)}
    BY <1>2, <2>1
  <2>3. Leq(u, At(v, h), At(v, j)) /\ Leq(u, At(v, d), At(v, j)) /\ Leq(u, At(v, i), At(v, j))
    BY <2>1 DEF Behind
  <2> QED
    BY <2>2, <2>3
<1> QED
  BY <1>3, <1>8, <1>9, <1>10 DEF HeapExcept, Grand, Behind, w

\* A hole that no child is greater than is none.
LEMMA SiftEnd ==
  ASSUME NEW u, NEW v, NEW r \in Nat, NEW e \in Nat, NEW h,
         HeapExcept(u, v, r, e, h),
         \A c \in 0 .. e - 1 : ChildOf(c, h) => Leq(u, At(v, c), At(v, h))
  PROVE  HeapExcept(u, v, r, e, -1)
BY DEF HeapExcept

\* No item of a heap is greater than its root.
LEMMA RootIsGreatest ==
  ASSUME NEW u, NEW N \in Nat, NEW v \in [1 .. N -> Item], NEW e \in Nat, e <= N,
         HeapExcept(u, v, 0, e, -1)
  PROVE  \A k \in 0 .. e - 1 : Leq(u, At(v, k), At(v, 0))
<1> DEFINE Wrong == { k \in Nat : k <= e - 1 /\ ~ Leq(u, At(v, k), At(v, 0)) }
<1>1. CASE Wrong = {}
  BY <1>1
<1>2. CASE Wrong # {}
  <2>1. PICK k \in Wrong : \A j \in Wrong : ~ (j < k)
    <3>1. Wrong \in SUBSET Nat
      OBVIOUS
    <3> HIDE DEF Wrong
    <3> QED
      BY <1>2, <3>1, LeastElement
  <2>2. k \in Nat /\ k <= e - 1 /\ ~ Leq(u, At(v, k), At(v, 0))
    OBVIOUS
  <2>3. \A j \in 0 .. e - 1 : At(v, j) \in Item
    <3>1. \A j \in 0 .. e - 1 : j \in 0 .. N - 1
      OBVIOUS
    <3> QED
      BY <3>1, AtType
  <2>4. k # 0
    <3>1. 0 \in 0 .. e - 1
      BY <2>2
    <3>2. Leq(u, At(v, 0), At(v, 0))
      BY <2>3, <3>1, LeqReflexive
    <3> QED
      BY <2>2, <3>2
  <2>5. PICK p \in Nat : ChildOf(k, p) /\ p < k
    <3> DEFINE q == (k - 1) \div 2
    <3>1. q \in Nat /\ (k = 2 * q + 1 \/ k = 2 * q + 2) /\ q < k
      BY <2>2, <2>4
    <3> QED
      BY <3>1 DEF ChildOf
  <2>6. k \in 0 .. e - 1 /\ p \in 0 .. e - 1 /\ p # -1 /\ 0 \in 0 .. e - 1 /\ p <= e - 1
    BY <2>2, <2>5
  <2>7. Leq(u, At(v, k), At(v, p))
    BY <2>5, <2>6 DEF HeapExcept
  <2>8. Leq(u, At(v, p), At(v, 0))
    BY <2>1, <2>5, <2>6
  <2>9. Leq(u, At(v, k), At(v, 0))
    <3>1. At(v, k) \in Item /\ At(v, p) \in Item /\ At(v, 0) \in Item
      BY <2>3, <2>6
    <3> QED
      BY <2>7, <2>8, <3>1, LeqTransitive
  <2> QED
    BY <2>2, <2>9
<1> QED
  BY <1>1, <1>2

\* The root goes behind the heap.
LEMMA ExtractStep ==
  ASSUME NEW u, NEW N \in Nat, NEW v \in [1 .. N -> Item], NEW e \in Nat, e <= N, e > 1,
         HeapExcept(u, v, 0, e, -1), Behind(u, v, e, N)
  PROVE  LET w == Exchanged(v, 0, e - 1)
         IN  HeapExcept(u, w, 0, e - 1, 0) /\ Grand(u, w, 0, e - 1, 0) /\ Behind(u, w, e - 1, N)
<1> DEFINE l == e - 1
           w == Exchanged(v, 0, l)
<1>1. 0 \in 0 .. N - 1 /\ l \in 0 .. N - 1 /\ l \in Nat /\ l # 0 /\ l \in 0 .. e - 1
  OBVIOUS
<1>2. \A k \in 0 .. N - 1 :
        At(w, k) = IF k = 0 THEN At(v, l) ELSE IF k = l THEN At(v, 0) ELSE At(v, k)
  <2>1. \A i, j \in 0 .. N - 1 : \A k \in 0 .. N - 1 :
          At(Exchanged(v, i, j), k) =
            IF k = i THEN At(v, j) ELSE IF k = j THEN At(v, i) ELSE At(v, k)
    BY ExchangedIs
  <2> HIDE DEF l
  <2> QED
    BY <1>1, <2>1, Zenon
<1> HIDE DEF w
<1>3. ASSUME NEW p \in 0 .. l - 1, NEW c \in 0 .. l - 1, p # 0, ChildOf(c, p)
      PROVE  Leq(u, At(w, c), At(w, p))
  <2>1. c # 0 /\ c # l /\ p # l /\ c \in 0 .. N - 1 /\ p \in 0 .. N - 1
        /\ c \in 0 .. e - 1 /\ p \in 0 .. e - 1 /\ p # -1
    BY <1>3 DEF ChildOf
  <2>2. At(w, c) = At(v, c) /\ At(w, p) = At(v, p)
    BY <1>2, <1>3, <2>1
  <2> QED
    BY <1>3, <2>1, <2>2 DEF HeapExcept
<1>4. \A p \in 0 .. l - 1 : ~ ChildOf(0, p)
  BY DEF ChildOf
<1>5. ASSUME NEW j \in l .. N - 1, NEW i \in 0 .. j - 1
      PROVE  Leq(u, At(w, i), At(w, j))
  <2>1. i \in 0 .. N - 1 /\ j \in 0 .. N - 1 /\ j # 0
    OBVIOUS
  <2>2. CASE j = l
    <3>1. At(w, j) = At(v, 0) /\ i # l /\ i \in 0 .. e - 1
      BY <1>1, <1>2, <2>2
    <3>2. At(w, i) = At(v, l) \/ At(w, i) = At(v, i)
      BY <1>2, <2>1, <3>1
    <3> QED
      BY <1>1, <3>1, <3>2, RootIsGreatest
  <2>3. CASE j # l
    <3>1. j \in e .. N - 1 /\ At(w, j) = At(v, j) /\ 0 \in 0 .. j - 1 /\ l \in 0 .. j - 1
      BY <1>2, <2>1, <2>3
    <3>2. At(w, i) \in {At(v, l), At(v, 0), At(v, i)}
      BY <1>2, <2>1
    <3>3. Leq(u, At(v, l), At(v, j)) /\ Leq(u, At(v, 0), At(v, j)) /\ Leq(u, At(v, i), At(v, j))
      BY <3>1 DEF Behind
    <3> QED
      BY <3>1, <3>2, <3>3
  <2> QED
    BY <2>2, <2>3
<1> QED
  BY <1>3, <1>4, <1>5 DEF HeapExcept, Grand, Behind, w

-----------------------------------------------------------------------------
(***************************************************************************)
(* The sort.                                                               *)
(***************************************************************************)
Entered == [text : Prefixes, at : Nat]

\* What was handed in are items.
LEMMA EnteredAreItems == \A x \in Entered : x \in Item
<1>1. \A s \in Prefixes : s \in Text
  BY CanonicalAssumption DEF Text
<1> QED
  BY <1>1 DEF Entered, Item

\* The sorted list holds items at natural positions.
LEMMA ValuesType ==
  ASSUME TypeInv
  PROVE  /\ Len(values) \in Nat /\ DOMAIN values = 1 .. Len(values)
         /\ values \in [1 .. Len(values) -> Entered] /\ values \in [1 .. Len(values) -> Item]
<1>1. values \in Seq(Entered)
  BY DEF TypeInv, Entered
<1>2. Len(values) \in Nat /\ DOMAIN values = 1 .. Len(values) /\ values \in [1 .. Len(values) -> Entered]
  BY <1>1
<1>3. values \in [1 .. Len(values) -> Item]
  <2> DEFINE N == Len(values)
  <2>1. values \in [1 .. N -> Entered]
    BY <1>2
  <2> HIDE DEF N
  <2> QED
    BY <2>1, EnteredAreItems DEF N
<1> QED
  BY <1>2, <1>3

\* The heap as the invariant has it, of any list, order and numbers.
HeapOf(u, v, q, r, e, h) ==
  q \in {"heap", "sift"} =>
    \A p \in r .. e - 1 :
      /\ q = "heap" \/ p # h =>
           \A c \in {2 * p + 1, 2 * p + 2} \cap (0 .. e - 1) : Leq(u, At(v, c), At(v, p))
      /\ q = "sift" /\ h \in {2 * p + 1, 2 * p + 2} \cap (0 .. e - 1) =>
           \A c \in {2 * h + 1, 2 * h + 2} \cap (0 .. e - 1) : Leq(u, At(v, c), At(v, p))

TailOf(u, v, q, e) == q \in {"heap", "sift"} => Behind(u, v, e, Len(v))

OrderOf(u, v, q) == q = "done" => \A m, n \in DOMAIN v : m < n => Leq(u, v[m], v[n])

\* The invariant in terms of lists, as the lemmas on heaps speak of them.
LEMMA InvariantsAre ==
  /\ HeapInv <=> HeapOf(use, values, pc, root, end, hole)
  /\ TailInv <=> TailOf(use, values, pc, end)
  /\ OrderInv <=> OrderOf(use, values, pc)
<1>1. HeapInv <=> HeapOf(use, values, pc, root, end, hole)
  BY DEF HeapInv, HeapOf, Children, Node, Less, Leq, Before, At
<1>2. TailInv <=> TailOf(use, values, pc, end)
  BY DEF TailInv, TailOf, Behind, Node, Less, Leq, Before, At
<1>3. OrderInv <=> OrderOf(use, values, pc)
  BY DEF OrderInv, OrderOf, Less, Leq, Before
<1> QED
  BY <1>1, <1>2, <1>3

\* The same of the next state.
LEMMA InvariantsNext ==
  /\ HeapInv' <=> HeapOf(use', values', pc', root', end', hole')
  /\ TailInv' <=> TailOf(use', values', pc', end')
  /\ OrderInv' <=> OrderOf(use', values', pc')
<1>1. HeapInv' <=> HeapOf(use', values', pc', root', end', hole')
  BY DEF HeapInv, HeapOf, Children, Node, Less, Leq, Before, At
<1>2. TailInv' <=> TailOf(use', values', pc', end')
  BY DEF TailInv, TailOf, Behind, Node, Less, Leq, Before, At
<1>3. OrderInv' <=> OrderOf(use', values', pc')
  BY DEF OrderInv, OrderOf, Less, Leq, Before
<1> QED
  BY <1>1, <1>2, <1>3

\* The invariant of the heap, without a hole and with one.
LEMMA HeapOfIs ==
  ASSUME NEW u, NEW v, NEW r \in Nat, NEW e \in Nat, NEW h
  PROVE  /\ HeapOf(u, v, "heap", r, e, h) <=> HeapExcept(u, v, r, e, -1)
         /\ h \in 0 .. e - 1 =>
              (HeapOf(u, v, "sift", r, e, h) <=> HeapExcept(u, v, r, e, h) /\ Grand(u, v, r, e, h))
<1>1. \A p \in r .. e - 1 : p # -1
  OBVIOUS
<1>2. \A p : {2 * p + 1, 2 * p + 2} \cap (0 .. e - 1) = { c \in 0 .. e - 1 : ChildOf(c, p) }
  BY DEF ChildOf
<1>3. HeapOf(u, v, "heap", r, e, h) <=> HeapExcept(u, v, r, e, -1)
  BY <1>1, <1>2 DEF HeapOf, HeapExcept
<1>4. ASSUME h \in 0 .. e - 1
      PROVE  HeapOf(u, v, "sift", r, e, h) <=> HeapExcept(u, v, r, e, h) /\ Grand(u, v, r, e, h)
  BY <1>2, <1>4 DEF HeapOf, HeapExcept, Grand
<1> QED
  BY <1>3, <1>4

\* A list turned round keeps the items.
LEMMA TurnedIs ==
  ASSUME NEW T, NEW N \in Nat, NEW v \in [1 .. N -> T], NEW w,
         w = [n \in 1 .. N |-> v[N + 1 - n]]
  PROVE  /\ w \in [1 .. N -> T]
         /\ { w[n] : n \in 1 .. N } = { v[n] : n \in 1 .. N }
         /\ (\A m, n \in 1 .. N : v[m] = v[n] => m = n) => \A m, n \in 1 .. N : w[m] = w[n] => m = n
<1>1. \A n \in 1 .. N : N + 1 - n \in 1 .. N /\ w[n] = v[N + 1 - n] /\ N + 1 - (N + 1 - n) = n
  OBVIOUS
<1>2. w \in [1 .. N -> T]
  BY <1>1
<1>3. \A x : (\E n \in 1 .. N : x = w[n]) <=> (\E n \in 1 .. N : x = v[n])
  <2>1. \A n \in 1 .. N : \E m \in 1 .. N : w[n] = v[m]
    BY <1>1
  <2>2. \A n \in 1 .. N : \E m \in 1 .. N : v[n] = w[m]
    <3>1. TAKE n \in 1 .. N
    <3>2. N + 1 - n \in 1 .. N /\ w[N + 1 - n] = v[N + 1 - (N + 1 - n)] /\ N + 1 - (N + 1 - n) = n
      BY <1>1
    <3> QED
      BY <3>2
  <2> QED
    BY <2>1, <2>2
<1>4. { w[n] : n \in 1 .. N } = { v[n] : n \in 1 .. N }
  BY <1>3, Zenon
<1>5. ASSUME \A m, n \in 1 .. N : v[m] = v[n] => m = n, NEW m \in 1 .. N, NEW n \in 1 .. N, w[m] = w[n]
      PROVE  m = n
  <2>1. N + 1 - m = N + 1 - n
    BY <1>1, <1>5
  <2> QED
    BY <2>1
<1> QED
  BY <1>2, <1>4, <1>5

\* A list without a step down is in order, and one without a step up is when
\* it is turned round.
LEMMA ScanIsExact ==
  ASSUME NEW u, NEW N \in Nat, NEW v \in [1 .. N -> Item]
  PROVE  /\ (\A n \in 1 .. N - 1 : ~ Before(u, v[n + 1], v[n])) =>
              \A m, n \in 1 .. N : m < n => Leq(u, v[m], v[n])
         /\ \A w : w = [n \in 1 .. N |-> v[N + 1 - n]] /\ (\A n \in 1 .. N - 1 : ~ Before(u, v[n], v[n + 1])) =>
              \A m, n \in 1 .. N : m < n => Leq(u, w[m], w[n])
<1>1. ASSUME \A n \in 1 .. N - 1 : ~ Before(u, v[n + 1], v[n])
      PROVE  \A m, n \in 1 .. N : m < n => Leq(u, v[m], v[n])
  <2>1. \A n \in 1 .. N - 1 : Leq(u, v[n], v[n + 1])
    BY <1>1 DEF Leq
  <2> QED
    BY <2>1, NeighboursInOrder
<1>2. ASSUME NEW w, w = [n \in 1 .. N |-> v[N + 1 - n]], \A n \in 1 .. N - 1 : ~ Before(u, v[n], v[n + 1])
      PROVE  \A m, n \in 1 .. N : m < n => Leq(u, w[m], w[n])
  <2>1. w \in [1 .. N -> Item]
    BY <1>2, TurnedIs
  <2>2. \A n \in 1 .. N - 1 : Leq(u, w[n], w[n + 1])
    <3>1. TAKE n \in 1 .. N - 1
    <3>2. /\ N - n \in 1 .. N - 1 /\ n \in 1 .. N /\ n + 1 \in 1 .. N
          /\ N + 1 - n = (N - n) + 1 /\ N + 1 - (n + 1) = N - n
      OBVIOUS
    <3>3. w[n] = v[(N - n) + 1] /\ w[n + 1] = v[N - n]
      BY <1>2, <3>2
    <3>4. ~ Before(u, v[N - n], v[(N - n) + 1])
      BY <1>2, <3>2
    <3>5. ~ Before(u, w[n + 1], w[n])
      BY <3>3, <3>4
    <3> QED
      BY <3>5 DEF Leq
  <2> QED
    BY <2>1, <2>2, NeighboursInOrder
<1> QED
  BY <1>1, <1>2

\* Another list of the same items is typed and holds what was handed in.
LEMMA ItemsKept ==
  ASSUME TypeInv, ItemsInv, input' = input, values' \in [1 .. Len(values) -> Entered],
         { values'[n] : n \in 1 .. Len(values) } = { values[n] : n \in 1 .. Len(values) },
         \A m, n \in 1 .. Len(values) : values'[m] = values'[n] => m = n
  PROVE  /\ ItemsInv' /\ values' \in Seq(Entered) /\ Len(values') = Len(values)
         /\ DOMAIN values' = DOMAIN values
<1> DEFINE N == Len(values)
<1>1. N \in Nat /\ DOMAIN values = 1 .. N
  BY ValuesType
<1> HIDE DEF N
<1>2. values' \in [1 .. N -> Entered]
  BY DEF N
<1>3. DOMAIN values' = 1 .. N /\ values' \in Seq(Entered) /\ Len(values') = N
  BY <1>1, <1>2
<1>4. /\ 1 .. N = DOMAIN input
      /\ { values'[n] : n \in 1 .. N } = { [text |-> input[n], at |-> n] : n \in DOMAIN input }
  BY <1>1 DEF ItemsInv, N
<1>5. ItemsInv'
  BY <1>3, <1>4 DEF ItemsInv, N
<1> QED
  BY <1>1, <1>3, <1>5 DEF N

\* An exchange of two places keeps the items.
LEMMA SwapKeeps ==
  ASSUME TypeInv, ItemsInv, NEW i \in 0 .. Len(values) - 1, NEW j \in 0 .. Len(values) - 1,
         values' = Swapped(i, j), input' = input
  PROVE  /\ ItemsInv' /\ values' \in Seq(Entered) /\ Len(values') = Len(values)
         /\ values' = Exchanged(values, i, j)
<1> DEFINE N == Len(values)
<1>1. values' = Exchanged(values, i, j)
  BY DEF Swapped, Exchanged, Node, At
<1>2. N \in Nat /\ DOMAIN values = 1 .. N /\ values \in [1 .. N -> Entered]
  BY ValuesType
<1>3. \A m, n \in 1 .. N : values[m] = values[n] => m = n
  BY <1>2 DEF ItemsInv
<1>4. /\ Exchanged(values, i, j) \in [1 .. N -> Entered]
      /\ ItemsOf(Exchanged(values, i, j), N) = ItemsOf(values, N)
      /\ Distinct(values, N) => Distinct(Exchanged(values, i, j), N)
  <2>1. i \in 0 .. N - 1 /\ j \in 0 .. N - 1 /\ values \in [1 .. N -> Item]
    BY ValuesType
  <2> HIDE DEF N
  <2> QED
    BY <1>2, <2>1, ExchangedIs, ExchangedType
<1>5. Distinct(values, N)
  BY <1>3 DEF Distinct
<1>6. /\ values' \in [1 .. N -> Entered] /\ ItemsOf(values', N) = ItemsOf(values, N)
      /\ Distinct(values', N)
  <2> HIDE DEF N
  <2> QED
    BY <1>1, <1>2, <1>4, <1>5
<1> QED
  BY <1>1, <1>6, ItemsKept DEF ItemsOf, Distinct

\* The initial states.
LEMMA InitInv == Init => IInv
<1>1. SUFFICES ASSUME Init PROVE IInv
  OBVIOUS
<1>2. PICK n \in 0 .. MaxItems : input \in [1 .. n -> Prefixes]
  <2>1. <<>> \in [1 .. 0 -> Prefixes] /\ 0 \in 0 .. MaxItems
    BY CanonicalAssumption
  <2>2. CASE input = <<>>
    BY <2>1, <2>2
  <2>3. CASE input \in Lists
    BY <2>3 DEF Lists
  <2> QED
    BY <1>1, <2>2, <2>3 DEF Init
<1>3. n \in Nat /\ DOMAIN input = 1 .. n
  BY <1>2, CanonicalAssumption
<1>4. /\ values \in [1 .. n -> Entered] /\ DOMAIN values = 1 .. n
      /\ \A k \in 1 .. n : values[k] = [text |-> input[k], at |-> k]
  BY <1>1, <1>2, <1>3 DEF Init, Entered
<1>5. TypeInv
  <2>1. values \in Seq(Entered)
    BY <1>3, <1>4
  <2>2. input \in Lists
    BY <1>2 DEF Lists
  <2>3. <<>> \in Seq(Char)
    BY EmptySeq
  <2> QED
    BY <1>1, <2>1, <2>2, <2>3 DEF Init, TypeInv, Entered
<1>6. ItemsInv
  <2>1. \A k, m \in 1 .. n : values[k] = values[m] => k = m
    <3>1. \A k \in 1 .. n : values[k].at = k
      BY <1>4
    <3> QED
      BY <3>1
  <2> QED
    BY <1>3, <1>4, <2>1 DEF ItemsInv
<1>7. HeapInv /\ TailInv /\ OrderInv
  BY <1>1 DEF Init, HeapInv, TailInv, OrderInv
<1> QED
  BY <1>5, <1>6, <1>7 DEF IInv

\* A step that changes nothing.
LEMMA StutterKeeps == IInv /\ UNCHANGED vars => IInv'
<1>1. SUFFICES ASSUME IInv, UNCHANGED vars PROVE IInv'
  OBVIOUS
<1>2. /\ pc' = pc /\ text' = text /\ use' = use /\ input' = input /\ values' = values
      /\ root' = root /\ end' = end /\ hole' = hole
  BY <1>1 DEF vars, list, heap
<1>3. TypeInv' /\ ItemsInv'
  BY <1>1, <1>2 DEF IInv, TypeInv, ItemsInv
<1>4. HeapInv' /\ TailInv' /\ OrderInv'
  BY <1>1, <1>2, InvariantsAre, InvariantsNext DEF IInv
<1> QED
  BY <1>3, <1>4 DEF IInv

\* Typing a character leaves the list alone.
LEMMA TypeKeeps ==
  ASSUME IInv, NEW c \in Char, Type(c)
  PROVE  IInv'
<1>1. /\ pc = "type" /\ pc' = "type" /\ text' = Append(text, c) /\ use' = use /\ input' = input
      /\ values' = values /\ root' = root /\ end' = end /\ hole' = hole
  BY DEF Type, list, heap
<1>2. text' \in Seq(Char)
  BY <1>1 DEF IInv, TypeInv
<1>3. TypeInv'
  BY <1>1, <1>2 DEF IInv, TypeInv
<1>4. ItemsInv'
  BY <1>1 DEF IInv, ItemsInv
<1>5. HeapInv' /\ TailInv' /\ OrderInv'
  BY <1>1 DEF HeapInv, TailInv, OrderInv
<1> QED
  BY <1>3, <1>4, <1>5 DEF IInv

\* A list in order, or reversed, needs no heap; another becomes one.
LEMMA ScanKeeps ==
  ASSUME IInv, Scan
  PROVE  IInv'
<1> DEFINE count == Len(values)
           descending == Before(use, values[count], values[1])
           ordered == \A n \in 1 .. count - 1 :
                        IF descending THEN ~ Before(use, values[n], values[n + 1])
                        ELSE ~ Before(use, values[n + 1], values[n])
           turned == [n \in 1 .. count |-> values[count + 1 - n]]
<1>1. /\ pc = "scan" /\ text' = text /\ use' = use /\ input' = input /\ hole' = hole
      /\ IF count = 0 \/ ordered
         THEN /\ pc' = "done" /\ root' = root /\ end' = end
              /\ values' = IF count # 0 /\ descending THEN turned ELSE values
         ELSE pc' = "heap" /\ root' = count \div 2 /\ end' = count /\ values' = values
  BY DEF Scan, Less, Before
<1>2. TypeInv /\ ItemsInv
  BY DEF IInv
<1>3. /\ count \in Nat /\ DOMAIN values = 1 .. count
      /\ values \in [1 .. count -> Entered] /\ values \in [1 .. count -> Item]
  BY <1>2, ValuesType
<1>4. \A m, n \in 1 .. count : values[m] = values[n] => m = n
  BY <1>2, <1>3 DEF ItemsInv
<1>5. CASE values' = values /\ (count = 0 \/ ordered) /\ ~ (count # 0 /\ descending)
  <2>1. pc' = "done" /\ root' = root /\ end' = end
    BY <1>1, <1>5
  <2>2. ItemsInv' /\ TypeInv'
    BY <1>1, <1>2, <1>5, <2>1 DEF ItemsInv, TypeInv
  <2>3. \A m, n \in 1 .. count : m < n => Leq(use, values[m], values[n])
    <3>1. CASE count = 0
      <4>1. 1 .. 0 = {}
        OBVIOUS
      <4> QED
        BY <3>1, <4>1
    <3>2. CASE count # 0
      <4>1. \A n \in 1 .. count - 1 : ~ Before(use, values[n + 1], values[n])
        BY <1>5, <3>2
      <4> HIDE DEF count
      <4> QED
        BY <1>3, <4>1, ScanIsExact
    <3> QED
      BY <3>1, <3>2
  <2>4. OrderInv'
    BY <1>1, <1>3, <1>5, <2>3, InvariantsNext DEF OrderOf
  <2>5. HeapInv' /\ TailInv'
    BY <2>1 DEF HeapInv, TailInv
  <2> QED
    BY <2>2, <2>4, <2>5 DEF IInv
<1>6. CASE values' = turned /\ (count = 0 \/ ordered) /\ count # 0 /\ descending
  <2>1. pc' = "done" /\ root' = root /\ end' = end
    BY <1>1, <1>6
  <2>2. /\ turned \in [1 .. count -> Entered]
        /\ { turned[n] : n \in 1 .. count } = { values[n] : n \in 1 .. count }
        /\ \A m, n \in 1 .. count : turned[m] = turned[n] => m = n
    <3> DEFINE w == turned
    <3>1. w = [n \in 1 .. count |-> values[count + 1 - n]]
      OBVIOUS
    <3> HIDE DEF count, turned
    <3> QED
      BY <1>3, <1>4, <3>1, TurnedIs
  <2>3. ItemsInv' /\ values' \in Seq(Entered) /\ DOMAIN values' = 1 .. count
    BY <1>1, <1>2, <1>3, <1>6, <2>2, ItemsKept
  <2>4. TypeInv'
    BY <1>1, <1>2, <2>1, <2>3 DEF TypeInv, Entered
  <2>5. \A m, n \in 1 .. count : m < n => Leq(use, turned[m], turned[n])
    <3>1. \A n \in 1 .. count - 1 : ~ Before(use, values[n], values[n + 1])
      BY <1>6
    <3>2. turned = [n \in 1 .. count |-> values[count + 1 - n]]
      OBVIOUS
    <3> HIDE DEF count, turned
    <3> QED
      BY <1>3, <3>1, <3>2, ScanIsExact
  <2>6. OrderInv'
    BY <1>1, <1>6, <2>3, <2>5, InvariantsNext DEF OrderOf
  <2>7. HeapInv' /\ TailInv'
    BY <2>1 DEF HeapInv, TailInv
  <2> QED
    BY <2>3, <2>4, <2>6, <2>7 DEF IInv
<1>7. CASE pc' = "heap" /\ root' = count \div 2 /\ end' = count /\ values' = values
  <2>1. /\ count \div 2 \in Nat /\ count \div 2 <= count
        /\ HeapExcept(use, values, count \div 2, count, -1) /\ Behind(use, values, count, count)
    BY <1>3, HeapStart
  <2>2. TypeInv' /\ ItemsInv'
    BY <1>1, <1>2, <1>3, <1>7, <2>1 DEF TypeInv, ItemsInv
  <2>3. HeapInv'
    <3>1. HeapOf(use, values, "heap", count \div 2, count, hole)
      BY <1>3, <2>1, HeapOfIs
    <3> QED
      BY <1>1, <1>7, <3>1, InvariantsNext
  <2>4. TailInv'
    BY <1>1, <1>7, <2>1, InvariantsNext DEF TailOf
  <2>5. OrderInv'
    BY <1>7 DEF OrderInv
  <2> QED
    BY <2>2, <2>3, <2>4, <2>5 DEF IInv
<1> QED
  BY <1>1, <1>5, <1>6, <1>7

\* One more inner node begins to sift.
LEMMA HeapifyKeeps ==
  ASSUME IInv, Heapify
  PROVE  IInv'
<1>1. /\ pc = "heap" /\ root > 0 /\ root' = root - 1 /\ hole' = root - 1 /\ pc' = "sift"
      /\ text' = text /\ use' = use /\ input' = input /\ values' = values /\ end' = end
  BY DEF Heapify, list
<1>2. TypeInv /\ ItemsInv /\ HeapInv /\ TailInv
  BY DEF IInv
<1>3. /\ root \in Nat /\ end \in Nat /\ end <= Len(values) /\ root <= end /\ Len(values) \in Nat
  <2>1. root \in Nat /\ end \in Nat /\ end <= Len(values) /\ root <= end
    BY <1>1, <1>2 DEF TypeInv
  <2> QED
    BY <1>2, <2>1, ValuesType
<1>4. root - 1 \in Nat /\ root - 1 \in 0 .. end - 1 /\ root - 1 <= Len(values)
  BY <1>1, <1>3
<1>5. HeapExcept(use, values, root, end, -1)
  BY <1>1, <1>2, <1>3, InvariantsAre, HeapOfIs
<1>6. HeapExcept(use, values, root - 1, end, root - 1) /\ Grand(use, values, root - 1, end, root - 1)
  BY <1>1, <1>3, <1>5, HeapNext
<1>7. HeapInv'
  <2>1. HeapOf(use, values, "sift", root - 1, end, root - 1)
    BY <1>3, <1>4, <1>6, HeapOfIs
  <2> QED
    BY <1>1, <2>1, InvariantsNext
<1>8. TailInv'
  BY <1>1, <1>2, InvariantsAre, InvariantsNext DEF TailOf
<1>9. TypeInv'
  BY <1>1, <1>2, <1>3, <1>4 DEF TypeInv
<1>10. ItemsInv' /\ OrderInv'
  BY <1>1, <1>2 DEF ItemsInv, OrderInv
<1> QED
  BY <1>7, <1>8, <1>9, <1>10 DEF IInv


\* The greatest item goes behind the heap.
LEMMA ExtractKeeps ==
  ASSUME IInv, Extract
  PROVE  IInv'
<1>1. /\ pc = "heap" /\ root = 0 /\ text' = text /\ use' = use /\ input' = input /\ root' = root
      /\ IF end > 1
         THEN end' = end - 1 /\ values' = Swapped(0, end - 1) /\ hole' = 0 /\ pc' = "sift"
         ELSE pc' = "done" /\ values' = values /\ end' = end /\ hole' = hole
  BY DEF Extract
<1>2. TypeInv /\ ItemsInv /\ HeapInv /\ TailInv
  BY DEF IInv
<1> DEFINE N == Len(values)
<1>3. N \in Nat /\ DOMAIN values = 1 .. N /\ values \in [1 .. N -> Item]
  BY <1>2, ValuesType
<1>4. end \in Nat /\ end <= N /\ hole \in Nat
  BY <1>1, <1>2 DEF TypeInv
<1>5. HeapExcept(use, values, 0, end, -1) /\ Behind(use, values, end, N)
  <2>1. HeapOf(use, values, "heap", 0, end, hole) /\ TailOf(use, values, "heap", end)
    BY <1>1, <1>2, InvariantsAre
  <2> QED
    BY <1>4, <2>1, HeapOfIs DEF TailOf
<1>6. CASE end > 1
  <2>1. end' = end - 1 /\ values' = Swapped(0, end - 1) /\ hole' = 0 /\ pc' = "sift"
    BY <1>1, <1>6
  <2>2. /\ 0 \in 0 .. N - 1 /\ end - 1 \in 0 .. N - 1 /\ end - 1 \in Nat /\ 0 \in 0 .. (end - 1) - 1
        /\ end - 1 <= N /\ 0 <= end - 1 /\ 0 < end - 1
    BY <1>3, <1>4, <1>6
  <2>3. /\ ItemsInv' /\ values' \in Seq(Entered) /\ Len(values') = N
        /\ values' = Exchanged(values, 0, end - 1)
    BY <1>1, <1>2, <2>1, <2>2, SwapKeeps
  <2>4. /\ HeapExcept(use, values', 0, end - 1, 0) /\ Grand(use, values', 0, end - 1, 0)
        /\ Behind(use, values', end - 1, N)
    <3> DEFINE w == Exchanged(values, 0, end - 1)
    <3>1. HeapExcept(use, w, 0, end - 1, 0) /\ Grand(use, w, 0, end - 1, 0) /\ Behind(use, w, end - 1, N)
      <4> HIDE DEF N
      <4> QED
        BY <1>3, <1>4, <1>5, <1>6, ExtractStep
    <3> HIDE DEF N, w
    <3> QED
      BY <2>3, <3>1 DEF w
  <2>5. HeapInv'
    <3>1. HeapOf(use, values', "sift", 0, end - 1, 0)
      BY <2>2, <2>4, HeapOfIs
    <3> QED
      BY <1>1, <2>1, <3>1, InvariantsNext
  <2>6. TailInv'
    BY <1>1, <2>1, <2>3, <2>4, InvariantsNext DEF TailOf
  <2>7. TypeInv'
    BY <1>1, <1>2, <2>1, <2>2, <2>3 DEF TypeInv, Entered
  <2>8. OrderInv'
    BY <2>1 DEF OrderInv
  <2> QED
    BY <2>3, <2>5, <2>6, <2>7, <2>8 DEF IInv
<1>7. CASE ~ (end > 1)
  <2>1. pc' = "done" /\ values' = values /\ end' = end /\ hole' = hole
    BY <1>1, <1>7
  <2>2. \A m, n \in 1 .. N : m < n => Leq(use, values[m], values[n])
    <3>1. SUFFICES ASSUME NEW m \in 1 .. N, NEW n \in 1 .. N, m < n PROVE Leq(use, values[m], values[n])
      OBVIOUS
    <3>2. /\ n - 1 \in end .. N - 1 /\ m - 1 \in 0 .. (n - 1) - 1
          /\ (n - 1) + 1 = n /\ (m - 1) + 1 = m
      BY <1>3, <1>4, <1>7, <3>1
    <3>3. Leq(use, At(values, m - 1), At(values, n - 1))
      BY <1>5, <3>2 DEF Behind
    <3> QED
      BY <3>2, <3>3 DEF At
  <2>3. OrderInv'
    BY <1>1, <1>3, <2>1, <2>2, InvariantsNext DEF OrderOf
  <2>4. TypeInv' /\ ItemsInv'
    BY <1>1, <1>2, <2>1 DEF TypeInv, ItemsInv
  <2>5. HeapInv' /\ TailInv'
    BY <2>1 DEF HeapInv, TailInv
  <2> QED
    BY <2>3, <2>4, <2>5 DEF IInv
<1> QED
  BY <1>6, <1>7

\* The children of a node in the first half, or of none.
LEMMA HalfIs ==
  ASSUME NEW h \in Nat, NEW e \in Nat
  PROVE  /\ h < e \div 2 => 2 * h + 1 \in 0 .. e - 1
         /\ ~ (h < e \div 2) => \A c \in 0 .. e - 1 : ~ ChildOf(c, h)
<1>1. h < e \div 2 => 2 * h + 1 <= e - 1
  OBVIOUS
<1>2. ~ (h < e \div 2) => 2 * h + 1 > e - 1
  OBVIOUS
<1> QED
  BY <1>1, <1>2 DEF ChildOf

\* The hole moves down, or stays where the heap is whole.
LEMMA SiftKeeps ==
  ASSUME IInv, Sift
  PROVE  IInv'
<1> DEFINE left == 2 * hole + 1
           child == IF left + 1 < end /\ Before(use, At(values, left), At(values, left + 1))
                    THEN left + 1 ELSE left
           N == Len(values)
<1>1. /\ pc = "sift" /\ text' = text /\ use' = use /\ input' = input /\ root' = root /\ end' = end
      /\ IF hole < end \div 2 /\ Before(use, At(values, hole), At(values, child))
         THEN values' = Swapped(hole, child) /\ hole' = child /\ pc' = pc
         ELSE pc' = "heap" /\ values' = values /\ hole' = hole
  BY DEF Sift, Less, Before, Node, At
<1>2. TypeInv /\ ItemsInv /\ HeapInv /\ TailInv
  BY DEF IInv
<1>3. N \in Nat /\ DOMAIN values = 1 .. N /\ values \in [1 .. N -> Item]
  BY <1>2, ValuesType
<1>4. /\ root \in Nat /\ end \in Nat /\ hole \in Nat /\ root <= end /\ end <= N
      /\ root <= hole /\ hole < end
  BY <1>1, <1>2 DEF TypeInv
<1>5. hole \in root .. end - 1 /\ hole \in 0 .. end - 1 /\ hole \in 0 .. N - 1 /\ left \in Nat
  BY <1>3, <1>4
<1>6. HeapExcept(use, values, root, end, hole) /\ Grand(use, values, root, end, hole)
      /\ Behind(use, values, end, N)
  <2>1. HeapOf(use, values, "sift", root, end, hole) /\ TailOf(use, values, "sift", end)
    BY <1>1, <1>2, InvariantsAre
  <2> QED
    BY <1>4, <1>5, <2>1, HeapOfIs DEF TailOf
<1>7. \A k \in 0 .. end - 1 : k \in 0 .. N - 1 /\ At(values, k) \in Item
  <2>1. \A k \in 0 .. end - 1 : k \in 0 .. N - 1
    BY <1>3, <1>4
  <2> HIDE DEF N
  <2> QED
    BY <1>3, <2>1, AtType
\* The child that is looked at is one, and its sibling is not greater.
<1>8. ASSUME hole < end \div 2
      PROVE  /\ child \in 0 .. end - 1 /\ ChildOf(child, hole)
             /\ \A c \in 0 .. end - 1 : ChildOf(c, hole) => Leq(use, At(values, c), At(values, child))
  <2>1. left \in 0 .. end - 1
    BY <1>4, <1>8, HalfIs
  <2>2. \A c \in 0 .. end - 1 : ChildOf(c, hole) => c = left \/ (c = left + 1 /\ left + 1 < end)
    BY <1>4 DEF ChildOf
  <2>3. ChildOf(left, hole) /\ ChildOf(left + 1, hole) /\ (left + 1 < end => left + 1 \in 0 .. end - 1)
    BY <1>4 DEF ChildOf
  <2> HIDE DEF left
  <2>4. CASE left + 1 < end /\ Before(use, At(values, left), At(values, left + 1))
    <3>1. child = left + 1
      BY <2>4
    <3>2. At(values, left) \in Item /\ At(values, left + 1) \in Item
      BY <1>7, <2>1, <2>3, <2>4
    <3>3. Leq(use, At(values, left), At(values, left + 1)) /\ Leq(use, At(values, left + 1), At(values, left + 1))
      BY <2>4, <3>2, BeforeLeq, LeqReflexive
    <3> QED
      BY <2>2, <2>3, <2>4, <3>1, <3>3
  <2>5. CASE ~ (left + 1 < end /\ Before(use, At(values, left), At(values, left + 1)))
    <3>1. child = left
      BY <2>5
    <3>2. Leq(use, At(values, left), At(values, left))
      BY <1>7, <2>1, LeqReflexive
    <3>3. left + 1 < end => Leq(use, At(values, left + 1), At(values, left))
      BY <2>5 DEF Leq
    <3> QED
      BY <2>1, <2>2, <2>3, <3>1, <3>2, <3>3
  <2> QED
    BY <2>4, <2>5
<1> HIDE DEF child
<1>9. CASE hole < end \div 2 /\ Before(use, At(values, hole), At(values, child))
  <2>1. values' = Swapped(hole, child) /\ hole' = child /\ pc' = "sift"
    BY <1>1, <1>9
  <2>2. /\ child \in 0 .. end - 1 /\ child \in 0 .. N - 1 /\ ChildOf(child, hole)
        /\ \A c \in 0 .. end - 1 : ChildOf(c, hole) => Leq(use, At(values, c), At(values, child))
    BY <1>7, <1>8, <1>9
  <2>3. Leq(use, At(values, hole), At(values, child))
    BY <1>5, <1>7, <1>9, <2>2, BeforeLeq
  <2>4. /\ ItemsInv' /\ values' \in Seq(Entered) /\ Len(values') = N
        /\ values' = Exchanged(values, hole, child)
    BY <1>1, <1>2, <1>5, <2>1, <2>2, SwapKeeps
  <2>5. /\ HeapExcept(use, values', root, end, child) /\ Grand(use, values', root, end, child)
        /\ Behind(use, values', end, N) /\ child \in root .. end - 1
    <3> DEFINE w == Exchanged(values, hole, child)
    <3>1. /\ HeapExcept(use, w, root, end, child) /\ Grand(use, w, root, end, child)
          /\ Behind(use, w, end, N) /\ child \in root .. end - 1
      <4> HIDE DEF N
      <4> QED
        BY <1>3, <1>4, <1>5, <1>6, <2>2, <2>3, SiftStep
    <3> HIDE DEF N, w
    <3> QED
      BY <2>4, <3>1 DEF w
  <2>6. HeapInv'
    <3>1. HeapOf(use, values', "sift", root, end, child)
      BY <1>4, <2>2, <2>5, HeapOfIs
    <3> QED
      BY <1>1, <2>1, <3>1, InvariantsNext
  <2>7. TailInv'
    BY <1>1, <2>1, <2>4, <2>5, InvariantsNext DEF TailOf
  <2>8. TypeInv'
    <3>1. child \in Nat /\ root <= child /\ child < end
      BY <1>4, <2>5
    <3> QED
      BY <1>1, <1>2, <1>4, <2>1, <2>4, <3>1 DEF TypeInv, Entered
  <2>9. OrderInv'
    BY <2>1 DEF OrderInv
  <2> QED
    BY <2>4, <2>6, <2>7, <2>8, <2>9 DEF IInv
<1>10. CASE ~ (hole < end \div 2 /\ Before(use, At(values, hole), At(values, child)))
  <2>1. pc' = "heap" /\ values' = values /\ hole' = hole
    BY <1>1, <1>10
  <2>2. \A c \in 0 .. end - 1 : ChildOf(c, hole) => Leq(use, At(values, c), At(values, hole))
    <3>1. CASE ~ (hole < end \div 2)
      BY <1>4, <3>1, HalfIs
    <3>2. CASE hole < end \div 2
      <4>1. Leq(use, At(values, child), At(values, hole))
        BY <1>10, <3>2 DEF Leq
      <4>2. child \in 0 .. end - 1
        BY <1>8, <3>2
      <4>3. ASSUME NEW c \in 0 .. end - 1, ChildOf(c, hole) PROVE Leq(use, At(values, c), At(values, hole))
        <5>1. Leq(use, At(values, c), At(values, child))
          BY <1>8, <3>2, <4>3
        <5>2. At(values, c) \in Item /\ At(values, child) \in Item /\ At(values, hole) \in Item
          BY <1>5, <1>7, <4>2
        <5> QED
          BY <4>1, <5>1, <5>2, LeqTransitive
      <4> QED
        BY <4>3
    <3> QED
      BY <3>1, <3>2
  <2>3. HeapExcept(use, values, root, end, -1)
    BY <1>4, <1>6, <2>2, SiftEnd
  <2>4. HeapInv'
    <3>1. HeapOf(use, values, "heap", root, end, hole)
      BY <1>4, <2>3, HeapOfIs
    <3> QED
      BY <1>1, <2>1, <3>1, InvariantsNext
  <2>5. TailInv'
    BY <1>1, <1>6, <2>1, InvariantsNext DEF TailOf
  <2>6. TypeInv' /\ ItemsInv'
    BY <1>1, <1>2, <1>4, <2>1 DEF TypeInv, ItemsInv
  <2>7. OrderInv'
    BY <2>1 DEF OrderInv
  <2> QED
    BY <2>4, <2>5, <2>6, <2>7 DEF IInv
<1> QED
  BY <1>9, <1>10

\* Every step keeps the invariant.
LEMMA NextKeeps ==
  ASSUME IInv, [Next]_vars
  PROVE  IInv'
<1>1. CASE UNCHANGED vars
  BY <1>1, StutterKeeps
<1>2. ASSUME NEW c \in Char, Type(c) PROVE IInv'
  BY <1>2, TypeKeeps
<1>3. CASE Scan
  BY <1>3, ScanKeeps
<1>4. CASE Heapify
  BY <1>4, HeapifyKeeps
<1>5. CASE Extract
  BY <1>5, ExtractKeeps
<1>6. CASE Sift
  BY <1>6, SiftKeeps
<1> QED
  BY <1>1, <1>2, <1>3, <1>4, <1>5, <1>6 DEF Next

\* The invariant of the sort holds, for every list and use.
THEOREM InductiveInvariant == Spec => []IInv
<1>1. Init => IInv
  BY InitInv
<1>2. IInv /\ [Next]_vars => IInv'
  BY NextKeeps
<1> QED
  BY <1>1, <1>2, PTL DEF Spec

\* sort_unstable_by keeps every item and brings them into order.
THEOREM SortCanonical == Spec => []SortIsCanonical
<1>1. IInv => SortIsCanonical
  BY DEF IInv, ItemsInv, OrderInv, SortIsCanonical
<1> QED
  BY <1>1, InductiveInvariant, PTL

-----------------------------------------------------------------------------
(***************************************************************************)
(* The scans of neighbours, of N items v in the order u that were handed   *)
(* in as the texts l.                                                      *)
(***************************************************************************)
Arranged(u, v, N, l) ==
  /\ N \in Nat /\ v \in [1 .. N -> Item]
  /\ \A i \in 1 .. N : v[i].at \in 1 .. N /\ v[i].text = l[v[i].at]
  /\ \A n \in 1 .. N : \E i \in 1 .. N : v[i].at = n
  /\ \A i, j \in 1 .. N : v[i].at = v[j].at => i = j
  /\ \A i, j \in 1 .. N : i < j => Leq(u, v[i], v[j])

\* What the sort ends with.
LEMMA DoneIsArranged ==
  ASSUME IInv, pc = "done"
  PROVE  /\ Arranged(use, values, Len(values), input)
         /\ DOMAIN input = 1 .. Len(values) /\ DOMAIN values = 1 .. Len(values)
<1> DEFINE N == Len(values)
<1>1. N \in Nat /\ DOMAIN values = 1 .. N /\ values \in [1 .. N -> Item]
  BY ValuesType DEF IInv
<1>2. /\ DOMAIN input = 1 .. N
      /\ { values[n] : n \in 1 .. N } = { [text |-> input[n], at |-> n] : n \in 1 .. N }
      /\ \A m, n \in 1 .. N : values[m] = values[n] => m = n
  BY <1>1 DEF IInv, ItemsInv
<1>3. \A i, j \in 1 .. N : i < j => Leq(use, values[i], values[j])
  BY <1>1, InvariantsAre DEF IInv, OrderOf
<1> HIDE DEF N
<1> DEFINE item(n) == [text |-> input[n], at |-> n]
<1>4. \A i \in 1 .. N : \E n \in 1 .. N : values[i] = item(n)
  <2>1. \A i \in 1 .. N : values[i] \in { item(n) : n \in 1 .. N }
    BY <1>2, Zenon
  <2> QED
    BY <2>1, Zenon
<1>5. \A n \in 1 .. N : \E i \in 1 .. N : values[i] = item(n)
  <2>1. \A n \in 1 .. N : item(n) \in { values[i] : i \in 1 .. N }
    BY <1>2, Zenon
  <2> QED
    BY <2>1, Zenon
<1>6. \A i \in 1 .. N : values[i].at \in 1 .. N /\ values[i].text = input[values[i].at]
                        /\ values[i] = item(values[i].at)
  <2>1. TAKE i \in 1 .. N
  <2>2. PICK n \in 1 .. N : values[i] = item(n)
    BY <1>4
  <2>3. item(n).at = n /\ item(n).text = input[n]
    OBVIOUS
  <2>4. values[i].at = n /\ values[i].text = input[n]
    BY <2>2, <2>3, Zenon
  <2> QED
    BY <2>2, <2>4, Zenon
<1>7. \A n \in 1 .. N : \E i \in 1 .. N : values[i].at = n
  <2>1. TAKE n \in 1 .. N
  <2>2. PICK i \in 1 .. N : values[i] = item(n)
    BY <1>5
  <2>3. item(n).at = n
    OBVIOUS
  <2> QED
    BY <2>2, <2>3, Zenon
<1> HIDE DEF item
<1>8. \A i, j \in 1 .. N : values[i].at = values[j].at => i = j
  BY <1>2, <1>6
<1>9. Arranged(use, values, N, input)
  BY <1>1, <1>3, <1>6, <1>7, <1>8 DEF Arranged
<1> QED
  BY <1>1, <1>2, <1>9 DEF N

\* Whatever is between two items of one text has that text.
LEMMA SameBetween ==
  ASSUME NEW u, NEW x \in Item, NEW y \in Item, NEW z \in Item,
         Leq(u, x, y), Leq(u, y, z), x.text = z.text
  PROVE  y.text = x.text
<1>1. x.text \in Text /\ y.text \in Text
  BY DEF Item
<1>2. TextLess(x.text, y.text) \/ x.text = y.text
  BY LeqIs
<1>3. TextLess(y.text, x.text) \/ x.text = y.text
  BY LeqIs
<1>4. \A s, t \in Text : ~ (TextLess(s, t) /\ TextLess(t, s))
  BY TextIrreflexive, TextTransitive
<1> QED
  BY <1>1, <1>2, <1>3, <1>4, Zenon

\* Items of one text are next to items of that text.
LEMMA EqualAreNeighbours ==
  ASSUME NEW u, NEW v, NEW N, NEW l, Arranged(u, v, N, l),
         NEW i \in 1 .. N, NEW j \in 1 .. N, i < j, v[i].text = v[j].text
  PROVE  /\ i \in 1 .. N - 1 /\ v[i].text = v[i + 1].text
         /\ j - 1 \in 1 .. N - 1 /\ v[j - 1].text = v[j].text
<1>1. /\ N \in Nat /\ \A k \in 1 .. N : v[k] \in Item
      /\ \A k, m \in 1 .. N : k < m => Leq(u, v[k], v[m])
  BY DEF Arranged
<1>2. /\ i \in 1 .. N - 1 /\ i + 1 \in 1 .. N /\ i < i + 1 /\ (i + 1 = j \/ i + 1 < j)
      /\ j - 1 \in 1 .. N - 1 /\ j - 1 \in 1 .. N /\ j - 1 < j /\ (i = j - 1 \/ i < j - 1)
  BY <1>1
<1>3. v[i].text = v[i + 1].text
  <2>1. CASE i + 1 = j
    BY <2>1
  <2>2. CASE i + 1 < j
    <3>1. Leq(u, v[i], v[i + 1]) /\ Leq(u, v[i + 1], v[j])
      BY <1>1, <1>2, <2>2
    <3>2. v[i] \in Item /\ v[i + 1] \in Item /\ v[j] \in Item
      BY <1>1, <1>2
    <3> QED
      BY <3>1, <3>2, SameBetween
  <2> QED
    BY <1>2, <2>1, <2>2
<1>4. v[j - 1].text = v[j].text
  <2>1. CASE i = j - 1
    BY <2>1
  <2>2. CASE i < j - 1
    <3>1. Leq(u, v[i], v[j - 1]) /\ Leq(u, v[j - 1], v[j])
      BY <1>1, <1>2, <2>2
    <3>2. v[i] \in Item /\ v[j - 1] \in Item /\ v[j] \in Item
      BY <1>1, <1>2
    <3>3. v[j - 1].text = v[i].text
      BY <3>1, <3>2, SameBetween
    <3> QED
      BY <3>3
  <2> QED
    BY <1>2, <2>1, <2>2
<1> QED
  BY <1>2, <1>3, <1>4

\* Equal neighbours among records: the later is each that repeats an earlier.
LEMMA DuplicatesExact ==
  ASSUME NEW v, NEW N, NEW l, Arranged("records", v, N, l), NEW n
  PROVE  (\E k \in 1 .. N - 1 : v[k].text = v[k + 1].text /\ v[k + 1].at = n)
           <=> n \in 1 .. N /\ \E m \in 1 .. n - 1 : l[m] = l[n]
<1>1. /\ N \in Nat /\ \A k \in 1 .. N : v[k] \in Item
      /\ \A i \in 1 .. N : v[i].at \in 1 .. N /\ v[i].text = l[v[i].at]
      /\ \A m \in 1 .. N : \E i \in 1 .. N : v[i].at = m
      /\ \A i, j \in 1 .. N : v[i].at = v[j].at => i = j
      /\ \A k, m \in 1 .. N : k < m => Leq("records", v[k], v[m])
  BY DEF Arranged
\* Records of one text are in the order they were handed in.
<1>2. ASSUME NEW i \in 1 .. N, NEW j \in 1 .. N, i < j, v[i].text = v[j].text
      PROVE  v[i].at < v[j].at
  <2>1. v[i] \in Item /\ v[j] \in Item /\ Leq("records", v[i], v[j])
    BY <1>1, <1>2
  <2>2. v[i].text \in Text /\ v[j].text \in Text /\ ~ TextLess(v[i].text, v[j].text)
    <3>1. v[i].text \in Text /\ v[j].text \in Text
      BY <2>1 DEF Item
    <3>2. \A s, t \in Text : s = t => ~ TextLess(s, t)
      BY TextIrreflexive
    <3> QED
      BY <1>2, <3>1, <3>2, Zenon
  <2>3. v[i].at <= v[j].at
    BY <2>1, <2>2, LeqIs
  <2>4. v[i].at # v[j].at /\ v[i].at \in 1 .. N /\ v[j].at \in 1 .. N
    <3>1. i # j
      BY <1>2
    <3> QED
      BY <1>1, <3>1
  <2> QED
    BY <1>1, <2>3, <2>4
<1>3. ASSUME NEW k \in 1 .. N - 1, v[k].text = v[k + 1].text, v[k + 1].at = n
      PROVE  n \in 1 .. N /\ \E m \in 1 .. n - 1 : l[m] = l[n]
  <2>1. k \in 1 .. N /\ k + 1 \in 1 .. N /\ k < k + 1
    BY <1>1
  <2>2. v[k].at < n
    BY <1>2, <1>3, <2>1
  <2>3. n \in 1 .. N /\ v[k].at \in 1 .. N /\ l[v[k].at] = l[n]
    BY <1>1, <1>3, <2>1
  <2>4. v[k].at \in 1 .. n - 1
    BY <1>1, <2>2, <2>3
  <2> QED
    BY <2>3, <2>4
<1>4. ASSUME n \in 1 .. N, NEW m \in 1 .. n - 1, l[m] = l[n]
      PROVE  \E k \in 1 .. N - 1 : v[k].text = v[k + 1].text /\ v[k + 1].at = n
  <2>1. m \in 1 .. N /\ m < n /\ ~ (n < m)
    BY <1>1, <1>4
  <2>2. PICK i \in 1 .. N : v[i].at = m
    BY <1>1, <2>1
  <2>3. PICK j \in 1 .. N : v[j].at = n
    BY <1>1, <1>4
  <2>4. v[i].text = v[j].text
    BY <1>1, <1>4, <2>2, <2>3
  <2>5. i < j
    <3>1. i # j
      BY <2>1, <2>2, <2>3
    <3>2. ~ (j < i)
      BY <1>2, <2>1, <2>2, <2>3, <2>4
    <3> QED
      BY <1>1, <3>1, <3>2
  <2>6. j - 1 \in 1 .. N - 1 /\ v[j - 1].text = v[j].text
    BY <2>4, <2>5, EqualAreNeighbours
  <2>7. (j - 1) + 1 = j
    BY <1>1
  <2> QED
    BY <2>3, <2>6, <2>7
<1> QED
  BY <1>3, <1>4

\* Equal neighbours among requests: some text was handed in twice.
LEMMA RepeatsExact ==
  ASSUME NEW u, NEW v, NEW N, NEW l, Arranged(u, v, N, l)
  PROVE  (\E k \in 1 .. N - 1 : v[k].text = v[k + 1].text)
           <=> \E m, n \in 1 .. N : m # n /\ l[m] = l[n]
<1>1. /\ N \in Nat
      /\ \A i \in 1 .. N : v[i].at \in 1 .. N /\ v[i].text = l[v[i].at]
      /\ \A m \in 1 .. N : \E i \in 1 .. N : v[i].at = m
      /\ \A i, j \in 1 .. N : v[i].at = v[j].at => i = j
  BY DEF Arranged
<1>2. ASSUME NEW k \in 1 .. N - 1, v[k].text = v[k + 1].text
      PROVE  \E m, n \in 1 .. N : m # n /\ l[m] = l[n]
  <2>1. k \in 1 .. N /\ k + 1 \in 1 .. N /\ k # k + 1
    BY <1>1
  <2>2. v[k].at # v[k + 1].at /\ l[v[k].at] = l[v[k + 1].at]
    BY <1>1, <1>2, <2>1
  <2> QED
    BY <1>1, <2>1, <2>2
<1>3. ASSUME NEW m \in 1 .. N, NEW n \in 1 .. N, m # n, l[m] = l[n]
      PROVE  \E k \in 1 .. N - 1 : v[k].text = v[k + 1].text
  <2>1. PICK i \in 1 .. N : v[i].at = m
    BY <1>1
  <2>2. PICK j \in 1 .. N : v[j].at = n
    BY <1>1
  <2>3. v[i].text = v[j].text
    BY <1>1, <1>3, <2>1, <2>2
  <2>4. CASE i < j
    BY <2>3, <2>4, EqualAreNeighbours
  <2>5. CASE j < i
    BY <2>3, <2>5, EqualAreNeighbours
  <2>6. i < j \/ j < i
    BY <1>1, <1>3, <2>1, <2>2
  <2> QED
    BY <2>4, <2>5, <2>6
<1> QED
  BY <1>2, <1>3

\* A namespace within the one before it: some namespace is within another.
LEMMA OverlapExact ==
  ASSUME NEW u, NEW v, NEW N, NEW l, Arranged(u, v, N, l)
  PROVE  (\E k \in 1 .. N - 1 : StartsWith(v[k + 1].text, v[k].text))
           <=> \E m, n \in 1 .. N : m # n /\ StartsWith(l[n], l[m])
<1>1. /\ N \in Nat /\ \A k \in 1 .. N : v[k] \in Item
      /\ \A i \in 1 .. N : v[i].at \in 1 .. N /\ v[i].text = l[v[i].at]
      /\ \A m \in 1 .. N : \E i \in 1 .. N : v[i].at = m
      /\ \A i, j \in 1 .. N : v[i].at = v[j].at => i = j
      /\ \A k, m \in 1 .. N : k < m => Leq(u, v[k], v[m])
  BY DEF Arranged
<1>2. ASSUME NEW k \in 1 .. N - 1, StartsWith(v[k + 1].text, v[k].text)
      PROVE  \E m, n \in 1 .. N : m # n /\ StartsWith(l[n], l[m])
  <2>1. k \in 1 .. N /\ k + 1 \in 1 .. N /\ k # k + 1
    BY <1>1
  <2>2. v[k].at # v[k + 1].at /\ StartsWith(l[v[k + 1].at], l[v[k].at])
    BY <1>1, <1>2, <2>1
  <2> QED
    BY <1>1, <2>1, <2>2
<1>3. \A s, t \in Text : /\ TextLess(s, t) => ~ TextLess(t, s)
                         /\ s = t => ~ TextLess(s, t) /\ StartsWith(s, t)
  <2>1. \A s \in Text : StartsWith(s, s)
    BY StartsWithIs DEF Text
  <2> QED
    BY <2>1, TextIrreflexive, TextTransitive
<1>4. \A i, j \in 1 .. N : i < j => TextLess(v[i].text, v[j].text) \/ v[i].text = v[j].text
  BY <1>1, LeqIs
<1>5. \A i \in 1 .. N : v[i].text \in Text
  BY <1>1 DEF Item
<1>6. ASSUME NEW i \in 1 .. N, NEW j \in 1 .. N, i < j, StartsWith(v[j].text, v[i].text)
      PROVE  \E k \in 1 .. N - 1 : StartsWith(v[k + 1].text, v[k].text)
  <2>1. i \in 1 .. N - 1 /\ i + 1 \in 1 .. N /\ i < i + 1 /\ (i + 1 = j \/ i + 1 < j)
    BY <1>1, <1>6
  <2>2. StartsWith(v[i + 1].text, v[i].text)
    <3>1. ~ TextLess(v[i + 1].text, v[i].text)
      BY <1>3, <1>4, <1>5, <2>1
    <3>2. CASE i + 1 < j
      <4>1. ~ TextLess(v[j].text, v[i + 1].text)
        BY <1>3, <1>4, <1>5, <2>1, <3>2
      <4>2. v[i].text \in Text /\ v[i + 1].text \in Text /\ v[j].text \in Text
        BY <1>5, <2>1
      <4> QED
        BY <1>6, <3>1, <4>1, <4>2, Between
    <3> QED
      BY <1>6, <2>1, <3>2
  <2> QED
    BY <2>1, <2>2
<1>7. ASSUME NEW m \in 1 .. N, NEW n \in 1 .. N, m # n, StartsWith(l[n], l[m])
      PROVE  \E k \in 1 .. N - 1 : StartsWith(v[k + 1].text, v[k].text)
  <2>1. PICK i \in 1 .. N : v[i].at = m
    BY <1>1
  <2>2. PICK j \in 1 .. N : v[j].at = n
    BY <1>1
  <2>3. StartsWith(v[j].text, v[i].text) /\ v[i].text \in Text /\ v[j].text \in Text
    BY <1>1, <1>5, <1>7, <2>1, <2>2
  <2>4. CASE i < j
    BY <1>6, <2>3, <2>4
  <2>5. CASE j < i
    <3>1. v[i].text = v[j].text
      <4>1. v[i].text = v[j].text \/ TextLess(v[i].text, v[j].text)
        BY <2>3, PrefixFirst
      <4>2. TextLess(v[j].text, v[i].text) \/ v[j].text = v[i].text
        BY <1>4, <2>5
      <4> QED
        BY <1>3, <2>3, <4>1, <4>2, Zenon
    <3>2. StartsWith(v[i].text, v[j].text)
      BY <1>3, <2>3, <3>1
    <3> QED
      BY <1>6, <2>5, <3>2
  <2>6. i < j \/ j < i
    BY <1>1, <1>7, <2>1, <2>2
  <2> QED
    BY <2>4, <2>5, <2>6
<1> QED
  BY <1>2, <1>7


\* The scans look at each item and the one behind it.
LEMMA PairsAre ==
  /\ \A n : n \in DuplicatePositions <=>
              \E k \in 1 .. Len(values) - 1 : values[k].text = values[k + 1].text /\ values[k + 1].at = n
  /\ RepeatsRequest <=> \E k \in 1 .. Len(values) - 1 : values[k].text = values[k + 1].text
  /\ NamespacesOverlap <=> \E k \in 1 .. Len(values) - 1 : StartsWith(values[k + 1].text, values[k].text)
<1> DEFINE N == Len(values)
           pairOf(k) == <<values[k], values[k + 1]>>
<1>1. Neighbours = { pairOf(k) : k \in 1 .. N - 1 }
  BY DEF Neighbours
<1>2. \A k : pairOf(k)[1] = values[k] /\ pairOf(k)[2] = values[k + 1]
  OBVIOUS
<1> HIDE DEF N, pairOf
<1>3. \A p : p \in Neighbours <=> \E k \in 1 .. N - 1 : p = pairOf(k)
  BY <1>1
<1>4. \A n : n \in DuplicatePositions <=> \E p \in Neighbours : p[1].text = p[2].text /\ p[2].at = n
  BY DEF DuplicatePositions
<1>5. \A n : n \in DuplicatePositions <=>
               \E k \in 1 .. N - 1 : values[k].text = values[k + 1].text /\ values[k + 1].at = n
  BY <1>2, <1>3, <1>4
<1>6. RepeatsRequest <=> \E k \in 1 .. N - 1 : values[k].text = values[k + 1].text
  BY <1>2, <1>3 DEF RepeatsRequest
<1>7. NamespacesOverlap <=> \E k \in 1 .. N - 1 : StartsWith(values[k + 1].text, values[k].text)
  BY <1>2, <1>3 DEF NamespacesOverlap
<1> QED
  BY <1>5, <1>6, <1>7 DEF N

\* Without overlap a text is in one namespace at most, and its grant is found.
LEMMA GrantsExact ==
  ASSUME NEW u, Arranged(u, values, Len(values), input), ~ NamespacesOverlap, NEW key \in Text
  PROVE  GrantOf(key) = { n \in 1 .. Len(values) : StartsWith(key, input[n]) }
<1> DEFINE N == Len(values)
           matching == { n \in 1 .. N : StartsWith(key, values[n].text) }
<1>1. /\ N \in Nat /\ \A k \in 1 .. N : values[k] \in Item
      /\ \A i \in 1 .. N : values[i].at \in 1 .. N /\ values[i].text = input[values[i].at]
      /\ \A m \in 1 .. N : \E i \in 1 .. N : values[i].at = m
      /\ \A i, j \in 1 .. N : values[i].at = values[j].at => i = j
  BY DEF Arranged
<1>2. \A m, n \in 1 .. N : m # n => ~ StartsWith(input[n], input[m])
  BY PairsAre, OverlapExact
<1> HIDE DEF N
<1>3. ASSUME NEW i \in matching, NEW j \in matching PROVE i = j
  <2>1. SUFFICES ASSUME i # j PROVE FALSE
    OBVIOUS
  <2>2. i \in 1 .. N /\ j \in 1 .. N /\ StartsWith(key, values[i].text) /\ StartsWith(key, values[j].text)
    OBVIOUS
  <2>3. values[i].text \in Text /\ values[j].text \in Text
    BY <1>1, <2>2 DEF Item
  <2>4. StartsWith(values[i].text, values[j].text) \/ StartsWith(values[j].text, values[i].text)
    BY <2>2, <2>3, PrefixesNest
  <2>5. values[i].at # values[j].at /\ values[i].at \in 1 .. N /\ values[j].at \in 1 .. N
        /\ values[i].text = input[values[i].at] /\ values[j].text = input[values[j].at]
    BY <1>1, <2>1, <2>2
  <2> QED
    BY <1>2, <2>4, <2>5
<1>4. \A i \in matching : i \in 1 .. N /\ \A k \in matching : i <= k
  <2>1. TAKE i \in matching
  <2>2. i \in 1 .. N /\ i <= i
    BY <1>1
  <2> QED
    BY <1>3, <2>2
<1>5. GrantOf(key) = { values[n].at : n \in matching }
  <2>1. GrantOf(key) = { values[n].at : n \in { m \in matching : \A k \in matching : m <= k } }
    BY DEF GrantOf, N
  <2>2. { m \in matching : \A k \in matching : m <= k } = matching
    BY <1>4
  <2> QED
    BY <2>1, <2>2
<1>6. \A n : n \in GrantOf(key) <=> n \in { k \in 1 .. N : StartsWith(key, input[k]) }
  <2>1. ASSUME NEW n, n \in GrantOf(key) PROVE n \in 1 .. N /\ StartsWith(key, input[n])
    <3>1. PICK i \in matching : n = values[i].at
      BY <1>5, <2>1
    <3>2. i \in 1 .. N /\ StartsWith(key, values[i].text)
      OBVIOUS
    <3> QED
      BY <1>1, <3>1, <3>2
  <2>2. ASSUME NEW n \in 1 .. N, StartsWith(key, input[n]) PROVE n \in GrantOf(key)
    <3>1. PICK i \in 1 .. N : values[i].at = n
      BY <1>1
    <3>2. i \in matching
      BY <1>1, <2>2, <3>1
    <3> QED
      BY <1>5, <3>1, <3>2
  <2> QED
    BY <2>1, <2>2
<1> QED
  BY <1>6 DEF N

\* The scans, from the order of the list.
LEMMA ScansFollow == IInv => ScansAreExact
<1>1. SUFFICES ASSUME IInv, pc = "done" PROVE ScansAreExact
  BY DEF ScansAreExact
<1> DEFINE N == Len(values)
<1>2. Arranged(use, values, N, input) /\ DOMAIN input = 1 .. N
  BY <1>1, DoneIsArranged
<1>3. ASSUME use = "records"
      PROVE  DuplicatePositions = { n \in DOMAIN input : \E m \in 1 .. n - 1 : input[m] = input[n] }
  <2>1. Arranged("records", values, N, input)
    BY <1>2, <1>3
  <2>2. \A n : n \in DuplicatePositions <=> n \in 1 .. N /\ \E m \in 1 .. n - 1 : input[m] = input[n]
    BY <2>1, PairsAre, DuplicatesExact
  <2> QED
    BY <1>2, <2>2
<1>4. RepeatsRequest <=> \E m, n \in DOMAIN input : m # n /\ input[m] = input[n]
  <2>1. (\E k \in 1 .. N - 1 : values[k].text = values[k + 1].text)
          <=> \E m, n \in 1 .. N : m # n /\ input[m] = input[n]
    <3> HIDE DEF N
    <3>1. Arranged(use, values, N, input)
      BY <1>2
    <3> QED
      BY <3>1, RepeatsExact
  <2>2. RepeatsRequest <=> \E k \in 1 .. N - 1 : values[k].text = values[k + 1].text
    BY PairsAre
  <2>3. (\E m, n \in DOMAIN input : m # n /\ input[m] = input[n])
          <=> \E m, n \in 1 .. N : m # n /\ input[m] = input[n]
    BY <1>2, Zenon
  <2> QED
    BY <2>1, <2>2, <2>3, Zenon
<1>5. NamespacesOverlap <=> \E m, n \in DOMAIN input : m # n /\ StartsWith(input[n], input[m])
  BY <1>2, PairsAre, OverlapExact
<1>6. ASSUME ~ NamespacesOverlap, NEW s \in Prefixes
      PROVE  GrantOf(s \o <<LowerV, 49>>) = { n \in DOMAIN input : StartsWith(s \o <<LowerV, 49>>, input[n]) }
  <2> DEFINE key == s \o <<LowerV, 49>>
  <2>1. key \in Text
    <3>1. s \in Seq(Nat) /\ <<LowerV, 49>> \in Seq(Nat)
      BY CanonicalAssumption DEF LowerV
    <3>2. \A a, b \in Seq(Nat) : a \o b \in Seq(Nat)
      BY ConcatProperties
    <3> QED
      BY <3>1, <3>2, Zenon DEF Text
  <2> HIDE DEF key
  <2>2. GrantOf(key) = { n \in 1 .. N : StartsWith(key, input[n]) }
    BY <1>2, <1>6, <2>1, GrantsExact
  <2> QED
    BY <1>2, <2>2 DEF key
<1> QED
  BY <1>3, <1>4, <1>5, <1>6 DEF ScansAreExact

\* Comparing neighbours decides about all pairs: repeated keys at their later
\* positions, and any namespace within another; without overlap the first
\* grant that matches is the only one.
THEOREM ScansExact == Spec => []ScansAreExact
<1>1. Spec => []IInv
  BY InductiveInvariant
<1>2. IInv => ScansAreExact
  BY ScansFollow
<1> QED
  BY <1>1, <1>2, PTL


-----------------------------------------------------------------------------
(***************************************************************************)
(* The grammar of keys.                                                    *)
(***************************************************************************)
\* What keys are looked for in: texts as they are entered, with "v1" behind.
Mark == Char \cup {LowerV, 49}

Marked == Seq(Mark)

\* A position of a key before its version.
Legal(s, k) ==
  /\ s[k] \in Lower \cup Digit \cup {Underscore, Dot}
  /\ k = 1 \/ s[k - 1] = Dot => s[k] \in Lower

\* Valid segments, read position by position.
Dotted(s) ==
  /\ Len(s) >= 1 /\ s[Len(s)] # Dot
  /\ \A k \in 1 .. Len(s) : Legal(s, k)

Cuts(s) == {0, Len(s) + 1} \cup { n \in 1 .. Len(s) : s[n] = Dot }

Gap(s, a, b) ==
  /\ a \in Cuts(s) /\ b \in Cuts(s) /\ a < b
  /\ \A k \in Cuts(s) : ~ (a < k /\ k < b)

\* A valid segment between two places.
Segment(s, a, b) ==
  /\ a + 1 < b
  /\ s[a + 1] \in Lower
  /\ \A k \in a + 2 .. b - 1 : s[k] \in Lower \cup Digit \cup {Underscore}

\* Part of a text: its length and its characters.
LEMMA PartIs ==
  ASSUME NEW s \in Marked, NEW a \in Nat, NEW b \in Nat, a < b, b <= Len(s) + 1
  PROVE  /\ SubSeq(s, a + 1, b - 1) \in Marked
         /\ Len(SubSeq(s, a + 1, b - 1)) = b - 1 - a
         /\ \A i \in 1 .. b - 1 - a : SubSeq(s, a + 1, b - 1)[i] = s[a + i]
<1>1. s \in Seq(Mark) /\ Len(s) \in Nat
  BY DEF Marked
<1>2. SubSeq(s, a + 1, b - 1) = [i \in 1 .. b - 1 - a |-> s[a + i]]
  <2>1. SubSeq(s, a + 1, b - 1) = [i \in 1 .. (b - 1 - (a + 1) + 1) |-> s[i + (a + 1) - 1]]
    BY <1>1 DEF SubSeq
  <2>2. b - 1 - (a + 1) + 1 = b - 1 - a /\ \A i \in 1 .. b - 1 - a : i + (a + 1) - 1 = a + i
    OBVIOUS
  <2> QED
    BY <2>1, <2>2
<1>3. \A i \in 1 .. b - 1 - a : s[a + i] \in Mark
  BY <1>1
<1>4. b - 1 - a \in Nat
  OBVIOUS
<1>5. [i \in 1 .. b - 1 - a |-> s[a + i]] \in Seq(Mark)
  BY <1>3, <1>4
<1> QED
  BY <1>2, <1>4, <1>5 DEF Marked

\* Where a text is cut into segments.
LEMMA CutIs ==
  ASSUME NEW s \in Marked
  PROVE  /\ Len(s) \in Nat /\ Cuts(s) \subseteq Nat
         /\ 0 \in Cuts(s) /\ Len(s) + 1 \in Cuts(s)
         /\ \A k \in Cuts(s) : k <= Len(s) + 1 /\ (k = 0 \/ k = Len(s) + 1 \/ s[k] = Dot)
         /\ \A k \in 1 .. Len(s) : k \in Cuts(s) <=> s[k] = Dot
<1>1. Len(s) \in Nat
  BY DEF Marked
<1> QED
  BY <1>1 DEF Cuts

\* A valid segment, by its two ends.
LEMMA SegmentIs ==
  ASSUME NEW s \in Marked, NEW a, NEW b, Gap(s, a, b)
  PROVE  ValidSegment(SubSeq(s, a + 1, b - 1)) <=> Segment(s, a, b)
<1> DEFINE t == SubSeq(s, a + 1, b - 1)
<1>1. a \in Nat /\ b \in Nat /\ a < b /\ b <= Len(s) + 1 /\ Len(s) \in Nat
  BY CutIs DEF Gap
<1>2. t \in Marked /\ Len(t) = b - 1 - a /\ \A i \in 1 .. b - 1 - a : t[i] = s[a + i]
  BY <1>1, PartIs
<1> HIDE DEF t
<1>3. t # <<>> <=> a + 1 < b
  BY <1>1, <1>2 DEF Marked
<1>4. a + 1 < b => t[1] = s[a + 1]
  BY <1>1, <1>2
<1> DEFINE Inner == Lower \cup Digit \cup {Underscore}
<1> HIDE DEF Inner
<1>5. (\A i \in 2 .. Len(t) : t[i] \in Inner) <=> \A k \in a + 2 .. b - 1 : s[k] \in Inner
  <2>1. \A i \in 2 .. Len(t) : a + i \in a + 2 .. b - 1 /\ t[i] = s[a + i]
    BY <1>1, <1>2
  <2>2. \A k \in a + 2 .. b - 1 : k - a \in 2 .. Len(t) /\ t[k - a] = s[k]
    BY <1>1, <1>2
  <2> QED
    BY <2>1, <2>2
<1>6. ValidSegment(t) <=> Segment(s, a, b)
  BY <1>3, <1>4, <1>5 DEF ValidSegment, Segment, Inner
<1> QED
  BY <1>6 DEF t

\* Around a position that is no dot there is a segment.
LEMMA Around ==
  ASSUME NEW s \in Marked, NEW k \in 1 .. Len(s), s[k] # Dot
  PROVE  \E a, b : Gap(s, a, b) /\ a < k /\ k < b
<1>1. /\ Len(s) \in Nat /\ Cuts(s) \subseteq Nat
      /\ 0 \in Cuts(s) /\ Len(s) + 1 \in Cuts(s)
      /\ k \in Nat /\ k \notin Cuts(s)
  BY CutIs
<1> DEFINE below == { k - c : c \in { d \in Cuts(s) : d < k } }
           above == { c \in Cuts(s) : k < c }
<1>2. PICK m \in below : \A c \in below : ~ (c < m)
  <2>1. below \in SUBSET Nat
    BY <1>1
  <2>2. k - 0 \in below
    BY <1>1
  <2> QED
    BY <2>1, <2>2, LeastElement
<1>3. PICK a \in Cuts(s) : a < k /\ m = k - a
  BY <1>2
<1>4. PICK b \in above : \A c \in above : ~ (c < b)
  <2>1. above \in SUBSET Nat
    BY <1>1
  <2>2. Len(s) + 1 \in above
    BY <1>1
  <2> QED
    BY <2>1, <2>2, LeastElement
<1>5. \A c \in Cuts(s) : ~ (a < c /\ c < b)
  <2>1. SUFFICES ASSUME NEW c \in Cuts(s), a < c, c < b PROVE FALSE
    OBVIOUS
  <2>2. a \in Nat /\ b \in Nat /\ c \in Nat /\ c # k
    BY <1>1, <1>3, <1>4
  <2>3. CASE c < k
    <3>1. k - c \in below
      BY <2>3
    <3>2. ~ (k - c < m)
      BY <1>2, <3>1
    <3>3. k - c < k - a
      BY <1>1, <2>1, <2>2
    <3> QED
      BY <1>3, <3>2, <3>3
  <2>4. CASE k < c
    BY <1>4, <2>1, <2>4
  <2> QED
    BY <1>1, <2>2, <2>3, <2>4
<1>6. a \in Cuts(s) /\ b \in Cuts(s) /\ a < k /\ k < b /\ a < b
  BY <1>1, <1>3, <1>4
<1> QED
  BY <1>5, <1>6 DEF Gap

\* Segments are valid exactly when positions are.
LEMMA SegmentsValid ==
  ASSUME NEW s \in Marked
  PROVE  (\A segment \in Segments(s) : ValidSegment(segment)) <=> Dotted(s)
<1> USE DEF Dot
<1>1. /\ Len(s) \in Nat /\ Cuts(s) \subseteq Nat
      /\ 0 \in Cuts(s) /\ Len(s) + 1 \in Cuts(s)
      /\ \A k \in Cuts(s) : k <= Len(s) + 1 /\ (k = 0 \/ k = Len(s) + 1 \/ s[k] = Dot)
      /\ \A k \in 1 .. Len(s) : k \in Cuts(s) <=> s[k] = Dot
  BY CutIs
<1>2. (\A segment \in Segments(s) : ValidSegment(segment))
        <=> \A a, b : Gap(s, a, b) => Segment(s, a, b)
  <2> DEFINE part(p) == SubSeq(s, p[1] + 1, p[2] - 1)
             pairs == { q \in Cuts(s) \X Cuts(s) :
                          q[1] < q[2] /\ \A k \in Cuts(s) : ~ (q[1] < k /\ k < q[2]) }
  <2>1. Segments(s) = { part(p) : p \in pairs }
    BY DEF Segments, Cuts
  <2>2. \A p \in pairs : Gap(s, p[1], p[2])
    BY DEF Gap
  <2>3. \A a, b : Gap(s, a, b) => <<a, b>> \in pairs /\ part(<<a, b>>) = SubSeq(s, a + 1, b - 1)
    BY DEF Gap
  <2> HIDE DEF pairs
  <2>4. \A a, b : Gap(s, a, b) => (ValidSegment(SubSeq(s, a + 1, b - 1)) <=> Segment(s, a, b))
    BY SegmentIs
  <2>5. ASSUME \A segment \in Segments(s) : ValidSegment(segment), NEW a, NEW b, Gap(s, a, b)
        PROVE  Segment(s, a, b)
    <3>1. SubSeq(s, a + 1, b - 1) \in Segments(s)
      BY <2>1, <2>3, <2>5
    <3> QED
      BY <2>4, <2>5, <3>1
  <2>6. ASSUME \A a, b : Gap(s, a, b) => Segment(s, a, b), NEW segment \in Segments(s)
        PROVE  ValidSegment(segment)
    <3>1. PICK p \in pairs : segment = part(p)
      BY <2>1
    <3>2. Gap(s, p[1], p[2]) /\ Segment(s, p[1], p[2])
      BY <2>2, <2>6
    <3> QED
      BY <2>4, <3>1, <3>2
  <2> QED
    BY <2>5, <2>6
<1>3. ASSUME Dotted(s), NEW a, NEW b, Gap(s, a, b) PROVE Segment(s, a, b)
  <2>1. /\ Len(s) >= 1 /\ s[Len(s)] # Dot
        /\ \A k \in 1 .. Len(s) : /\ s[k] \in Lower \cup Digit \cup {Underscore, Dot}
                                  /\ k = 1 \/ s[k - 1] = Dot => s[k] \in Lower
    BY <1>3 DEF Dotted, Legal
  <2>2. /\ a \in Cuts(s) /\ b \in Cuts(s) /\ a \in Nat /\ b \in Nat /\ a < b /\ b <= Len(s) + 1
        /\ \A k \in Cuts(s) : ~ (a < k /\ k < b)
    BY <1>1, <1>3 DEF Gap
  <2>3. a # Len(s) /\ a # Len(s) + 1 /\ a + 1 \in 1 .. Len(s)
    BY <1>1, <2>1, <2>2
  <2>4. s[a + 1] \in Lower
    <3>1. a = 0 \/ s[a] = Dot
      BY <1>1, <2>2, <2>3
    <3>2. a + 1 = 1 \/ s[(a + 1) - 1] = Dot
      BY <2>2, <3>1
    <3> QED
      BY <2>1, <2>3, <3>2
  <2>5. a + 1 < b
    <3>1. s[a + 1] # Dot
      BY <2>4 DEF Lower
    <3>2. a + 1 \notin Cuts(s)
      BY <1>1, <2>3, <3>1
    <3> QED
      BY <2>2, <3>2
  <2>6. ASSUME NEW k \in a + 2 .. b - 1 PROVE s[k] \in Lower \cup Digit \cup {Underscore}
    <3>1. k \in 1 .. Len(s) /\ a < k /\ k < b
      BY <1>1, <2>2
    <3>2. s[k] # Dot
      BY <1>1, <2>2, <3>1
    <3> QED
      BY <2>1, <3>1, <3>2
  <2> QED
    BY <2>4, <2>5, <2>6 DEF Segment
<1>4. ASSUME \A a, b : Gap(s, a, b) => Segment(s, a, b) PROVE Dotted(s)
  <2>1. ASSUME NEW a \in Cuts(s), a + 1 \in Cuts(s) PROVE FALSE
    <3>1. Gap(s, a, a + 1)
      BY <1>1, <2>1 DEF Gap
    <3>2. ~ (a + 1 < a + 1)
      BY <1>1
    <3> QED
      BY <1>4, <3>1, <3>2 DEF Segment
  <2>2. Len(s) >= 1
    BY <1>1, <2>1
  <2>3. s[Len(s)] # Dot
    <3>1. Len(s) \in 1 .. Len(s)
      BY <1>1, <2>2
    <3>2. Len(s) \notin Cuts(s)
      BY <1>1, <2>1
    <3> QED
      BY <1>1, <3>1, <3>2
  <2>4. ASSUME NEW k \in 1 .. Len(s) PROVE Legal(s, k)
    <3>1. k = 1 \/ s[k - 1] = Dot => k - 1 \in Cuts(s)
      BY <1>1
    <3>2. CASE s[k] = Dot
      <4>1. k \in Cuts(s) /\ (k - 1) + 1 = k
        BY <1>1, <3>2
      <4>2. k - 1 \notin Cuts(s)
        BY <2>1, <4>1
      <4> QED
        BY <3>1, <3>2, <4>2 DEF Legal
    <3>3. CASE s[k] # Dot
      <4>1. PICK a, b : Gap(s, a, b) /\ a < k /\ k < b
        BY <3>3, Around
      <4>2. Segment(s, a, b) /\ a \in Nat /\ b \in Nat /\ k \in Nat
            /\ \A c \in Cuts(s) : ~ (a < c /\ c < b)
        BY <1>1, <1>4, <4>1 DEF Gap
      <4>3. k = a + 1 \/ k \in a + 2 .. b - 1
        BY <4>1, <4>2
      <4>4. s[k] \in Lower \cup Digit \cup {Underscore}
        BY <4>2, <4>3 DEF Segment
      <4>5. ASSUME k - 1 \in Cuts(s) PROVE s[k] \in Lower
        <5>1. k = a + 1
          BY <4>1, <4>2, <4>5
        <5> QED
          BY <4>2, <5>1 DEF Segment
      <4> QED
        BY <3>1, <4>4, <4>5 DEF Legal
    <3> QED
      BY <3>2, <3>3
  <2> QED
    BY <2>2, <2>3, <2>4 DEF Dotted
<1> QED
  BY <1>2, <1>3, <1>4


\* A part before a dot: its segments are valid exactly when every position up
\* to the dot is.
LEMMA BeforeDot ==
  ASSUME NEW s \in Marked, NEW n \in 1 .. Len(s), s[n] = Dot
  PROVE  (\A segment \in Segments(Prefix(s, n - 1)) : ValidSegment(segment))
           <=> \A k \in 1 .. n : Legal(s, k)
<1> USE DEF Dot, Lower
<1> DEFINE t == Prefix(s, n - 1)
<1>1. Len(s) \in Nat /\ n \in Nat
  BY DEF Marked
<1>2. t \in Marked /\ Len(t) = n - 1 /\ \A k \in 1 .. n - 1 : t[k] = s[k]
  <2>1. \A a, b \in Nat : a < b /\ b <= Len(s) + 1 =>
          /\ SubSeq(s, a + 1, b - 1) \in Marked
          /\ Len(SubSeq(s, a + 1, b - 1)) = b - 1 - a
          /\ \A i \in 1 .. b - 1 - a : SubSeq(s, a + 1, b - 1)[i] = s[a + i]
    BY PartIs
  <2>2. 0 \in Nat /\ 0 < n /\ n <= Len(s) + 1
    BY <1>1
  <2>3. /\ SubSeq(s, 0 + 1, n - 1) \in Marked
        /\ Len(SubSeq(s, 0 + 1, n - 1)) = n - 1 - 0
        /\ \A i \in 1 .. n - 1 - 0 : SubSeq(s, 0 + 1, n - 1)[i] = s[0 + i]
    BY <1>1, <2>1, <2>2
  <2>4. 0 + 1 = 1 /\ n - 1 - 0 = n - 1 /\ \A i \in 1 .. n - 1 : 0 + i = i
    BY <1>1
  <2> QED
    BY <2>3, <2>4 DEF Prefix
<1> HIDE DEF t
<1>3. (\A segment \in Segments(t) : ValidSegment(segment)) <=> Dotted(t)
  BY <1>2, SegmentsValid
<1>4. \A k \in 1 .. n - 1 : Legal(t, k) <=> Legal(s, k)
  <2>1. SUFFICES ASSUME NEW k \in 1 .. n - 1 PROVE Legal(t, k) <=> Legal(s, k)
    OBVIOUS
  <2>2. t[k] = s[k]
    BY <1>2
  <2>3. k = 1 \/ k - 1 \in 1 .. n - 1
    BY <1>1
  <2>4. k = 1 \/ t[k - 1] = s[k - 1]
    BY <1>2, <2>3
  <2> QED
    BY <2>2, <2>4 DEF Legal
<1>5. Legal(s, n) <=> n # 1 /\ s[n - 1] # Dot
  BY DEF Legal
<1>6. Dotted(t) <=> n # 1 /\ s[n - 1] # Dot /\ \A k \in 1 .. n - 1 : Legal(s, k)
  <2>1. Len(t) >= 1 <=> n # 1
    BY <1>1, <1>2
  <2>2. n # 1 => t[Len(t)] = s[n - 1]
    BY <1>1, <1>2
  <2> QED
    BY <1>2, <1>4, <2>1, <2>2 DEF Dotted
<1>7. (\A k \in 1 .. n : Legal(s, k)) <=> Legal(s, n) /\ \A k \in 1 .. n - 1 : Legal(s, k)
  <2>1. \A k : k \in 1 .. n <=> k = n \/ k \in 1 .. n - 1
    BY <1>1
  <2> QED
    BY <2>1
<1> QED
  BY <1>3, <1>5, <1>6, <1>7 DEF t

\* What follows ".v" is a version.
Versioned(s, n) ==
  /\ n + 2 <= Len(s)
  /\ s[n + 2] \in Digit \ {48}
  /\ \A k \in n + 3 .. Len(s) : s[k] \in Digit

\* A version, position by position.
LEMMA VersionIs ==
  ASSUME NEW s \in Marked, NEW n \in 1 .. Len(s) - 1
  PROVE  LET version == SubSeq(s, n + 2, Len(s))
         IN  (version # <<>> /\ version[1] # 48 /\ \A k \in 1 .. Len(version) : version[k] \in Digit)
               <=> Versioned(s, n)
<1> DEFINE t == SubSeq(s, n + 2, Len(s))
           M == Len(s) - n - 1
<1>1. Len(s) \in Nat /\ n \in Nat /\ M \in Nat
  BY DEF Marked
<1>2. t \in Marked /\ Len(t) = M /\ \A i \in 1 .. M : t[i] = s[n + 1 + i]
  <2>1. \A a, b \in Nat : a < b /\ b <= Len(s) + 1 =>
          /\ SubSeq(s, a + 1, b - 1) \in Marked
          /\ Len(SubSeq(s, a + 1, b - 1)) = b - 1 - a
          /\ \A i \in 1 .. b - 1 - a : SubSeq(s, a + 1, b - 1)[i] = s[a + i]
    BY PartIs
  <2> DEFINE a == n + 1
             b == Len(s) + 1
  <2>2. a \in Nat /\ b \in Nat /\ a < b /\ b <= Len(s) + 1
        /\ a + 1 = n + 2 /\ b - 1 = Len(s) /\ b - 1 - a = M
    BY <1>1
  <2> HIDE DEF a, b, M
  <2>3. /\ SubSeq(s, a + 1, b - 1) \in Marked
        /\ Len(SubSeq(s, a + 1, b - 1)) = b - 1 - a
        /\ \A i \in 1 .. b - 1 - a : SubSeq(s, a + 1, b - 1)[i] = s[a + i]
    BY <2>1, <2>2
  <2>4. t \in Marked /\ Len(t) = M /\ \A i \in 1 .. M : t[i] = s[a + i]
    BY <2>2, <2>3
  <2> QED
    BY <2>4 DEF a
<1> HIDE DEF t
<1>3. t # <<>> <=> n + 2 <= Len(s)
  BY <1>1, <1>2 DEF Marked
<1>4. \A i \in 1 .. M : n + 1 + i \in n + 2 .. Len(s) /\ t[i] = s[n + 1 + i]
  BY <1>1, <1>2
<1>5. \A k \in n + 2 .. Len(s) : k - n - 1 \in 1 .. M /\ t[k - n - 1] = s[k]
  BY <1>1, <1>2
<1>6. (\A i \in 1 .. Len(t) : t[i] \in Digit) <=> \A k \in n + 2 .. Len(s) : s[k] \in Digit
  BY <1>2, <1>4, <1>5
<1>7. n + 2 <= Len(s) => t[1] = s[n + 2]
  BY <1>1, <1>2
<1>8. n + 2 <= Len(s) => ((\A k \in n + 2 .. Len(s) : s[k] \in Digit)
                            <=> s[n + 2] \in Digit /\ \A k \in n + 3 .. Len(s) : s[k] \in Digit)
  <2>1. n + 2 <= Len(s) => \A k : k \in n + 2 .. Len(s) <=> k = n + 2 \/ k \in n + 3 .. Len(s)
    BY <1>1
  <2> QED
    BY <2>1
<1>9. (t # <<>> /\ t[1] # 48 /\ \A k \in 1 .. Len(t) : t[k] \in Digit) <=> Versioned(s, n)
  BY <1>3, <1>6, <1>7, <1>8 DEF Versioned
<1> QED
  BY <1>9 DEF t

\* A key, split at some ".v".
SplitAt(s, n) ==
  /\ n \in 2 .. Len(s) - 2
  /\ s[n] = Dot /\ s[n + 1] = LowerV
  /\ Versioned(s, n)
  /\ \A k \in 1 .. n : Legal(s, k)

\* The last ".v" is the only one that can split a key.
LEMMA ValidIs ==
  ASSUME NEW s \in Marked
  PROVE  Valid(s) <=> Len(s) <= MaxKeyBytes /\ \E n : SplitAt(s, n)
<1> USE DEF Dot, LowerV, Digit, Lower
<1>1. Len(s) \in Nat
  BY DEF Marked
<1> DEFINE Versions(n) == LET version == SubSeq(s, n + 2, Len(s))
                          IN  version # <<>> /\ version[1] # 48 /\ \A k \in 1 .. Len(version) : version[k] \in Digit
           Names(n) == \A segment \in Segments(Prefix(s, n - 1)) : ValidSegment(segment)
           Chosen(n) == /\ n \in VersionStarts(s)
                        /\ \A m \in VersionStarts(s) : m <= n
                        /\ Versions(n)
                        /\ Names(n)
<1>2. Valid(s) <=> /\ s # <<>> /\ Len(s) <= MaxKeyBytes
                   /\ s[1] # Dot /\ s[Len(s)] # Dot
                   /\ \E n : Chosen(n)
  BY DEF Valid
<1>3. \A n \in 1 .. Len(s) - 1 : Versions(n) <=> Versioned(s, n)
  BY VersionIs
<1>4. \A n \in 1 .. Len(s) : s[n] = Dot => (Names(n) <=> \A k \in 1 .. n : Legal(s, k))
  BY BeforeDot
<1>5. \A n : n \in VersionStarts(s) <=> n \in 1 .. Len(s) - 1 /\ s[n] = Dot /\ s[n + 1] = LowerV
  BY DEF VersionStarts
<1> HIDE DEF Versions, Names
<1>6. ASSUME Valid(s), NEW n, Chosen(n) PROVE SplitAt(s, n)
  <2>1. n \in 1 .. Len(s) - 1 /\ s[n] = Dot /\ s[n + 1] = LowerV /\ n \in 1 .. Len(s)
    BY <1>1, <1>5, <1>6
  <2>2. Versioned(s, n) /\ \A k \in 1 .. n : Legal(s, k)
    BY <1>3, <1>4, <1>6, <2>1
  <2>3. n # 1 /\ n + 2 <= Len(s)
    BY <1>2, <1>6, <2>1, <2>2 DEF Versioned
  <2>4. n \in 2 .. Len(s) - 2
    BY <1>1, <2>1, <2>3
  <2> QED
    BY <2>1, <2>2, <2>4 DEF SplitAt
<1>7. ASSUME Len(s) <= MaxKeyBytes, NEW n, SplitAt(s, n) PROVE Valid(s)
  <2>1. /\ n \in 2 .. Len(s) - 2 /\ n \in 1 .. Len(s) - 1 /\ n \in 1 .. Len(s)
        /\ s[n] = Dot /\ s[n + 1] = LowerV
        /\ s[n + 2] \in Digit /\ \A k \in n + 3 .. Len(s) : s[k] \in Digit
        /\ Versioned(s, n) /\ \A k \in 1 .. n : Legal(s, k)
    BY <1>1, <1>7 DEF SplitAt, Versioned
  <2>2. \A m \in n + 1 .. Len(s) : s[m] # Dot
    <3>1. SUFFICES ASSUME NEW m \in n + 1 .. Len(s) PROVE s[m] # Dot
      OBVIOUS
    <3>2. m = n + 1 \/ m = n + 2 \/ m \in n + 3 .. Len(s)
      BY <1>1, <2>1
    <3> QED
      BY <2>1, <3>2
  <2>3. \A m \in VersionStarts(s) : m <= n
    BY <1>1, <1>5, <2>1, <2>2
  <2>4. Chosen(n)
    BY <1>3, <1>4, <1>5, <2>1, <2>3
  <2>5. s[1] # Dot
    <3>1. Legal(s, 1)
      BY <1>1, <2>1
    <3> QED
      BY <3>1 DEF Legal
  <2>6. s[Len(s)] # Dot /\ s # <<>>
    BY <1>1, <2>1, <2>2
  <2> QED
    BY <1>2, <1>7, <2>4, <2>5, <2>6
<1> QED
  BY <1>2, <1>6, <1>7


\* With "v1" behind it a text has its first characters still.
LEMMA VersionOne ==
  ASSUME NEW s \in Seq(Char)
  PROVE  /\ s \in Marked
         /\ s \o <<LowerV, 49>> \in Marked
         /\ Len(s \o <<LowerV, 49>>) = Len(s) + 2
         /\ \A k \in 1 .. Len(s) : (s \o <<LowerV, 49>>)[k] = s[k]
         /\ (s \o <<LowerV, 49>>)[Len(s) + 1] = LowerV
         /\ (s \o <<LowerV, 49>>)[Len(s) + 2] = 49
<1> DEFINE v == <<LowerV, 49>>
           u == s \o v
<1>1. Len(s) \in Nat /\ \A k \in 1 .. Len(s) : s[k] \in Mark
  BY DEF Mark
<1>2. s \in Seq(Mark)
  BY <1>1
<1>3. v \in Seq(Mark) /\ Len(v) = 2 /\ v[1] = LowerV /\ v[2] = 49
  BY DEF Mark
<1> HIDE DEF v
<1>4. \A a, b \in Seq(Mark) : /\ a \o b \in Seq(Mark)
                              /\ Len(a \o b) = Len(a) + Len(b)
                              /\ \A i \in 1 .. Len(a) + Len(b) :
                                   (a \o b)[i] = IF i <= Len(a) THEN a[i] ELSE b[i - Len(a)]
  BY ConcatProperties
<1>5. /\ u \in Seq(Mark)
      /\ Len(u) = Len(s) + 2
      /\ \A i \in 1 .. Len(s) + 2 : u[i] = IF i <= Len(s) THEN s[i] ELSE v[i - Len(s)]
  <2>1. /\ s \o v \in Seq(Mark)
        /\ Len(s \o v) = Len(s) + Len(v)
        /\ \A i \in 1 .. Len(s) + Len(v) : (s \o v)[i] = IF i <= Len(s) THEN s[i] ELSE v[i - Len(s)]
    BY <1>2, <1>3, <1>4, Zenon
  <2> QED
    BY <1>3, <2>1, Zenon
<1> HIDE DEF u
<1>6. \A k \in 1 .. Len(s) : u[k] = s[k]
  BY <1>1, <1>5
<1>7. u[Len(s) + 1] = LowerV /\ u[Len(s) + 2] = 49
  <2>1. /\ Len(s) + 1 \in 1 .. Len(s) + 2 /\ ~ (Len(s) + 1 <= Len(s)) /\ Len(s) + 1 - Len(s) = 1
        /\ Len(s) + 2 \in 1 .. Len(s) + 2 /\ ~ (Len(s) + 2 <= Len(s)) /\ Len(s) + 2 - Len(s) = 2
    BY <1>1
  <2> QED
    BY <1>3, <1>5, <2>1
<1>8. s \in Marked /\ u \in Marked
  BY <1>2, <1>5 DEF Marked
<1> QED
  BY <1>5, <1>6, <1>7, <1>8 DEF u, v

\* A namespace, position by position.
LEMMA IsKeyPrefixIs ==
  ASSUME NEW s \in Seq(Char)
  PROVE  IsKeyPrefix(s) <=> /\ Len(s) \in 2 .. MaxKeyBytes - 2
                            /\ s[Len(s)] = Dot
                            /\ \A k \in 1 .. Len(s) : Legal(s, k)
<1>1. s \in Marked /\ Len(s) \in Nat
  BY VersionOne
<1>2. s # <<>> <=> Len(s) >= 1
  BY <1>1
<1>3. \A n \in 1 .. Len(s) : s[n] = Dot =>
        ((\A segment \in Segments(Prefix(s, n - 1)) : ValidSegment(segment)) <=> \A k \in 1 .. n : Legal(s, k))
  BY <1>1, BeforeDot
<1>4. ASSUME Len(s) = 1, s[Len(s)] = Dot PROVE ~ \A k \in 1 .. Len(s) : Legal(s, k)
  <2>1. 1 \in 1 .. Len(s) /\ s[1] = Dot
    BY <1>4
  <2>2. ~ Legal(s, 1)
    BY <2>1 DEF Legal, Dot, Lower
  <2> QED
    BY <2>1, <2>2
<1>5. MaxKeyBytes \in Nat
  BY CanonicalAssumption
<1>6. IsKeyPrefix(s) <=> /\ Len(s) >= 1 /\ Len(s) <= MaxKeyBytes - 2
                         /\ s[Len(s)] = Dot
                         /\ \A k \in 1 .. Len(s) : Legal(s, k)
  <2>1. Len(s) >= 1 => Len(s) \in 1 .. Len(s)
    BY <1>1
  <2> QED
    BY <1>2, <1>3, <2>1 DEF IsKeyPrefix
<1>7. Len(s) \in 2 .. MaxKeyBytes - 2 <=> Len(s) >= 1 /\ Len(s) # 1 /\ Len(s) <= MaxKeyBytes - 2
  <2>1. \A n, m \in Nat : n \in 2 .. m - 2 <=> n >= 1 /\ n # 1 /\ n <= m - 2
    OBVIOUS
  <2> QED
    BY <1>1, <1>5, <2>1, Zenon
<1> QED
  BY <1>4, <1>6, <1>7

\* A key that ends in "v1" is split where its namespace ends.
LEMMA PrefixExact ==
  ASSUME NEW s \in Seq(Char)
  PROVE  IsKeyPrefix(s) <=> Valid(s \o <<LowerV, 49>>)
<1> DEFINE u == s \o <<LowerV, 49>>
           L == Len(s)
<1>1. /\ L \in Nat /\ u \in Marked /\ Len(u) = L + 2
      /\ \A k \in 1 .. L : u[k] = s[k]
      /\ u[L + 1] = LowerV /\ u[L + 2] = 49
  BY VersionOne
<1>2. MaxKeyBytes \in Nat
  BY CanonicalAssumption
<1>3. IsKeyPrefix(s) <=> L \in 2 .. MaxKeyBytes - 2 /\ s[L] = Dot /\ \A k \in 1 .. L : Legal(s, k)
  BY IsKeyPrefixIs
<1> HIDE DEF u, L
<1>4. Valid(u) <=> Len(u) <= MaxKeyBytes /\ \E n : SplitAt(u, n)
  BY <1>1, ValidIs
<1>5. \A k \in 1 .. L : Legal(u, k) <=> Legal(s, k)
  <2>1. SUFFICES ASSUME NEW k \in 1 .. L PROVE Legal(u, k) <=> Legal(s, k)
    OBVIOUS
  <2>2. u[k] = s[k] /\ (k = 1 \/ u[k - 1] = s[k - 1])
    <3>1. k = 1 \/ k - 1 \in 1 .. L
      BY <1>1
    <3> QED
      BY <1>1, <3>1
  <2> QED
    BY <2>2 DEF Legal
<1>6. ASSUME NEW n, SplitAt(u, n) PROVE n = L
  <2>1. n \in 2 .. L /\ \A k \in n + 2 .. L + 2 : u[k] \in Digit
    <3>1. /\ n \in 2 .. Len(u) - 2 /\ u[n + 2] \in Digit
          /\ \A k \in n + 3 .. Len(u) : u[k] \in Digit
      BY <1>6 DEF SplitAt, Versioned
    <3>2. \A k \in n + 2 .. L + 2 : k = n + 2 \/ k \in n + 3 .. Len(u)
      BY <1>1, <3>1
    <3>3. n \in 2 .. L
      BY <1>1, <3>1
    <3> QED
      BY <3>1, <3>2, <3>3
  <2>2. LowerV \notin Digit
    BY DEF LowerV, Digit
  <2>3. ~ (L + 1 \in n + 2 .. L + 2)
    BY <1>1, <2>1, <2>2
  <2> QED
    BY <1>1, <2>1, <2>3
<1>7. SplitAt(u, L) <=> L \in 2 .. L /\ s[L] = Dot /\ \A k \in 1 .. L : Legal(s, k)
  <2>1. ASSUME L >= 2 PROVE Versioned(u, L) /\ u[L + 1] = LowerV /\ u[L] = s[L] /\ L \in 2 .. Len(u) - 2
    <3>1. \A k \in L + 3 .. Len(u) : FALSE
      BY <1>1
    <3>2. 49 \in Digit \ {48}
      BY DEF Digit
    <3> QED
      BY <1>1, <2>1, <3>1, <3>2 DEF Versioned
  <2>2. (L \in 2 .. L <=> L >= 2) /\ (L \in 2 .. Len(u) - 2 => L >= 2)
    BY <1>1
  <2> QED
    BY <1>5, <2>1, <2>2 DEF SplitAt
<1>8. Len(u) <= MaxKeyBytes /\ L \in 2 .. L <=> L \in 2 .. MaxKeyBytes - 2
  BY <1>1, <1>2
<1>9. IsKeyPrefix(s) <=> Valid(u)
  <2>1. (\E n : SplitAt(u, n)) <=> SplitAt(u, L)
    BY <1>6
  <2> QED
    BY <1>3, <1>4, <1>7, <1>8, <2>1
<1> QED
  BY <1>9 DEF u

\* A text is a key as it is read from the left, whatever ".v" it holds, and a
\* namespace exactly when "v1" makes it a key.
THEOREM KeysExact == Spec => []KeysAreExact
<1>1. Spec => []IInv
  BY InductiveInvariant
<1>2. IInv => KeysAreExact
  <2>1. SUFFICES ASSUME IInv PROVE KeysAreExact
    OBVIOUS
  <2>2. text \in Seq(Char)
    BY <2>1 DEF IInv, TypeInv
  <2>3. \A s \in Seq(Char) : s \in Marked
    BY VersionOne
  <2>4. \A s \in Marked : Valid(s) <=> Len(s) <= MaxKeyBytes /\ \E n : SplitAt(s, n)
    BY ValidIs
  <2>5. Valid(text) <=> Len(text) <= MaxKeyBytes /\ \E n : SplitAt(text, n)
    BY <2>2, <2>3, <2>4
  <2>6. \A n : SplitAt(text, n) <=>
          /\ n \in 2 .. Len(text) - 2
          /\ text[n] = Dot /\ text[n + 1] = LowerV
          /\ text[n + 2] \in Digit \ {48}
          /\ \A k \in n + 3 .. Len(text) : text[k] \in Digit
          /\ \A k \in 1 .. n :
               /\ text[k] \in Lower \cup Digit \cup {Underscore, Dot}
               /\ k = 1 \/ text[k - 1] = Dot => text[k] \in Lower
    <3>1. Len(text) \in Nat
      BY <2>2
    <3>2. \A n \in 2 .. Len(text) - 2 : n + 2 <= Len(text)
      BY <3>1
    <3> QED
      BY <3>2 DEF SplitAt, Versioned, Legal
  <2>7. \A s \in Seq(Char) : IsKeyPrefix(s) <=> Valid(s \o <<LowerV, 49>>)
    BY PrefixExact
  <2>8. IsKeyPrefix(text) <=> Valid(text \o <<LowerV, 49>>)
    BY <2>2, <2>7, Zenon
  <2> QED
    BY <2>5, <2>6, <2>8 DEF KeysAreExact
<1> QED
  BY <1>1, <1>2, PTL

=============================================================================
