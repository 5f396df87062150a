----------------------------- MODULE Growth_proofs -----------------------------
(***************************************************************************)
(* Theorems about Growth, for every set of ids, capacity, bucket sizes and *)
(* width of a page count.                                                  *)
(***************************************************************************)
EXTENDS Growth, FiniteSetTheorems, TLAPS

-----------------------------------------------------------------------------
(***************************************************************************)
(* Facts about numbers.                                                    *)
(***************************************************************************)
LEMMA TimesMonotonic ==
  ASSUME NEW a \in Nat, NEW b \in Nat, NEW k \in Nat, a <= b
  PROVE  a * k <= b * k
OBVIOUS

\* Rounding up covers what is rounded, and no more than a bucket too much.
LEMMA BucketsForCovers ==
  ASSUME NEW p \in Nat, NEW k \in Nat \ {0}
  PROVE  /\ BucketsFor(p, k) \in Nat
         /\ p <= BucketsFor(p, k) * k
         /\ BucketsFor(p, k) * k < p + k
<1> DEFINE n == p + k - 1
           q == n \div k
<1>1. n \in Nat /\ q \in Nat /\ n = (q * k) + (n % k) /\ n % k \in 0 .. k - 1
  OBVIOUS
<1> HIDE DEF q
<1>2. q * k \in Nat
  BY <1>1
<1>3. p <= q * k /\ q * k < p + k
  BY <1>1, <1>2
<1>4. QED
  BY <1>1, <1>3 DEF BucketsFor, q

LEMMA BucketsForMonotonic ==
  ASSUME NEW p \in Nat, NEW q \in Nat, NEW k \in Nat \ {0}, p <= q
  PROVE  BucketsFor(p, k) <= BucketsFor(q, k)
<1> DEFINE a == BucketsFor(p, k)
           b == BucketsFor(q, k)
<1>1. /\ a \in Nat /\ b \in Nat
      /\ a * k < p + k
      /\ q <= b * k
  BY BucketsForCovers
<1> HIDE DEF a, b
<1>2. SUFFICES ASSUME b + 1 <= a PROVE FALSE
  BY <1>1 DEF a, b
<1>3. (b + 1) * k <= a * k
  BY <1>1, <1>2, TimesMonotonic
<1>4. (b + 1) * k = b * k + k /\ b * k \in Nat /\ a * k \in Nat
  BY <1>1
<1>5. QED
  BY <1>1, <1>3, <1>4

\* The capacity in pages, and in bytes, fits the width of a word.
LEMMA CapacityFits ==
  ASSUME NEW perBucket \in BucketSizes, NEW n \in 0 .. Capacity
  PROVE  /\ 1 + n * perBucket \in Pages
         /\ RequiredPages(n, perBucket) \in Pages
         /\ PageBytes * (n * perBucket) \in Pages
<1> DEFINE full == Capacity * perBucket
           some == n * perBucket
<1>1. /\ perBucket \in Nat /\ Capacity \in Nat /\ MaxWord \in Nat
      /\ PageBytes \in Nat \ {0} /\ PageBytes * (1 + full) <= MaxWord
  BY GrowthAssumption
<1>2. some \in Nat /\ full \in Nat /\ some <= full
  BY <1>1, TimesMonotonic
<1> HIDE DEF some, full
<1>3. /\ PageBytes * some <= PageBytes * (1 + full)
      /\ 1 + full <= PageBytes * (1 + full)
      /\ PageBytes * some \in Nat
  BY <1>1, <1>2
<1>4. QED
  BY <1>1, <1>2, <1>3 DEF Pages, RequiredPages, some

\* Every nonempty set of naturals has a least element.
LEMMA LeastElement ==
  ASSUME NEW S \in SUBSET Nat, S # {}
  PROVE  \E m \in S : \A c \in S : ~ (c < m)
<1>1. IsWellFoundedOn(OpToRel(<, Nat), Nat)
  BY NatLessThanWellFounded
<1>2. PICK m \in S : \A c \in S : <<c, m>> \notin OpToRel(<, Nat)
  BY <1>1, WFMin
<1>3. QED
  BY <1>2 DEF OpToRel

-----------------------------------------------------------------------------
(***************************************************************************)
(* Facts about buckets in their order.                                     *)
(***************************************************************************)
LEMMA BucketsAreFinite ==
  ASSUME NEW S \in SUBSET Bucket
  PROVE  /\ S \subseteq Nat
         /\ IsFiniteSet(S)
         /\ Cardinality(S) \in 0 .. Capacity
<1>1. /\ Capacity \in Nat /\ Bucket = 0 .. Capacity - 1
  BY GrowthAssumption DEF Bucket
<1>2. IsFiniteSet(Bucket) /\ Cardinality(Bucket) = Capacity
  BY <1>1, FS_Interval
<1>3. IsFiniteSet(S) /\ Cardinality(S) <= Capacity
  BY <1>2, FS_Subset
<1>4. QED
  BY <1>1, <1>3, FS_CardinalityType

LEMMA OwnedIsFinite ==
  ASSUME NEW id
  PROVE  /\ Owned(id) \subseteq Bucket
         /\ Owned(id) \subseteq Nat
         /\ IsFiniteSet(Owned(id))
         /\ Cardinality(Owned(id)) \in 0 .. Capacity
<1>1. Owned(id) \in SUBSET Bucket
  BY DEF Owned
<1>2. QED
  BY <1>1, BucketsAreFinite

\* A prefix is the first so many.
LEMMA FirstOfPrefix ==
  ASSUME NEW S \in SUBSET Nat, IsFiniteSet(S), NEW P \in SUBSET S,
         \A b \in S, c \in P : b < c => b \in P
  PROVE  First(Cardinality(P), S) = P
<1> DEFINE Below(b) == { c \in S : c < b }
<1>1. IsFiniteSet(P) /\ Cardinality(P) \in Nat
  BY FS_Subset, FS_CardinalityType
<1>2. ASSUME NEW b \in P PROVE Cardinality(Below(b)) < Cardinality(P)
  <2>1. Below(b) \subseteq P \ {b}
    <3> SUFFICES ASSUME NEW c \in S, c < b PROVE c \in P /\ c # b
      OBVIOUS
    <3>1. b \in Nat /\ c \in Nat
      BY <1>2
    <3>2. QED
      BY <1>2, <3>1
  <2>2. IsFiniteSet(P \ {b}) /\ Cardinality(P \ {b}) = Cardinality(P) - 1
    BY <1>1, <1>2, FS_RemoveElement
  <2>3. Cardinality(Below(b)) <= Cardinality(P \ {b}) /\ Cardinality(Below(b)) \in Nat
    BY <2>1, <2>2, FS_Subset, FS_CardinalityType
  <2>4. QED
    BY <1>1, <2>2, <2>3
<1>3. ASSUME NEW b \in S \ P PROVE ~ (Cardinality(Below(b)) < Cardinality(P))
  <2>1. P \subseteq Below(b)
    <3> SUFFICES ASSUME NEW c \in P PROVE c < b
      OBVIOUS
    <3>1. ~ (b < c) /\ b # c /\ b \in Nat /\ c \in Nat
      BY <1>3
    <3>2. QED
      BY <3>1
  <2>2. IsFiniteSet(Below(b)) /\ Cardinality(Below(b)) \in Nat
    BY FS_Subset, FS_CardinalityType
  <2>3. Cardinality(P) <= Cardinality(Below(b))
    BY <2>1, <2>2, FS_Subset
  <2>4. QED
    BY <1>1, <2>2, <2>3
<1>4. QED
  BY <1>2, <1>3 DEF First

\* There are as many as one asks for, as long as there are.  The proof is by
\* the least number for which there are not.
LEMMA FirstIsExact ==
  ASSUME NEW S \in SUBSET Nat, IsFiniteSet(S), NEW n \in Nat, n <= Cardinality(S)
  PROVE  Cardinality(First(n, S)) = n
<1> DEFINE Below(b) == { c \in S : c < b }
           Wrong == { m \in Nat : m <= Cardinality(S) /\ Cardinality(First(m, S)) # m }
<1>1. Cardinality(S) \in Nat
  BY FS_CardinalityType
<1>2. \A b : IsFiniteSet(Below(b)) /\ Cardinality(Below(b)) \in Nat
  <2> TAKE b
  <2>1. Below(b) \in SUBSET S
    OBVIOUS
  <2>2. QED
    BY <2>1, FS_Subset, FS_CardinalityType
<1>3. SUFFICES ASSUME Wrong # {} PROVE FALSE
  OBVIOUS
<1>4. PICK m \in Wrong : \A k \in Wrong : ~ (k < m)
  <2>1. Wrong \in SUBSET Nat
    OBVIOUS
  <2> HIDE DEF Wrong
  <2>2. QED
    BY <1>3, <2>1, LeastElement
<1>5. m # 0
  <2>1. First(0, S) = {}
    BY <1>2 DEF First
  <2>2. QED
    BY <1>4, <2>1, FS_EmptySet
<1> DEFINE k == m - 1
           F == First(k, S)
<1>6. k \in Nat /\ m = k + 1 /\ k < Cardinality(S) /\ Cardinality(F) = k
  <2>1. k \in Nat /\ k < m /\ k <= Cardinality(S) /\ m = k + 1
    BY <1>1, <1>4, <1>5
  <2>2. k \notin Wrong
    BY <1>4, <2>1
  <2>3. QED
    BY <1>1, <1>4, <2>1, <2>2
<1> HIDE DEF k
<1>7. F \in SUBSET S /\ IsFiniteSet(F)
  <2>1. F \in SUBSET S
    BY DEF First
  <2>2. QED
    BY <2>1, FS_Subset
<1>8. \A b \in S : b \in F <=> Cardinality(Below(b)) < k
  BY DEF First
<1>9. S \ F # {}
  BY <1>6, <1>7
<1>10. PICK x \in S \ F : \A c \in S \ F : ~ (c < x)
  <2>1. S \ F \in SUBSET Nat
    OBVIOUS
  <2>2. QED
    BY <1>9, <2>1, LeastElement
\* Counting is monotonic along the order.
<1>11. ASSUME NEW b \in S, NEW c \in S, b < c
       PROVE  Cardinality(Below(b)) < Cardinality(Below(c))
  <2>1. Below(b) \subseteq Below(c) \ {b} /\ b \in Below(c)
    <3>1. \A d \in S : d < b => d < c /\ d # b
      <4> TAKE d \in S
      <4>1. b \in Nat /\ c \in Nat /\ d \in Nat
        OBVIOUS
      <4>2. QED
        BY <1>11, <4>1
    <3>2. QED
      BY <1>11, <3>1
  <2>2. /\ IsFiniteSet(Below(c) \ {b})
        /\ Cardinality(Below(c) \ {b}) = Cardinality(Below(c)) - 1
    BY <1>2, <2>1, FS_RemoveElement
  <2>3. Cardinality(Below(b)) <= Cardinality(Below(c) \ {b})
    BY <2>1, <2>2, FS_Subset
  <2>4. QED
    BY <1>2, <2>2, <2>3
<1>12. Below(x) = F
  <2>1. ASSUME NEW c \in S, c < x PROVE c \in F
    BY <1>10, <2>1
  <2>2. ASSUME NEW c \in F PROVE c < x
    <3>1. c \in S /\ c # x /\ c \in Nat /\ x \in Nat
      BY <1>7, <1>10, <2>2
    <3>2. ~ (x < c)
      <4>1. Cardinality(Below(c)) < k /\ ~ (Cardinality(Below(x)) < k)
        BY <1>8, <1>10, <2>2, <3>1
      <4>2. SUFFICES ASSUME x < c PROVE FALSE
        OBVIOUS
      <4>3. Cardinality(Below(x)) < Cardinality(Below(c))
        BY <1>10, <1>11, <3>1, <4>2
      <4>4. Cardinality(Below(x)) \in Nat /\ Cardinality(Below(c)) \in Nat
        BY <1>2
      <4> HIDE DEF Below
      <4>5. QED
        BY <1>6, <4>1, <4>3, <4>4
    <3>3. QED
      BY <3>1, <3>2
  <2>3. QED
    BY <1>7, <2>1, <2>2
<1>13. First(m, S) = F \cup {x}
  <2>1. Cardinality(Below(x)) = k
    BY <1>6, <1>12
  <2>2. ASSUME NEW b \in S
        PROVE  Cardinality(Below(b)) < m <=> b \in F \/ b = x
    <3>1. CASE b \in F
      BY <1>2, <1>6, <1>8, <3>1
    <3>2. CASE b = x
      BY <1>6, <2>1, <3>2
    <3>3. CASE b \notin F /\ b # x
      <4>1. x < b
        <5>1. ~ (b < x) /\ b \in Nat /\ x \in Nat
          BY <1>10, <3>3
        <5>2. QED
          BY <3>3, <5>1
      <4>2. k < Cardinality(Below(b))
        BY <1>10, <1>11, <2>1, <4>1
      <4>3. QED
        BY <1>2, <1>6, <3>3, <4>2
    <3>4. QED
      BY <3>1, <3>2, <3>3
  <2>3. QED
    BY <1>7, <1>10, <2>2 DEF First
<1>14. Cardinality(First(m, S)) = k + 1
  BY <1>6, <1>7, <1>10, <1>13, FS_AddElement
<1>15. QED
  BY <1>4, <1>6, <1>14

-----------------------------------------------------------------------------
(***************************************************************************)
(* The inductive invariant: initially, and after each action.              *)
(***************************************************************************)
LEMMA OwnedStays ==
  ASSUME UNCHANGED table
  PROVE  \A id : Owned(id)' = Owned(id)
BY DEF Owned

LEMMA NothingIsOwned ==
  ASSUME table = EmptyTable
  PROVE  \A id \in Id : Owned(id) = {}
BY GrowthAssumption DEF Owned, EmptyTable

\* The values of a state without a runtime.
LEMMA EmptyValues ==
  /\ NoManager \in Manager
  /\ NoCall \in [id : Id \cup {Free}, old : Pages, new : Pages, total : 0 .. Capacity,
                 left : 0 .. Capacity]
  /\ Nothing \in [Id -> [pages : Pages, buckets : SUBSET Bucket]]
  /\ EmptyTable \in [Bucket -> Id \cup {Free}]
  /\ \A perBucket \in BucketSizes :
       [EmptyHeader EXCEPT !.perBucket = perBucket]
         \in [allocated : 0 .. Capacity, perBucket : BucketSizes, pages : [Id -> Pages]]
  /\ EmptyHeader \in [allocated : 0 .. Capacity, perBucket : BucketSizes, pages : [Id -> Pages]]
  /\ 0 \in Pages /\ 1 \in Pages
<1>1. 0 \in Pages /\ 0 \in 0 .. Capacity /\ DefaultSize \in BucketSizes
  BY GrowthAssumption DEF Pages
<1>2. 1 \in Pages
  <2>1. 1 + 0 * DefaultSize \in Pages
    BY <1>1, CapacityFits
  <2>2. DefaultSize \in Nat
    BY GrowthAssumption
  <2>3. QED
    BY <2>1, <2>2
<1>3. QED
  BY <1>1, <1>2 DEF NoManager, NoCall, Nothing, EmptyTable, EmptyHeader, Manager

LEMMA InitIInv == Init => IInv
<1> SUFFICES ASSUME Init PROVE IInv
  OBVIOUS
<1> USE DEF Init
<1>1. TypeOK
  BY EmptyValues, GrowthAssumption DEF TypeOK
<1>2. FormatInv /\ LeaseInv /\ ManagerInv /\ ExtentInv /\ CallInv
  BY DEF FormatInv, LeaseInv, LeasesAreExclusive, ManagerInv, ExtentInv, CallInv, Growing
<1>3. PromiseInv
  BY EmptyValues, NothingIsOwned DEF PromiseInv, Nothing, EmptyHeader
<1>4. QED
  BY <1>1, <1>2, <1>3 DEF IInv

\* Whatever only touches leases leaves the buckets' part of the invariant.
LEMMA LayoutStays ==
  ASSUME IInv, UNCHANGED <<durable, size, allocated, manager, pc, call, promised>>,
         (runtime' # "none") <=> (runtime # "none")
  PROVE  FormatInv' /\ ManagerInv' /\ ExtentInv' /\ CallInv' /\ PromiseInv'
<1> USE DEF IInv, durable
<1>1. \A id : Owned(id)' = Owned(id)
  BY OwnedStays
<1>2. FormatInv' /\ CallInv'
  BY DEF FormatInv, CallInv, Growing
<1>3. ManagerInv' /\ ExtentInv'
  BY <1>1 DEF ManagerInv, ExtentInv
<1>4. PromiseInv'
  BY <1>1 DEF PromiseInv
<1>5. QED
  BY <1>2, <1>3, <1>4

LEMMA HandleCounts ==
  ASSUME IInv, NEW id \in Id
  PROVE  /\ handles \in [Id -> Nat]
         /\ handles[id] \in {0, 1}
         /\ handles[id] = 1 => id \in open
<1>1. handles \in [Id -> Nat]
  BY DEF IInv, TypeOK
<1>2. handles[id] <= 1 /\ (handles[id] = 1 => id \in open)
  BY DEF IInv, LeaseInv, LeasesAreExclusive
<1>3. handles[id] \in Nat
  BY <1>1
<1>4. QED
  BY <1>1, <1>2, <1>3

LEMMA OpenMemoryKeeps ==
  ASSUME IInv, NEW id \in Id, OpenMemory(id)
  PROVE  IInv'
<1>1. handles[id] = 0 /\ handles' = [handles EXCEPT ![id] = 1]
  <2>1. handles[id] = 0
    BY HandleCounts DEF OpenMemory
  <2>2. handles' = [handles EXCEPT ![id] = 0 + 1]
    BY <2>1 DEF OpenMemory
  <2>3. QED
    BY <2>1, <2>2
<1> USE DEF IInv, OpenMemory
<1>2. TypeOK'
  BY <1>1 DEF TypeOK, durable
<1>3. LeaseInv'
  BY <1>1 DEF LeaseInv, LeasesAreExclusive, TypeOK, Growing
<1>4. QED
  BY <1>2, <1>3, LayoutStays

LEMMA DropHandleKeeps ==
  ASSUME IInv, NEW id \in Id, DropHandle(id)
  PROVE  IInv'
<1>1. handles[id] = 1 /\ handles' = [handles EXCEPT ![id] = 0]
  <2>1. handles[id] = 1
    BY HandleCounts DEF DropHandle
  <2>2. handles' = [handles EXCEPT ![id] = 1 - 1]
    BY <2>1 DEF DropHandle
  <2>3. QED
    BY <2>1, <2>2
<1> USE DEF IInv, DropHandle
<1>2. TypeOK'
  BY <1>1 DEF TypeOK, durable
<1>3. LeaseInv'
  BY <1>1 DEF LeaseInv, LeasesAreExclusive, TypeOK, Growing
<1>4. QED
  BY <1>2, <1>3, LayoutStays

LEMMA ForgetHandleKeeps ==
  ASSUME IInv, NEW id \in Id, ForgetHandle(id)
  PROVE  IInv'
<1>1. handles[id] = 1 /\ handles' = [handles EXCEPT ![id] = 0]
  <2>1. handles[id] = 1
    BY HandleCounts DEF ForgetHandle
  <2>2. handles' = [handles EXCEPT ![id] = 1 - 1]
    BY <2>1 DEF ForgetHandle
  <2>3. QED
    BY <2>1, <2>2
<1> USE DEF IInv, ForgetHandle
<1>2. TypeOK'
  BY <1>1 DEF TypeOK, durable
<1>3. LeaseInv'
  BY <1>1 DEF LeaseInv, LeasesAreExclusive, TypeOK, Growing
<1>4. QED
  BY <1>2, <1>3, LayoutStays

LEMMA DropRuntimeKeeps ==
  ASSUME IInv, DropRuntime
  PROVE  IInv'
<1> USE DEF IInv, DropRuntime
<1>1. TypeOK' /\ LeaseInv'
  BY DEF TypeOK, LeaseInv, LeasesAreExclusive, Growing, durable
<1>2. QED
  BY <1>1, LayoutStays

LEMMA ReentrantGrowKeeps ==
  ASSUME IInv, NEW id \in Id, ReentrantGrow(id)
  PROVE  IInv'
<1> USE DEF IInv, ReentrantGrow, volatile
<1>1. TypeOK' /\ LeaseInv'
  BY DEF TypeOK, LeaseInv, LeasesAreExclusive, Growing, durable
<1>2. QED
  BY <1>1, LayoutStays

LEMMA StutterKeeps ==
  ASSUME IInv, UNCHANGED vars
  PROVE  IInv'
<1> USE DEF IInv, vars, volatile
<1>1. TypeOK' /\ LeaseInv'
  BY DEF TypeOK, LeaseInv, LeasesAreExclusive, Growing, durable
<1>2. QED
  BY <1>1, LayoutStays

\* A call that ends before anything was changed.
LEMMA ReturnKeeps ==
  ASSUME IInv, pc \in {"idle", "reserve"}, UNCHANGED <<durable, volatile, promised>>,
         NEW result \in {"none", "ok", "refused", "rejected", "reentrant", "fault"},
         Return(result)
  PROVE  IInv'
<1> USE DEF IInv, Return, volatile
<1>1. TypeOK'
  BY EmptyValues DEF TypeOK, durable
<1>2. FormatInv' /\ LeaseInv' /\ CallInv'
  BY DEF FormatInv, LeaseInv, LeasesAreExclusive, CallInv, Growing, durable
<1>3. \A id : Owned(id)' = Owned(id)
  BY OwnedStays DEF durable
<1>4. ManagerInv' /\ ExtentInv' /\ PromiseInv'
  BY <1>3 DEF ManagerInv, ExtentInv, PromiseInv, durable
<1>5. QED
  BY <1>1, <1>2, <1>4

\* A construction acquires the metadata page, or is refused.
LEMMA ConstructFreshKeeps ==
  ASSUME IInv, NEW config \in Config, ConstructFresh(config)
  PROVE  IInv'
<1> USE DEF IInv, ConstructFresh, MayConstruct, volatile, durable
<1>1. runtime = "none"
  BY DEF FormatInv
<1>2. size' \in BucketSizes
  BY GrowthAssumption DEF Config, TypeOK
<1>3. TypeOK'
  BY <1>2, EmptyValues DEF TypeOK, Return
<1>4. FormatInv' /\ LeaseInv' /\ ManagerInv' /\ ExtentInv' /\ CallInv'
  BY <1>1 DEF FormatInv, LeaseInv, LeasesAreExclusive, ManagerInv, ExtentInv, CallInv,
              Growing, Return
<1>5. PromiseInv'
  BY OwnedStays DEF PromiseInv
<1>6. QED
  BY <1>3, <1>4, <1>5

\* Nothing was promised yet, so nothing is lost with the old header.
LEMMA InitHeaderKeeps ==
  ASSUME IInv, InitHeader
  PROVE  IInv'
<1> USE DEF IInv, InitHeader, volatile
<1>1. runtime = "none" /\ promised = Nothing /\ size \in BucketSizes
  BY DEF FormatInv, TypeOK
<1>2. TypeOK'
  BY <1>1, EmptyValues DEF TypeOK
<1>3. FormatInv' /\ LeaseInv' /\ ManagerInv' /\ ExtentInv' /\ CallInv'
  BY <1>1 DEF FormatInv, LeaseInv, LeasesAreExclusive, ManagerInv, ExtentInv, CallInv,
              Growing
<1>4. PromiseInv'
  BY <1>1, EmptyValues DEF PromiseInv, Nothing, EmptyHeader
<1>5. QED
  BY <1>2, <1>3, <1>4

\* A fresh manager has no bucket and every memory no page.
LEMMA InitTableKeeps ==
  ASSUME IInv, InitTable
  PROVE  IInv'
<1> USE DEF IInv, InitTable, Return
<1>1. /\ runtime = "none" /\ promised = Nothing /\ physical >= 1 /\ size \in BucketSizes
      /\ header = [EmptyHeader EXCEPT !.perBucket = size]
      /\ \A id \in Id : handles[id] = 0
  <2>1. runtime = "none"
    BY DEF FormatInv
  <2>2. \A id \in Id : handles[id] = 0
    BY <2>1, HandleCounts DEF LeaseInv
  <2>3. QED
    BY <2>1, <2>2 DEF FormatInv, TypeOK
<1>2. \A id \in Id : Owned(id)' = {}
  BY NothingIsOwned, GrowthAssumption DEF Owned, EmptyTable
<1>3. TypeOK'
  <2>1. 0 \in 0 .. Capacity
    BY GrowthAssumption
  <2>2. QED
    BY <2>1, EmptyValues DEF TypeOK
<1>4. FormatInv' /\ LeaseInv' /\ CallInv'
  BY <1>1 DEF FormatInv, LeaseInv, LeasesAreExclusive, CallInv, Growing, EmptyHeader,
              NoManager
<1>5. ManagerInv'
  <2>1. EndOf(0, size) <= physical
    BY <1>1, GrowthAssumption DEF EndOf, TypeOK, Pages
  <2>2. QED
    BY <1>1, <1>2, <2>1, GrowthAssumption
       DEF ManagerInv, NoManager, EmptyTable, EmptyHeader, Bucket
<1>6. ExtentInv'
  <2>1. BucketsFor(0, size) = 0
    <3>1. BucketsFor(0, size) \in Nat /\ BucketsFor(0, size) * size < size
      BY <1>1, BucketsForCovers, GrowthAssumption
    <3> DEFINE q == BucketsFor(0, size)
    <3>2. SUFFICES ASSUME 1 <= q PROVE FALSE
      BY <3>1
    <3> HIDE DEF q
    <3>3. size \in Nat /\ 1 * size <= q * size
      BY <1>1, <3>1, <3>2, TimesMonotonic, GrowthAssumption DEF q
    <3>4. QED
      BY <3>1, <3>3 DEF q
  <2>2. QED
    BY <1>2, <2>1, FS_EmptySet DEF ExtentInv, NoManager
<1>7. PromiseInv'
  BY <1>1, <1>2, EmptyValues DEF PromiseInv, Nothing, EmptyHeader
<1>8. QED
  BY <1>3, <1>4, <1>5, <1>6, <1>7

\* What the layout check accepts is what the invariant says of a manager.
LEMMA ConstructExistingKeeps ==
  ASSUME IInv, NEW config \in Config, ConstructExisting(config)
  PROVE  IInv'
<1>1. CASE UNCHANGED <<durable, volatile, promised>>
  <2>1. Return("ok") \/ Return("rejected")
    BY DEF ConstructExisting
  <2>2. QED
    BY <1>1, <2>1, ReturnKeeps DEF ConstructExisting, MayConstruct
<1> USE DEF IInv, ConstructExisting, MayConstruct, Return
<1>2. CASE ~ UNCHANGED <<durable, volatile, promised>>
  <2>1. /\ LayoutAccepted
        /\ runtime' = "live" /\ size' = header.perBucket
        /\ allocated' = header.allocated
        /\ manager' = [allocated |-> header.allocated, pages |-> header.pages,
                       buckets |-> [id \in Id |-> Owned(id)]]
        /\ open' = {}
        /\ UNCHANGED <<durable, handles, promised>>
    BY <1>2
  <2> USE DEF durable
  <2>2. \A id : Owned(id)' = Owned(id)
    BY <2>1, OwnedStays
  <2>3. TypeOK'
    BY <2>1, EmptyValues, OwnedIsFinite DEF TypeOK, Manager
  <2>4. FormatInv' /\ LeaseInv' /\ CallInv'
    BY <2>1 DEF FormatInv, LeaseInv, LeasesAreExclusive, CallInv, Growing, LayoutAccepted,
                TypeOK
  <2>5. ManagerInv'
    BY <2>1, <2>2 DEF ManagerInv, LayoutAccepted, RequiredPages, EndOf
  <2>6. ExtentInv'
    BY <2>1, <2>2 DEF ExtentInv, LayoutAccepted
  <2>7. PromiseInv'
    BY <2>1, <2>2 DEF PromiseInv
  <2>8. QED
    BY <2>3, <2>4, <2>5, <2>6, <2>7
<1>3. QED
  BY <1>1, <1>2

\* The end of the process takes everything but the backing.
LEMMA ProcessEndKeeps ==
  ASSUME IInv, ProcessEnd
  PROVE  IInv'
<1> USE DEF IInv, ProcessEnd, Return, durable
<1>1. TypeOK'
  BY EmptyValues, GrowthAssumption DEF TypeOK
<1>2. FormatInv' /\ LeaseInv' /\ ManagerInv' /\ ExtentInv' /\ CallInv'
  BY DEF FormatInv, LeaseInv, LeasesAreExclusive, ManagerInv, ExtentInv, CallInv, Growing
<1>3. PromiseInv'
  BY OwnedStays DEF PromiseInv
<1>4. QED
  BY <1>1, <1>2, <1>3

\* A panic out of the reservation leaves at most more pages behind.
LEMMA CaughtPanicKeeps ==
  ASSUME IInv, CaughtPanic
  PROVE  IInv'
<1> USE DEF IInv, CaughtPanic, Return, volatile
<1>1. \A id : Owned(id)' = Owned(id)
  BY OwnedStays
<1>2. \/ physical' \in Pages /\ physical' >= physical
      \/ physical' = RequiredPages(call.total, size)
  BY DEF TypeOK, Pages
<1>3. RequiredPages(call.total, size) \in Pages
  BY CapacityFits DEF TypeOK
<1>4. EndOf(manager.allocated, size) <= RequiredPages(call.total, size)
  <2>1. /\ manager.allocated \in Nat /\ call.total \in Nat /\ call.left \in Nat
        /\ size \in Nat
    BY GrowthAssumption DEF TypeOK, Manager
  <2>2. manager.allocated <= call.total
    BY <2>1 DEF CallInv
  <2>3. manager.allocated * size <= call.total * size
    BY <2>1, <2>2, TimesMonotonic
  <2>4. QED
    BY <2>1, <2>3 DEF EndOf, RequiredPages
<1>5. TypeOK'
  BY <1>2, <1>3, EmptyValues DEF TypeOK
<1>6. FormatInv' /\ LeaseInv' /\ CallInv'
  BY DEF FormatInv, LeaseInv, LeasesAreExclusive, CallInv, Growing
<1>7. ManagerInv'
  BY <1>1, <1>4 DEF ManagerInv
<1>8. ExtentInv' /\ PromiseInv'
  BY <1>1 DEF ExtentInv, PromiseInv
<1>9. QED
  BY <1>5, <1>6, <1>7, <1>8

\* What is known of a growth that was admitted.
LEMMA AdmittedGrowth ==
  ASSUME IInv, pc = "idle", NEW id \in Id, handles[id] > 0, NEW pages \in Requests,
         GrowAdmitted(manager.pages[id], pages)
  PROVE  LET old == manager.pages[id]
             left == BucketsFor(old + pages, size) - BucketsFor(old, size)
         IN  /\ runtime # "none" /\ size = header.perBucket /\ size \in BucketSizes
             /\ old \in Pages /\ old + pages \in Pages /\ old <= old + pages
             /\ BucketsFor(old, size) \in Nat /\ BucketsFor(old + pages, size) \in Nat
             /\ left \in 0 .. Capacity
             /\ allocated + left \in 0 .. Capacity
             /\ header.pages = manager.pages /\ allocated = manager.allocated
<1> DEFINE old == manager.pages[id]
           new == old + pages
           p == BucketsFor(old, size)
           q == BucketsFor(new, size)
<1>1. runtime # "none" /\ size = header.perBucket /\ size \in Nat \ {0} /\ size \in BucketSizes
  BY GrowthAssumption DEF IInv, LeaseInv, ManagerInv, TypeOK
<1>2. header.pages = manager.pages /\ allocated = manager.allocated
  BY <1>1 DEF IInv, CallInv
<1>3. old \in Pages /\ allocated \in 0 .. Capacity /\ Capacity \in Nat /\ MaxWord \in Nat
  BY GrowthAssumption DEF IInv, TypeOK, Manager
<1>4. pages \in Nat /\ new <= MaxWord /\ allocated + (q - p) <= Capacity
  BY GrowthAssumption DEF GrowAdmitted, Extra
<1>5. new \in Pages /\ old <= new /\ old \in Nat /\ new \in Nat
  BY <1>3, <1>4 DEF Pages
<1> HIDE DEF old, new
<1>6. p \in Nat /\ q \in Nat /\ p <= q
  BY <1>1, <1>5, BucketsForCovers, BucketsForMonotonic
<1> HIDE DEF p, q
<1>7. q - p \in 0 .. Capacity /\ allocated + (q - p) \in 0 .. Capacity
  BY <1>3, <1>4, <1>6
<1>8. QED
  BY <1>1, <1>2, <1>3, <1>5, <1>6, <1>7 DEF p, q, old, new

LEMMA GrowKeeps ==
  ASSUME IInv, NEW id \in Id, NEW pages \in Requests, Grow(id, pages)
  PROVE  IInv'
<1> DEFINE old == manager.pages[id]
           left == BucketsFor(old + pages, size) - BucketsFor(old, size)
<1>1. /\ pc = "idle" /\ handles[id] > 0 /\ UNCHANGED <<durable, volatile, promised>>
  BY DEF Grow
<1>2. CASE Return("ok") \/ Return("refused")
  BY <1>1, <1>2, ReturnKeeps
<1>3. CASE ~ (Return("ok") \/ Return("refused"))
  <2>1. /\ GrowAdmitted(old, pages)
        /\ call' = [id |-> id, old |-> old, new |-> old + pages,
                    total |-> allocated + Extra(size, old, old + pages),
                    left |-> Extra(header.perBucket, old, old + pages)]
        /\ pc' = IF RequiredPages(allocated + Extra(size, old, old + pages), size) > physical
                   THEN "reserve" ELSE "assign"
        /\ outcome' = outcome
    BY <1>3 DEF Grow
  <2>2. /\ runtime # "none" /\ size = header.perBucket /\ size \in BucketSizes
        /\ old \in Pages /\ old + pages \in Pages /\ old <= old + pages
        /\ BucketsFor(old, size) \in Nat /\ BucketsFor(old + pages, size) \in Nat
        /\ left \in 0 .. Capacity
        /\ allocated + left \in 0 .. Capacity
        /\ header.pages = manager.pages /\ allocated = manager.allocated
    BY <1>1, <2>1, AdmittedGrowth
  <2>3. /\ call'.id = id /\ call'.old = old /\ call'.new = old + pages
        /\ call'.total = allocated + left /\ call'.left = left
    BY <2>1, <2>2 DEF Extra
  <2>4. /\ pc' \in {"reserve", "assign"}
        /\ pc' = "assign" => RequiredPages(allocated + left, size) <= physical
    <3>1. RequiredPages(allocated + left, size) \in Pages /\ physical \in Pages
      BY <2>2, CapacityFits DEF IInv, TypeOK
    <3>2. QED
      BY <2>1, <2>2, <3>1, GrowthAssumption DEF Extra, Pages
  <2> HIDE DEF left
  <2> USE <1>1 DEF IInv, durable, volatile
  <2>5. TypeOK'
    <3>1. call' \in [id : Id \cup {Free}, old : Pages, new : Pages, total : 0 .. Capacity,
                     left : 0 .. Capacity]
      BY <2>1, <2>2, <2>3 DEF Extra, left
    <3>2. QED
      BY <2>1, <2>4, <3>1 DEF TypeOK
  <2>6. FormatInv' /\ LeaseInv'
    BY <2>2, <2>4 DEF FormatInv, LeaseInv, LeasesAreExclusive, Growing
  <2>7. ManagerInv' /\ PromiseInv'
    BY OwnedStays DEF ManagerInv, PromiseInv
  <2>8. ExtentInv'
    <3>1. BucketsFor(old + pages, size) - left = BucketsFor(old, size)
      BY <2>2 DEF left
    <3>2. QED
      BY <2>2, <2>3, <2>4, <3>1, OwnedStays DEF ExtentInv
  <2>9. CallInv'
    <3>1. /\ manager.allocated + left = allocated + left
          /\ BucketsFor(old, size) <= BucketsFor(old + pages, size)
          /\ BucketsFor(old, size) <= BucketsFor(old + pages, size) - left
      BY <2>2, GrowthAssumption DEF left
    <3>2. QED
      BY <2>2, <2>3, <2>4, <3>1 DEF CallInv, Growing, left
  <2>10. QED
    BY <2>5, <2>6, <2>7, <2>8, <2>9
<1>4. QED
  BY <1>2, <1>3

\* The pages that all buckets will need are there before any is assigned.
LEMMA ReserveBackingKeeps ==
  ASSUME IInv, ReserveBacking
  PROVE  IInv'
<1>1. CASE Return("refused")
  <2>1. pc = "reserve" /\ UNCHANGED <<durable, volatile, promised>>
    BY <1>1 DEF ReserveBacking, Return
  <2>2. QED
    BY <1>1, <2>1, ReturnKeeps
<1>2. CASE ~ Return("refused")
  <2> USE DEF IInv, volatile
  <2>1. /\ pc = "reserve" /\ pc' = "assign" /\ physical' = RequiredPages(call.total, size)
        /\ UNCHANGED <<contents, header, table, volatile, call, outcome, promised>>
    BY <1>2 DEF ReserveBacking
  <2>2. physical' \in Pages
    BY <2>1, CapacityFits DEF TypeOK
  <2>3. EndOf(manager.allocated, size) <= physical'
    <3>1. /\ manager.allocated \in Nat /\ call.total \in Nat /\ call.left \in Nat
          /\ size \in Nat
      BY GrowthAssumption DEF TypeOK, Manager
    <3>2. manager.allocated <= call.total
      BY <2>1, <3>1 DEF CallInv
    <3>3. manager.allocated * size <= call.total * size
      BY <3>1, <3>2, TimesMonotonic
    <3>4. QED
      BY <2>1, <3>1, <3>3 DEF EndOf, RequiredPages
  <2>4. TypeOK'
    BY <2>1, <2>2 DEF TypeOK
  <2>5. FormatInv' /\ LeaseInv'
    BY <2>1 DEF FormatInv, LeaseInv, LeasesAreExclusive, Growing
  <2>6. ManagerInv' /\ PromiseInv'
    BY <2>1, <2>3, OwnedStays DEF ManagerInv, PromiseInv
  <2>7. /\ runtime # "none" /\ call.id \in Id
        /\ BucketsFor(call.new, size) - call.left = BucketsFor(manager.pages[call.id], size)
    <3>1. runtime # "none" /\ call.id \in Id
      BY <2>1 DEF LeaseInv, CallInv, Growing
    <3>2. /\ call.new \in Nat /\ manager.pages[call.id] \in Nat /\ size \in Nat \ {0}
          /\ call.left \in Nat
      BY <3>1, GrowthAssumption DEF TypeOK, Manager, Pages
    <3>3. /\ BucketsFor(call.new, size) \in Nat
          /\ BucketsFor(manager.pages[call.id], size) \in Nat
      BY <3>2, BucketsForCovers
    <3>4. QED
      BY <2>1, <3>1, <3>2, <3>3 DEF CallInv
  <2>8. ExtentInv'
    BY <2>1, <2>7, OwnedStays DEF ExtentInv
  <2>9. CallInv'
    <3>1. RequiredPages(call.total, size) <= physical'
      BY <2>1, <2>2 DEF Pages
    <3>2. BucketsFor(manager.pages[call.id], size) \in Nat
      BY <2>7, BucketsForCovers, GrowthAssumption DEF TypeOK, Manager, Pages
    <3>3. QED
      BY <2>1, <2>7, <3>1, <3>2 DEF CallInv, Growing
  <2>10. QED
    BY <2>4, <2>5, <2>6, <2>8, <2>9
<1>3. QED
  BY <1>1, <1>2

\* The next bucket in line was free, and now ends the owner's own.
LEMMA NextBucket ==
  ASSUME IInv, AssignBucket
  PROVE  LET next == manager.allocated
         IN  /\ next \in Bucket /\ call.id \in Id
             /\ table[next] = Free
             /\ table' = [table EXCEPT ![next] = call.id]
             /\ \A bucket \in Bucket : bucket < next => table[bucket] # Free
             /\ \A bucket \in Bucket : table[bucket] # Free => bucket < next
             /\ Owned(call.id)' = Owned(call.id) \cup {next}
             /\ next \notin Owned(call.id)
             /\ \A id \in Id \ {call.id} : Owned(id)' = Owned(id)
<1> DEFINE next == manager.allocated
<1>1. /\ runtime # "none" /\ call.id \in Id /\ call.id # Free
      /\ table \in [Bucket -> Id \cup {Free}]
      /\ next \in Nat
  BY GrowthAssumption DEF IInv, LeaseInv, Growing, CallInv, AssignBucket, TypeOK, Manager
<1>2. next \in Bucket
  <2>1. call.left \in Nat /\ call.left > 0 /\ next + call.left <= Capacity /\ Capacity \in Nat
    BY GrowthAssumption DEF AssignBucket, ManagerHasBuckets, IInv, TypeOK
  <2>2. QED
    BY <1>1, <2>1 DEF Bucket
<1>3. \A bucket \in Bucket : bucket < next <=> table[bucket] # Free
  BY <1>1 DEF IInv, ManagerInv
<1>4. table[next] = Free
  BY <1>1, <1>2, <1>3
<1>5. table' = [table EXCEPT ![next] = call.id]
  BY DEF AssignBucket
<1>6. \A id \in Id \ {call.id} : Owned(id)' = Owned(id)
  BY <1>1, <1>2, <1>4, <1>5, GrowthAssumption DEF Owned
<1>7. Owned(call.id)' = Owned(call.id) \cup {next} /\ next \notin Owned(call.id)
  <2>1. (call.id)' = call.id
    BY DEF AssignBucket, IInv, TypeOK
  <2>2. QED
    BY <1>1, <1>2, <1>4, <1>5, <2>1 DEF Owned
<1>8. QED
  BY <1>1, <1>2, <1>3, <1>4, <1>5, <1>6, <1>7

\* One bucket changes hands: from nobody to the growing memory.
LEMMA AssignBucketKeeps ==
  ASSUME IInv, AssignBucket
  PROVE  IInv'
<1> DEFINE next == manager.allocated
<1>1. /\ next \in Bucket /\ call.id \in Id
      /\ table[next] = Free
      /\ table' = [table EXCEPT ![next] = call.id]
      /\ \A bucket \in Bucket : bucket < next => table[bucket] # Free
      /\ \A bucket \in Bucket : table[bucket] # Free => bucket < next
      /\ Owned(call.id)' = Owned(call.id) \cup {next}
      /\ next \notin Owned(call.id)
      /\ \A id \in Id \ {call.id} : Owned(id)' = Owned(id)
  BY NextBucket
<1>2. /\ next \in Nat /\ next + 1 \in 0 .. Capacity /\ size \in Nat \ {0}
      /\ call.left \in Nat /\ call.left > 0 /\ call.left - 1 \in 0 .. Capacity
      /\ call.total \in Nat /\ next + call.left = call.total
      /\ call.new \in Nat /\ manager.pages \in [Id -> Pages]
      /\ runtime # "none" /\ size = header.perBucket
  <2>1. /\ next \in Nat /\ size \in BucketSizes /\ call.left \in 0 .. Capacity
        /\ call.total \in 0 .. Capacity /\ call.new \in Pages
        /\ manager.pages \in [Id -> Pages]
    BY <1>1, GrowthAssumption DEF IInv, TypeOK, Manager, Bucket
  <2>2. /\ runtime # "none" /\ next + call.left = call.total /\ call.left > 0
        /\ size = header.perBucket
    BY DEF IInv, LeaseInv, ManagerInv, CallInv, AssignBucket, Growing
  <2>3. QED
    BY <1>1, <2>1, <2>2, GrowthAssumption DEF Pages, Bucket
<1>3. /\ manager' = [allocated |-> next + 1, pages |-> manager.pages,
                     buckets |-> [manager.buckets EXCEPT ![call.id] = @ \cup {next}]]
      /\ call' = [id |-> call.id, old |-> call.old, new |-> call.new,
                  total |-> call.total, left |-> call.left - 1]
      /\ pc = "assign" /\ pc' = "assign"
      /\ UNCHANGED <<contents, physical, header, runtime, size, allocated, open, handles,
                     outcome, promised>>
  BY DEF AssignBucket, IInv, TypeOK, Manager
<1>4. (call.id)' = call.id
  BY <1>3
<1> USE DEF IInv
<1> HIDE DEF next
<1>5. TypeOK'
  <2>1. manager' \in Manager
    BY <1>1, <1>2, <1>3 DEF TypeOK, Manager
  <2>2. call' \in [id : Id \cup {Free}, old : Pages, new : Pages, total : 0 .. Capacity,
                   left : 0 .. Capacity]
    BY <1>2, <1>3 DEF TypeOK
  <2>3. table' \in [Bucket -> Id \cup {Free}]
    BY <1>1 DEF TypeOK
  <2>4. QED
    BY <1>3, <2>1, <2>2, <2>3 DEF TypeOK
<1>6. FormatInv' /\ LeaseInv'
  BY <1>1, <1>3 DEF FormatInv, LeaseInv, LeasesAreExclusive, Growing
<1>7. ManagerInv'
  <2>1. \A id \in Id : manager'.buckets[id] = Owned(id)'
    BY <1>1, <1>2, <1>3, <1>4 DEF ManagerInv, TypeOK, Manager
  <2>2. \A bucket \in Bucket : (bucket < next + 1) <=> (table'[bucket] # Free)
    <3> TAKE bucket \in Bucket
    <3>1. bucket \in Nat
      BY DEF Bucket
    <3>2. CASE bucket = next
      BY <1>1, <1>2, <3>2, GrowthAssumption DEF TypeOK
    <3>3. CASE bucket # next
      <4>1. table'[bucket] = table[bucket]
        BY <1>1, <3>3 DEF TypeOK
      <4>2. bucket < next + 1 <=> bucket < next
        BY <1>2, <3>1, <3>3
      <4>3. QED
        BY <1>1, <4>1, <4>2
    <3>4. QED
      BY <3>2, <3>3
  <2>3. EndOf(next + 1, size) <= physical
    <3>1. (next + 1) * size <= call.total * size
      BY <1>2, TimesMonotonic
    <3>2. 1 + call.total * size <= physical /\ physical \in Nat
      BY <1>3 DEF CallInv, RequiredPages, TypeOK, Pages
    <3>3. /\ (next + 1) * size \in Nat /\ call.total * size \in Nat
      BY <1>2
    <3>4. QED
      BY <3>1, <3>2, <3>3 DEF EndOf
  <2>4. QED
    BY <1>2, <1>3, <2>1, <2>2, <2>3 DEF ManagerInv
<1>8. ExtentInv'
  <2>1. Cardinality(Owned(call.id)') = Cardinality(Owned(call.id)) + 1
    BY <1>1, OwnedIsFinite, FS_AddElement
  <2>2. Cardinality(Owned(call.id)) = BucketsFor(call.new, size) - call.left
    BY <1>1, <1>2, <1>3 DEF ExtentInv
  <2>3. BucketsFor(call.new, size) \in Nat
    BY <1>2, BucketsForCovers
  <2>4. Cardinality(Owned(call.id)') = BucketsFor(call.new, size) - (call.left - 1)
    BY <1>2, <2>1, <2>2, <2>3
  <2>5. \A id \in Id \ {call.id} : Cardinality(Owned(id)') = BucketsFor(manager.pages[id], size)
    BY <1>1, <1>2, <1>3 DEF ExtentInv
  <2>6. QED
    BY <1>3, <1>4, <2>4, <2>5 DEF ExtentInv
<1>9. CallInv'
  <2>1. /\ BucketsFor(call.new, size) \in Nat
        /\ BucketsFor(manager.pages[call.id], size) \in Nat
    <3>1. manager.pages[call.id] \in Nat
      BY <1>1, <1>2, GrowthAssumption DEF Pages
    <3>2. QED
      BY <1>2, <3>1, BucketsForCovers
  <2>2. /\ next + 1 + (call.left - 1) = call.total
        /\ BucketsFor(manager.pages[call.id], size)
             <= BucketsFor(call.new, size) - (call.left - 1)
    BY <1>2, <1>3, <2>1 DEF CallInv
  <2>3. QED
    BY <1>2, <1>3, <2>2 DEF CallInv, Growing
<1>10. PromiseInv'
  <2> SUFFICES ASSUME NEW id \in Id
               PROVE  /\ promised[id].pages <= header.pages[id]
                      /\ promised[id].buckets \subseteq Owned(id)'
                      /\ \A bucket \in Owned(id)', kept \in promised[id].buckets :
                           bucket < kept => bucket \in promised[id].buckets
    BY <1>3 DEF PromiseInv
  <2>1. CASE id # call.id
    BY <1>1, <2>1 DEF PromiseInv
  <2>2. CASE id = call.id
    <3>1. Owned(id)' = Owned(id) \cup {next}
      BY <1>1, <1>4, <2>2
    <3>2. \A kept \in promised[id].buckets : ~ (next < kept)
      <4> TAKE kept \in promised[id].buckets
      <4>1. kept \in Bucket /\ table[kept] # Free /\ kept \in Nat
        BY <1>1, <2>2, GrowthAssumption DEF PromiseInv, Owned, Bucket
      <4>2. QED
        BY <1>1, <1>2, <4>1
    <3>3. QED
      BY <3>1, <3>2 DEF PromiseInv
  <2>3. QED
    BY <2>1, <2>2
<1>11. QED
  BY <1>5, <1>6, <1>7, <1>8, <1>9, <1>10

\* With the last bucket the extent itself.
LEMMA ManagerExtendKeeps ==
  ASSUME IInv, ManagerExtend
  PROVE  IInv'
<1> USE DEF IInv
<1>1. /\ pc = "assign" /\ pc' = "save" /\ call.left = 0 /\ call.id \in Id
      /\ manager' = [manager EXCEPT !.pages[call.id] = call.new]
      /\ UNCHANGED <<durable, runtime, size, allocated, open, handles, call, outcome, promised>>
  BY DEF ManagerExtend, CallInv, Growing
<1>2. /\ runtime # "none" /\ manager \in Manager /\ call.new \in Pages
      /\ size = header.perBucket /\ size \in Nat \ {0}
  BY <1>1, GrowthAssumption DEF LeaseInv, ManagerInv, TypeOK, Growing
<1>3. /\ manager' = [allocated |-> manager.allocated,
                     pages |-> [manager.pages EXCEPT ![call.id] = call.new],
                     buckets |-> manager.buckets]
      /\ manager' \in Manager
  BY <1>1, <1>2 DEF Manager
<1> USE DEF durable
<1>4. \A id : Owned(id)' = Owned(id)
  BY <1>1, OwnedStays
<1>5. TypeOK'
  BY <1>1, <1>3 DEF TypeOK
<1>6. FormatInv' /\ LeaseInv'
  BY <1>1 DEF FormatInv, LeaseInv, LeasesAreExclusive, Growing
<1>7. ManagerInv' /\ PromiseInv'
  BY <1>1, <1>3, <1>4 DEF ManagerInv, PromiseInv
<1>8. ExtentInv'
  <2>1. Cardinality(Owned(call.id)) = BucketsFor(call.new, size)
    <3>1. call.new \in Nat
      BY <1>2, GrowthAssumption DEF Pages
    <3>2. BucketsFor(call.new, size) \in Nat
      BY <1>2, <3>1, BucketsForCovers
    <3>3. QED
      BY <1>1, <1>2, <3>2 DEF ExtentInv
  <2>2. \A id \in Id \ {call.id} :
          /\ Cardinality(Owned(id)) = BucketsFor(manager.pages[id], size)
          /\ manager'.pages[id] = manager.pages[id]
    BY <1>1, <1>2, <1>3 DEF ExtentInv, Manager
  <2>3. manager'.pages[call.id] = call.new
    BY <1>1, <1>2, <1>3 DEF Manager
  <2>4. QED
    BY <1>1, <1>4, <2>1, <2>2, <2>3 DEF ExtentInv
<1>9. CallInv'
  <2>1. manager.allocated = call.total
    BY <1>1, <1>2, GrowthAssumption DEF CallInv, TypeOK, Manager
  <2>2. QED
    BY <1>1, <1>2, <1>3, <2>1 DEF CallInv, Growing
<1>10. QED
  BY <1>5, <1>6, <1>7, <1>8, <1>9

\* The header takes over what the manager has.
LEMMA SaveHeaderKeeps ==
  ASSUME IInv, SaveHeader
  PROVE  IInv'
<1> USE DEF IInv, SaveHeader, volatile
<1>1. /\ runtime # "none" /\ call.id \in Id /\ manager \in Manager
      /\ size = header.perBucket /\ size \in BucketSizes
      /\ manager.pages = [header.pages EXCEPT ![call.id] = call.new]
      /\ manager.allocated = call.total /\ header.pages[call.id] <= call.new
      /\ header.pages \in [Id -> Pages] /\ call.new \in Pages
  BY DEF LeaseInv, CallInv, ManagerInv, TypeOK, Growing
<1>2. header' = [allocated |-> manager.allocated, perBucket |-> size, pages |-> manager.pages]
  BY <1>1 DEF TypeOK
<1>3. \A id : Owned(id)' = Owned(id)
  BY OwnedStays
<1>4. TypeOK'
  BY <1>1, <1>2 DEF TypeOK, Manager
<1>5. FormatInv' /\ LeaseInv'
  BY DEF FormatInv, LeaseInv, LeasesAreExclusive, Growing
<1>6. ManagerInv' /\ ExtentInv'
  BY <1>2, <1>3 DEF ManagerInv, ExtentInv
<1>7. CallInv'
  <2>1. header'.pages[call.id] = call.new /\ call.new <= call.new
    BY <1>1, <1>2, GrowthAssumption DEF Pages
  <2>2. QED
    BY <1>1, <1>2, <2>1 DEF CallInv, Growing
<1>8. PromiseInv'
  <2>1. \A id \in Id : header.pages[id] <= header'.pages[id]
    <3> TAKE id \in Id
    <3>1. header.pages[id] \in Nat
      BY <1>1, GrowthAssumption DEF Pages
    <3>2. QED
      BY <1>1, <1>2, <3>1
  <2>2. \A id \in Id : /\ promised[id].pages \in Nat
                       /\ header.pages[id] \in Nat /\ header'.pages[id] \in Nat
    <3>1. MaxWord \in Nat /\ manager.pages \in [Id -> Pages]
      BY <1>1, GrowthAssumption DEF Manager
    <3>2. QED
      BY <1>1, <1>2, <3>1 DEF TypeOK, Pages
  <2>3. \A id \in Id : promised[id].pages <= header'.pages[id]
    BY <2>1, <2>2 DEF PromiseInv
  <2>4. QED
    BY <1>3, <2>3 DEF PromiseInv
<1>9. QED
  BY <1>4, <1>5, <1>6, <1>7, <1>8

\* What is acknowledged is exactly what the memory owns at that moment.
LEMMA FinishGrowKeeps ==
  ASSUME IInv, FinishGrow
  PROVE  IInv'
<1> USE DEF IInv, FinishGrow, durable
<1>1. /\ runtime # "none" /\ call.id \in Id /\ size = header.perBucket
      /\ manager.buckets[call.id] = Owned(call.id)
      /\ Cardinality(Owned(call.id)) = BucketsFor(manager.pages[call.id], size)
      /\ manager.pages[call.id] = call.new /\ header.pages[call.id] = call.new
      /\ call.new \in Pages /\ call.total \in 0 .. Capacity
  BY DEF LeaseInv, CallInv, ManagerInv, ExtentInv, TypeOK, Growing
<1>2. First(BucketsFor(call.new, header.perBucket), manager.buckets[call.id]) = Owned(call.id)
  <2>1. First(Cardinality(Owned(call.id)), Owned(call.id)) = Owned(call.id)
    BY OwnedIsFinite, FirstOfPrefix
  <2>2. QED
    BY <1>1, <2>1
<1>3. promised' = [promised EXCEPT ![call.id] = [pages |-> call.new, buckets |-> Owned(call.id)]]
  BY <1>2
<1>4. \A id : Owned(id)' = Owned(id)
  BY OwnedStays
<1>5. TypeOK'
  <2>1. promised' \in [Id -> [pages : Pages, buckets : SUBSET Bucket]]
    BY <1>1, <1>3, OwnedIsFinite DEF TypeOK
  <2>2. QED
    BY <1>1, <2>1, EmptyValues DEF TypeOK, Return
<1>6. FormatInv' /\ LeaseInv' /\ CallInv'
  BY <1>1 DEF FormatInv, LeaseInv, LeasesAreExclusive, CallInv, Growing, Return
<1>7. ManagerInv' /\ ExtentInv'
  BY <1>4 DEF ManagerInv, ExtentInv, Return
<1>8. PromiseInv'
  <2>1. call.new <= header.pages[call.id]
    BY <1>1, GrowthAssumption DEF Pages
  <2>2. QED
    BY <1>1, <1>3, <1>4, <2>1 DEF PromiseInv, TypeOK
<1>9. QED
  BY <1>5, <1>6, <1>7, <1>8

LEMMA NextKeeps == IInv /\ [Next]_vars => IInv'
<1> SUFFICES ASSUME IInv, [Next]_vars PROVE IInv'
  OBVIOUS
<1>1. CASE UNCHANGED vars
  BY <1>1, StutterKeeps
<1>2. CASE Progress
  BY <1>2, InitHeaderKeeps, InitTableKeeps, ReserveBackingKeeps, AssignBucketKeeps,
     ManagerExtendKeeps, SaveHeaderKeeps, FinishGrowKeeps DEF Progress
<1>3. CASE Next /\ ~ Progress
  BY <1>3, ConstructFreshKeeps, ConstructExistingKeeps, OpenMemoryKeeps, DropHandleKeeps,
     ForgetHandleKeeps, DropRuntimeKeeps, GrowKeeps, ReentrantGrowKeeps, CaughtPanicKeeps,
     ProcessEndKeeps DEF Next
<1>4. QED
  BY <1>1, <1>2, <1>3

-----------------------------------------------------------------------------
(***************************************************************************)
(* The theorems.                                                           *)
(***************************************************************************)
\* IInv holds of every state a runtime and its backing can reach: the table,
\* the manager, the header and the runtime's count are one, except for the
\* growth under way (runtime/backing.rs, runtime/mod.rs).
THEOREM InductiveInvariant == Spec => []IInv
<1>1. Init => IInv
  BY InitIInv
<1>2. IInv /\ [Next]_vars => IInv'
  BY NextKeeps
<1>3. QED
  BY <1>1, <1>2, PTL DEF Spec

\* Every variable keeps its type: in particular no page count and no bucket
\* count leaves its width (runtime/backing.rs, grow).
THEOREM TypeCorrect == Spec => []TypeOK
<1>1. IInv => TypeOK
  BY DEF IInv
<1>2. QED
  BY <1>1, InductiveInvariant, PTL

\* At most one live handle reaches a memory, also inside callbacks and after
\* the runtime is gone (runtime/mod.rs, open_memory; runtime/backing.rs, Drop).
THEOREM ExclusiveLeases == Spec => []LeasesAreExclusive
<1>1. IInv => LeasesAreExclusive
  BY DEF IInv, LeaseInv
<1>2. QED
  BY <1>1, InductiveInvariant, PTL

\* Between calls the runtime's count is the manager's and the persisted one
\* (runtime/backing.rs, grow).
THEOREM ExactAccounting == Spec => []AccountingIsExact
<1>1. IInv => AccountingIsExact
  BY DEF IInv, CallInv, AccountingIsExact
<1>2. QED
  BY <1>1, InductiveInvariant, PTL

\* The library's manager never meets a want of buckets or pages, on which it
\* would refuse or panic (runtime/backing.rs, grow).
THEOREM ManagerNeverShort == Spec => []ManagerIsNeverShort
<1>1. IInv => ManagerIsNeverShort
  <2> SUFFICES ASSUME IInv, pc = "assign"
               PROVE  ManagerHasBuckets /\ (call.left = 0 => ManagerCovered)
    BY DEF ManagerIsNeverShort
  <2> USE DEF IInv
  <2>1. manager.allocated + call.left = call.total /\ call.total \in 0 .. Capacity
    BY DEF CallInv, TypeOK
  <2>2. ManagerHasBuckets
    BY <2>1, GrowthAssumption DEF ManagerHasBuckets
  <2>3. ManagerCovered
    BY DEF ManagerCovered, ManagerInv, LeaseInv, Growing
  <2>4. QED
    BY <2>2, <2>3
<1>2. QED
  BY <1>1, InductiveInvariant, PTL

\* The bytes of an extent that its buckets back do not wrap, so the bounds
\* check admits exactly the accesses within them.
LEMMA BoundsAreExact ==
  ASSUME NEW perBucket \in BucketSizes, NEW pages \in Pages,
         BucketsFor(pages, perBucket) <= Capacity,
         NEW offset \in 0 .. MaxWord, NEW count \in 0 .. MaxWord
  PROVE  CheckIoBounds(pages, offset, count) <=> offset + count <= pages * PageBytes
<1> DEFINE extent == pages * PageBytes
           n == BucketsFor(pages, perBucket)
           backed == n * perBucket
<1>1. /\ pages \in Nat /\ perBucket \in Nat \ {0} /\ MaxWord \in Nat /\ Capacity \in Nat
      /\ PageBytes \in Nat \ {0} /\ offset \in Nat /\ count \in Nat
  BY GrowthAssumption DEF Pages
<1>2. n \in 0 .. Capacity /\ pages <= backed
  BY <1>1, BucketsForCovers
<1>3. PageBytes * backed \in 0 .. MaxWord
  BY <1>2, CapacityFits DEF Pages
<1>4. backed \in Nat
  BY <1>1, <1>2
<1> HIDE DEF backed, n
<1>5. extent \in Nat /\ extent <= PageBytes * backed
  <2>1. pages * PageBytes <= backed * PageBytes
    BY <1>1, <1>2, <1>4, TimesMonotonic
  <2>2. pages * PageBytes \in Nat /\ backed * PageBytes = PageBytes * backed
    BY <1>1, <1>4
  <2>3. QED
    BY <2>1, <2>2
<1> HIDE DEF extent
<1>6. extent % (MaxWord + 1) = extent
  BY <1>1, <1>3, <1>5
<1>7. CheckIoBounds(pages, offset, count) <=> offset <= extent /\ count <= extent - offset
  BY <1>6 DEF CheckIoBounds, extent
<1>8. QED
  BY <1>1, <1>5, <1>7 DEF extent

\* Every page within an extent lies in a bucket of its own that the backing
\* covers, and the bounds check of an access admits exactly the extent
\* (runtime/backing.rs, check_io_bounds and grow).
THEOREM BackedExtents == Spec => []ExtentsAreBacked
<1>1. IInv => ExtentsAreBacked
  <2> SUFFICES ASSUME IInv, runtime # "none", NEW id \in Id
               PROVE  LET n == BucketsFor(manager.pages[id], header.perBucket)
                          used == First(n, manager.buckets[id])
                      IN  /\ Cardinality(used) = n
                          /\ \A b \in used : EndOf(b + 1, header.perBucket) <= physical
                          /\ \A other \in Id \ {id} :
                               manager.buckets[other] \cap manager.buckets[id] = {}
                          /\ \A offset, count \in 0 .. MaxWord :
                               CheckIoBounds(manager.pages[id], offset, count)
                                 <=> offset + count <= manager.pages[id] * PageBytes
    BY DEF ExtentsAreBacked
  <2> DEFINE n == BucketsFor(manager.pages[id], header.perBucket)
             used == First(n, manager.buckets[id])
  <2>1. /\ size = header.perBucket /\ size \in BucketSizes /\ size \in Nat \ {0}
        /\ manager.buckets[id] = Owned(id)
        /\ manager.allocated \in Nat /\ manager.pages[id] \in Pages
        /\ manager.pages[id] \in Nat /\ physical \in Nat
    BY GrowthAssumption DEF IInv, ManagerInv, TypeOK, Manager, Pages
  <2>2. n \in Nat
    BY <2>1, BucketsForCovers
  <2>3. n <= Cardinality(Owned(id)) /\ Cardinality(Owned(id)) \in 0 .. Capacity
    <3>1. Cardinality(Owned(id)) \in 0 .. Capacity
      BY OwnedIsFinite
    <3>2. CASE pc = "assign" /\ id = call.id
      BY <2>1, <3>1, <3>2 DEF IInv, ExtentInv, CallInv
    <3>3. CASE ~ (pc = "assign" /\ id = call.id)
      BY <2>1, <2>2, <3>1, <3>3 DEF IInv, ExtentInv
    <3>4. QED
      BY <3>1, <3>2, <3>3
  <2>4. Cardinality(used) = n
    BY <2>1, <2>2, <2>3, OwnedIsFinite, FirstIsExact
  <2>5. \A b \in used : EndOf(b + 1, header.perBucket) <= physical
    <3> TAKE b \in used
    <3>1. b \in Bucket /\ table[b] # Free /\ b \in Nat
      BY <2>1, GrowthAssumption DEF First, Owned, Bucket
    <3>2. b + 1 <= manager.allocated /\ EndOf(manager.allocated, size) <= physical
      BY <2>1, <3>1 DEF IInv, ManagerInv
    <3> DEFINE above == b + 1
               all == manager.allocated
               width == size
    <3>3. above \in Nat /\ all \in Nat /\ width \in Nat /\ above <= all
      BY <2>1, <3>1, <3>2
    <3>4. above * width <= all * width
      <4> HIDE DEF above, all, width
      <4> QED
        BY <3>3, TimesMonotonic
    <3>5. above * width \in Nat /\ all * width \in Nat
      <4> HIDE DEF above, all, width
      <4> QED
        BY <3>3
    <3>6. EndOf(above, width) <= EndOf(all, width)
      <4> HIDE DEF above, all, width
      <4> QED
        BY <3>4, <3>5 DEF EndOf
    <3>7. EndOf(above, width) \in Nat /\ EndOf(all, width) \in Nat
      <4> HIDE DEF above, all, width
      <4> QED
        BY <3>5 DEF EndOf
    <3>8. QED
      BY <2>1, <3>2, <3>6, <3>7
  <2>6. \A other \in Id \ {id} : manager.buckets[other] \cap manager.buckets[id] = {}
    BY DEF IInv, ManagerInv, Owned
  <2>7. \A offset, count \in 0 .. MaxWord :
          CheckIoBounds(manager.pages[id], offset, count)
            <=> offset + count <= manager.pages[id] * PageBytes
    <3>1. n <= Capacity
      BY <2>2, <2>3, GrowthAssumption
    <3>2. QED
      BY <2>1, <3>1, BoundsAreExact
  <2>8. QED
    BY <2>4, <2>5, <2>6, <2>7
<1>2. QED
  BY <1>1, InductiveInvariant, PTL

\* A layout that a runtime may be built on holds every extent that was ever
\* acknowledged, in the buckets it was acknowledged in, whatever became of the
\* process in between (runtime/layout.rs; runtime/mod.rs, construct).
THEOREM KeptPromises == Spec => []PromisesAreKept
<1>1. IInv => PromisesAreKept
  <2> SUFFICES ASSUME IInv, NEW id \in Id
               PROVE  /\ header.pages[id] >= promised[id].pages
                      /\ promised[id].buckets
                           = First(Cardinality(promised[id].buckets), Owned(id))
    BY DEF PromisesAreKept
  <2>1. header.pages[id] \in Nat /\ promised[id].pages \in Nat
    BY GrowthAssumption DEF IInv, TypeOK, Pages
  <2>2. header.pages[id] >= promised[id].pages
    BY <2>1 DEF IInv, PromiseInv
  <2>3. /\ promised[id].buckets \in SUBSET Owned(id)
        /\ \A bucket \in Owned(id), kept \in promised[id].buckets :
             bucket < kept => bucket \in promised[id].buckets
    BY DEF IInv, PromiseInv
  <2>4. QED
    BY <2>2, <2>3, OwnedIsFinite, FirstOfPrefix
<1>2. QED
  BY <1>1, InductiveInvariant, PTL

\* A refused growth leaves metadata and accounting as they were acknowledged
\* (runtime/backing.rs, grow).
THEOREM HarmlessRefusal == Spec => RefusalKeepsMetadata
<1> DEFINE Refused == outcome' = "refused" /\ pc # "idle" /\ pc' = "idle"
           Kept == /\ UNCHANGED <<contents, physical, header, table, size, allocated, manager>>
                   /\ allocated = header.allocated
                   /\ manager.pages = header.pages
<1>1. IInv /\ [Next]_vars => [Refused => Kept]_vars
  <2> SUFFICES ASSUME IInv, Next, Refused PROVE Kept
    OBVIOUS
  <2>1. ReserveBacking
    BY DEF Next, Progress, InitHeader, InitTable, AssignBucket, ManagerExtend, SaveHeader,
           FinishGrow, ConstructFresh, ConstructExisting, MayConstruct, OpenMemory,
           DropHandle, ForgetHandle, DropRuntime, Grow, ReentrantGrow, CaughtPanic,
           ProcessEnd, Return
  <2>2. pc = "reserve" /\ UNCHANGED <<durable, volatile>>
    BY <2>1 DEF ReserveBacking
  <2>3. runtime # "none"
    BY <2>2 DEF IInv, LeaseInv, Growing
  <2>4. QED
    BY <2>2, <2>3 DEF IInv, CallInv, durable, volatile
<1>2. QED
  BY <1>1, InductiveInvariant, PTL DEF Spec, RefusalKeepsMetadata

\* Bytes that are not a manager of this crate are never written
\* (runtime/layout.rs; runtime/mod.rs, construct).
THEOREM ForeignBackingKept == Spec => ForeignBackingIsKept
<1> DEFINE Foreign == pc = "idle" /\ contents \in {"foreign", "header"}
           Kept == runtime' # "live" /\ UNCHANGED <<durable, pc>>
<1>1. IInv /\ [Next]_vars => [Foreign => Kept]_vars
  <2> SUFFICES ASSUME IInv, Next, Foreign PROVE Kept
    OBVIOUS
  <2>1. runtime = "none" /\ \A id \in Id : ~ (handles[id] > 0)
    BY DEF IInv, FormatInv, LeaseInv
  <2>2. ASSUME NEW config \in Config, ConstructExisting(config) PROVE Kept
    BY <2>1, <2>2 DEF ConstructExisting, LayoutAccepted, Return, durable, volatile
  <2>3. ASSUME ProcessEnd PROVE Kept
    BY <2>1, <2>3 DEF ProcessEnd
  <2>4. ~ Progress /\ ~ DropRuntime /\ ~ CaughtPanic
    BY <2>1 DEF Progress, InitHeader, InitTable, ReserveBacking, AssignBucket, ManagerExtend,
                SaveHeader, FinishGrow, DropRuntime, CaughtPanic
  <2>5. \A config \in Config : ~ ConstructFresh(config)
    BY DEF ConstructFresh
  <2>6. \A id \in Id : /\ ~ OpenMemory(id) /\ ~ DropHandle(id) /\ ~ ForgetHandle(id)
                       /\ ~ ReentrantGrow(id)
                       /\ \A pages \in Requests : ~ Grow(id, pages)
    BY <2>1 DEF OpenMemory, DropHandle, ForgetHandle, ReentrantGrow, Grow
  <2>7. QED
    BY <2>2, <2>3, <2>4, <2>5, <2>6 DEF Next
<1>2. QED
  BY <1>1, InductiveInvariant, PTL DEF Spec, ForeignBackingIsKept
=============================================================================
