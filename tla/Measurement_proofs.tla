-------------------------- MODULE Measurement_proofs --------------------------
(***************************************************************************)
(* Theorems about Measurement, for every set of ids, capacity, bucket      *)
(* sizes and width of a page count, and for every growth in between.       *)
(***************************************************************************)
EXTENDS Measurement, Growth_proofs

-----------------------------------------------------------------------------
(***************************************************************************)
(* A measurement changes nothing of Growth.                                *)
(***************************************************************************)
LEMMA MeasurementStutters ==
  [MNext]_<<vars, measurement>> => [Next]_vars
BY DEF MNext, MeasureSize, MeasureHeader, MeasureTable, MeasureCompare, MeasurePanic, GrowthStep

\* A process that measures is one that a process without measurements could
\* be: a report writes nothing that growth reads (runtime/mod.rs).
THEOREM MeasurementIsPassive == MSpec => Spec
<1>1. MInit => Init
  BY DEF MInit
<1>2. [MNext]_<<vars, measurement>> => [Next]_vars
  BY MeasurementStutters
<1>3. QED
  BY <1>1, <1>2, PTL DEF MSpec, Spec

THEOREM GrowthInvariant == MSpec => []IInv
BY MeasurementIsPassive, InductiveInvariant, PTL

-----------------------------------------------------------------------------
(***************************************************************************)
(* What a step of Growth may do under a measurement.                       *)
(***************************************************************************)
Grown ==
  /\ header'.perBucket = header.perBucket
  /\ physical <= physical'
  /\ \A b \in Bucket : table[b] # Free => table'[b] = table[b]

\* Nobody builds a runtime beside a live one.
LEMMA NoConstruction ==
  ASSUME IInv, runtime = "live"
  PROVE  /\ ~ InitHeader /\ ~ InitTable
         /\ \A config \in Config : ~ ConstructFresh(config) /\ ~ ConstructExisting(config)
BY DEF IInv, FormatInv, InitHeader, InitTable, ConstructFresh, ConstructExisting, MayConstruct

\* While a runtime lives, its backing does not shrink, and no bucket is taken
\* from its owner.
LEMMA BackingGrows ==
  ASSUME IInv, Reserving, [Next]_vars, runtime = "live"
  PROVE  Grown
<1>1. physical \in Nat
  BY GrowthAssumption DEF IInv, TypeOK, Pages
<1>2. CASE UNCHANGED <<physical, header, table>>
  BY <1>1, <1>2 DEF Grown
<1>3. CASE ReserveBacking \/ CaughtPanic
  <2>1. UNCHANGED <<header, table>>
    BY <1>3 DEF ReserveBacking, CaughtPanic, durable
  <2>2. RequiredPages(call.total, size) \in Nat
    BY CapacityFits, GrowthAssumption DEF IInv, TypeOK, Pages
  <2>3. RequiredPages(call.total, size) > physical
    BY <1>3 DEF Reserving, ReserveBacking, CaughtPanic
  <2>4. physical <= physical'
    BY <1>1, <1>3, <2>2, <2>3 DEF ReserveBacking, CaughtPanic, durable
  <2>5. QED
    BY <2>1, <2>4 DEF Grown
<1>4. CASE AssignBucket
  <2>1. UNCHANGED <<physical, header>>
    BY <1>4 DEF AssignBucket
  <2>2. /\ table[manager.allocated] = Free
        /\ table' = [table EXCEPT ![manager.allocated] = call.id]
    BY <1>4, NextBucket
  <2>3. table \in [Bucket -> Id \cup {Free}]
    BY DEF IInv, TypeOK
  <2>4. QED
    BY <1>1, <2>1, <2>2, <2>3 DEF Grown
<1>5. CASE SaveHeader
  <2>1. header \in [allocated : 0 .. Capacity, perBucket : BucketSizes, pages : [Id -> Pages]]
    BY DEF IInv, TypeOK
  <2>2. QED
    BY <1>1, <1>5, <2>1 DEF Grown, SaveHeader
<1>6. UNCHANGED <<physical, header, table>>
        \/ ReserveBacking \/ CaughtPanic \/ AssignBucket \/ SaveHeader
  BY NoConstruction DEF Next, Progress, vars, durable, volatile, ManagerExtend, FinishGrow,
     OpenMemory, DropHandle, ForgetHandle, DropRuntime, Grow, ReentrantGrow, ProcessEnd
<1>7. QED
  BY <1>2, <1>3, <1>4, <1>5, <1>6

\* Backing is asked for only where there is too little of it.
LEMMA ReservingKeeps ==
  ASSUME IInv, Reserving, [Next]_vars
  PROVE  Reserving'
<1>1. CASE \E id \in Id, pages \in Requests : Grow(id, pages)
  BY <1>1 DEF Reserving, Grow, durable, volatile, Return
<1>2. CASE pc' = "reserve" /\ ~ (\E id \in Id, pages \in Requests : Grow(id, pages))
  <2>1. UNCHANGED <<pc, call, size, physical>>
    BY <1>2 DEF Next, Progress, vars, durable, volatile, ManagerExtend, FinishGrow,
       OpenMemory, DropHandle, ForgetHandle, DropRuntime, ReentrantGrow, ProcessEnd,
       InitHeader, InitTable, ConstructFresh, ConstructExisting, ReserveBacking,
       CaughtPanic, AssignBucket, SaveHeader, Return
  <2>2. QED
    BY <2>1 DEF Reserving
<1>3. CASE pc' # "reserve"
  BY <1>3 DEF Reserving
<1>4. QED
  BY <1>1, <1>2, <1>3

-----------------------------------------------------------------------------
(***************************************************************************)
(* The invariant, step by step.                                            *)
(***************************************************************************)
LEMMA NoMeasureValues == NoMeasure \in MeasureType /\ NoMeasure.step = "none"
BY EmptyValues DEF NoMeasure, MeasureType

\* Without a measurement only Growth is left to say anything of.
LEMMA NoMeasureKeeps ==
  ASSUME Reserving', measure' = NoMeasure
  PROVE  MInv'
BY NoMeasureValues DEF MInv, KeptInv, HeaderReadInv, TableReadInv, QuietInv, Measuring

LEMMA InitMInv == MInit => MInv
<1> SUFFICES ASSUME MInit PROVE MInv
  OBVIOUS
<1>1. measure = NoMeasure /\ Reserving
  BY DEF MInit, Init, Reserving
<1>2. QED
  BY <1>1, NoMeasureValues
     DEF MInv, KeptInv, HeaderReadInv, TableReadInv, QuietInv, Measuring

LEMMA ReservingStays ==
  ASSUME Reserving, UNCHANGED vars
  PROVE  Reserving'
BY DEF Reserving, vars, durable, volatile

LEMMA MeasureSizeKeeps ==
  ASSUME IInv, MInv, MeasureSize
  PROVE  MInv'
<1> DEFINE read == [NoMeasure EXCEPT !.step = "header", !.under = pc, !.physical = physical]
<1>1. measure' = read /\ UNCHANGED vars /\ runtime = "live"
  BY DEF MeasureSize
<1>2. /\ read \in MeasureType /\ read.step = "header" /\ read.physical = physical
  BY EmptyValues DEF IInv, TypeOK, NoMeasure, MeasureType
<1>3. Reserving'
  BY <1>1, ReservingStays DEF MInv
<1>4. physical \in Nat /\ runtime' = runtime /\ physical' = physical
  BY <1>1, GrowthAssumption DEF IInv, TypeOK, Pages, vars, durable, volatile
<1> HIDE DEF read
<1>5. QED
  BY <1>1, <1>2, <1>3, <1>4
     DEF MInv, KeptInv, HeaderReadInv, TableReadInv, QuietInv, Measuring

LEMMA MeasureHeaderKeeps ==
  ASSUME IInv, MInv, MeasureHeader
  PROVE  MInv'
<1> DEFINE read == [measure EXCEPT !.header = header, !.step = "table"]
<1>1. UNCHANGED <<vars, disturbed>>
  BY DEF MeasureHeader
<1>2. Reserving'
  BY <1>1, ReservingStays DEF MInv
<1>3. CASE measure' = NoMeasure
  BY <1>2, <1>3, NoMeasureKeeps
<1>4. CASE measure' # NoMeasure
  <2>1. /\ measure' = read
        /\ measure.physical >= RequiredPages(header.allocated, header.perBucket)
        /\ measure.step = "header"
    BY <1>4 DEF MeasureHeader, Answer, Resumes, MInv, MeasureType
  <2>2. /\ read \in MeasureType /\ read.step = "table" /\ read.header = header
        /\ read.physical = measure.physical
    BY DEF IInv, TypeOK, MInv, MeasureType
  <2>3. UNCHANGED <<runtime, physical, header, table, disturbed>>
    BY <1>1 DEF vars, durable, volatile
  <2> HIDE DEF read
  <2>4. KeptInv' /\ HeaderReadInv' /\ TableReadInv' /\ QuietInv'
    BY <2>1, <2>2, <2>3
       DEF MInv, KeptInv, HeaderReadInv, TableReadInv, QuietInv, Measuring
  <2>5. QED
    BY <1>2, <2>1, <2>2, <2>4 DEF MInv
<1>5. QED
  BY <1>3, <1>4

LEMMA MeasureTableKeeps ==
  ASSUME IInv, MInv, MeasureTable
  PROVE  MInv'
<1> DEFINE read == [measure EXCEPT !.table = table, !.step = "compare"]
<1>1. UNCHANGED <<vars, disturbed>>
  BY DEF MeasureTable
<1>2. Reserving'
  BY <1>1, ReservingStays DEF MInv
<1>3. CASE measure' = NoMeasure
  BY <1>2, <1>3, NoMeasureKeeps
<1>4. CASE measure' # NoMeasure
  <2>1. /\ measure \in MeasureType /\ measure.step = "table"
    BY DEF MInv, MeasureTable, Resumes
  <2>2. /\ read \in MeasureType /\ read.step = "compare" /\ read.table = table
        /\ read.header = measure.header /\ read.physical = measure.physical
    BY <2>1 DEF IInv, TypeOK, MeasureType
  <2>3. /\ measure' = read
        /\ \A b \in Bucket : (b < measure.header.allocated) <=> (table[b] # Free)
        /\ \A id \in Id : BucketsFor(measure.header.pages[id], measure.header.perBucket)
                            = Cardinality({ b \in Bucket : table[b] = id })
    BY <1>4, <2>1 DEF MeasureTable, Answer, BucketsOf, MeasureType
  <2>4. UNCHANGED <<runtime, physical, header, table, disturbed>>
    BY <1>1 DEF vars, durable, volatile
  <2> HIDE DEF read
  <2>5. TableReadInv'
    BY <2>2, <2>3, <2>4 DEF TableReadInv, BucketsOf
  <2>6. KeptInv' /\ HeaderReadInv' /\ QuietInv'
    BY <2>1, <2>2, <2>3, <2>4 DEF MInv, KeptInv, HeaderReadInv, QuietInv, Measuring
  <2>7. QED
    BY <1>2, <2>2, <2>3, <2>5, <2>6 DEF MInv
<1>5. QED
  BY <1>3, <1>4

\* Growths around and inside a measurement.
LEMMA GrowthStepKeeps ==
  ASSUME IInv, MInv, GrowthStep
  PROVE  MInv'
<1>1. [Next]_vars
  BY DEF GrowthStep
<1>2. Reserving'
  BY <1>1, ReservingKeeps DEF MInv
<1>3. CASE measure' = NoMeasure
  BY <1>2, <1>3, NoMeasureKeeps
<1>4. CASE measure' # NoMeasure /\ ~ Measuring
  <2>1. measure' = measure
    BY <1>4 DEF GrowthStep
  <2>2. QED
    BY <1>2, <1>4, <2>1
       DEF MInv, KeptInv, HeaderReadInv, TableReadInv, QuietInv, Measuring
<1>5. CASE measure' # NoMeasure /\ Measuring
  <2>1. measure' = measure /\ runtime' = runtime
    BY <1>5 DEF GrowthStep
  <2>2. runtime = "live" /\ Grown
    BY <1>1, <1>5, BackingGrows DEF MInv, KeptInv
  <2>3. /\ physical \in Nat /\ physical' \in Nat /\ measure.physical \in Nat
        /\ measure \in MeasureType
    <3>1. IInv'
      BY <1>1, NextKeeps
    <3>2. QED
      BY <3>1, GrowthAssumption DEF IInv, TypeOK, MInv, MeasureType, Pages
  <2>4. KeptInv'
    BY <2>1, <2>2, <2>3 DEF MInv, KeptInv, Measuring, Grown
  <2>5. HeaderReadInv'
    BY <2>1, <2>2 DEF MInv, HeaderReadInv, Grown
  <2>6. TableReadInv'
    BY <2>1, <2>2 DEF MInv, TableReadInv, Grown, BucketsOf
  <2>7. QuietInv'
    BY <1>5, <2>1 DEF GrowthStep, MInv, QuietInv, Measuring, durable
  <2>8. QED
    BY <1>2, <2>1, <2>3, <2>4, <2>5, <2>6, <2>7 DEF MInv
<1>6. QED
  BY <1>3, <1>4, <1>5

LEMMA MNextKeeps == IInv /\ MInv /\ [MNext]_<<vars, measurement>> => MInv'
<1> SUFFICES ASSUME IInv, MInv, [MNext]_<<vars, measurement>> PROVE MInv'
  OBVIOUS
<1>1. CASE UNCHANGED <<vars, measurement>>
  <2>1. UNCHANGED <<runtime, physical, header, table, pc, call, size, measure, disturbed>>
    BY <1>1 DEF vars, durable, volatile, measurement
  <2>2. QED
    BY <2>1 DEF MInv, Reserving, KeptInv, HeaderReadInv, TableReadInv, QuietInv, Measuring,
                BucketsOf
<1>2. CASE MeasureCompare \/ MeasurePanic
  <2>1. measure' = NoMeasure /\ UNCHANGED vars
    BY <1>2 DEF MeasureCompare, MeasurePanic, Answer
  <2>2. QED
    BY <2>1, ReservingStays, NoMeasureKeeps DEF MInv
<1>3. QED
  BY <1>1, <1>2, MeasureSizeKeeps, MeasureHeaderKeeps, MeasureTableKeeps, GrowthStepKeeps
     DEF MNext

\* A measurement keeps its runtime and its runtime's backing: what it has read
\* stays true of the buckets it has seen assigned (runtime/allocations.rs).
THEOREM MeasurementInvariant == MSpec => [](IInv /\ MInv)
<1>1. MInit => IInv /\ MInv
  BY InitIInv, InitMInv DEF MInit
<1>2. (IInv /\ MInv) /\ [MNext]_<<vars, measurement>> => (IInv /\ MInv)'
  BY MeasurementStutters, NextKeeps, MNextKeeps
<1>3. QED
  BY <1>1, <1>2, PTL DEF MSpec

-----------------------------------------------------------------------------
(***************************************************************************)
(* A measurement alone.                                                    *)
(***************************************************************************)
\* Between calls the persisted metadata are those of the live runtime.
LEMMA IdleLayout ==
  ASSUME IInv, runtime = "live", pc = "idle"
  PROVE  /\ header.allocated <= Capacity
         /\ physical >= RequiredPages(header.allocated, header.perBucket)
         /\ \A b \in Bucket : (b < header.allocated) <=> (table[b] # Free)
         /\ \A id \in Id :
              BucketsFor(header.pages[id], header.perBucket)
                = Cardinality({ b \in Bucket : table[b] = id })
         /\ header.perBucket = size
         /\ header.allocated = allocated
         /\ header.pages = manager.pages
<1>1. /\ size = header.perBucket
      /\ header.allocated = manager.allocated /\ allocated = manager.allocated
      /\ header.pages = manager.pages
      /\ \A b \in Bucket : (b < manager.allocated) <=> (table[b] # Free)
      /\ EndOf(manager.allocated, size) <= physical
  BY DEF IInv, ManagerInv, CallInv
<1>2. header.allocated <= Capacity
  BY GrowthAssumption DEF IInv, TypeOK
<1>3. physical >= RequiredPages(header.allocated, header.perBucket)
  <2>1. RequiredPages(header.allocated, header.perBucket) = EndOf(manager.allocated, size)
    BY <1>1 DEF RequiredPages, EndOf
  <2>2. EndOf(manager.allocated, size) \in Nat /\ physical \in Nat
    BY <1>1, <2>1, CapacityFits, GrowthAssumption DEF IInv, TypeOK, Pages
  <2>3. QED
    BY <1>1, <2>1, <2>2
<1>4. \A id \in Id :
        BucketsFor(header.pages[id], header.perBucket)
          = Cardinality({ b \in Bucket : table[b] = id })
  BY <1>1 DEF IInv, ExtentInv, Owned
<1>5. QED
  BY <1>1, <1>2, <1>3, <1>4

\* A measurement that nothing disturbs goes through each of its checks.
LEMMA QuietKeeps ==
  ASSUME IInv, MInv, QuietMeasurementSucceeds, [MNext]_<<vars, measurement>>
  PROVE  QuietMeasurementSucceeds'
<1> DEFINE Quiet == measure.under = "idle" /\ ~ disturbed
<1>1. CASE UNCHANGED <<vars, measurement>>
  BY <1>1 DEF QuietMeasurementSucceeds, measurement
<1>2. CASE report' = NoReport
  BY <1>2 DEF QuietMeasurementSucceeds, NoReport, NoMeasure
<1>3. CASE MeasureHeader /\ report' # NoReport
  <2> DEFINE read == [measure EXCEPT !.header = header]
  <2>1. /\ measure \in MeasureType /\ measure.step = "header" /\ pc = measure.under
    BY <1>3 DEF MInv, MeasureHeader, Resumes
  <2>2. /\ report' = [read EXCEPT !.step = "layout"]
        /\ ~ (/\ header.allocated <= Capacity
              /\ measure.physical >= RequiredPages(header.allocated, header.perBucket))
        /\ disturbed' = disturbed
    BY <1>3, <2>1 DEF MeasureHeader, Answer, MeasureType
  <2>3. report'.step = "layout" /\ report'.under = measure.under
    BY <2>1, <2>2 DEF MeasureType
  <2>4. ~ Quiet
    BY <2>1, <2>2, IdleLayout DEF MInv, KeptInv, QuietInv, Measuring
  <2>5. QED
    BY <2>2, <2>3, <2>4 DEF QuietMeasurementSucceeds
<1>4. CASE MeasureTable /\ report' # NoReport
  <2> DEFINE read == [measure EXCEPT !.table = table]
  <2>1. /\ measure \in MeasureType /\ measure.step = "table" /\ pc = measure.under
    BY <1>4 DEF MInv, MeasureTable, Resumes
  <2>2. /\ report' = [read EXCEPT !.step = "layout"]
        /\ ~ (/\ \A b \in Bucket : (b < measure.header.allocated) <=> (table[b] # Free)
              /\ \A id \in Id :
                   BucketsFor(measure.header.pages[id], measure.header.perBucket)
                     = Cardinality({ b \in Bucket : table[b] = id }))
        /\ disturbed' = disturbed
    BY <1>4, <2>1 DEF MeasureTable, Answer, BucketsOf, MeasureType
  <2>3. report'.step = "layout" /\ report'.under = measure.under
    BY <2>1, <2>2 DEF MeasureType
  <2>4. ~ Quiet
    <3> SUFFICES ASSUME Quiet PROVE FALSE
      OBVIOUS
    <3>1. measure.header = header /\ runtime = "live" /\ pc = "idle"
      BY <2>1 DEF MInv, KeptInv, QuietInv, Measuring
    <3>2. QED
      BY <2>2, <3>1, IdleLayout
  <2>5. QED
    BY <2>2, <2>3, <2>4 DEF QuietMeasurementSucceeds
<1>5. CASE MeasureCompare
  <2>1. /\ measure \in MeasureType /\ measure.step = "compare" /\ pc = measure.under
        /\ disturbed' = disturbed
    BY <1>5 DEF MInv, MeasureCompare, Resumes
  <2>2. \/ report' = [measure EXCEPT !.step = "reentrant"] /\ pc # "idle"
        \/ report' = [measure EXCEPT !.step = "ok"]
        \/ report' = [measure EXCEPT !.step = "mismatch"] /\ ~ LiveMatches(measure)
    BY <1>5 DEF MeasureCompare, Answer
  <2>3. /\ report'.under = measure.under
        /\ report'.step \in {"reentrant", "ok", "mismatch"}
        /\ report'.step = "reentrant" => pc # "idle"
        /\ report'.step = "mismatch" => ~ LiveMatches(measure)
    BY <2>1, <2>2 DEF MeasureType
  <2>4. Quiet => LiveMatches(measure)
    <3> SUFFICES ASSUME Quiet PROVE LiveMatches(measure)
      OBVIOUS
    <3>1. measure.header = header /\ runtime = "live" /\ pc = "idle"
      BY <2>1 DEF MInv, KeptInv, QuietInv, Measuring
    <3>2. QED
      BY <3>1, IdleLayout DEF LiveMatches
  <2>5. QED
    BY <2>1, <2>3, <2>4 DEF QuietMeasurementSucceeds
<1>6. QED
  BY <1>1, <1>2, <1>3, <1>4, <1>5
     DEF MNext, MeasureSize, MeasurePanic, GrowthStep

\* A measurement fails only for a growth around it or within it: alone, it
\* finds the backing to be the live runtime's (runtime/allocations.rs).
THEOREM QuietSuccess == MSpec => []QuietMeasurementSucceeds
<1>1. MInit => QuietMeasurementSucceeds
  BY DEF MInit, QuietMeasurementSucceeds, NoReport, NoMeasure
<1>2. (IInv /\ MInv) /\ QuietMeasurementSucceeds /\ [MNext]_<<vars, measurement>>
        => QuietMeasurementSucceeds'
  BY QuietKeeps
<1>3. QED
  BY <1>1, <1>2, MeasurementInvariant, PTL DEF MSpec

-----------------------------------------------------------------------------
(***************************************************************************)
(* Sums over finite sets.                                                  *)
(***************************************************************************)
\* A sum takes one element after the other, in an order of its own.
IsSum(S, w, sum) ==
  sum = [s \in SUBSET S |->
           IF s = {} THEN 0
           ELSE w[CHOOSE x \in s : TRUE] + sum[s \ {CHOOSE x \in s : TRUE}]]

\* To a total, every element adds its weight.
IsTotal(S, w, total) ==
  /\ total[{}] = 0
  /\ \A s \in SUBSET S : \A x \in s : total[s] = w[x] + total[s \ {x}]

\* There is a sum wherever there is a total, whatever the order.
LEMMA SumExists ==
  ASSUME NEW S, NEW w, NEW total, DOMAIN total = SUBSET S,
         total = [s \in SUBSET S |-> total[s]], IsTotal(S, w, total)
  PROVE  IsSum(S, w, total)
<1>1. ASSUME NEW s \in SUBSET S, s # {}
      PROVE  total[s] = w[CHOOSE x \in s : TRUE] + total[s \ {CHOOSE x \in s : TRUE}]
  <2>1. (CHOOSE x \in s : TRUE) \in s
    BY <1>1
  <2>2. QED
    BY <2>1 DEF IsTotal
<1>2. total[{}] = 0
  BY DEF IsTotal
<1>3. QED
  BY <1>1, <1>2 DEF IsSum

\* The order does not matter: the sum is the total.
LEMMA SumsAgree ==
  ASSUME NEW S, IsFiniteSet(S), NEW w, NEW sum, NEW total,
         IsSum(S, w, sum), IsTotal(S, w, total)
  PROVE  sum[S] = total[S]
<1> DEFINE Wrong == { s \in SUBSET S : sum[s] # total[s] }
           Sizes == { Cardinality(s) : s \in Wrong }
<1>1. SUFFICES ASSUME Wrong # {} PROVE FALSE
  OBVIOUS
<1>2. \A s \in SUBSET S : IsFiniteSet(s) /\ Cardinality(s) \in Nat
  BY FS_Subset, FS_CardinalityType
<1>3. Sizes \in SUBSET Nat /\ Sizes # {}
  BY <1>1, <1>2
<1>4. PICK m \in Sizes : \A n \in Sizes : ~ (n < m)
  BY <1>3, LeastElement
<1>5. PICK s \in Wrong : Cardinality(s) = m
  OBVIOUS
<1>6. s # {} /\ s \in SUBSET S
  BY <1>5 DEF IsSum, IsTotal
<1> DEFINE x == CHOOSE x \in s : TRUE
           rest == s \ {x}
<1>7. x \in s
  BY <1>6
<1>8. sum[s] = w[x] + sum[rest]
  BY <1>6 DEF IsSum
<1> HIDE DEF x
<1>9. total[s] = w[x] + total[rest]
  BY <1>6, <1>7 DEF IsTotal
<1>10. rest \in SUBSET S /\ Cardinality(rest) < Cardinality(s)
  <2>1. IsFiniteSet(s) /\ Cardinality(s) \in Nat
    BY <1>2, <1>6
  <2>2. Cardinality(rest) = Cardinality(s) - 1
    BY <1>7, <2>1, FS_RemoveElement
  <2>3. rest \in SUBSET S
    BY <1>6
  <2> HIDE DEF rest
  <2>4. QED
    BY <2>1, <2>2, <2>3
<1> HIDE DEF rest
<1>11. sum[rest] = total[rest]
  BY <1>4, <1>5, <1>10
<1>12. QED
  BY <1>5, <1>8, <1>9, <1>11

LEMMA SumIsTotal ==
  ASSUME NEW S, IsFiniteSet(S), NEW w, NEW total, DOMAIN total = SUBSET S,
         total = [s \in SUBSET S |-> total[s]], IsTotal(S, w, total)
  PROVE  Sums!SumFunctionOnSet(w, S) = total[S]
<1> DEFINE sum == CHOOSE f : IsSum(S, w, f)
<1>1. Sums!SumFunctionOnSet(w, S) = sum[S]
  BY DEF IsSum, Sums!SumFunctionOnSet, Sums!FoldFunctionOnSet, Sums!MapThenFoldSet
<1>2. IsSum(S, w, sum)
  BY SumExists
<1> HIDE DEF sum
<1>3. QED
  BY <1>1, <1>2, SumsAgree

LEMMA DisjointUnion ==
  ASSUME NEW S, NEW T, IsFiniteSet(S), IsFiniteSet(T), S \cap T = {}
  PROVE  /\ IsFiniteSet(S \cup T)
         /\ Cardinality(S \cup T) = Cardinality(S) + Cardinality(T)
<1>1. /\ IsFiniteSet(S \cup T)
      /\ Cardinality(S \cup T) = Cardinality(S) + Cardinality(T) - Cardinality(S \cap T)
  BY FS_Union
<1>2. Cardinality(S \cap T) = 0 /\ Cardinality(S) \in Nat /\ Cardinality(T) \in Nat
  BY FS_EmptySet, FS_CardinalityType
<1>3. QED
  BY <1>1, <1>2

-----------------------------------------------------------------------------
(***************************************************************************)
(* The groups of a report.                                                 *)
(***************************************************************************)
Assigned(read, ids) == { b \in Bucket : read.table[b] \in ids }

\* The pages of these memories, one by one.
PagesOf(pages, ids) == { page \in ids \X (1 .. MaxWord) : page[2] <= pages[page[1]] }

LEMMA AssignedSplits ==
  ASSUME NEW read, NEW S, NEW T, S \cap T = {}
  PROVE  /\ Cardinality(Assigned(read, S \cup T))
              = Cardinality(Assigned(read, S)) + Cardinality(Assigned(read, T))
         /\ Cardinality(Assigned(read, S)) \in Nat
<1>1. /\ Assigned(read, S \cup T) = Assigned(read, S) \cup Assigned(read, T)
      /\ Assigned(read, S) \cap Assigned(read, T) = {}
      /\ Assigned(read, S) \in SUBSET Bucket /\ Assigned(read, T) \in SUBSET Bucket
  BY DEF Assigned
<1>2. /\ IsFiniteSet(Assigned(read, S)) /\ IsFiniteSet(Assigned(read, T))
      /\ Cardinality(Assigned(read, S)) \in Nat
  BY <1>1, BucketsAreFinite
<1>3. QED
  BY <1>1, <1>2, DisjointUnion

LEMMA PagesSplit ==
  ASSUME NEW pages, NEW S, NEW T, IsFiniteSet(S), IsFiniteSet(T), S \cap T = {}
  PROVE  /\ Cardinality(PagesOf(pages, S \cup T))
              = Cardinality(PagesOf(pages, S)) + Cardinality(PagesOf(pages, T))
         /\ Cardinality(PagesOf(pages, S)) \in Nat
<1>1. /\ PagesOf(pages, S \cup T) = PagesOf(pages, S) \cup PagesOf(pages, T)
      /\ PagesOf(pages, S) \cap PagesOf(pages, T) = {}
  BY DEF PagesOf
<1>2. \A ids : IsFiniteSet(ids) => IsFiniteSet(PagesOf(pages, ids))
  <2> TAKE ids
  <2> HAVE IsFiniteSet(ids)
  <2>1. IsFiniteSet(1 .. MaxWord)
    BY GrowthAssumption, FS_Interval
  <2>2. IsFiniteSet(ids \X (1 .. MaxWord))
    BY <2>1, FS_Product
  <2>3. PagesOf(pages, ids) \in SUBSET (ids \X (1 .. MaxWord))
    BY DEF PagesOf
  <2>4. QED
    BY <2>2, <2>3, FS_Subset
<1>3. QED
  BY <1>1, <1>2, DisjointUnion, FS_CardinalityType

LEMMA PagesOfOne ==
  ASSUME NEW pages \in [Id -> Pages], NEW id \in Id
  PROVE  Cardinality(PagesOf(pages, {id})) = pages[id]
<1> DEFINE k == pages[id]
<1>1. k \in Nat /\ k <= MaxWord
  BY GrowthAssumption DEF Pages
<1>2. PagesOf(pages, {id}) = {id} \X (1 .. k)
  BY <1>1, GrowthAssumption DEF PagesOf
<1> HIDE DEF k
<1>3. IsFiniteSet(1 .. k) /\ Cardinality(1 .. k) = k
  BY <1>1, FS_Interval
<1>4. IsFiniteSet({id}) /\ Cardinality({id}) = 1
  BY FS_Singleton
<1>5. Cardinality({id} \X (1 .. k)) = k
  <2>1. Cardinality({id} \X (1 .. k)) = Cardinality({id}) * Cardinality(1 .. k)
    BY <1>3, <1>4, FS_Product
  <2>2. QED
    BY <1>1, <1>3, <1>4, <2>1
<1>6. Cardinality(PagesOf(pages, {id})) = k
  BY <1>2, <1>5
<1>7. QED
  BY <1>6 DEF k

\* The buckets and pages of a group are counted once each.
LEMMA GroupBucketsCounts ==
  ASSUME NEW read, NEW ids \in SUBSET Id
  PROVE  GroupBuckets(read, ids) = Cardinality(Assigned(read, ids))
<1> DEFINE total == [s \in SUBSET ids |-> Cardinality(Assigned(read, s))]
           w == [id \in Id |-> BucketsOf(read, id)]
<1>1. IsFiniteSet(ids)
  BY MeasurementAssumption, FS_Subset
<1>2. total[{}] = 0
  <2>1. Assigned(read, {}) = {}
    BY DEF Assigned
  <2>2. QED
    BY <2>1, FS_EmptySet
<1>3. \A s \in SUBSET ids : \A x \in s : total[s] = w[x] + total[s \ {x}]
  <2> TAKE s \in SUBSET ids
  <2> TAKE x \in s
  <2>1. s = {x} \cup (s \ {x}) /\ {x} \cap (s \ {x}) = {}
    OBVIOUS
  <2>2. Cardinality(Assigned(read, s))
          = Cardinality(Assigned(read, {x})) + Cardinality(Assigned(read, s \ {x}))
    BY <2>1, AssignedSplits
  <2>3. w[x] = Cardinality(Assigned(read, {x}))
    BY DEF BucketsOf, Assigned
  <2>4. QED
    BY <2>2, <2>3
<1>4. DOMAIN total = SUBSET ids /\ total = [s \in SUBSET ids |-> total[s]]
  OBVIOUS
<1>5. Sums!SumFunctionOnSet(w, ids) = total[ids]
  <2> HIDE DEF total, w
  <2>1. IsTotal(ids, w, total)
    BY <1>2, <1>3 DEF IsTotal
  <2>2. QED
    BY <1>1, <1>4, <2>1, SumIsTotal
<1>6. QED
  BY <1>5 DEF GroupBuckets

LEMMA GroupPagesCounts ==
  ASSUME NEW read, read.header.pages \in [Id -> Pages], NEW ids \in SUBSET Id
  PROVE  GroupPages(read, ids) = Cardinality(PagesOf(read.header.pages, ids))
<1> DEFINE w == read.header.pages
           total == [s \in SUBSET ids |-> Cardinality(PagesOf(w, s))]
<1>1. \A s \in SUBSET ids : IsFiniteSet(s)
  BY MeasurementAssumption, FS_Subset
<1>2. total[{}] = 0
  <2>1. PagesOf(w, {}) = {}
    BY DEF PagesOf
  <2>2. QED
    BY <2>1, FS_EmptySet
<1>3. \A s \in SUBSET ids : \A x \in s : total[s] = w[x] + total[s \ {x}]
  <2> TAKE s \in SUBSET ids
  <2> TAKE x \in s
  <2>1. /\ s = {x} \cup (s \ {x}) /\ {x} \cap (s \ {x}) = {}
        /\ IsFiniteSet({x}) /\ IsFiniteSet(s \ {x})
    BY <1>1
  <2>2. Cardinality(PagesOf(w, s))
          = Cardinality(PagesOf(w, {x})) + Cardinality(PagesOf(w, s \ {x}))
    BY <2>1, PagesSplit
  <2>3. w[x] = Cardinality(PagesOf(w, {x}))
    BY PagesOfOne
  <2>4. QED
    BY <2>2, <2>3
<1>4. DOMAIN total = SUBSET ids /\ total = [s \in SUBSET ids |-> total[s]]
  OBVIOUS
<1>5. Sums!SumFunctionOnSet(w, ids) = total[ids]
  <2> HIDE DEF total, w
  <2>1. IsTotal(ids, w, total)
    BY <1>2, <1>3 DEF IsTotal
  <2>2. QED
    BY <1>1, <1>4, <2>1, SumIsTotal
<1>6. QED
  BY <1>5 DEF GroupPages

\* Slack adds up over memories that are apart.
LEMMA SlackSplits ==
  ASSUME NEW read, read.header.pages \in [Id -> Pages], read.header.perBucket \in Nat,
         NEW S \in SUBSET Id, NEW T \in SUBSET Id, S \cap T = {}
  PROVE  /\ GroupBuckets(read, S \cup T) = GroupBuckets(read, S) + GroupBuckets(read, T)
         /\ Slack(read, S \cup T) = Slack(read, S) + Slack(read, T)
<1> DEFINE U == S \cup T
           k == read.header.perBucket
<1>1. IsFiniteSet(S) /\ IsFiniteSet(T) /\ U \in SUBSET Id
  BY MeasurementAssumption, FS_Subset
<1>2. /\ GroupBuckets(read, U) = GroupBuckets(read, S) + GroupBuckets(read, T)
      /\ GroupBuckets(read, S) \in Nat /\ GroupBuckets(read, T) \in Nat
  BY <1>1, AssignedSplits, GroupBucketsCounts
<1>3. /\ GroupPages(read, U) = GroupPages(read, S) + GroupPages(read, T)
      /\ GroupPages(read, S) \in Nat /\ GroupPages(read, T) \in Nat
  <2> DEFINE w == read.header.pages
  <2>1. /\ GroupPages(read, S) = Cardinality(PagesOf(w, S))
        /\ GroupPages(read, T) = Cardinality(PagesOf(w, T))
        /\ GroupPages(read, U) = Cardinality(PagesOf(w, U))
    BY <1>1, GroupPagesCounts
  <2>2. /\ Cardinality(PagesOf(w, U)) = Cardinality(PagesOf(w, S)) + Cardinality(PagesOf(w, T))
        /\ Cardinality(PagesOf(w, S)) \in Nat
        /\ Cardinality(PagesOf(w, T)) \in Nat
    <3>1. T \cap S = {}
      OBVIOUS
    <3>2. QED
      BY <1>1, <3>1, PagesSplit
  <2>3. QED
    BY <2>1, <2>2
<1> DEFINE a == GroupBuckets(read, S)
           b == GroupBuckets(read, T)
<1>4. (a + b) * k = a * k + b * k /\ a * k \in Int /\ b * k \in Int
  <2>1. a \in Nat /\ b \in Nat /\ k \in Nat
    BY <1>2
  <2> HIDE DEF a, b, k
  <2>2. QED
    BY <2>1
<1>5. QED
  BY <1>2, <1>3, <1>4 DEF Slack

LEMMA NothingAddsUp ==
  ASSUME NEW read, read.header.pages \in [Id -> Pages], read.header.perBucket \in Nat
  PROVE  GroupBuckets(read, {}) = 0 /\ Slack(read, {}) = 0
<1>1. Assigned(read, {}) = {} /\ PagesOf(read.header.pages, {}) = {}
  BY DEF Assigned, PagesOf
<1>2. GroupBuckets(read, {}) = 0
  BY <1>1, GroupBucketsCounts, FS_EmptySet
<1>3. GroupPages(read, {}) = 0
  BY <1>1, GroupPagesCounts, FS_EmptySet
<1>4. QED
  BY <1>2, <1>3 DEF Slack

\* Groups that are apart add up to what they are together.
LEMMA GroupsAddUp ==
  ASSUME NEW read, read.header.pages \in [Id -> Pages], read.header.perBucket \in Nat,
         NEW groups \in SUBSET SUBSET Id, IsFiniteSet(groups),
         \A g, h \in groups : g # h => g \cap h = {}
  PROVE  /\ Sums!SumFunction([ids \in groups |-> GroupBuckets(read, ids)])
              = GroupBuckets(read, UNION groups)
         /\ Sums!SumFunction([ids \in groups |-> Slack(read, ids)])
              = Slack(read, UNION groups)
<1> DEFINE buckets == [ids \in groups |-> GroupBuckets(read, ids)]
           slacks == [ids \in groups |-> Slack(read, ids)]
           allBuckets == [s \in SUBSET groups |-> GroupBuckets(read, UNION s)]
           allSlack == [s \in SUBSET groups |-> Slack(read, UNION s)]
<1>1. allBuckets[{}] = 0 /\ allSlack[{}] = 0
  <2>1. UNION {} = {} /\ {} \in SUBSET groups
    OBVIOUS
  <2>2. allBuckets[{}] = GroupBuckets(read, {}) /\ allSlack[{}] = Slack(read, {})
    BY <2>1
  <2>3. QED
    BY <2>2, NothingAddsUp
<1>2. \A s \in SUBSET groups : \A g \in s :
        /\ allBuckets[s] = buckets[g] + allBuckets[s \ {g}]
        /\ allSlack[s] = slacks[g] + allSlack[s \ {g}]
  <2> TAKE s \in SUBSET groups
  <2> TAKE g \in s
  <2> DEFINE rest == UNION (s \ {g})
  <2>1. g \in SUBSET Id /\ rest \in SUBSET Id
    OBVIOUS
  <2>2. UNION s = g \cup rest
    OBVIOUS
  <2>3. g \cap rest = {}
    OBVIOUS
  <2>4. /\ GroupBuckets(read, g \cup rest) = GroupBuckets(read, g) + GroupBuckets(read, rest)
        /\ Slack(read, g \cup rest) = Slack(read, g) + Slack(read, rest)
    <3> HIDE DEF rest
    <3>1. QED
      BY <2>1, <2>3, SlackSplits
  <2>5. s \ {g} \in SUBSET groups /\ g \in groups
    OBVIOUS
  <2>6. /\ allBuckets[s] = GroupBuckets(read, UNION s)
        /\ allSlack[s] = Slack(read, UNION s)
        /\ allBuckets[s \ {g}] = GroupBuckets(read, rest)
        /\ allSlack[s \ {g}] = Slack(read, rest)
        /\ buckets[g] = GroupBuckets(read, g)
        /\ slacks[g] = Slack(read, g)
    BY <2>5
  <2> HIDE DEF rest, allBuckets, allSlack, buckets, slacks
  <2>7. QED
    BY <2>2, <2>4, <2>6
<1>3. /\ DOMAIN allBuckets = SUBSET groups
      /\ allBuckets = [s \in SUBSET groups |-> allBuckets[s]]
      /\ DOMAIN allSlack = SUBSET groups
      /\ allSlack = [s \in SUBSET groups |-> allSlack[s]]
      /\ DOMAIN buckets = groups /\ DOMAIN slacks = groups
      /\ allBuckets[groups] = GroupBuckets(read, UNION groups)
      /\ allSlack[groups] = Slack(read, UNION groups)
  OBVIOUS
<1>4. Sums!SumFunction(buckets) = allBuckets[groups]
  <2> HIDE DEF allBuckets, allSlack, buckets, slacks
  <2>1. IsTotal(groups, buckets, allBuckets)
    BY <1>1, <1>2 DEF IsTotal
  <2>2. Sums!SumFunctionOnSet(buckets, groups) = allBuckets[groups]
    BY <1>3, <2>1, SumIsTotal
  <2>3. QED
    BY <1>3, <2>2 DEF Sums!SumFunction, Sums!SumFunctionOnSet, Sums!FoldFunction
<1>5. Sums!SumFunction(slacks) = allSlack[groups]
  <2> HIDE DEF allBuckets, allSlack, buckets, slacks
  <2>1. IsTotal(groups, slacks, allSlack)
    BY <1>1, <1>2 DEF IsTotal
  <2>2. Sums!SumFunctionOnSet(slacks, groups) = allSlack[groups]
    BY <1>3, <2>1, SumIsTotal
  <2>3. QED
    BY <1>3, <2>2 DEF Sums!SumFunction, Sums!SumFunctionOnSet, Sums!FoldFunction
<1>6. QED
  BY <1>3, <1>4, <1>5

\* The three groups of a report are apart, and together all memories.
LEMMA ThreeGroups ==
  ASSUME NEW declared \in SUBSET Id
  PROVE  LET groups == { Group(declared, name) : name \in {"ledger", "current", "unknown"} }
         IN  /\ groups \in SUBSET SUBSET Id
             /\ IsFiniteSet(groups)
             /\ \A g, h \in groups : g # h => g \cap h = {}
             /\ UNION groups = Id
<1> DEFINE groups == { Group(declared, name) : name \in {"ledger", "current", "unknown"} }
           ledger == {LedgerId}
           current == declared \ {LedgerId}
           unknown == Id \ (declared \cup {LedgerId})
<1>1. groups = {ledger, current, unknown}
  BY DEF Group
<1>2. IsFiniteSet(groups)
  <2>1. groups = ({} \cup {ledger}) \cup {current} \cup {unknown}
    BY <1>1
  <2> HIDE DEF groups, ledger, current, unknown
  <2>2. IsFiniteSet({} \cup {ledger})
    BY FS_EmptySet, FS_AddElement
  <2>3. IsFiniteSet(({} \cup {ledger}) \cup {current})
    BY <2>2, FS_AddElement
  <2>4. QED
    BY <2>1, <2>3, FS_AddElement
<1>3. /\ ledger \in SUBSET Id /\ current \in SUBSET Id /\ unknown \in SUBSET Id
      /\ ledger \cup current \cup unknown = Id
      /\ ledger \cap current = {} /\ ledger \cap unknown = {} /\ current \cap unknown = {}
  BY MeasurementAssumption
<1> HIDE DEF groups, ledger, current, unknown
<1>4. UNION groups = Id
  BY <1>1, <1>3
<1>5. groups \in SUBSET SUBSET Id /\ \A g, h \in groups : g # h => g \cap h = {}
  BY <1>1, <1>3
<1>6. QED
  BY <1>2, <1>4, <1>5 DEF groups

-----------------------------------------------------------------------------
(***************************************************************************)
(* A report that is returned.                                              *)
(***************************************************************************)
\* What a measurement has in its hands when it compares, and finds no growth.
Compared ==
  /\ measure.step = "compare"
  /\ pc = "idle"
  /\ LiveMatches(measure)

LEMMA ComparedTable ==
  ASSUME IInv, MInv, Compared
  PROVE  /\ measure.header.pages = manager.pages
         /\ measure.table = table
         /\ \A id \in Id : { b \in Bucket : measure.table[b] = id } = manager.buckets[id]
<1>1. /\ measure.header.pages \in [Id -> Pages] /\ manager.pages \in [Id -> Pages]
      /\ measure.table \in [Bucket -> Id \cup {Free}] /\ table \in [Bucket -> Id \cup {Free}]
  BY DEF IInv, TypeOK, Manager, MInv, MeasureType
<1>2. measure.header.pages = manager.pages
  BY <1>1 DEF Compared, LiveMatches
<1>3. runtime = "live"
  BY DEF Compared, MInv, KeptInv, Measuring
<1>4. /\ measure.header.allocated = manager.allocated
      /\ \A b \in Bucket : (b < manager.allocated) <=> (table[b] # Free)
      /\ \A id \in Id : manager.buckets[id] = Owned(id)
  BY <1>3 DEF Compared, LiveMatches, IInv, CallInv, ManagerInv
<1>5. \A b \in Bucket : measure.table[b] = table[b]
  BY <1>4 DEF Compared, MInv, TableReadInv
<1>6. measure.table = table
  BY <1>1, <1>5
<1>7. QED
  BY <1>2, <1>4, <1>6 DEF Owned

\* The slack of a memory is less than a bucket.
LEMMA SlackOfOne ==
  ASSUME IInv, MInv, measure.step = "compare", NEW id \in Id
  PROVE  Slack(measure, {id}) \in 0 .. measure.header.perBucket - 1
<1> DEFINE k == measure.header.perBucket
           p == measure.header.pages[id]
           n == BucketsFor(p, k)
<1>1. /\ k \in Nat \ {0} /\ p \in Nat /\ measure.header.pages \in [Id -> Pages]
  <2>1. k \in BucketSizes /\ measure.header.pages \in [Id -> Pages]
    BY DEF MInv, MeasureType
  <2>2. p \in Pages
    BY <2>1
  <2>3. k \in Nat \ {0}
    BY <2>1, GrowthAssumption
  <2> HIDE DEF p
  <2>4. p \in Nat
    BY <2>2, GrowthAssumption DEF Pages
  <2>5. QED
    BY <2>1, <2>3, <2>4
<1>2. GroupBuckets(measure, {id}) = n
  <2>1. GroupBuckets(measure, {id}) = Cardinality(Assigned(measure, {id}))
    BY GroupBucketsCounts
  <2>2. Assigned(measure, {id}) = { b \in Bucket : measure.table[b] = id }
    BY DEF Assigned
  <2>3. n = BucketsOf(measure, id)
    BY DEF MInv, TableReadInv
  <2>4. QED
    BY <2>1, <2>2, <2>3 DEF BucketsOf
<1>3. GroupPages(measure, {id}) = p
  BY <1>1, GroupPagesCounts, PagesOfOne
<1>4. n \in Nat /\ p <= n * k /\ n * k < p + k
  BY <1>1, BucketsForCovers
<1>5. Slack(measure, {id}) = n * k - p
  BY <1>2, <1>3 DEF Slack
<1> HIDE DEF n, p, k
<1>6. n * k \in Nat
  BY <1>1, <1>4
<1>7. n * k - p \in 0 .. k - 1
  BY <1>1, <1>4, <1>6
<1>8. QED
  BY <1>5, <1>7 DEF k

\* The assigned buckets are those of all memories.
LEMMA AllAssigned ==
  ASSUME MInv, measure.step = "compare"
  PROVE  GroupBuckets(measure, Id) = measure.header.allocated
<1> DEFINE n == measure.header.allocated
<1>1. /\ n \in 0 .. Capacity /\ Capacity \in Nat
      /\ measure.table \in [Bucket -> Id \cup {Free}]
      /\ \A b \in Bucket : (b < n) <=> (measure.table[b] # Free)
  BY GrowthAssumption DEF MInv, MeasureType, TableReadInv
<1>2. Assigned(measure, Id) = { b \in Bucket : b < n }
  BY <1>1, GrowthAssumption DEF Assigned
<1> HIDE DEF n
<1>3. { b \in Bucket : b < n } = 0 .. n - 1
  BY <1>1 DEF Bucket
<1>4. Cardinality(0 .. n - 1) = n
  BY <1>1, FS_Interval
<1>5. GroupBuckets(measure, Id) = Cardinality(Assigned(measure, Id))
  BY GroupBucketsCounts
<1>6. QED
  BY <1>2, <1>3, <1>4, <1>5 DEF n

\* No subtraction of the report goes below zero.
LEMMA UnmanagedCovers ==
  ASSUME MInv, measure.step = "compare"
  PROVE  Unmanaged(measure) >= 0
<1> DEFINE n == measure.header.allocated
           k == measure.header.perBucket
<1>1. /\ n \in 0 .. Capacity /\ k \in BucketSizes /\ measure.physical \in Pages
      /\ measure.physical >= RequiredPages(n, k)
  BY DEF MInv, MeasureType, HeaderReadInv
<1>2. n \in Nat /\ k \in Nat /\ measure.physical \in Nat
  BY <1>1, GrowthAssumption DEF Pages
<1> HIDE DEF n, k
<1>3. n * k \in Nat
  BY <1>2
<1>4. measure.physical - 1 - n * k >= 0
  BY <1>1, <1>2, <1>3 DEF RequiredPages
<1>5. QED
  BY <1>4 DEF Unmanaged, n, k

LEMMA ReportKeeps ==
  ASSUME IInv, MInv, ReportIsExact, [MNext]_<<vars, measurement>>
  PROVE  ReportIsExact'
<1>1. CASE UNCHANGED <<vars, measurement>>
  <2>1. UNCHANGED <<report, pc, manager, physical>>
    BY <1>1 DEF vars, durable, volatile, measurement
  <2>2. QED
    BY <2>1 DEF ReportIsExact, Slack, GroupBuckets, GroupPages, BucketsOf, Unmanaged, Group
<1>2. CASE report'.step # "ok"
  BY <1>2 DEF ReportIsExact
<1>3. CASE MeasureCompare /\ report'.step = "ok"
  <2>1. /\ measure \in MeasureType /\ UNCHANGED vars /\ measure.step = "compare"
    BY <1>3 DEF MInv, MeasureCompare, Resumes
  <2>2. Compared /\ report' = [measure EXCEPT !.step = "ok"]
    BY <1>3, <2>1 DEF MeasureCompare, Answer, Compared, MeasureType
  <2>3. /\ report'.header = measure.header /\ report'.table = measure.table
        /\ report'.physical = measure.physical
        /\ UNCHANGED <<pc, manager, physical>>
    BY <2>1, <2>2 DEF MeasureType, vars, durable, volatile
  <2>4. \A ids : /\ Slack(report, ids)' = Slack(measure, ids)
                 /\ GroupBuckets(report, ids)' = GroupBuckets(measure, ids)
    BY <2>3 DEF Slack, GroupBuckets, GroupPages, BucketsOf
  <2>5. /\ pc' = "idle"
        /\ report'.physical <= physical'
    BY <2>1, <2>2, <2>3 DEF Compared, MInv, KeptInv, Measuring
  <2>6. ASSUME NEW id \in Id
        PROVE  /\ report'.header.pages[id] = manager'.pages[id]
               /\ { b \in Bucket : report'.table[b] = id } = manager'.buckets[id]
               /\ Slack(report, {id})' \in 0 .. report'.header.perBucket - 1
    BY <2>1, <2>2, <2>3, <2>4, ComparedTable, SlackOfOne
  <2>7. Unmanaged(report)' >= 0
    BY <2>1, <2>3, UnmanagedCovers DEF Unmanaged
  <2>8. ASSUME NEW declared \in SUBSET Id
        PROVE  LET groups ==
                     { Group(declared, name) : name \in {"ledger", "current", "unknown"} }
               IN  /\ Sums!SumFunction([ids \in groups |-> GroupBuckets(report, ids)'])
                        = report'.header.allocated
                   /\ Sums!SumFunction([ids \in groups |-> Slack(report, ids)'])
                        = Slack(report, Id)'
    <3> DEFINE groups == { Group(declared, name) : name \in {"ledger", "current", "unknown"} }
    <3>1. /\ groups \in SUBSET SUBSET Id
          /\ IsFiniteSet(groups)
          /\ \A g, h \in groups : g # h => g \cap h = {}
          /\ UNION groups = Id
      BY ThreeGroups
    <3>2. measure.header.pages \in [Id -> Pages] /\ measure.header.perBucket \in Nat
      <4>1. measure.header.pages \in [Id -> Pages] /\ measure.header.perBucket \in BucketSizes
        BY <2>1 DEF MeasureType
      <4>2. QED
        BY <4>1, GrowthAssumption
    <3> HIDE DEF groups
    <3>3. /\ Sums!SumFunction([ids \in groups |-> GroupBuckets(measure, ids)])
               = GroupBuckets(measure, UNION groups)
          /\ Sums!SumFunction([ids \in groups |-> Slack(measure, ids)])
               = Slack(measure, UNION groups)
      BY <3>1, <3>2, GroupsAddUp
    <3>4. GroupBuckets(measure, Id) = measure.header.allocated
      BY <2>1, AllAssigned
    <3>5. /\ [ids \in groups |-> GroupBuckets(report, ids)']
               = [ids \in groups |-> GroupBuckets(measure, ids)]
          /\ [ids \in groups |-> Slack(report, ids)']
               = [ids \in groups |-> Slack(measure, ids)]
      BY <2>4
    <3>6. QED
      BY <2>3, <2>4, <3>1, <3>3, <3>4, <3>5 DEF groups
  <2>9. QED
    BY <2>5, <2>6, <2>7, <2>8 DEF ReportIsExact, Group
<1>4. report'.step # "ok" \/ MeasureCompare \/ UNCHANGED <<vars, measurement>>
  <2>1. NoReport.step # "ok"
    BY DEF NoReport, NoMeasure
  <2>2. ASSUME MeasureHeader PROVE report'.step # "ok"
    <3>1. report' = NoReport \/ report' = [[measure EXCEPT !.header = header] EXCEPT !.step = "layout"]
      BY <2>2 DEF MeasureHeader, Answer
    <3>2. QED
      BY <2>1, <3>1 DEF MInv, MeasureType
  <2>3. ASSUME MeasureTable PROVE report'.step # "ok"
    <3>1. report' = NoReport \/ report' = [[measure EXCEPT !.table = table] EXCEPT !.step = "layout"]
      BY <2>3 DEF MeasureTable, Answer
    <3>2. QED
      BY <2>1, <3>1 DEF MInv, MeasureType
  <2>4. QED
    BY <2>1, <2>2, <2>3 DEF MNext, MeasureSize, MeasurePanic, GrowthStep
<1>5. QED
  BY <1>1, <1>2, <1>3, <1>4

\* A report that is returned shows the extents and buckets of the live
\* manager, whatever grew between its reads, and its groups add up
\* (runtime/allocations.rs, measure_allocations).
THEOREM ExactReport == MSpec => []ReportIsExact
<1>1. MInit => ReportIsExact
  BY DEF MInit, ReportIsExact, NoReport, NoMeasure
<1>2. (IInv /\ MInv) /\ ReportIsExact /\ [MNext]_<<vars, measurement>> => ReportIsExact'
  BY ReportKeeps
<1>3. QED
  BY <1>1, <1>2, MeasurementInvariant, PTL DEF MSpec

=============================================================================
