------------------------------- MODULE Growth -------------------------------
(***************************************************************************)
(* The memory manager's buckets under one MemoryRuntime: construction over *)
(* fresh or retained backing, exclusive leases on virtual memories, and    *)
(* growth through them.                                                    *)
(*                                                                         *)
(* A backing is one metadata page and then buckets of a fixed number of    *)
(* pages.  The metadata are a header (how many buckets are assigned, the   *)
(* extent of every virtual memory) and a table from bucket to owner.  The  *)
(* runtime checks and reserves physical capacity itself, with a count of   *)
(* its own, before it lets the manager of ic-stable-structures, a library, *)
(* assign buckets; the manager panics when it finds no capacity.           *)
(*                                                                         *)
(* A call is cut wherever it reaches the backing, because the backing is   *)
(* host code: it may refuse to grow, panic, or call back into the runtime  *)
(* through another lease.  On a native backing nothing is rolled back.     *)
(***************************************************************************)
EXTENDS Integers, FiniteSets

CONSTANTS
  Id,            \* virtual memory ids that are opened here
  Free,          \* owner of an unassigned bucket (255 in the code)
  Capacity,      \* buckets of a manager (32768 in the code)
  BucketSizes,   \* pages per bucket that configurations may ask for
  DefaultSize,   \* the size without a configuration (128 in the code)
  NoConfig,      \* a construction without a configuration
  Requests,      \* page counts that applications ask for
  PageBytes,     \* bytes of a page (65536 in the code)
  MaxWord        \* the greatest count of pages or bytes (2^64 - 1 in the code)

ASSUME GrowthAssumption ==
  /\ Free \notin Id
  /\ Capacity \in Nat
  /\ BucketSizes \subseteq Nat \ {0}
  /\ DefaultSize \in BucketSizes
  /\ NoConfig \notin BucketSizes
  /\ MaxWord \in Nat
  /\ Requests \subseteq 0 .. MaxWord
  /\ PageBytes \in Nat \ {0}
  /\ \A size \in BucketSizes : PageBytes * (1 + Capacity * size) <= MaxWord

VARIABLES
  contents,   \* durable: what the first page of the backing holds
  physical,   \* durable: pages of the backing
  header,     \* durable: manager header
  table,      \* durable: bucket table
  runtime,    \* "none", "live", or "dropped" when handles outlived it
  size,       \* pages per bucket, as the runtime accounts
  allocated,  \* assigned buckets, as the runtime accounts
  manager,    \* the library's cached metadata
  open,       \* ids whose lease bit is set
  handles,    \* live handles on every id
  pc,         \* where the running call is, "idle" when there is none
  call,       \* locals of the running call
  outcome,    \* how the last call ended
  promised    \* history: the extents that grow has acknowledged

durable == <<contents, physical, header, table>>

volatile == <<runtime, size, allocated, manager, open, handles>>

vars == <<durable, volatile, pc, call, outcome, promised>>

-----------------------------------------------------------------------------
(***************************************************************************)
(* Buckets and pages.                                                      *)
(***************************************************************************)
Bucket == 0 .. Capacity - 1

Pages == 0 .. MaxWord

\* div_ceil
BucketsFor(pages, perBucket) == (pages + perBucket - 1) \div perBucket

\* Where the library puts the end of so many buckets: after the metadata page.
EndOf(buckets, perBucket) == 1 + buckets * perBucket

\* What the runtime reserves for them.
RequiredPages(buckets, perBucket) == 1 + buckets * perBucket

\* check_io_bounds of an access in bytes: the extent is multiplied unchecked.
CheckIoBounds(pages, offset, count) ==
  LET extent == (pages * PageBytes) % (MaxWord + 1)
  IN  offset <= extent /\ count <= extent - offset

Owned(id) == { b \in Bucket : table[b] = id }

\* A memory's buckets back its pages in the order they were assigned, which
\* is their own order.
First(n, buckets) == { b \in buckets : Cardinality({ c \in buckets : c < b }) < n }

Manager ==
  [allocated : 0 .. Capacity, pages : [Id -> Pages], buckets : [Id -> SUBSET Bucket]]

NoManager ==
  [allocated |-> 0, pages |-> [id \in Id |-> 0], buckets |-> [id \in Id |-> {}]]

NoCall == [id |-> Free, old |-> 0, new |-> 0, total |-> 0, left |-> 0]

EmptyHeader == [allocated |-> 0, perBucket |-> DefaultSize, pages |-> [id \in Id |-> 0]]

EmptyTable == [b \in Bucket |-> Free]

Nothing == [id \in Id |-> [pages |-> 0, buckets |-> {}]]

Init ==
  /\ \/ contents = "absent" /\ physical = 0
     \/ contents = "foreign" /\ physical = 1
  /\ header = EmptyHeader
  /\ table = EmptyTable
  /\ runtime = "none"
  /\ size = DefaultSize
  /\ allocated = 0
  /\ manager = NoManager
  /\ open = {}
  /\ handles = [id \in Id |-> 0]
  /\ pc = "idle"
  /\ call = NoCall
  /\ outcome = "none"
  /\ promised = Nothing

Return(result) ==
  /\ pc' = "idle"
  /\ call' = NoCall
  /\ outcome' = result

-----------------------------------------------------------------------------
(***************************************************************************)
(* Construction.                                                           *)
(***************************************************************************)
\* Mutant: the table is believed beyond the count in the header.
LayoutAcceptedMutant ==
  /\ contents = "manager"
  /\ physical >= RequiredPages(header.allocated, header.perBucket)
  /\ \A b \in Bucket : b < header.allocated => table[b] # Free
  /\ \A id \in Id :
       BucketsFor(header.pages[id], header.perBucket) <= Cardinality(Owned(id))

\* The persisted metadata that a runtime may be built on: assigned buckets
\* are a dense prefix of the table, the backing covers them, and every
\* memory has exactly the buckets that its extent needs.
LayoutAccepted ==
  /\ contents = "manager"
  /\ header.allocated <= Capacity
  /\ physical >= RequiredPages(header.allocated, header.perBucket)
  /\ \A b \in Bucket : (b < header.allocated) <=> (table[b] # Free)
  /\ \A id \in Id :
       BucketsFor(header.pages[id], header.perBucket) = Cardinality(Owned(id))

\* An owner builds a runtime only when no handle of an earlier one is left.
MayConstruct == pc = "idle" /\ runtime # "live" /\ \A id \in Id : handles[id] = 0

\* Mutant: a blank backing is taken for an empty one.
ConstructFreshMutant(config) ==
  /\ MayConstruct
  /\ contents \in {"absent", "foreign"}
  /\ contents' = "foreign"
  /\ physical' = 1
  /\ pc' = "header"
  /\ size' = IF config = NoConfig THEN DefaultSize ELSE config
  /\ UNCHANGED <<header, table, runtime, allocated, manager, open, handles, call,
                 outcome, promised>>

\* The metadata page of an empty backing is acquired before anything is
\* written; a refusal leaves the backing empty.
ConstructFresh(config) ==
  /\ MayConstruct
  /\ contents = "absent"
  /\ \/ /\ contents' = "foreign"
        /\ physical' = 1
        /\ pc' = "header"
        /\ size' = IF config = NoConfig THEN DefaultSize ELSE config
        /\ UNCHANGED <<header, table, runtime, allocated, manager, open, handles, call,
                       outcome, promised>>
     \/ /\ Return("refused")
        /\ UNCHANGED <<durable, volatile, promised>>

\* The library's header, with its table still zero: not a layout that is read back.
InitHeader ==
  /\ pc = "header"
  /\ contents' = "header"
  /\ header' = [EmptyHeader EXCEPT !.perBucket = size]
  /\ pc' = "table"
  /\ UNCHANGED <<physical, table, volatile, call, outcome, promised>>

InitTable ==
  /\ pc = "table"
  /\ contents' = "manager"
  /\ table' = EmptyTable
  /\ runtime' = "live"
  /\ allocated' = 0
  /\ manager' = NoManager
  /\ open' = {}
  /\ Return("ok")
  /\ UNCHANGED <<physical, header, size, handles, promised>>

\* Mutant: the configuration wins over the persisted bucket size.
ConstructExistingMutant(config) ==
  /\ MayConstruct
  /\ LayoutAccepted
  /\ runtime' = "live"
  /\ size' = IF config = NoConfig THEN DefaultSize ELSE config
  /\ allocated' = header.allocated
  /\ manager' = [allocated |-> header.allocated, pages |-> header.pages,
                 buckets |-> [id \in Id |-> Owned(id)]]
  /\ open' = {}
  /\ Return("ok")
  /\ UNCHANGED <<durable, handles, promised>>

\* Retained backing must have a sound layout, of the bucket size asked for.
ConstructExisting(config) ==
  /\ MayConstruct
  /\ contents # "absent"
  /\ \/ /\ LayoutAccepted
        /\ config \in {NoConfig, header.perBucket}
        /\ runtime' = "live"
        /\ size' = header.perBucket
        /\ allocated' = header.allocated
        /\ manager' = [allocated |-> header.allocated, pages |-> header.pages,
                       buckets |-> [id \in Id |-> Owned(id)]]
        /\ open' = {}
        /\ Return("ok")
        /\ UNCHANGED <<durable, handles, promised>>
     \/ /\ ~ LayoutAccepted \/ config \notin {NoConfig, header.perBucket}
        /\ Return("rejected")
        /\ UNCHANGED <<durable, volatile, promised>>

-----------------------------------------------------------------------------
(***************************************************************************)
(* Leases.  They may be taken and given back from within a callback of the *)
(* backing, except the one that is growing.                                *)
(***************************************************************************)
\* Mutant: the lease bits are consulted only for ids that have an extent.
OpenMemoryMutant(id) ==
  /\ runtime = "live"
  /\ id \notin open \/ manager.pages[id] = 0
  /\ open' = open \cup {id}
  /\ handles' = [handles EXCEPT ![id] = @ + 1]
  /\ UNCHANGED <<durable, runtime, size, allocated, manager, pc, call, outcome, promised>>

OpenMemory(id) ==
  /\ runtime = "live"
  /\ id \notin open
  /\ open' = open \cup {id}
  /\ handles' = [handles EXCEPT ![id] = @ + 1]
  /\ UNCHANGED <<durable, runtime, size, allocated, manager, pc, call, outcome, promised>>

DropHandle(id) ==
  /\ handles[id] > 0
  /\ id # call.id
  /\ open' = open \ {id}
  /\ handles' = [handles EXCEPT ![id] = @ - 1]
  /\ UNCHANGED <<durable, runtime, size, allocated, manager, pc, call, outcome, promised>>

\* mem::forget: the handle is gone and its bit stays.
ForgetHandle(id) ==
  /\ handles[id] > 0
  /\ id # call.id
  /\ handles' = [handles EXCEPT ![id] = @ - 1]
  /\ UNCHANGED <<durable, runtime, size, allocated, manager, open, pc, call, outcome,
                 promised>>

\* The owner drops the runtime; handles keep the manager alive.
DropRuntime ==
  /\ runtime = "live"
  /\ runtime' = "dropped"
  /\ UNCHANGED <<durable, size, allocated, manager, open, handles, pc, call, outcome,
                 promised>>

-----------------------------------------------------------------------------
(***************************************************************************)
(* Growth.                                                                 *)
(***************************************************************************)
Extra(perBucket, old, new) == BucketsFor(new, perBucket) - BucketsFor(old, perBucket)

\* Mutant: page counts wrap around.
GrowAdmittedMutant(old, pages) ==
  allocated + Extra(size, old, (old + pages) % (MaxWord + 1)) <= Capacity

\* Neither the page count nor the bucket count overflows, and the buckets
\* suffice.
GrowAdmitted(old, pages) ==
  /\ old + pages <= MaxWord
  /\ allocated + Extra(size, old, old + pages) <= MaxWord
  /\ allocated + Extra(size, old, old + pages) <= Capacity

\* RuntimeMemory::grow up to its first call of the backing.
Grow(id, pages) ==
  /\ pc = "idle"
  /\ handles[id] > 0
  /\ LET old == manager.pages[id]
         extra == Extra(size, old, old + pages)
     IN \/ /\ pages = 0
           /\ Return("ok")
        \/ /\ pages # 0
           /\ ~ GrowAdmitted(old, pages)
           /\ Return("refused")
        \/ /\ pages # 0
           /\ GrowAdmitted(old, pages)
           /\ call' = [id |-> id, old |-> old, new |-> old + pages,
                       total |-> allocated + extra,
                       left |-> Extra(header.perBucket, old, old + pages)]
           /\ pc' = IF RequiredPages(allocated + extra, size) > physical
                      THEN "reserve" ELSE "assign"
           /\ outcome' = outcome
  /\ UNCHANGED <<durable, volatile, promised>>

\* Mutant: the reservation does not cover calls from within the backing.
ReentrantGrowMutant(id) ==
  /\ pc = "reserve"
  /\ handles[id] > 0
  /\ id # call.id
  /\ GrowAdmitted(manager.pages[id], 1)
  /\ LET new == manager.pages[id] + 1
         taken == { b \in Bucket : /\ b >= manager.allocated
                                   /\ b < manager.allocated + Extra(size, manager.pages[id], new) }
     IN /\ table' = [b \in Bucket |-> IF b \in taken THEN id ELSE table[b]]
        /\ manager' = [allocated |-> manager.allocated + Cardinality(taken),
                       pages |-> [manager.pages EXCEPT ![id] = new],
                       buckets |-> [manager.buckets EXCEPT ![id] = @ \cup taken]]
        /\ header' = [header EXCEPT !.allocated = manager'.allocated,
                                    !.pages = manager'.pages]
        /\ allocated' = manager'.allocated
        /\ physical' = IF RequiredPages(allocated', size) > physical
                         THEN RequiredPages(allocated', size) ELSE physical
  /\ outcome' = "ok"
  /\ UNCHANGED <<contents, runtime, size, open, handles, pc, call, promised>>

\* A call on any lease from within a callback finds the count borrowed.
ReentrantGrow(id) ==
  /\ pc \in {"reserve", "assign", "save", "return"}
  /\ handles[id] > 0
  /\ outcome' = "reentrant"
  /\ UNCHANGED <<durable, volatile, pc, call, promised>>

\* Mutant: the count is raised before the backing has answered.
ReserveBackingMutant ==
  /\ pc = "reserve"
  /\ allocated' = call.total
  /\ \/ /\ physical' = RequiredPages(call.total, size)
        /\ pc' = "assign"
        /\ UNCHANGED <<call, outcome>>
     \/ Return("refused") /\ UNCHANGED physical
  /\ UNCHANGED <<contents, header, table, runtime, size, manager, open, handles, promised>>

\* The backing grows to what all buckets will need, or refuses.
ReserveBacking ==
  /\ pc = "reserve"
  /\ \/ /\ physical' = RequiredPages(call.total, size)
        /\ pc' = "assign"
        /\ UNCHANGED <<contents, header, table, volatile, call, outcome, promised>>
     \/ /\ Return("refused")
        /\ UNCHANGED <<durable, volatile, promised>>

(***************************************************************************)
(* The library's own growth.  It would refuse for want of buckets, which   *)
(* the runtime asserts it does not, and panic for want of pages.           *)
(***************************************************************************)
ManagerHasBuckets == manager.allocated + call.left <= Capacity

ManagerCovered == EndOf(manager.allocated, header.perBucket) <= physical

AssignBucket ==
  /\ pc = "assign"
  /\ call.left > 0
  /\ ManagerHasBuckets
  /\ table' = [table EXCEPT ![manager.allocated] = call.id]
  /\ manager' = [manager EXCEPT !.allocated = @ + 1,
                                !.buckets[call.id] = @ \cup {manager.allocated}]
  /\ call' = [call EXCEPT !.left = @ - 1]
  /\ UNCHANGED <<contents, physical, header, runtime, size, allocated, open, handles, pc,
                 outcome, promised>>

ManagerExtend ==
  /\ pc = "assign"
  /\ call.left = 0
  /\ ManagerCovered
  /\ manager' = [manager EXCEPT !.pages[call.id] = call.new]
  /\ pc' = "save"
  /\ UNCHANGED <<durable, runtime, size, allocated, open, handles, call, outcome, promised>>

SaveHeader ==
  /\ pc = "save"
  /\ header' = [header EXCEPT !.allocated = manager.allocated, !.pages = manager.pages]
  /\ pc' = "return"
  /\ UNCHANGED <<contents, physical, table, volatile, call, outcome, promised>>

\* The runtime takes the new count over and acknowledges the extent.
FinishGrow ==
  /\ pc = "return"
  /\ allocated' = call.total
  /\ promised' = [promised EXCEPT ![call.id] =
       [pages |-> call.new,
        buckets |-> First(BucketsFor(call.new, header.perBucket), manager.buckets[call.id])]]
  /\ Return("ok")
  /\ UNCHANGED <<durable, runtime, size, manager, open, handles>>

-----------------------------------------------------------------------------
(***************************************************************************)
(* Faults.  Nothing that was written is undone.                            *)
(***************************************************************************)
\* A panic out of the reservation that the host catches, before or after the
\* backing has grown: unwinding gives the count back, and the runtime goes on.
CaughtPanic ==
  /\ pc = "reserve"
  /\ physical' \in {physical, RequiredPages(call.total, size)}
  /\ Return("fault")
  /\ UNCHANGED <<contents, header, table, volatile, promised>>

\* The process ends, or after a panic out of the manager the owner discards
\* the runtime and every handle, between calls or within one.
ProcessEnd ==
  /\ runtime # "none" \/ pc # "idle"
  /\ runtime' = "none"
  /\ size' = DefaultSize
  /\ allocated' = 0
  /\ manager' = NoManager
  /\ open' = {}
  /\ handles' = [id \in Id |-> 0]
  /\ Return("none")
  /\ UNCHANGED <<durable, promised>>

-----------------------------------------------------------------------------
Config == BucketSizes \cup {NoConfig}

Progress ==
  \/ InitHeader
  \/ InitTable
  \/ ReserveBacking
  \/ AssignBucket
  \/ ManagerExtend
  \/ SaveHeader
  \/ FinishGrow

Next ==
  \/ Progress
  \/ \E config \in Config : ConstructFresh(config)
  \/ \E config \in Config : ConstructExisting(config)
  \/ \E id \in Id : OpenMemory(id)
  \/ \E id \in Id : DropHandle(id)
  \/ \E id \in Id : ForgetHandle(id)
  \/ DropRuntime
  \/ \E id \in Id, pages \in Requests : Grow(id, pages)
  \/ \E id \in Id : ReentrantGrow(id)
  \/ CaughtPanic
  \/ ProcessEnd

Spec == Init /\ [][Next]_vars

-----------------------------------------------------------------------------
(***************************************************************************)
(* Properties.                                                             *)
(***************************************************************************)
\* Every variable has its type.
TypeOK ==
  /\ contents \in {"absent", "foreign", "header", "manager"}
  /\ physical \in Pages
  /\ header \in [allocated : 0 .. Capacity, perBucket : BucketSizes, pages : [Id -> Pages]]
  /\ table \in [Bucket -> Id \cup {Free}]
  /\ runtime \in {"none", "live", "dropped"}
  /\ size \in BucketSizes
  /\ allocated \in 0 .. Capacity
  /\ manager \in Manager
  /\ open \subseteq Id
  /\ handles \in [Id -> Nat]
  /\ pc \in {"idle", "header", "table", "reserve", "assign", "save", "return"}
  /\ call \in [id : Id \cup {Free}, old : Pages, new : Pages, total : 0 .. Capacity,
               left : 0 .. Capacity]
  /\ outcome \in {"none", "ok", "refused", "rejected", "reentrant", "fault"}
  /\ promised \in [Id -> [pages : Pages, buckets : SUBSET Bucket]]

\* At most one live handle reaches a memory, also while a callback of the
\* backing runs and after the runtime itself is gone.
LeasesAreExclusive ==
  \A id \in Id : handles[id] <= 1 /\ (handles[id] = 1 => id \in open)

\* Between calls the runtime's count of buckets is the manager's and the
\* persisted one: it is seeded on reopening and never read again.
AccountingIsExact ==
  pc = "idle" /\ runtime # "none" =>
    allocated = manager.allocated /\ allocated = header.allocated

\* The library never meets a want of buckets or pages, on which it would
\* refuse in a way that the runtime asserts away, or panic.
ManagerIsNeverShort ==
  pc = "assign" => ManagerHasBuckets /\ (call.left = 0 => ManagerCovered)

\* Every page within the extent of a memory lies in a bucket of its own, that
\* no other memory has and the backing covers.  The bounds check of an access
\* admits exactly what lies within the extent: no extent in bytes wraps.
ExtentsAreBacked ==
  runtime # "none" =>
    \A id \in Id :
      LET used == First(BucketsFor(manager.pages[id], header.perBucket), manager.buckets[id])
      IN /\ Cardinality(used) = BucketsFor(manager.pages[id], header.perBucket)
         /\ \A b \in used : EndOf(b + 1, header.perBucket) <= physical
         /\ \A other \in Id \ {id} : manager.buckets[other] \cap manager.buckets[id] = {}
         /\ \A offset, count \in 0 .. MaxWord :
              CheckIoBounds(manager.pages[id], offset, count)
                <=> offset + count <= manager.pages[id] * PageBytes

\* A layout that a runtime may be built on holds every extent that was ever
\* acknowledged, in the very buckets it was acknowledged in: whatever the
\* process did since, reopening finds the pages or is refused.
PromisesAreKept ==
  LayoutAccepted =>
    \A id \in Id :
      /\ header.pages[id] >= promised[id].pages
      /\ promised[id].buckets = First(Cardinality(promised[id].buckets), Owned(id))

\* A growth that is refused once it has asked the backing for pages changes
\* neither metadata nor accounting, so that the same call may be made again:
\* every id has the extent it was acknowledged.  The refusals before that, of
\* the lease, of the count or of the sum, are steps that change nothing.
RefusalKeepsMetadata ==
  [][outcome' = "refused" /\ pc # "idle" /\ pc' = "idle" =>
       /\ UNCHANGED <<contents, physical, header, table, size, allocated, manager>>
       /\ allocated = header.allocated
       /\ manager.pages = header.pages]_vars

\* Bytes that are not a manager of ours are never written.
ForeignBackingIsKept ==
  [][pc = "idle" /\ contents \in {"foreign", "header"} =>
       runtime' # "live" /\ UNCHANGED <<durable, pc>>]_vars

-----------------------------------------------------------------------------
(***************************************************************************)
(* The inductive invariant behind the safety properties.                   *)
(***************************************************************************)
Growing == pc \in {"reserve", "assign", "save", "return"}

\* Bytes become a manager in two writes; until then nothing is promised, and
\* nobody holds a runtime on them.
FormatInv ==
  /\ pc = "header" => contents = "foreign" /\ physical >= 1
  /\ pc = "table" =>
       /\ contents = "header" /\ physical >= 1
       /\ header = [EmptyHeader EXCEPT !.perBucket = size]
  /\ runtime # "none" => contents = "manager"
  /\ contents # "manager" => promised = Nothing

\* Leases outlive a runtime only with its manager.
LeaseInv ==
  /\ LeasesAreExclusive
  /\ \A id \in Id : handles[id] > 0 => runtime # "none"
  /\ Growing => runtime # "none"

\* The manager's buckets are those of the table, a dense prefix of it that
\* the backing covers.
ManagerInv ==
  runtime # "none" =>
    /\ size = header.perBucket
    /\ \A id \in Id : manager.buckets[id] = Owned(id)
    /\ \A bucket \in Bucket : (bucket < manager.allocated) <=> (table[bucket] # Free)
    /\ EndOf(manager.allocated, size) <= physical

\* Every memory has the buckets of its extent, the growing one on the way
\* those of its new extent less the ones still to be assigned.
ExtentInv ==
  runtime # "none" =>
    \A id \in Id :
      Cardinality(Owned(id)) =
        IF pc = "assign" /\ id = call.id
          THEN BucketsFor(call.new, size) - call.left
          ELSE BucketsFor(manager.pages[id], size)

\* The persisted header, the manager and the runtime's count go through a
\* growth one after the other.
CallInv ==
  /\ runtime # "none" /\ pc \in {"idle", "reserve"} =>
       header.allocated = manager.allocated /\ allocated = manager.allocated
  /\ runtime # "none" /\ pc # "save" => header.pages = manager.pages
  /\ Growing => call.id \in Id /\ header.pages[call.id] <= call.new
  /\ pc \in {"reserve", "assign"} =>
       /\ manager.allocated + call.left = call.total
       /\ BucketsFor(header.pages[call.id], size) <= BucketsFor(call.new, size)
  /\ pc = "reserve" =>
       call.left = BucketsFor(call.new, size) - BucketsFor(manager.pages[call.id], size)
  /\ pc = "assign" =>
       /\ RequiredPages(call.total, size) <= physical
       /\ BucketsFor(manager.pages[call.id], size) <= BucketsFor(call.new, size) - call.left
  /\ pc = "save" => manager.pages = [header.pages EXCEPT ![call.id] = call.new]
  /\ pc = "return" => header.allocated = manager.allocated /\ header.pages[call.id] = call.new
  /\ pc \in {"save", "return"} => manager.allocated = call.total

\* What was acknowledged is a prefix of what the memory owns, also where the
\* layout is no longer accepted.
PromiseInv ==
  \A id \in Id :
    /\ promised[id].pages <= header.pages[id]
    /\ promised[id].buckets \subseteq Owned(id)
    /\ \A bucket \in Owned(id), kept \in promised[id].buckets :
         bucket < kept => bucket \in promised[id].buckets

IInv ==
  /\ TypeOK
  /\ FormatInv
  /\ LeaseInv
  /\ ManagerInv
  /\ ExtentInv
  /\ CallInv
  /\ PromiseInv
=============================================================================
