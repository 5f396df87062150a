----------------------------- MODULE Measurement -----------------------------
(***************************************************************************)
(* Allocation measurement beside Growth.  A report reads the size, header  *)
(* and table of the backing, one after the other, through the same host    *)
(* code that growth calls: it may run inside a growth, and growths may run *)
(* from start to end inside it.  Only after its reads does it look whether *)
(* a growth is running and compare what it read with the live manager.     *)
(*                                                                         *)
(* One thread runs all of it.  A call that started later ends earlier.     *)
(***************************************************************************)
EXTENDS Growth

Sums == INSTANCE Functions

CONSTANT LedgerId   \* the virtual memory of the ledger (0 in the code)

ASSUME MeasurementAssumption == LedgerId \in Id /\ IsFiniteSet(Id)

VARIABLES
  measure,    \* locals of the running measurement
  report,     \* what a measurement has just returned
  disturbed   \* history: the backing changed since the measurement started

measurement == <<measure, report, disturbed>>

NoMeasure ==
  [step |-> "none", under |-> "idle", physical |-> 0, header |-> EmptyHeader, table |-> EmptyTable]

NoReport == NoMeasure

MInit == Init /\ measure = NoMeasure /\ report = NoReport /\ disturbed = FALSE

Measuring == measure.step # "none"

\* What the measurement returns, with the metadata it has read.
Answer(result, read) ==
  /\ report' = [read EXCEPT !.step = result]
  /\ measure' = NoMeasure

-----------------------------------------------------------------------------
(***************************************************************************)
(* The report, computed from metadata that were read.                      *)
(***************************************************************************)
BucketsOf(read, id) == Cardinality({ b \in Bucket : read.table[b] = id })

\* A declared key's memory, governance, or one nobody declares now.
Group(declared, name) ==
  CASE name = "ledger"  -> {LedgerId}
    [] name = "current" -> declared \ {LedgerId}
    [] name = "unknown" -> Id \ (declared \cup {LedgerId})

GroupBuckets(read, ids) ==
  Sums!SumFunctionOnSet([id \in Id |-> BucketsOf(read, id)], ids)

GroupPages(read, ids) == Sums!SumFunctionOnSet(read.header.pages, ids)

\* Bucket capacity assigned beyond the extents of these memories, in pages.
Slack(read, ids) ==
  GroupBuckets(read, ids) * read.header.perBucket - GroupPages(read, ids)

\* Pages behind the metadata and the assigned buckets.
Unmanaged(read) ==
  read.physical - 1 - read.header.allocated * read.header.perBucket

-----------------------------------------------------------------------------
(***************************************************************************)
(* A measurement.  Between its steps, the host code of a read runs.        *)
(***************************************************************************)
MeasureSize ==
  /\ runtime = "live"
  /\ ~ Measuring
  /\ measure' = [NoMeasure EXCEPT !.step = "header", !.under = pc, !.physical = physical]
  /\ report' = NoReport
  /\ disturbed' = FALSE
  /\ UNCHANGED vars

\* The running measurement is what runs: no growth that it called is left.
Resumes(step) == measure.step = step /\ pc = measure.under

\* Mutant: the backing is asked for one bucket more.
MeasureHeaderMutant ==
  /\ Resumes("header")
  /\ LET read == [measure EXCEPT !.header = header]
     IN  IF read.physical >= RequiredPages(header.allocated + 1, header.perBucket)
         THEN /\ measure' = [read EXCEPT !.step = "table"]
              /\ report' = NoReport
         ELSE Answer("layout", read)
  /\ UNCHANGED <<vars, disturbed>>

\* The assigned buckets of the header lie within the physical size read before.
MeasureHeader ==
  /\ Resumes("header")
  /\ LET read == [measure EXCEPT !.header = header]
     IN  IF /\ header.allocated <= Capacity
            /\ read.physical >= RequiredPages(header.allocated, header.perBucket)
         THEN /\ measure' = [read EXCEPT !.step = "table"]
              /\ report' = NoReport
         ELSE Answer("layout", read)
  /\ UNCHANGED <<vars, disturbed>>

\* The table has the assigned buckets for a dense prefix, and every memory
\* those that its extent needs.
MeasureTable ==
  /\ Resumes("table")
  /\ LET read == [measure EXCEPT !.table = table]
     IN  IF /\ \A b \in Bucket : (b < read.header.allocated) <=> (table[b] # Free)
            /\ \A id \in Id : BucketsFor(read.header.pages[id], read.header.perBucket)
                                = BucketsOf(read, id)
         THEN /\ measure' = [read EXCEPT !.step = "compare"]
              /\ report' = NoReport
         ELSE Answer("layout", read)
  /\ UNCHANGED <<vars, disturbed>>

\* Mutant: the counts of buckets are compared and the extents are not.
LiveMatchesMutant(read) ==
  /\ read.header.perBucket = size
  /\ read.header.allocated = allocated

\* The metadata read are those of the live runtime and of its manager.
LiveMatches(read) ==
  /\ read.header.perBucket = size
  /\ read.header.allocated = allocated
  /\ \A id \in Id : read.header.pages[id] = manager.pages[id]

\* A growth that is running has the count of buckets borrowed.
MeasureCompare ==
  /\ Resumes("compare")
  /\ IF pc # "idle"
     THEN Answer("reentrant", measure)
     ELSE IF LiveMatches(measure)
     THEN Answer("ok", measure)
     ELSE Answer("mismatch", measure)
  /\ UNCHANGED <<vars, disturbed>>

\* A panic out of a read: the measurement has changed nothing.
MeasurePanic ==
  /\ Measuring
  /\ pc = measure.under
  /\ measure' = NoMeasure
  /\ report' = NoReport
  /\ UNCHANGED <<vars, disturbed>>

\* A step of Growth.  It waits for a measurement that it called, and a
\* measurement keeps its runtime until it returns or the process ends.
GrowthStep ==
  /\ Next
  /\ report' = NoReport
  /\ disturbed' = (disturbed \/ (Measuring /\ durable' # durable))
  /\ IF Measuring /\ runtime' = "none"
     THEN measure' = NoMeasure
     ELSE /\ Measuring => runtime' = runtime
          /\ measure.under # "idle" =>
               <<durable, manager, pc, call>>' = <<durable, manager, pc, call>>
          /\ UNCHANGED measure

MNext ==
  \/ MeasureSize \/ MeasureHeader \/ MeasureTable \/ MeasureCompare \/ MeasurePanic
  \/ GrowthStep

MSpec == MInit /\ [][MNext]_<<vars, measurement>>

-----------------------------------------------------------------------------
(***************************************************************************)
(* Properties.                                                             *)
(***************************************************************************)
\* A report that is returned shows the extents and buckets of the live
\* manager, whatever grew between its reads, and adds up: every memory has
\* its slack within one bucket, the three groups together are all assigned
\* buckets and extents, and no subtraction of the report goes below zero.
ReportIsExact ==
  report.step = "ok" =>
    /\ pc = "idle"
    /\ \A id \in Id :
         /\ report.header.pages[id] = manager.pages[id]
         /\ { b \in Bucket : report.table[b] = id } = manager.buckets[id]
         /\ Slack(report, {id}) \in 0 .. report.header.perBucket - 1
    /\ report.physical <= physical
    /\ Unmanaged(report) >= 0
    /\ \A declared \in SUBSET Id :
         LET groups == { Group(declared, name) : name \in {"ledger", "current", "unknown"} }
         IN  /\ Sums!SumFunction([ids \in groups |-> GroupBuckets(report, ids)])
                  = report.header.allocated
             /\ Sums!SumFunction([ids \in groups |-> Slack(report, ids)])
                  = Slack(report, Id)

\* A measurement fails only for a growth around it or within it.
QuietMeasurementSucceeds ==
  /\ report.step \in {"layout", "mismatch"} => report.under # "idle" \/ disturbed
  /\ report.step = "reentrant" => report.under # "idle"

\* "Reentrant live growth accounting still returns
\* RuntimeDiagnosticError::ReentrantAccess."
ReentrancyIsReported ==
  report.step # "none" /\ report.under # "idle" => report.step = "reentrant"

-----------------------------------------------------------------------------
(***************************************************************************)
(* The inductive invariant behind the two properties that hold, beside     *)
(* IInv of Growth.                                                         *)
(***************************************************************************)
MeasureType ==
  [step : {"none", "header", "table", "compare"},
   under : {"idle", "header", "table", "reserve", "assign", "save", "return"},
   physical : Pages,
   header : [allocated : 0 .. Capacity, perBucket : BucketSizes, pages : [Id -> Pages]],
   table : [Bucket -> Id \cup {Free}]]

\* Backing is asked for only where there is too little of it.
Reserving == pc = "reserve" => RequiredPages(call.total, size) > physical

\* A measurement keeps its runtime, and the backing only grows under it.
KeptInv == Measuring => runtime = "live" /\ measure.physical <= physical

\* A header that was read is one of this runtime, within the size read before.
HeaderReadInv ==
  measure.step \in {"table", "compare"} =>
    /\ measure.header.perBucket = header.perBucket
    /\ measure.physical >= RequiredPages(measure.header.allocated, measure.header.perBucket)

\* A table that was read fits the header, and no bucket that it shows owned
\* changes hands.
TableReadInv ==
  measure.step = "compare" =>
    /\ \A b \in Bucket : (b < measure.header.allocated) <=> (measure.table[b] # Free)
    /\ \A id \in Id : BucketsFor(measure.header.pages[id], measure.header.perBucket)
                        = BucketsOf(measure, id)
    /\ \A b \in Bucket : measure.table[b] # Free => measure.table[b] = table[b]

\* What was read is what the backing still holds, unless it has changed.
QuietInv ==
  Measuring /\ ~ disturbed =>
    /\ measure.physical = physical
    /\ measure.step \in {"table", "compare"} => measure.header = header
    /\ measure.step = "compare" => measure.table = table

MInv ==
  /\ measure \in MeasureType
  /\ Reserving
  /\ KeptInv
  /\ HeaderReadInv
  /\ TableReadInv
  /\ QuietInv

=============================================================================
