----------------------------- MODULE CommitStore -----------------------------
(***************************************************************************)
(* The bytes behind one ledger: encoding within bounds, the protected      *)
(* snapshot, and the cell that holds it.                                   *)
(*                                                                         *)
(* Bootstrap sees the cell as a kind.  Here it is a memory of units that a *)
(* publication overwrites from the header on, so that what recovery makes  *)
(* of any mixture of two records is worked out and not assumed.  A unit    *)
(* stands for a run of bytes that is written at once: the cell header, a   *)
(* field of the record, the head of the entries, a part of an entry.       *)
(*                                                                         *)
(* The checksum is taken as ideal: it is what it sums up.                  *)
(***************************************************************************)
EXTENDS Integers, Sequences, FiniteSets, SequencesExt

CONSTANTS
  Entry,           \* entries of a ledger, as numbers in their order
  Parts(_),        \* units of an entry
  MaxAllocations,  \* entries of a ledger
  MaxPayload,      \* MAX_COMMITTED_PAYLOAD_BYTES, in units
  MaxRecord,       \* MAX_LEDGER_RECORD_BYTES, in units
  Slack,           \* capacity hint beyond the payload
  PageUnits,       \* units of a page
  MaxPages,        \* pages the backing has
  MaxGeneration    \* bound: generations

Frame == 4  \* generation, marker, checksum and the payload's head

\* Keys and ids are bounded, so there are finitely many entries.  A payload has
\* room for the head of the entries, a record for every payload and its frame,
\* and a page for the cell header and a record without a snapshot.
ASSUME CommitStoreAssumption ==
  /\ Entry \subseteq Nat /\ IsFiniteSet(Entry)
  /\ \A e \in Entry : Parts(e) \in Nat \ {0}
  /\ {MaxAllocations, MaxPayload, MaxRecord, Slack, PageUnits, MaxPages, MaxGeneration} \subseteq Nat
  /\ MaxPayload >= 1
  /\ MaxRecord >= MaxPayload + Frame
  /\ PageUnits >= 2

VARIABLES
  memory,     \* the cell's units, from 0; empty while memory 0 has no page
  pc,         \* step of the publication, or "idle"
  store,      \* the decoded record that is worked on
  ledger,     \* the ledger that is published
  todo,       \* slices that are not written to the buffer yet
  buffer,     \* BoundedWriter
  at,         \* units of the record written to memory
  published,  \* history: what was last published, or recovered since
  pending,    \* history: a ledger whose publication was begun, or Nothing
  damaged,    \* history: the backing lost a unit
  refused     \* history: the ledger last refused for its size, or Nothing

cell == <<memory, at>>

encoding == <<todo, buffer>>

history == <<published, pending, damaged, refused>>

vars == <<memory, pc, store, ledger, todo, buffer, at, history>>

Nothing == [generation |-> 0 - 1, entries |-> {}]

Genesis == [generation |-> 0, entries |-> {}]

Failed == [generation |-> 0 - 2, entries |-> {}]

Least(m, n) == IF m <= n THEN m ELSE n

-----------------------------------------------------------------------------
(***************************************************************************)
(* Writing.  A slice is a sequence of units that goes to the buffer in one *)
(* call.                                                                   *)
(***************************************************************************)
Unset == <<>>

\* generation_checksum
Checksum(generation, marker, payload) == <<"checksum", generation, marker, payload>>

\* CommittedGenerationBytes::new
Snapshot(generation, payload) ==
  [ generation |-> generation, marker |-> TRUE,
    checksum |-> Checksum(generation, TRUE, payload), payload |-> payload ]

EntryUnits(e) == [n \in 1 .. Parts(e) |-> <<"entry", e, n>>]

\* The n-th entry is the one that n - 1 entries precede.
InOrder(entries) ==
  [n \in 1 .. Cardinality(entries) |->
     CHOOSE e \in entries : Cardinality({ d \in entries : d < e }) = n - 1]

LedgerSlices(entries) ==
  << << <<"entries", Cardinality(entries)>> >> >>
    \o [n \in 1 .. Cardinality(entries) |-> EntryUnits(InOrder(entries)[n])]

RecordSlices(record) ==
  IF record = Unset THEN << << <<"null">> >> >>
  ELSE << << <<"generation", record.generation>> >>, << <<"marker", record.marker>> >>,
          << record.checksum >>, << <<"bytes", Len(record.payload)>> >>, record.payload >>

\* BoundedWriter::new
Buffer(capacity, limit) ==
  [units |-> <<>>, attempted |-> 0, capacity |-> capacity, limit |-> limit]

-----------------------------------------------------------------------------
(***************************************************************************)
(* Reading: envelope, record, snapshot and ledger.                         *)
(***************************************************************************)
\* decode_stable_cell_commit_store of exactly the units the header announces;
\* the payload stays opaque.
DecodeRecord(units) ==
  IF units = << <<"null">> >> THEN [ok |-> TRUE, record |-> Unset]
  ELSE IF /\ Len(units) >= Frame /\ Len(units) - Frame <= MaxPayload
          /\ units[1][1] = "generation" /\ units[2][1] = "marker"
          /\ units[3][1] = "checksum" /\ units[4] = <<"bytes", Len(units) - Frame>>
  THEN [ ok |-> TRUE,
         record |-> [ generation |-> units[1][2], marker |-> units[2][2],
                      checksum |-> units[3],
                      payload |-> SubSeq(units, Frame + 1, Len(units)) ] ]
  ELSE [ok |-> FALSE, record |-> Unset]

\* decode_stable_cell_commit_store_from_memory, with stable_cell_payload_length
ReadStore ==
  IF memory = <<>> THEN [ok |-> TRUE, record |-> Unset]
  ELSE IF /\ memory[1][1] = "cell"
          /\ memory[1][2] <= Len(memory) - 1
          /\ memory[1][2] <= MaxRecord
  THEN DecodeRecord(SubSeq(memory, 2, 1 + memory[1][2]))
  ELSE [ok |-> FALSE, record |-> Unset]

\* Mutant: the marker is enough.
ValidatesMutant(record) == record.marker = TRUE

\* validates, of a snapshot that is there
Validates(record) ==
  /\ record.marker = TRUE
  /\ record.checksum = Checksum(record.generation, record.marker, record.payload)

\* decode_ledger and validate_integrity: exactly the entries announced.
DecodeLedger(record) ==
  LET matching == { entries \in SUBSET Entry :
                      /\ Cardinality(entries) <= MaxAllocations
                      /\ FlattenSeq(LedgerSlices(entries)) = record.payload }
  IN  IF matching = {} THEN Failed
      ELSE [generation |-> record.generation, entries |-> CHOOSE entries \in matching : TRUE]

\* recover_or_genesis: only a snapshot that is explicitly absent is genesis.
Recover(read) ==
  IF ~ read.ok THEN Failed
  ELSE IF read.record = Unset THEN Genesis
  ELSE IF Validates(read.record) THEN DecodeLedger(read.record)
  ELSE Failed

-----------------------------------------------------------------------------
(***************************************************************************)
(* Steps.                                                                  *)
(***************************************************************************)
Init ==
  /\ memory = <<>>
  /\ pc = "idle"
  /\ store = Unset
  /\ ledger = Genesis
  /\ todo = <<>>
  /\ buffer = Buffer(0, 0)
  /\ at = 0
  /\ published = Genesis /\ pending = Nothing /\ damaged = FALSE /\ refused = Nothing

\* The attempt ends without a write to the cell, or after all of them.
Rest ==
  /\ pc' = "idle"
  /\ store' = Unset /\ ledger' = Genesis
  /\ todo' = <<>> /\ buffer' = Buffer(0, 0) /\ at' = 0

\* EncodedLedgerRecord::new begins.
EncodeRecord(record) ==
  LET payload == IF record = Unset THEN 0 ELSE Len(record.payload)
  IN  /\ pc' = "record"
      /\ store' = record
      /\ todo' = RecordSlices(record)
      /\ buffer' = Buffer(Least(payload + Slack, MaxRecord), MaxRecord)

\* A memory without pages gets a cell with an absent snapshot.
WriteRootCell ==
  /\ pc = "idle"
  /\ memory = <<>>
  /\ EncodeRecord(Unset)
  /\ UNCHANGED <<ledger, cell, history>>

\* commit_generation begins: entries join the ledger that was recovered.
CommitGeneration(entries) ==
  /\ pc = "idle"
  /\ memory # <<>>
  /\ LET read == ReadStore
         recovered == Recover(read)
     IN  /\ recovered # Failed
         /\ recovered.generation < MaxGeneration
         /\ Cardinality(recovered.entries \cup entries) <= MaxAllocations
         /\ pc' = "ledger"
         /\ store' = read.record
         /\ ledger' = [ generation |-> recovered.generation + 1,
                        entries |-> recovered.entries \cup entries ]
         /\ published' = recovered
  /\ pending' = Nothing
  /\ todo' = LedgerSlices(ledger'.entries)
  /\ buffer' = Buffer(0, MaxPayload)
  /\ UNCHANGED <<cell, damaged, refused>>

\* write_all of one slice: counted before it is admitted, and appended whole.
WriteAll ==
  /\ pc \in {"ledger", "record"}
  /\ todo # <<>>
  /\ LET attempted == buffer.attempted + Len(Head(todo))
     IN  IF attempted > buffer.limit
         THEN Rest /\ refused' = ledger
         ELSE /\ buffer' = [ buffer EXCEPT
                               !.attempted = attempted,
                               !.units = @ \o Head(todo),
                               !.capacity =
                                 IF attempted <= @ THEN @
                                 ELSE Least(IF attempted <= 2 * @ THEN 2 * @ ELSE attempted,
                                            buffer.limit) ]
              /\ todo' = Tail(todo)
              /\ UNCHANGED <<pc, store, ledger, at, refused>>
  /\ UNCHANGED <<memory, published, pending, damaged>>

\* commit_payload_at_generation, of the exact successor only.
CommitPayload ==
  /\ pc = "ledger"
  /\ todo = <<>>
  /\ IF /\ Len(buffer.units) <= MaxPayload
        /\ store = Unset \/ (Validates(store) /\ ledger.generation = store.generation + 1)
     THEN EncodeRecord(Snapshot(ledger.generation, buffer.units)) /\ UNCHANGED <<ledger, at>>
     ELSE Rest
  /\ UNCHANGED <<memory, history>>

\* write_ledger_cell grows memory 0 for the whole cell, or is refused.
GrowCell ==
  /\ pc = "record"
  /\ todo = <<>>
  /\ LET required == 1 + Len(buffer.units)
         pages == (required + PageUnits - 1) \div PageUnits
     IN  \/ /\ pages <= MaxPages
            /\ pc' = "header"
            /\ memory' = memory \o
                 [n \in 1 .. (IF pages * PageUnits > Len(memory)
                              THEN pages * PageUnits - Len(memory) ELSE 0) |-> <<"zero">>]
            /\ UNCHANGED <<store, ledger, encoding, at>>
         \/ /\ required > Len(memory)
            /\ Rest
            /\ UNCHANGED memory
  /\ UNCHANGED history

\* Cell::new: the header with the new length first.
WriteHeader ==
  /\ pc = "header"
  /\ pc' = "value"
  /\ memory' = [memory EXCEPT ![1] = <<"cell", Len(buffer.units)>>]
  /\ pending' = ledger
  /\ UNCHANGED <<store, ledger, encoding, at, published, damaged, refused>>

\* Then the value, of which a process that ends may leave any part.
WriteUnit ==
  /\ pc = "value"
  /\ at < Len(buffer.units)
  /\ memory' = [memory EXCEPT ![2 + at] = buffer.units[at + 1]]
  /\ at' = at + 1
  /\ UNCHANGED <<pc, store, ledger, encoding, history>>

Publish ==
  /\ pc = "value"
  /\ at = Len(buffer.units)
  /\ published' = ledger
  /\ pending' = Nothing
  /\ Rest
  /\ UNCHANGED <<memory, damaged, refused>>

\* The process ends, or the owner drops the attempt after a panic.
Crash ==
  /\ pc # "idle"
  /\ Rest
  /\ UNCHANGED <<memory, history>>

\* What a unit may be damaged to: something that could stand there, or not.
Damages ==
  {<<"junk">>, <<"null">>}
    \cup { <<"cell", n>> : n \in 0 .. MaxRecord + 1 }
    \cup { <<"generation", g>> : g \in 0 .. MaxGeneration }
    \cup { <<"entry", e, 1>> : e \in Entry }

\* The backing damages one unit, once.
Damage(n, unit) ==
  /\ pc = "idle"
  /\ ~ damaged
  /\ memory' = [memory EXCEPT ![n] = unit]
  /\ damaged' = TRUE
  /\ UNCHANGED <<pc, store, ledger, encoding, at, published, pending, refused>>

Next ==
  \/ WriteRootCell
  \/ \E entries \in SUBSET Entry : CommitGeneration(entries)
  \/ WriteAll \/ CommitPayload \/ GrowCell
  \/ WriteHeader \/ WriteUnit \/ Publish
  \/ Crash
  \/ \E n \in DOMAIN memory, unit \in Damages : Damage(n, unit)

Spec == Init /\ [][Next]_vars

-----------------------------------------------------------------------------
(***************************************************************************)
(* Properties.                                                             *)
(***************************************************************************)
\* What recovery makes of the cell, at every step of a publication and after
\* any ends of the process: the ledger last published, the one whose writing
\* has begun, or an error; and without a write begun or damage done, what was
\* published and nothing else, although later publications were refused for
\* their size or for want of pages.  A mixture of two records never passes
\* for either, nor for an absent snapshot.
PublishedIsRecovered ==
  LET recovered == Recover(ReadStore)
  IN  /\ recovered \in {published, pending, Failed}
      /\ pending = Nothing /\ ~ damaged /\ memory # <<>> /\ memory[1][1] = "cell" =>
           recovered = published

\* A ledger is refused for its size exactly when its encoding is too long;
\* one that fits its payload always fits the record around it, and the buffer
\* never outgrows its limit.
EncodingIsExact ==
  LET Size(entries) == Len(FlattenSeq(LedgerSlices(entries)))
  IN  /\ refused # Nothing => Size(refused.entries) > MaxPayload
      /\ pending # Nothing => Size(pending.entries) <= MaxPayload
      /\ Len(buffer.units) <= buffer.capacity /\ buffer.capacity <= buffer.limit

\* Both, of the same publication.
PublicationIsExact == PublishedIsRecovered /\ EncodingIsExact

-----------------------------------------------------------------------------
(***************************************************************************)
(* The inductive invariant behind them, apart from the types of units.     *)
(***************************************************************************)
IsLedger(l) ==
  /\ l \in [generation : 0 .. MaxGeneration, entries : SUBSET Entry]
  /\ Cardinality(l.entries) <= MaxAllocations
  /\ l.generation = 0 => l = Genesis

Payload(entries) == FlattenSeq(LedgerSlices(entries))

Bytes(record) == FlattenSeq(RecordSlices(record))

\* The record a ledger is published in.
StoreOf(l) == IF l = Genesis THEN Unset ELSE Snapshot(l.generation, Payload(l.entries))

HasChecksum == 4 \in DOMAIN memory /\ memory[4][1] = "checksum"

\* The header of a record without a snapshot, and that record.
RootHeader == 1 \in DOMAIN memory /\ memory[1] = <<"cell", 1>>

RootValue == 2 \in DOMAIN memory /\ memory[2] = <<"null">>

LedgersInv ==
  /\ IsLedger(published) /\ IsLedger(ledger)
  /\ pending # Nothing => IsLedger(pending) /\ Len(Payload(pending.entries)) <= MaxPayload
  /\ refused # Nothing => Len(Payload(refused.entries)) > MaxPayload
  /\ pc = "idle" => ledger = Genesis
  /\ pc = "ledger" => ledger # Genesis

BufferInv ==
  /\ buffer.attempted = Len(buffer.units)
  /\ Len(buffer.units) <= buffer.capacity /\ buffer.capacity <= buffer.limit

\* What is in the buffer and what is still to be written are the whole.
EncodeInv ==
  /\ pc = "ledger" =>
       buffer.limit = MaxPayload /\ buffer.units \o FlattenSeq(todo) = Payload(ledger.entries)
  /\ pc = "record" =>
       /\ store = StoreOf(ledger)
       /\ buffer.limit = MaxRecord /\ buffer.units \o FlattenSeq(todo) = Bytes(store)
  /\ pc \in {"record", "header", "value"} => Len(Payload(ledger.entries)) <= MaxPayload

\* The cell holds the header and the units that were written.
CellInv ==
  /\ pc # "value" => at = 0
  /\ pc \in {"header", "value"} =>
       buffer.units = Bytes(StoreOf(ledger)) /\ Len(memory) >= 1 + Len(buffer.units)
  /\ pc \in {"ledger", "record", "header"} => pending = Nothing
  /\ pc = "value" =>
       /\ pending = ledger /\ at <= Len(buffer.units)
       /\ memory[1] = <<"cell", Len(buffer.units)>>
       /\ \A n \in 1 .. at : memory[1 + n] = buffer.units[n]

\* The root cell is written where nothing was published.
RootInv ==
  /\ memory = <<>> => published = Genesis /\ pending = Nothing
  /\ pc = "record" /\ ledger = Genesis => memory = <<>>
  /\ pending = Genesis \/ (pc \in {"record", "header", "value"} /\ ledger = Genesis) =>
       published = Genesis /\ ~ HasChecksum

\* A checksum in its place is that of a ledger whose publication was begun and
\* that no other has replaced.
ChecksumInv ==
  HasChecksum =>
    \E l \in {published, pending} \ {Genesis, Nothing} : memory[4] = StoreOf(l).checksum

\* Once a ledger was published the cell does not look like the root cell, and
\* it takes more than one damaged unit to make it so.
BegunInv ==
  published # Genesis \/ HasChecksum =>
    /\ ~ (RootHeader /\ RootValue)
    /\ ~ damaged => ~ RootHeader /\ ~ RootValue

IntactInv ==
  pending = Nothing /\ ~ damaged /\ memory # <<>> /\ memory[1][1] = "cell" =>
    Recover(ReadStore) = published

IInv ==
  /\ LedgersInv /\ BufferInv /\ EncodeInv /\ CellInv
  /\ RootInv /\ ChecksumInv /\ BegunInv /\ IntactInv

=============================================================================
