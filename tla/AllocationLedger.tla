-------------------------- MODULE AllocationLedger --------------------------
(***************************************************************************)
(* The allocation ledger of ic-memory: which stable key owns which memory  *)
(* manager id, for ever.  Values and operators only; the state machines    *)
(* that recover, stage and persist a ledger extend this module.            *)
(*                                                                         *)
(* A stable key is represented by its rank in the canonical key order, the *)
(* order in which bootstrap resolves and stages declarations, so keys are  *)
(* naturals and "the next declaration" is the least one.  A slot is a      *)
(* manager id.  The records of a ledger are a function from key to slot: a *)
(* record list with a repeated key is not a ledger, and a cell that holds  *)
(* one recovers as garbled (integrity.rs).                                 *)
(***************************************************************************)
EXTENDS Integers, FiniteSets, Functions

CONSTANTS
  AppKey,         \* stable keys applications may declare
  LedgerKey,      \* ic_memory.ledger.v1, governance's own key
  LastSlot,       \* greatest usable manager id (254 in the code)
  MaxGeneration   \* greatest generation of the counter's width (2^64 - 1)

ASSUME KeyAssumption ==
  /\ AppKey \subseteq Nat
  /\ LedgerKey \in Nat \ AppKey

ASSUME BoundAssumption ==
  /\ LastSlot \in Nat
  /\ MaxGeneration \in Nat \ {0}

StableKey == AppKey \cup {LedgerKey}

Slot == 0 .. LastSlot

LedgerSlot == 0

\* Both limits of the code follow from the id range: 255 records in a ledger,
\* 254 external declarations beside governance's own.
MaxAllocations == LastSlot + 1
MaxExternal == LastSlot

Bindings == UNION { [D -> Slot] : D \in SUBSET StableKey }

Ledger == [generation : 0 .. MaxGeneration, records : Bindings]

NoBindings == [k \in {} |-> LedgerSlot]

Genesis == [generation |-> 0, records |-> NoBindings]

OccupiedSlots(ledger) == Range(ledger.records)

\* Mutants, here and in the other modules, change the definition after them
\* the way a plausible bug would.  No specification uses them.
(***************************************************************************)
(* Claims.  A declaration claims a slot for a key: an existing record must *)
(* agree, and a new key must not take a slot some record holds.            *)
(***************************************************************************)
StableKeyMoved(records, k, s) == k \in DOMAIN records /\ records[k] # s

SlotReused(records, k, s) == k \notin DOMAIN records /\ s \in Range(records)

ClaimConflict(records, k, s) ==
  StableKeyMoved(records, k, s) \/ SlotReused(records, k, s)

\* The records after an admitted claim: a new record is appended, an
\* existing one stays as it is.
WithClaim(records, k, s) ==
  [j \in DOMAIN records \cup {k} |-> IF j \in DOMAIN records THEN records[j] ELSE s]

(***************************************************************************)
(* Integrity of a ledger that is about to be used or persisted.            *)
(***************************************************************************)
Injective(records) ==
  \A j, k \in DOMAIN records : records[j] = records[k] => j = k

Bounded(ledger) == Cardinality(DOMAIN ledger.records) <= MaxAllocations

Integral(ledger) ==
  /\ Bounded(ledger)
  /\ Injective(ledger.records)
  /\ ledger.generation = 0 => DOMAIN ledger.records = {}

\* Mutant: the successor is taken without a check.
GenerationOverflowsMutant(ledger) == FALSE

GenerationOverflows(ledger) == ledger.generation = MaxGeneration

\* Mutant: a cold bootstrap advances the counter twice.
NextGenerationMutant(ledger) == [ledger EXCEPT !.generation = @ + 2]

NextGeneration(ledger) == [ledger EXCEPT !.generation = @ + 1]

(***************************************************************************)
(* The durable cell: stable memory 0, one stable-structures Cell holding   *)
(* the commit store.  "absent" is a memory of no pages, "blank" one that   *)
(* was grown and never written, "unset" a cell whose commit store holds no *)
(* snapshot, "committed" a snapshot whose marker, checksum and payload are *)
(* sound, and "garbled" anything else.                                     *)
(***************************************************************************)
CellKind == {"absent", "blank", "unset", "committed", "garbled"}

Cell == [kind : CellKind, ledger : Ledger]

EmptyCell(kind) == [kind |-> kind, ledger |-> Genesis]

Committed(ledger) == [kind |-> "committed", ledger |-> ledger]

\* Mutant: whatever is not a sound snapshot counts as no snapshot.
GenesisAdmittedMutant(cell) == cell.kind # "committed"

\* Only a store without a snapshot may start a history.
GenesisAdmitted(cell) == cell.kind \in {"absent", "unset"}

Recoverable(cell) ==
  \/ GenesisAdmitted(cell)
  \/ cell.kind = "committed" /\ Integral(cell.ledger)

RecoverOrGenesis(cell) == IF cell.kind = "committed" THEN cell.ledger ELSE Genesis

\* A store that holds a snapshot accepts its exact successor only; one that
\* holds none accepts any generation.
CommitAdmitted(cell, ledger) ==
  /\ Integral(ledger)
  /\ cell.kind = "committed" => ledger.generation = cell.ledger.generation + 1
=============================================================================
