--------------------------- MODULE AllocationPool ---------------------------
(***************************************************************************)
(* The host's side of an allocation decision: the pool (namespace grants   *)
(* and excluded ids), the sealed request snapshot, and the resolution of   *)
(* requests to slots against a recovered ledger.                           *)
(*                                                                         *)
(* Grants name disjoint key prefixes, so at most one grant governs a key:  *)
(* a pool maps each key to the owner of its governing grant, or to Nobody. *)
(* A request snapshot has one request per key, so it is a function from    *)
(* the requested keys to the authorities that request them.                *)
(***************************************************************************)
EXTENDS AllocationLedger

CONSTANTS
  Owner,        \* authorities that own namespaces
  Nobody,       \* owner of a key no grant governs
  Governance,   \* ids reserved to governance (0..9 in the code)
  PolicyId,     \* identity tokens of host policies
  HostInput     \* the bootstrap arguments the host may pass

Pool == [owner : [AppKey -> Owner \cup {Nobody}], excluded : SUBSET Slot]

Requests == UNION { [D -> Owner] : D \in SUBSET AppKey }

Input == [requests : Requests, pool : Pool, policy : PolicyId]

ASSUME PoolAssumption ==
  /\ Nobody \notin Owner
  /\ Governance \subseteq Slot
  /\ LedgerSlot \in Governance

ASSUME InputAssumption ==
  /\ HostInput \subseteq Input
  /\ \A i \in HostInput : Governance \subseteq i.pool.excluded

Contains(pool, s) == s \in Slot \ pool.excluded

AuthorityValid(pool, k, owner) == k \in AppKey /\ pool.owner[k] = owner

(***************************************************************************)
(* Resolution.  A recorded key keeps its slot.  The requested keys without *)
(* a record take ids of the pool that no record holds, the least id first, *)
(* in key order; keys selected from history are recorded already.          *)
(***************************************************************************)
NewKeys(records, requests) == DOMAIN requests \ DOMAIN records

\* Mutant: ids of omitted keys count as free.
FreeSlotsMutant(ledger, pool) == { s \in Slot : Contains(pool, s) }

FreeSlots(ledger, pool) == { s \in Slot : Contains(pool, s) } \ OccupiedSlots(ledger)

\* The one placement the id iterator makes: increasing in the key, and
\* passing over no free id below one that it hands out.
Placements(new, free) ==
  { p \in [new -> free] :
      /\ \A j, k \in new : j < k => p[j] < p[k]
      /\ \A s \in free, k \in new : s < p[k] => \E j \in new : p[j] = s }

\* Mutant: a recorded slot is trusted although the pool excludes it now.
RequestsAdmittedMutant(ledger, requests, selected, pool) ==
  /\ Cardinality(DOMAIN requests) + Cardinality(selected) <= MaxExternal
  /\ \A k \in DOMAIN requests : AuthorityValid(pool, k, requests[k])

RequestsAdmitted(ledger, requests, selected, pool) ==
  /\ Cardinality(DOMAIN requests) + Cardinality(selected) <= MaxExternal
  /\ \A k \in DOMAIN requests :
        /\ AuthorityValid(pool, k, requests[k])
        /\ k \in DOMAIN ledger.records => Contains(pool, ledger.records[k])

Resolved(records, requests, selected, placement) ==
  [k \in {LedgerKey} \cup DOMAIN requests \cup selected |->
     IF k = LedgerKey THEN LedgerSlot
     ELSE IF k \in DOMAIN records THEN records[k] ELSE placement[k]]

(***************************************************************************)
(* Custody: an id of the pool that holds pages must be explained by a      *)
(* record, or the whole attempt is refused.                                *)
(***************************************************************************)
\* Mutant: a backing without history is taken to hold no pages.
CustodyHoldsMutant(ledger, pool, populated) ==
  \A s \in populated : Contains(pool, s) /\ ledger # Genesis => s \in OccupiedSlots(ledger)

CustodyHolds(ledger, pool, populated) ==
  \A s \in populated : Contains(pool, s) => s \in OccupiedSlots(ledger)
=============================================================================
