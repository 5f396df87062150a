-------------------------- MODULE OwnershipContract --------------------------
(***************************************************************************)
(* What ic-memory promises the owner of stable data, with everything about *)
(* cells, attempts, policies and faults left out: a registry in which a    *)
(* stable key, once bound to a slot, owns that slot for ever, and a view   *)
(* through which an application reaches only bindings of the registry.     *)
(***************************************************************************)
EXTENDS AllocationLedger

CONSTANT Null

VARIABLES
  registry,   \* the committed ledger
  view        \* the bindings an application may open, or Null

contractVars == <<registry, view>>

View == [allocations : Bindings, generation : 0 .. MaxGeneration]

SubBindings(some, all) ==
  DOMAIN some \subseteq DOMAIN all /\ \A k \in DOMAIN some : some[k] = all[k]

\* The only way a registry changes: one generation on, every binding kept,
\* no slot under two keys.
Advances(from, to) ==
  /\ to.generation = from.generation + 1
  /\ SubBindings(from.records, to.records)
  /\ Injective(to.records)

\* A view of a registry: some of its application bindings, at its generation.
ViewOf(v, from) ==
  /\ v.generation = from.generation
  /\ SubBindings(v.allocations, from.records)
  /\ LedgerKey \notin DOMAIN v.allocations

ContractInit == registry = Genesis /\ view = Null

\* A generation becomes durable before anybody can use it ...
Commit ==
  /\ view = Null
  /\ registry' \in Ledger
  /\ Advances(registry, registry')
  /\ UNCHANGED view

\* ... or together with the view, when one message does both.
Publish ==
  /\ view = Null
  /\ registry' = registry \/ (registry' \in Ledger /\ Advances(registry, registry'))
  /\ view' \in View
  /\ ViewOf(view', registry')

\* The runtime goes away; the registry does not.
Revoke ==
  /\ view' = Null
  /\ UNCHANGED registry

ContractNext == Commit \/ Publish \/ Revoke

ContractSpec == ContractInit /\ [][ContractNext]_contractVars
=============================================================================
