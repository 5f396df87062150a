----------------------------- MODULE Diagnostics -----------------------------
(***************************************************************************)
(* What is asked of a MemoryRuntime without changing it: the ledger        *)
(* export, the adoption check of a component, and the doctor's report.     *)
(* All of them read the state of Bootstrap between its calls, and decide   *)
(* with code of their own what bootstrap decides step by step.             *)
(***************************************************************************)
EXTENDS Bootstrap

\* What a doctor may be asked about, and a component may require.
Requirements == { i.requests : i \in HostInput }

-----------------------------------------------------------------------------
(***************************************************************************)
(* commit_recovery_diagnostic, diagnostic_export.                          *)
(***************************************************************************)
\* Of a garbled cell only this much is said here: it fails as an envelope,
\* as a record, as a snapshot or as a ledger.
CommitSnapshot ==
  CASE GenesisAdmitted(cell)     -> "empty"
    [] cell.kind = "committed"   -> "valid"
    [] OTHER                     -> "failed"

\* The ledger on the backing, decoded anew, with the sizes of its memories.
Exported == runtime = "bootstrapped" /\ cell.kind = "committed" /\ Recoverable(cell)

DiagnosticExport ==
  [generation |-> cell.ledger.generation,
   records |-> cell.ledger.records,
   sized |-> { k \in DOMAIN cell.ledger.records : cell.ledger.records[k] \in populated }]

-----------------------------------------------------------------------------
(***************************************************************************)
(* verify_authority.                                                       *)
(***************************************************************************)
\* Mutant: a key that is granted counts as committed.
VerifyAuthorityMutant(requirements, owner) ==
  LET required == { k \in DOMAIN requirements : requirements[k] = owner }
      admitted == authority.binding.pool.owner
  IN  CASE authority = Null -> "not_bootstrapped"
        [] required = {} -> "unknown"
        [] authority # Null /\ \E k \in required : admitted[k] = Nobody -> "panic"
        [] authority # Null /\ \E k \in required : admitted[k] # owner -> "mismatch"
        [] OTHER -> "ok"

\* The keys that the requirements name for an authority are looked up one by
\* one: an uncommitted key is an error, a committed key without an owner in
\* the bound pool a panic, one of another owner an error.
VerifyAuthority(requirements, owner) ==
  LET required == { k \in DOMAIN requirements : requirements[k] = owner }
      committed == { k \in required : k \in DOMAIN authority.allocations }
      admitted == authority.binding.pool.owner
  IN  CASE authority = Null -> "not_bootstrapped"
        [] authority # Null /\ \E k \in committed : admitted[k] = Nobody -> "panic"
        [] authority # Null /\ required # committed -> "not_committed"
        [] authority # Null /\ \E k \in committed : admitted[k] # owner -> "mismatch"
        [] authority # Null /\ required = {} -> "unknown"
        [] OTHER -> "ok"

-----------------------------------------------------------------------------
(***************************************************************************)
(* The doctor: stable cell, recovery, binding and validation.              *)
(***************************************************************************)
StableCellStatus ==
  CASE cell.kind = "absent"                  -> "empty"
    [] cell.kind \in {"unset", "committed"}  -> "readable"
    [] OTHER                                 -> "corrupt or readable"

\* diagnostic_validation_ledger: the recovered ledger, genesis for a store
\* without a snapshot, or nothing to validate against.
ValidationLedger ==
  CASE cell.kind = "committed" /\ Recoverable(cell) -> cell.ledger
    [] GenesisAdmitted(cell) -> Genesis
    [] OTHER -> Null

\* Mutant: the declarations are checked without the records of the ledger.
DiagnosticValidationMutant(i, refused) ==
  CASE ValidationLedger = Null -> "not_run"
    [] ~ RequestsAdmitted(Genesis, i.requests, {}, i.pool) -> "failed"
    [] Placements(DOMAIN i.requests, FreeSlots(Genesis, i.pool)) = {} -> "failed"
    [] DOMAIN i.requests \cap refused # {} -> "failed"
    [] OTHER -> "passed"

\* diagnostic_validation, with the keys that the tested policy refuses.
\* Custody, resolution and the check of every declaration against the ledger
\* as it was recovered; nothing is prepared and nothing is staged.
DiagnosticValidation(i, refused) ==
  LET ledger0 == ValidationLedger
      placed == Placements(NewKeys(ledger0.records, i.requests), FreeSlots(ledger0, i.pool))
      declared(p) == Resolved(ledger0.records, i.requests, {}, p)
  IN  IF ledger0 = Null
      THEN "not_run"
      ELSE IF /\ CustodyHolds(ledger0, i.pool, populated)
              /\ RequestsAdmitted(ledger0, i.requests, {}, i.pool)
              /\ \E p \in placed : \A k \in DOMAIN declared(p) :
                   /\ k \notin refused
                   /\ ~ ClaimConflict(ledger0.records, k, declared(p)[k])
      THEN "passed"
      ELSE "failed"

\* diagnostic_bootstrap_binding
DiagnosticBinding(i) ==
  CASE authority = Null -> "not_run"
    [] authority # Null /\ i = authority.binding -> "passed"
    [] OTHER -> "failed"

DoctorReport(i, refused) ==
  [bootstrapped |-> runtime = "bootstrapped",
   cell |-> StableCellStatus,
   recovery |-> CommitSnapshot,
   binding |-> DiagnosticBinding(i),
   validation |-> DiagnosticValidation(i, refused)]

-----------------------------------------------------------------------------
(***************************************************************************)
(* Properties.                                                             *)
(***************************************************************************)
\* verify_authority never meets a committed key without an owner, on which it
\* would panic.  What it accepts is durable, in the pool and granted to the
\* very authority; and it accepts every authority of the bound requests.
AdoptionIsSound ==
  \A requirements \in Requirements, owner \in Owner :
    LET verdict == VerifyAuthority(requirements, owner)
    IN  /\ verdict # "panic"
        /\ verdict = "ok" =>
             \A k \in DOMAIN requirements : requirements[k] = owner =>
               /\ k \in DOMAIN witness.records
               /\ Contains(authority.binding.pool, witness.records[k])
               /\ AuthorityValid(authority.binding.pool, k, owner)
        /\ authority # Null /\ requirements = authority.binding.requests
             /\ owner \in Range(requirements) => verdict = "ok"

\* The doctor says of the bytes what bootstrap makes of them.  While an
\* attempt without selections is staging, and on the runtime it publishes,
\* the doctor's validation of the same arguments passes, and fails with a
\* policy that refuses a key still to be staged; it does not run where the
\* attempt would refuse to recover; and it says "passed" of no arguments
\* whose resolution the attempt that is preparing would refuse.
DoctorAgrees ==
  /\ pc = "stage" /\ selected = {} =>
       \A refused \in SUBSET (pending \ {LedgerKey}) :
         DiagnosticValidation(input, refused) = (IF refused = {} THEN "passed" ELSE "failed")
  /\ pc = "prepare" /\ DiagnosticValidation(input, {}) = "passed" =>
       /\ RequestsAdmitted(ledger, input.requests, {}, input.pool)
       /\ Placements(NewKeys(ledger.records, input.requests), FreeSlots(ledger, input.pool)) # {}
  /\ pc = "idle" => \A i \in HostInput :
       LET report == DoctorReport(i, {})
       IN  /\ (report.validation = "not_run") <=> ~ Recoverable(cell)
           /\ report.binding = "passed" =>
                /\ report.validation = "passed"
                /\ report.recovery = "valid" /\ report.cell = "readable"
                /\ Exported
                /\ DiagnosticExport.generation = authority.generation
                /\ DiagnosticExport.records = witness.records
                /\ populated \ ForeignSlots
                     = { witness.records[k] : k \in DiagnosticExport.sized }

=============================================================================
