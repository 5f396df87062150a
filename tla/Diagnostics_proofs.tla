-------------------------- MODULE Diagnostics_proofs --------------------------
(***************************************************************************)
(* Theorems about Diagnostics: the answers that are computed beside the    *)
(* bootstrap agree with it, for every pool, key set and id range.  They    *)
(* follow from the invariants of Bootstrap_proofs; nothing here changes    *)
(* the state.                                                              *)
(***************************************************************************)
EXTENDS Diagnostics, Bootstrap_proofs

-----------------------------------------------------------------------------
(***************************************************************************)
(* What is known of a bootstrapped runtime.                                *)
(***************************************************************************)
\* The capability rests on the committed cell, which recovery accepts.
LEMMA AuthorityFacts ==
  ASSUME IInv, ClaimsInv, authority # Null
  PROVE  /\ authority \in Authority
         /\ authority.binding \in Input
         /\ authority.allocations \in Bindings
         /\ cell = Committed(witness) /\ cell.kind = "committed" /\ cell.ledger = witness
         /\ Recoverable(cell)
         /\ runtime = "bootstrapped"
BY DEF IInv, TypeOK, AuthorityIsDurable, Authority, Committed, ClaimsInv, IntegrityInv,
       Recoverable

\* Its keys are recorded at the slots the capability says, granted, in the pool.
LEMMA AllocationFacts ==
  ASSUME IInv, ClaimsInv, authority # Null, NEW k \in DOMAIN authority.allocations
  PROVE  /\ k \in AppKey
         /\ k \in DOMAIN witness.records
         /\ witness.records[k] = authority.allocations[k]
         /\ Contains(authority.binding.pool, witness.records[k])
         /\ authority.binding.pool.owner[k] \in Owner
<1>1. /\ k \in DOMAIN witness.records
      /\ witness.records[k] = authority.allocations[k]
  BY DEF IInv, AuthorityIsDurable
<1>2. authority.allocations[k] \in Slot
  BY AuthorityFacts, BindingsForm
<1>3. /\ k \in AppKey /\ authority.binding.pool.owner[k] \in Owner
      /\ authority.allocations[k] \notin authority.binding.pool.excluded
  BY DEF ClaimsInv, ConfinementInv, AuthorityIsConfined
<1>4. QED
  BY <1>1, <1>2, <1>3 DEF Contains

-----------------------------------------------------------------------------
(***************************************************************************)
(* Adoption.                                                               *)
(***************************************************************************)
\* The adoption check cannot panic, accepts only what is durable and granted
\* to the very authority, and accepts the authorities of the bound requests
\* (runtime/adoption.rs, MemoryRuntime::verify_authority).
THEOREM SoundAdoption == Spec => []AdoptionIsSound
<1>1. IInv /\ ClaimsInv => AdoptionIsSound
  <2> SUFFICES ASSUME IInv, ClaimsInv,
                      NEW requirements \in Requirements, NEW owner \in Owner
               PROVE
    LET verdict == VerifyAuthority(requirements, owner)
    IN  /\ verdict # "panic"
        /\ verdict = "ok" =>
             \A k \in DOMAIN requirements : requirements[k] = owner =>
               /\ k \in DOMAIN witness.records
               /\ Contains(authority.binding.pool, witness.records[k])
               /\ AuthorityValid(authority.binding.pool, k, owner)
        /\ authority # Null /\ requirements = authority.binding.requests
             /\ owner \in Range(requirements) => verdict = "ok"
    BY DEF AdoptionIsSound
  <2> DEFINE required == { k \in DOMAIN requirements : requirements[k] = owner }
             committed == { k \in required : k \in DOMAIN authority.allocations }
             admitted == authority.binding.pool.owner
  <2>1. CASE authority = Null
    BY <2>1 DEF VerifyAuthority
  <2>2. CASE authority # Null
    <3>1. \A k \in committed : admitted[k] # Nobody
      BY <2>2, AllocationFacts, PoolAssumption
    <3>2. VerifyAuthority(requirements, owner) = "ok" =>
            required = committed /\ \A k \in committed : admitted[k] = owner
      BY <2>2, <3>1 DEF VerifyAuthority
    <3>3. VerifyAuthority(requirements, owner) # "panic"
      BY <2>2, <3>1 DEF VerifyAuthority
    <3>4. ASSUME requirements = authority.binding.requests, owner \in Range(requirements)
          PROVE  VerifyAuthority(requirements, owner) = "ok"
      <4>1. required # {}
        BY <3>4 DEF Range
      <4>2. required = committed /\ \A k \in committed : admitted[k] = owner
        BY <2>2, <3>4 DEF ClaimsInv, ConfinementInv, AuthorityIsConfined
      <4>3. QED
        BY <2>2, <3>1, <4>1, <4>2 DEF VerifyAuthority
    <3>5. QED
      BY <2>2, <3>2, <3>3, <3>4, AllocationFacts DEF AuthorityValid
  <2>3. QED
    BY <2>1, <2>2
<1>2. QED
  BY <1>1, InductiveInvariant, ClaimsInvariant, PTL

-----------------------------------------------------------------------------
(***************************************************************************)
(* The doctor.                                                             *)
(***************************************************************************)
\* The ledger that validation starts from is the one an attempt recovers, and
\* there is none exactly where the attempt would refuse to recover.
LEMMA ValidationLedgerIsRecovered ==
  ASSUME IInv
  PROVE  IF Recoverable(cell)
         THEN ValidationLedger = RecoverOrGenesis(cell) /\ ValidationLedger # Null
         ELSE ValidationLedger = Null
<1>1. RecoverOrGenesis(cell) \in Ledger /\ Null \notin Ledger
  BY RecoverType, HostAssumption DEF IInv, TypeOK
<1>2. QED
  BY <1>1 DEF ValidationLedger, Recoverable, RecoverOrGenesis, GenesisAdmitted

\* A declared key of the arguments: governance's own or a requested one.
LEMMA DeclaredKeys ==
  ASSUME NEW records, NEW requests, NEW p
  PROVE  DOMAIN Resolved(records, requests, {}, p) = {LedgerKey} \cup DOMAIN requests
BY DEF Resolved

\* Wherever the committed ledger admits the requests, resolution from it
\* raises no claim conflict: the doctor's last check never fails on its own.
LEMMA ResolutionHasNoConflict ==
  ASSUME IInv, ClaimsInv, NEW i \in HostInput,
         RequestsAdmitted(witness, i.requests, {}, i.pool),
         NEW p \in Placements(NewKeys(witness.records, i.requests), FreeSlots(witness, i.pool))
  PROVE  \A k \in DOMAIN Resolved(witness.records, i.requests, {}, p) :
           ~ ClaimConflict(witness.records, k, Resolved(witness.records, i.requests, {}, p)[k])
<1>1. /\ witness \in Ledger /\ Injective(witness.records) /\ Reserved(witness.records)
  BY DEF IInv, TypeOK, CellInv, ClaimsInv, ClaimInv
<1>2. {} \in SUBSET AppKey /\ {} \subseteq DOMAIN witness.records
  OBVIOUS
<1>3. \A k \in {} : i.pool.owner[k] \in Owner /\ Contains(i.pool, witness.records[k])
  OBVIOUS
<1>4. QED
  BY <1>1, <1>2, <1>3, ResolutionIsAllowed

\* During an attempt: validation of its arguments passes while their
\* declarations are staged, unless the policy refuses one of them.
LEMMA StagedValidation ==
  ASSUME IInv, ClaimsInv, pc = "stage", selected = {},
         NEW refused \in SUBSET (pending \ {LedgerKey})
  PROVE  DiagnosticValidation(input, refused) = (IF refused = {} THEN "passed" ELSE "failed")
<1>1. /\ input \in HostInput
      /\ RequestsAdmitted(witness, input.requests, {}, input.pool)
      /\ CustodyHolds(witness, input.pool, populated)
  BY DEF IInv, TypeOK, ClaimsInv, DecisionInv, CustodyInv
<1>2. PICK p \in Placements(NewKeys(witness.records, input.requests),
                            FreeSlots(witness, input.pool)) :
        resolved = Resolved(witness.records, input.requests, {}, p)
  BY DEF ClaimsInv, DecisionInv
<1>3. Recoverable(cell) /\ RecoverOrGenesis(cell) = witness
  BY DEF IInv, LedgerInv, CellInv, Matches, GenesisAdmitted, Recoverable, RecoverOrGenesis,
         ClaimsInv, IntegrityInv
<1>4. ValidationLedger = witness /\ witness # Null
  BY <1>3, ValidationLedgerIsRecovered
<1>5. pending \subseteq {LedgerKey} \cup DOMAIN input.requests
  <2>1. DOMAIN resolved = {LedgerKey} \cup DOMAIN input.requests
    BY <1>2 DEF Resolved
  <2>2. QED
    BY <2>1 DEF IInv, TypeOK
<1>6. CASE refused = {}
  BY <1>1, <1>2, <1>4, <1>6, ResolutionHasNoConflict DEF DiagnosticValidation
<1>7. CASE refused # {}
  <2>1. \A q : \E k \in DOMAIN Resolved(witness.records, input.requests, {}, q) : k \in refused
    BY <1>5, <1>7, DeclaredKeys
  <2>2. QED
    BY <1>4, <1>7, <2>1 DEF DiagnosticValidation
<1>8. QED
  BY <1>6, <1>7

\* Before its resolution: validation promises no more than resolution keeps.
LEMMA PreparedValidation ==
  ASSUME IInv, ClaimsInv, pc = "prepare", DiagnosticValidation(input, {}) = "passed"
  PROVE  /\ RequestsAdmitted(ledger, input.requests, {}, input.pool)
         /\ Placements(NewKeys(ledger.records, input.requests),
                       FreeSlots(ledger, input.pool)) # {}
<1>1. Recoverable(cell) /\ RecoverOrGenesis(cell) = witness /\ ledger = witness
  BY DEF IInv, LedgerInv, CellInv, Matches, GenesisAdmitted, Recoverable, RecoverOrGenesis,
         ClaimsInv, IntegrityInv
<1>2. ValidationLedger = ledger /\ ledger # Null
  BY <1>1, ValidationLedgerIsRecovered
<1>3. QED
  BY <1>2 DEF DiagnosticValidation

\* A capability answers at most as many requests as there are ids beside
\* governance's own: distinct keys have distinct slots.
LEMMA RequestsAreFew ==
  ASSUME IInv, ClaimsInv, authority # Null
  PROVE  LET keys == DOMAIN authority.binding.requests
         IN  IsFiniteSet(keys) /\ Cardinality(keys) \in 0 .. MaxExternal
<1> DEFINE keys == DOMAIN authority.binding.requests
           slots == 1 .. LastSlot
           f == [k \in keys |-> witness.records[k]]
<1>1. \A k \in keys : k \in DOMAIN authority.allocations
  BY DEF ClaimsInv, ConfinementInv, AuthorityIsConfined
<1>2. \A k \in keys : k \in DOMAIN witness.records /\ k # LedgerKey /\ witness.records[k] \in Slot
  <2>1. witness.records \in Bindings
    BY DEF IInv, TypeOK, Ledger
  <2>2. QED
    BY <1>1, <2>1, AllocationFacts, BindingsForm, KeyAssumption
<1>3. \A k \in keys : witness.records[k] # LedgerSlot
  BY <1>2 DEF ClaimsInv, ClaimInv, Reserved
<1>4. \A k \in keys : f[k] \in slots
  BY <1>2, <1>3, BoundAssumption DEF Slot, LedgerSlot
<1>5. \A j, k \in keys : f[j] = f[k] => j = k
  BY <1>2 DEF IInv, CellInv, Injective
<1>6. f \in Injection(keys, slots)
  BY <1>4, <1>5 DEF Injection, IsInjective
<1>7. IsFiniteSet(slots) /\ Cardinality(slots) = LastSlot
  BY FS_Interval, BoundAssumption
<1>8. QED
  BY <1>6, <1>7, FS_Injection, FS_CardinalityType, BoundAssumption DEF MaxExternal

\* On the runtime an attempt published, its own arguments pass again.
LEMMA BoundValidation ==
  ASSUME IInv, ClaimsInv, authority # Null
  PROVE  DiagnosticValidation(authority.binding, {}) = "passed"
<1> DEFINE i == authority.binding
           new == NewKeys(witness.records, i.requests)
           free == FreeSlots(witness, i.pool)
<1>1. ValidationLedger = witness /\ witness # Null
  BY AuthorityFacts, ValidationLedgerIsRecovered DEF RecoverOrGenesis
<1>2. CustodyHolds(witness, i.pool, populated)
  BY DEF ClaimsInv, CustodyInv
<1>3. \A k \in DOMAIN i.requests :
        k \in DOMAIN authority.allocations /\ i.pool.owner[k] = i.requests[k]
  BY DEF ClaimsInv, ConfinementInv, AuthorityIsConfined
<1>4. RequestsAdmitted(witness, i.requests, {}, i.pool)
  <2>1. Cardinality(DOMAIN i.requests) + Cardinality({}) <= MaxExternal
    BY RequestsAreFew, FS_EmptySet, BoundAssumption DEF MaxExternal
  <2>2. QED
    BY <1>3, <2>1, AllocationFacts DEF RequestsAdmitted, AuthorityValid
<1>5. new = {}
  BY <1>3, AllocationFacts DEF NewKeys
<1>6. PICK p : p \in Placements(new, free)
  <2>1. [k \in {} |-> 0] \in [new -> free]
    BY <1>5
  <2>2. QED
    BY <1>5, <2>1 DEF Placements
<1> DEFINE r == Resolved(witness.records, i.requests, {}, p)
<1>7. /\ r[LedgerKey] = LedgerSlot
      /\ \A k \in DOMAIN i.requests : r[k] = witness.records[k] /\ k \in DOMAIN witness.records
  BY <1>3, AllocationFacts, KeyAssumption DEF Resolved
<1>8. \A k \in DOMAIN r : ~ ClaimConflict(witness.records, k, r[k])
  <2> TAKE k \in DOMAIN r
  <2>1. k = LedgerKey \/ k \in DOMAIN i.requests
    BY DeclaredKeys
  <2>2. CASE k = LedgerKey
    BY <1>7, <2>2 DEF ClaimConflict, StableKeyMoved, SlotReused, Range, Reserved,
                      ClaimsInv, ClaimInv
  <2>3. CASE k \in DOMAIN i.requests
    BY <1>7, <2>3 DEF ClaimConflict, StableKeyMoved, SlotReused
  <2>4. QED
    BY <2>1, <2>2, <2>3
<1>9. QED
  BY <1>1, <1>2, <1>4, <1>6, <1>8 DEF DiagnosticValidation

\* Between calls: no validation exactly where recovery fails, and a binding
\* that passes is durable, exported and sized as the backing is.
LEMMA IdleReport ==
  ASSUME IInv, ClaimsInv, pc = "idle", NEW i \in HostInput
  PROVE  LET report == DoctorReport(i, {})
         IN  /\ (report.validation = "not_run") <=> ~ Recoverable(cell)
             /\ report.binding = "passed" =>
                  /\ report.validation = "passed"
                  /\ report.recovery = "valid" /\ report.cell = "readable"
                  /\ Exported
                  /\ DiagnosticExport.generation = authority.generation
                  /\ DiagnosticExport.records = witness.records
                  /\ populated \ ForeignSlots
                       = { witness.records[k] : k \in DiagnosticExport.sized }
<1> DEFINE report == DoctorReport(i, {})
<1>1. (report.validation = "not_run") <=> ~ Recoverable(cell)
  BY ValidationLedgerIsRecovered DEF DoctorReport, DiagnosticValidation
<1>2. ASSUME report.binding = "passed"
      PROVE  authority # Null /\ i = authority.binding
  BY <1>2 DEF DoctorReport, DiagnosticBinding
<1>3. ASSUME authority # Null, i = authority.binding
      PROVE  /\ report.validation = "passed"
             /\ report.recovery = "valid" /\ report.cell = "readable"
             /\ Exported
             /\ DiagnosticExport.generation = authority.generation
             /\ DiagnosticExport.records = witness.records
             /\ populated \ ForeignSlots
                  = { witness.records[k] : k \in DiagnosticExport.sized }
  <2>1. report.validation = "passed"
    BY <1>3, BoundValidation DEF DoctorReport
  <2>2. cell.kind = "committed" /\ cell.ledger = witness /\ Recoverable(cell) /\ Exported
    BY <1>3, AuthorityFacts DEF Exported
  <2>3. report.recovery = "valid" /\ report.cell = "readable"
    BY <2>2 DEF DoctorReport, CommitSnapshot, StableCellStatus, GenesisAdmitted
  <2>4. DiagnosticExport.generation = authority.generation
    BY <1>3, <2>2 DEF DiagnosticExport, IInv, AuthorityIsDurable
  <2>5. /\ DiagnosticExport.records = witness.records
        /\ DiagnosticExport.sized =
             { k \in DOMAIN witness.records : witness.records[k] \in populated }
    BY <2>2 DEF DiagnosticExport
  <2>6. populated \subseteq ForeignSlots \cup Range(witness.records)
        /\ Range(witness.records) \cap ForeignSlots = {}
    BY DEF ClaimsInv, CustodyInv, PagesAreExplained, OccupiedSlots
  <2>7. populated \ ForeignSlots
          = { witness.records[k] :
                k \in { j \in DOMAIN witness.records : witness.records[j] \in populated } }
    BY <2>6 DEF Range
  <2>8. QED
    BY <2>1, <2>2, <2>3, <2>4, <2>5, <2>7
<1>4. QED
  BY <1>1, <1>2, <1>3

\* The doctor's report agrees with what bootstrap does, before, during and
\* after an attempt (testing/diagnostics.rs, doctor_report, against runtime/mod.rs).
THEOREM DoctorAgreement == Spec => []DoctorAgrees
<1>1. IInv /\ ClaimsInv => DoctorAgrees
  BY StagedValidation, PreparedValidation, IdleReport DEF DoctorAgrees
<1>2. QED
  BY <1>1, InductiveInvariant, ClaimsInvariant, PTL
=============================================================================
