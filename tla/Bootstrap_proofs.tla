--------------------------- MODULE Bootstrap_proofs ---------------------------
(***************************************************************************)
(* Theorems about Bootstrap, for every pool, key set, id range and width   *)
(* of the generation counter, on both kinds of host.                       *)
(***************************************************************************)
EXTENDS Bootstrap, FiniteSetTheorems, TLAPS

-----------------------------------------------------------------------------
(***************************************************************************)
(* Facts about ledgers.                                                    *)
(***************************************************************************)
\* Bindings are the functions from a set of keys to slots.
LEMMA BindingsForm ==
  ASSUME NEW r
  PROVE  r \in Bindings <=> DOMAIN r \subseteq StableKey /\ r \in [DOMAIN r -> Slot]
BY DEF Bindings

LEMMA LedgerSlotIsSlot == LedgerSlot \in Slot
BY BoundAssumption DEF LedgerSlot, Slot

LEMMA NoBindingsType == NoBindings \in Bindings /\ DOMAIN NoBindings = {}
<1>1. DOMAIN NoBindings = {} /\ NoBindings \in [DOMAIN NoBindings -> Slot]
  BY DEF NoBindings
<1>2. QED
  BY <1>1, BindingsForm

LEMMA GenesisType ==
  /\ Genesis \in Ledger
  /\ Genesis.records = NoBindings
  /\ Genesis.generation = 0
BY NoBindingsType, BoundAssumption DEF Genesis, Ledger

LEMMA EmptyCellType ==
  ASSUME NEW kind \in CellKind
  PROVE  EmptyCell(kind) \in Cell
BY GenesisType DEF EmptyCell, Cell

\* An admitted claim keeps the records well formed.
LEMMA WithClaimType ==
  ASSUME NEW r \in Bindings, NEW k \in StableKey, NEW s \in Slot
  PROVE  WithClaim(r, k, s) \in Bindings
<1>1. DOMAIN r \subseteq StableKey /\ r \in [DOMAIN r -> Slot]
  BY BindingsForm
<1>2. /\ DOMAIN WithClaim(r, k, s) = DOMAIN r \cup {k}
      /\ WithClaim(r, k, s) \in [DOMAIN r \cup {k} -> Slot]
  BY <1>1 DEF WithClaim
<1>3. QED
  BY <1>1, <1>2, BindingsForm

\* An admitted claim extends the records, answers the claim, and never puts
\* one slot under two keys.
LEMMA WithClaimExtends ==
  ASSUME NEW r \in Bindings, NEW k \in StableKey, NEW s \in Slot,
         ~ ClaimConflict(r, k, s), Injective(r)
  PROVE  /\ Contract!SubBindings(r, WithClaim(r, k, s))
         /\ k \in DOMAIN WithClaim(r, k, s)
         /\ WithClaim(r, k, s)[k] = s
         /\ Injective(WithClaim(r, k, s))
<1> DEFINE w == WithClaim(r, k, s)
<1>1. /\ DOMAIN w = DOMAIN r \cup {k}
      /\ \A j \in DOMAIN r : w[j] = r[j]
  BY DEF WithClaim
<1>2. w[k] = s
  BY DEF WithClaim, ClaimConflict, StableKeyMoved
<1>3. k \notin DOMAIN r => \A j \in DOMAIN r : r[j] # s
  BY DEF ClaimConflict, SlotReused, Range
<1>4. Injective(w)
  <2> SUFFICES ASSUME NEW i \in DOMAIN w, NEW j \in DOMAIN w, w[i] = w[j]
               PROVE  i = j
    BY DEF Injective
  <2>1. CASE i \in DOMAIN r /\ j \in DOMAIN r
    BY <1>1, <2>1 DEF Injective
  <2>2. CASE i \notin DOMAIN r \/ j \notin DOMAIN r
    BY <1>1, <1>2, <1>3, <2>2
  <2>3. QED
    BY <2>1, <2>2
<1>5. QED
  BY <1>1, <1>2, <1>4 DEF Contract!SubBindings

LEMMA SubBindingsTransitive ==
  ASSUME NEW f, NEW g, NEW h,
         Contract!SubBindings(f, g), Contract!SubBindings(g, h)
  PROVE  Contract!SubBindings(f, h)
BY DEF Contract!SubBindings

\* The contract's values are the bootstrap's.
LEMMA ContractValues == Contract!Bindings = Bindings /\ Contract!Ledger = Ledger
<1>1. Contract!Bindings = Bindings
  BY DEF Contract!Bindings, Bindings, Contract!StableKey, StableKey, Contract!Slot, Slot
<1>2. QED
  BY <1>1 DEF Contract!Ledger, Ledger

LEMMA AdvancesInjective ==
  ASSUME NEW from, NEW to
  PROVE  Contract!Advances(from, to) <=>
           /\ to.generation = from.generation + 1
           /\ Contract!SubBindings(from.records, to.records)
           /\ Injective(to.records)
BY DEF Contract!Advances, Contract!Injective, Injective

LEMMA CommittedType ==
  ASSUME NEW l \in Ledger
  PROVE  /\ Committed(l) \in Cell
         /\ Committed(l).kind = "committed"
         /\ Committed(l).ledger = l
BY DEF Committed, Cell, CellKind

LEMMA NextGenerationType ==
  ASSUME NEW l \in Ledger, ~ GenerationOverflows(l)
  PROVE  /\ NextGeneration(l) \in Ledger
         /\ NextGeneration(l).generation = l.generation + 1
         /\ NextGeneration(l).records = l.records
BY BoundAssumption DEF NextGeneration, Ledger, GenerationOverflows

LEMMA RecoverType ==
  ASSUME NEW c \in Cell
  PROVE  RecoverOrGenesis(c) \in Ledger
BY GenesisType DEF RecoverOrGenesis, Cell

\* Resolution gives every declared key a slot.
LEMMA ResolvedType ==
  ASSUME NEW i \in Input, NEW l \in Ledger, NEW sel,
         sel \subseteq AppKey, sel \subseteq DOMAIN l.records,
         NEW p \in Placements(NewKeys(l.records, i.requests), FreeSlots(l, i.pool))
  PROVE  LET r == Resolved(l.records, i.requests, sel, p)
         IN  /\ r \in Bindings
             /\ DOMAIN r = {LedgerKey} \cup DOMAIN i.requests \cup sel
<1> DEFINE new == NewKeys(l.records, i.requests)
           r == Resolved(l.records, i.requests, sel, p)
           keys == {LedgerKey} \cup DOMAIN i.requests \cup sel
<1>1. p \in [new -> FreeSlots(l, i.pool)]
  BY DEF Placements
<1>2. \A k \in new : p[k] \in Slot
  BY <1>1 DEF FreeSlots
<1>3. l.records \in Bindings
  BY DEF Ledger
<1>4. \A k \in DOMAIN l.records : l.records[k] \in Slot
  BY <1>3, BindingsForm
<1>5. DOMAIN i.requests \subseteq AppKey
  BY DEF Input, Requests
<1>6. DOMAIN r = keys
  BY DEF Resolved
<1>7. \A k \in keys : r[k] \in Slot
  <2> TAKE k \in keys
  <2>1. CASE k = LedgerKey
    BY <2>1, LedgerSlotIsSlot DEF Resolved
  <2>2. CASE k # LedgerKey /\ k \in DOMAIN l.records
    BY <2>2, <1>4 DEF Resolved
  <2>3. CASE k # LedgerKey /\ k \notin DOMAIN l.records
    <3>1. k \in new
      BY <2>3 DEF NewKeys
    <3>2. r[k] = p[k]
      BY <2>3 DEF Resolved
    <3>3. QED
      BY <3>1, <3>2, <1>2
  <2>4. QED
    BY <2>1, <2>2, <2>3
<1>8. r \in [keys -> Slot]
  BY <1>6, <1>7 DEF Resolved
<1>9. keys \subseteq StableKey
  BY <1>5 DEF StableKey
<1>10. QED
  BY <1>6, <1>8, <1>9, BindingsForm

-----------------------------------------------------------------------------
(***************************************************************************)
(* The inductive invariant: initially, and after each action.              *)
(***************************************************************************)
LEMMA InitIInv == Init => IInv
<1> SUFFICES ASSUME Init PROVE IInv
  OBVIOUS
<1> USE DEF Init, IdleFrame
<1>1. /\ cell \in Cell
      /\ GenesisAdmitted(cell) => witness = Genesis
      /\ cell.kind # "committed"
  BY EmptyCellType DEF EmptyCell, GenesisAdmitted, CellKind
<1>2. TypeOK
  BY <1>1, NoBindingsType, GenesisType, EmptyCellType, HostAssumption
     DEF TypeOK, Step, CellKind
<1>3. CellInv
  BY <1>1, NoBindingsType, GenesisType DEF CellInv, Matches, Injective
<1>4. LedgerInv /\ TargetInv
  BY DEF LedgerInv, TargetInv
<1>5. StagedInv
  BY NoBindingsType DEF StagedInv
<1>6. QED
  BY <1>2, <1>3, <1>4, <1>5 DEF IInv, AuthorityIsDurable

\* What every exit establishes about the frame.
LEMMA LeaveFrame ==
  ASSUME NEW result \in {"none", "ok", "error", "fault"}, Leave(result)
  PROVE  /\ pc' = "idle"
         /\ outcome' = result
         /\ IdleFrame'
         /\ ledger' \in Ledger
         /\ selected' \subseteq AppKey
         /\ poisoned' \in BOOLEAN
         /\ resolved' \in Bindings
         /\ pending' \subseteq DOMAIN resolved'
         /\ target' \in Cell
         /\ saved' \in Cell
         /\ LedgerInv' /\ StagedInv' /\ TargetInv'
<1> USE DEF Leave
<1>1. /\ ledger' \in Ledger /\ target' \in Cell /\ saved' \in Cell
      /\ resolved' \in Bindings /\ DOMAIN resolved' = {}
  BY NoBindingsType, GenesisType, EmptyCellType DEF CellKind
<1>2. LedgerInv' /\ TargetInv'
  BY DEF LedgerInv, TargetInv
<1>3. StagedInv'
  BY <1>1 DEF StagedInv
<1>4. QED
  BY <1>1, <1>2, <1>3 DEF IdleFrame

\* An error return keeps the invariant wherever no committed store is
\* waiting to be published.
LEMMA RefuseKeeps ==
  ASSUME IInv, Refuse, pc # "publish", authority = Null
  PROVE  IInv'
<1> USE DEF IInv, Refuse
<1>1. Leave("error") /\ UNCHANGED <<durable, runtime, authority, witness>>
  OBVIOUS
<1>2. TypeOK'
  BY <1>1, LeaveFrame DEF TypeOK, durable, Step
<1>3. CellInv'
  BY <1>1, LeaveFrame DEF CellInv, Matches, GenesisAdmitted, durable
<1>4. QED
  BY <1>1, <1>2, <1>3, LeaveFrame DEF AuthorityIsDurable

\* A fault that undoes nothing (a caught or fatal panic).
LEMMA PanicKeeps ==
  ASSUME IInv, Panic
  PROVE  IInv'
<1> USE DEF IInv, Panic
<1>1. Leave("fault") /\ authority = Null
  BY DEF TypeOK
<1>2. TypeOK'
  BY <1>1, LeaveFrame DEF TypeOK, durable, Step
<1>3. CellInv'
  BY <1>1, LeaveFrame DEF CellInv, Matches, GenesisAdmitted, durable
<1>4. QED
  BY <1>1, <1>2, <1>3, LeaveFrame DEF AuthorityIsDurable

\* A trap puts back the cell of the attempt's beginning.
LEMMA TrapKeeps ==
  ASSUME IInv, Trap
  PROVE  IInv'
<1> USE DEF IInv, Trap
<1>1. Leave("fault") /\ authority = Null
  BY DEF TypeOK
<1>2. TypeOK'
  BY <1>1, LeaveFrame DEF TypeOK, Step
<1>3. CellInv'
  BY <1>1, LeaveFrame DEF CellInv, Matches, GenesisAdmitted
<1>4. QED
  BY <1>1, <1>2, <1>3, LeaveFrame DEF AuthorityIsDurable

LEMMA ConstructKeeps ==
  ASSUME IInv, Construct
  PROVE  IInv'
<1> USE DEF IInv, Construct, durable, frame
<1>1. TypeOK'
  BY DEF TypeOK, IdleFrame
<1>2. CellInv' /\ LedgerInv' /\ StagedInv' /\ TargetInv' /\ AuthorityIsDurable'
  BY DEF CellInv, LedgerInv, StagedInv, TargetInv, AuthorityIsDurable, Matches,
         GenesisAdmitted
<1>3. QED
  BY <1>1, <1>2

LEMMA RestartKeeps ==
  ASSUME IInv, Restart
  PROVE  IInv'
<1> USE DEF IInv, Restart, durable, frame
<1>1. TypeOK'
  BY DEF TypeOK, IdleFrame
<1>2. CellInv' /\ LedgerInv' /\ StagedInv' /\ TargetInv' /\ AuthorityIsDurable'
  BY DEF CellInv, LedgerInv, StagedInv, TargetInv, AuthorityIsDurable, Matches,
         GenesisAdmitted
<1>3. QED
  BY <1>1, <1>2

LEMMA WarmBootstrapKeeps ==
  ASSUME IInv, NEW i \in HostInput, WarmBootstrap(i)
  PROVE  IInv'
<1> USE DEF IInv, WarmBootstrap, durable, frame
<1>1. TypeOK'
  BY DEF TypeOK, IdleFrame
<1>2. CellInv' /\ LedgerInv' /\ StagedInv' /\ TargetInv' /\ AuthorityIsDurable'
  BY DEF CellInv, LedgerInv, StagedInv, TargetInv, AuthorityIsDurable, Matches,
         GenesisAdmitted
<1>3. QED
  BY <1>1, <1>2

LEMMA PopulateKeeps ==
  ASSUME IInv, NEW k \in AppKey, Populate(k)
  PROVE  IInv'
<1> USE DEF IInv, Populate, durable, frame
<1>1. authority \in Authority /\ authority.allocations \in Bindings
  BY DEF TypeOK, Authority
<1>2. authority.allocations[k] \in Slot
  BY <1>1, BindingsForm
<1>3. TypeOK'
  BY <1>2 DEF TypeOK, IdleFrame
<1>4. CellInv' /\ LedgerInv' /\ StagedInv' /\ TargetInv' /\ AuthorityIsDurable'
  BY DEF CellInv, LedgerInv, StagedInv, TargetInv, AuthorityIsDurable, Matches,
         GenesisAdmitted
<1>5. QED
  BY <1>3, <1>4

LEMMA IncludeHistoricalKeeps ==
  ASSUME IInv, NEW k \in StableKey, NEW owner \in Owner, IncludeHistorical(k, owner)
  PROVE  IInv'
<1> USE DEF IInv, IncludeHistorical, durable, frame
<1>1. /\ selected' \subseteq AppKey
      /\ selected' \subseteq DOMAIN ledger.records
      /\ poisoned' \in BOOLEAN
  BY DEF TypeOK, StagedInv, Selectable
<1>2. TypeOK'
  BY <1>1 DEF TypeOK, IdleFrame
<1>3. StagedInv'
  BY <1>1 DEF StagedInv
<1>4. CellInv' /\ LedgerInv' /\ TargetInv' /\ AuthorityIsDurable'
  BY DEF CellInv, LedgerInv, TargetInv, AuthorityIsDurable, Matches, GenesisAdmitted
<1>5. QED
  BY <1>2, <1>3, <1>4

\* A cold attempt starts from exactly the committed ledger: the cell tells it,
\* or says that there is none.
LEMMA ColdBootstrapKeeps ==
  ASSUME IInv, NEW i \in HostInput, ColdBootstrap(i)
  PROVE  IInv'
<1> USE DEF ColdBootstrap
<1>1. authority = Null
  BY DEF IInv, TypeOK
<1>2. CASE Refuse
  BY <1>1, <1>2, RefuseKeeps
<1>3. CASE ~ Refuse
  <2> USE DEF durable
  <2>1. cell \in Cell /\ IdleFrame /\ TypeOK
    BY DEF IInv, TypeOK
  <2>2. RecoverOrGenesis(cell) \in Ledger
    BY <2>1, RecoverType
  <2>3. Matches(cell) /\ RecoverOrGenesis(cell) = witness
    BY <1>3 DEF IInv, CellInv, Matches, Recoverable, RecoverOrGenesis
  <2>4. target' \in Cell
    BY <1>3, <2>1, EmptyCellType DEF TypeOK, CellKind
  <2>5. TypeOK'
    BY <1>1, <1>3, <2>1, <2>2, <2>4 DEF TypeOK, Step, IdleFrame
  <2>6. CellInv'
    BY <1>3, <2>3 DEF IInv, CellInv, Matches, GenesisAdmitted
  <2>7. LedgerInv'
    <3>1. pc' \in {"reserve", "prepare"} /\ ledger' = witness' /\ cell' = cell
      BY <1>3, <2>3
    <3>2. pc' = "prepare" => cell.kind \in {"unset", "committed"}
      BY <1>3 DEF Recoverable, GenesisAdmitted
    <3>3. Contract!SubBindings(witness'.records, witness'.records)
      BY DEF Contract!SubBindings
    <3>4. QED
      BY <2>6, <3>1, <3>2, <3>3 DEF LedgerInv, CellInv
  <2>8. StagedInv'
    BY <1>3, <2>1, NoBindingsType DEF StagedInv, IdleFrame
  <2>9. TargetInv'
    BY <1>3, <2>3 DEF TargetInv, Matches, GenesisAdmitted, RecoverOrGenesis
  <2>10. QED
    BY <1>1, <1>3, <2>5, <2>6, <2>7, <2>8, <2>9 DEF IInv, AuthorityIsDurable
<1>4. QED
  BY <1>2, <1>3

LEMMA ReserveCellKeeps ==
  ASSUME IInv, ReserveCell
  PROVE  IInv'
<1> USE DEF ReserveCell
<1>1. authority = Null /\ pc = "reserve"
  BY DEF IInv, TypeOK
<1>2. CASE Refuse
  BY <1>1, <1>2, RefuseKeeps
<1>3. CASE ~ Refuse
  <2> USE DEF frame
  <2>1. /\ cell' \in Cell
        /\ cell' = cell \/ cell' = EmptyCell("blank")
        /\ pc' = "header"
    BY <1>3, EmptyCellType DEF IInv, TypeOK, CellKind
  <2>2. TypeOK'
    BY <1>1, <1>3, <2>1 DEF IInv, TypeOK, Step, IdleFrame
  <2>3. Matches(cell)'
    BY <1>1, <1>3, <2>1 DEF IInv, CellInv, Matches, GenesisAdmitted, EmptyCell
  <2>4. CellInv'
    BY <1>1, <1>3, <2>1, <2>3 DEF IInv, CellInv, Matches, GenesisAdmitted
  <2>5. LedgerInv' /\ StagedInv' /\ TargetInv'
    BY <1>1, <1>3, <2>1 DEF IInv, LedgerInv, StagedInv, TargetInv
  <2>6. QED
    BY <1>1, <1>3, <2>2, <2>4, <2>5 DEF IInv, AuthorityIsDurable
<1>4. QED
  BY <1>2, <1>3

LEMMA WriteHeaderKeeps ==
  ASSUME IInv, WriteHeader
  PROVE  IInv'
<1> USE DEF WriteHeader, frame
<1>1. authority = Null
  BY DEF IInv, TypeOK
<1>2. /\ cell' \in Cell
      /\ cell' = cell \/ cell' = EmptyCell("garbled")
  BY EmptyCellType DEF IInv, TypeOK, CellKind, HeaderOutcomes
<1>3. TypeOK'
  BY <1>1, <1>2 DEF IInv, TypeOK, Step, IdleFrame
<1>4. Matches(cell)'
  BY <1>2 DEF IInv, CellInv, Matches, GenesisAdmitted, EmptyCell
<1>5. CellInv'
  BY <1>4 DEF IInv, CellInv, Matches, GenesisAdmitted
<1>6. LedgerInv' /\ StagedInv' /\ TargetInv'
  BY DEF IInv, LedgerInv, StagedInv, TargetInv
<1>7. QED
  BY <1>1, <1>3, <1>5, <1>6 DEF IInv, AuthorityIsDurable

\* The write that decides: on a native backing the committed history grows
\* here, under Atomic it grows when the message ends.
LEMMA WriteValueKeeps ==
  ASSUME IInv, WriteValue
  PROVE  IInv'
<1> USE DEF WriteValue, frame
<1>1. authority = Null /\ pc = "value" /\ cell' = target /\ target \in Cell
  BY DEF IInv, TypeOK
<1>2. /\ Contract!SubBindings(Genesis.records, Genesis.records)
      /\ Injective(Genesis.records)
  BY NoBindingsType, GenesisType DEF Contract!SubBindings, Injective
<1>3. CASE target = EmptyCell("unset") /\ witness = Genesis /\ ledger = Genesis
  <2>1. target.kind = "unset" /\ pc' = "prepare" /\ witness' = Genesis /\ ledger' = Genesis
    BY <1>3 DEF EmptyCell
  <2>2. TypeOK'
    BY <1>1, <2>1, GenesisType DEF IInv, TypeOK, Step, IdleFrame
  <2>3. CellInv' /\ LedgerInv' /\ StagedInv' /\ TargetInv'
    BY <1>1, <1>2, <1>3, <2>1
       DEF IInv, CellInv, LedgerInv, StagedInv, TargetInv, Matches, GenesisAdmitted
  <2>4. QED
    BY <1>1, <2>2, <2>3 DEF IInv, AuthorityIsDurable
<1>4. CASE target = Committed(ledger) /\ Contract!Advances(witness, ledger)
  <2>1. /\ target.kind = "committed" /\ target.ledger = ledger /\ pc' = "publish"
        /\ witness' = IF Atomic THEN witness ELSE ledger
    BY <1>4, HostAssumption DEF Committed
  <2>2. TypeOK'
    BY <1>1, <2>1 DEF IInv, TypeOK, Step, IdleFrame
  <2>3. Injective(witness'.records)
    BY <1>4, <2>1, AdvancesInjective DEF IInv, CellInv
  <2>4. CellInv'
    BY <1>1, <2>1, <2>3, HostAssumption DEF IInv, CellInv, Matches, GenesisAdmitted
  <2>5. LedgerInv' /\ StagedInv'
    BY <1>1, <2>1 DEF IInv, LedgerInv, StagedInv
  <2>6. TargetInv'
    BY <1>1, <1>4, <2>1, HostAssumption DEF IInv, TargetInv
  <2>7. QED
    BY <1>1, <2>2, <2>4, <2>5, <2>6 DEF IInv, AuthorityIsDurable
<1>5. QED
  BY <1>1, <1>3, <1>4 DEF IInv, TargetInv

LEMMA FinishPreparationKeeps ==
  ASSUME IInv, NEW accepted \in BOOLEAN, FinishPreparation(accepted)
  PROVE  IInv'
<1> USE DEF FinishPreparation
<1>1. /\ authority = Null /\ pc = "prepare"
      /\ input \in Input /\ ledger \in Ledger
      /\ selected \subseteq AppKey /\ selected \subseteq DOMAIN ledger.records
  BY InputAssumption DEF IInv, TypeOK, StagedInv
<1>2. CASE Refuse
  BY <1>1, <1>2, RefuseKeeps
<1>3. CASE ~ Refuse
  <2> USE DEF durable
  <2>1. /\ resolved' \in Bindings
        /\ pending' = DOMAIN resolved'
        /\ pc' = "stage"
        /\ UNCHANGED <<durable, runtime, authority, input, ledger, selected,
                       poisoned, target, saved, outcome, witness>>
    <3>1. PICK p \in Placements(NewKeys(ledger.records, input.requests),
                                FreeSlots(ledger, input.pool)) :
            /\ resolved' = Resolved(ledger.records, input.requests, selected, p)
            /\ pending' = {LedgerKey} \cup DOMAIN input.requests \cup selected
      BY <1>3
    <3>2. resolved' \in Bindings /\ pending' = DOMAIN resolved'
      BY <1>1, <3>1, ResolvedType
    <3>3. QED
      BY <1>3, <3>2
  <2>2. TypeOK'
    BY <1>1, <2>1 DEF IInv, TypeOK, Step, IdleFrame
  <2>3. CellInv' /\ TargetInv' /\ LedgerInv'
    BY <1>1, <2>1 DEF IInv, CellInv, LedgerInv, TargetInv, Matches, GenesisAdmitted
  <2>4. StagedInv'
    BY <1>1, <2>1 DEF StagedInv
  <2>5. QED
    BY <1>1, <2>1, <2>2, <2>3, <2>4 DEF IInv, AuthorityIsDurable
<1>4. QED
  BY <1>2, <1>3

\* Staging one declaration extends the ledger and conflicts with nothing.
LEMMA StageDeclarationKeeps ==
  ASSUME IInv, NEW accepted \in BOOLEAN, StageDeclaration(accepted)
  PROVE  IInv'
<1> USE DEF StageDeclaration
<1>1. /\ authority = Null /\ pc = "stage" /\ ledger \in Ledger
      /\ resolved \in Bindings /\ pending \subseteq DOMAIN resolved
      /\ ledger.records \in Bindings
  BY DEF IInv, TypeOK, Ledger
<1>2. CASE Refuse
  BY <1>1, <1>2, RefuseKeeps
<1>3. CASE ~ Refuse
  <2> USE DEF durable
  <2>1. PICK k \in pending :
          /\ ~ ClaimConflict(ledger.records, k, resolved[k])
          /\ ledger' = [ledger EXCEPT !.records = WithClaim(@, k, resolved[k])]
          /\ pending' = pending \ {k}
          /\ pc' = IF pending' = {} THEN "commit" ELSE "stage"
          /\ UNCHANGED <<durable, runtime, authority, input, selected, poisoned,
                         resolved, target, saved, outcome, witness>>
    BY <1>3
  <2> DEFINE r == ledger.records
             w == WithClaim(r, k, resolved[k])
  <2>2. k \in StableKey /\ resolved[k] \in Slot
    BY <1>1, <2>1, BindingsForm
  <2>3. /\ ledger' \in Ledger
        /\ ledger'.records = w
        /\ ledger'.generation = ledger.generation
    BY <1>1, <2>1, <2>2, WithClaimType DEF Ledger
  <2>4. /\ Contract!SubBindings(r, w) /\ Injective(w)
        /\ k \in DOMAIN w /\ w[k] = resolved[k]
    BY <1>1, <2>1, <2>2, WithClaimExtends DEF IInv, LedgerInv
  <2>5. TypeOK'
    BY <1>1, <2>1, <2>3 DEF IInv, TypeOK, Step, IdleFrame
  <2>6. CellInv' /\ TargetInv'
    BY <1>1, <2>1 DEF IInv, CellInv, TargetInv, Matches, GenesisAdmitted
  <2>7. LedgerInv'
    <3>1. Contract!SubBindings(witness.records, w)
      BY <1>1, <2>4, SubBindingsTransitive DEF IInv, LedgerInv
    <3>2. QED
      BY <1>1, <2>1, <2>3, <2>4, <3>1 DEF IInv, LedgerInv
  <2>8. StagedInv'
    <3>1. selected' \subseteq DOMAIN w
      BY <2>1, <2>4 DEF IInv, StagedInv, Contract!SubBindings
    <3>2. \A j \in DOMAIN resolved \ pending' : j \in DOMAIN w /\ w[j] = resolved[j]
      BY <2>1, <2>4 DEF IInv, StagedInv, Contract!SubBindings
    <3>3. QED
      BY <2>1, <2>3, <3>1, <3>2 DEF StagedInv
  <2>9. QED
    BY <1>1, <2>1, <2>5, <2>6, <2>7, <2>8 DEF IInv, AuthorityIsDurable
<1>4. QED
  BY <1>2, <1>3

\* What is committed is the exact successor of the committed history.
LEMMA CommitGenerationKeeps ==
  ASSUME IInv, CommitGeneration
  PROVE  IInv'
<1> USE DEF CommitGeneration
<1>1. authority = Null /\ pc = "commit" /\ ledger \in Ledger /\ witness \in Ledger
  BY DEF IInv, TypeOK
<1>2. CASE Refuse
  BY <1>1, <1>2, RefuseKeeps
<1>3. CASE ~ Refuse
  <2> USE DEF durable
  <2>1. /\ ledger' \in Ledger
        /\ ledger'.generation = ledger.generation + 1
        /\ ledger'.records = ledger.records
        /\ target' = Committed(ledger') /\ target' \in Cell
        /\ pc' = "reserve"
    BY <1>1, <1>3, NextGenerationType, CommittedType
  <2>2. TypeOK'
    BY <1>1, <1>3, <2>1 DEF IInv, TypeOK, Step, IdleFrame
  <2>3. CellInv' /\ LedgerInv' /\ StagedInv'
    BY <1>1, <1>3, <2>1
       DEF IInv, CellInv, LedgerInv, StagedInv, Matches, GenesisAdmitted
  <2>4. TargetInv'
    BY <1>1, <1>3, <2>1, AdvancesInjective DEF IInv, LedgerInv, TargetInv
  <2>5. QED
    BY <1>1, <1>3, <2>2, <2>3, <2>4 DEF IInv, AuthorityIsDurable
<1>4. QED
  BY <1>2, <1>3

\* The capability that publication hands out, and the history it rests on.
LEMMA PublishFacts ==
  ASSUME IInv, Publish
  PROVE  /\ authority = Null
         /\ authority' \in Authority
         /\ authority'.generation = witness'.generation
         /\ LedgerKey \notin DOMAIN authority'.allocations
         /\ Contract!SubBindings(authority'.allocations, witness'.records)
         /\ cell' = Committed(witness')
         /\ witness' = ledger
         /\ witness' = witness \/ Contract!Advances(witness, witness')
         /\ Injective(witness'.records)
<1> DEFINE shown == DOMAIN resolved \ {LedgerKey}
           open == Restrict(resolved, shown)
<1> USE DEF Publish, durable
<1>1. /\ authority = Null /\ ledger \in Ledger /\ resolved \in Bindings /\ input \in Input
      /\ target = Committed(ledger) /\ cell = target /\ pending = {}
  BY InputAssumption DEF IInv, TypeOK, StagedInv, TargetInv
<1>2. witness' = ledger /\ cell' = Committed(ledger)
  BY <1>1, CommittedType
<1>3. witness' = witness \/ Contract!Advances(witness, witness')
  BY <1>2, HostAssumption DEF IInv, TargetInv
<1>4. Injective(witness'.records)
  BY <1>3, AdvancesInjective DEF IInv, CellInv
<1>5. DOMAIN open = shown /\ \A k \in shown : open[k] = resolved[k]
  BY DEF Restrict
<1>6. open \in Bindings
  <2>1. \A k \in shown : resolved[k] \in Slot /\ k \in StableKey
    BY <1>1, BindingsForm
  <2>2. open \in [shown -> Slot]
    BY <2>1 DEF Restrict
  <2>3. QED
    BY <1>5, <2>1, <2>2, BindingsForm
<1>7. Contract!SubBindings(open, ledger.records)
  BY <1>1, <1>5 DEF IInv, StagedInv, Contract!SubBindings
<1>8. ledger.generation \in 0 .. MaxGeneration
  BY <1>1 DEF Ledger
<1>9. /\ authority' = [allocations |-> open, generation |-> ledger.generation,
                       binding |-> input]
      /\ authority' \in Authority
  BY <1>1, <1>6, <1>8 DEF Authority
<1>10. QED
  BY <1>1, <1>2, <1>3, <1>4, <1>5, <1>7, <1>9

LEMMA PublishKeeps ==
  ASSUME IInv, Publish
  PROVE  IInv'
<1> USE DEF durable
<1>1. Leave("ok") /\ UNCHANGED durable /\ runtime' = "bootstrapped"
  BY DEF Publish
<1>2. authority' \in Authority /\ authority' # Null
  BY PublishFacts, HostAssumption
<1>3. witness' \in Ledger
  BY PublishFacts DEF IInv, TypeOK
<1>4. TypeOK'
  BY <1>1, <1>2, <1>3, LeaveFrame DEF IInv, TypeOK, Step
<1>5. CellInv'
  BY <1>1, PublishFacts, CommittedType, LeaveFrame
     DEF CellInv, Matches, GenesisAdmitted, Committed
<1>6. AuthorityIsDurable'
  BY PublishFacts DEF AuthorityIsDurable, Contract!SubBindings
<1>7. QED
  BY <1>1, <1>4, <1>5, <1>6, PublishFacts, LeaveFrame DEF IInv

LEMMA StutterKeeps ==
  ASSUME IInv, UNCHANGED vars
  PROVE  IInv'
<1> USE DEF IInv, vars, durable, frame
<1>1. TypeOK'
  BY DEF TypeOK, IdleFrame
<1>2. CellInv' /\ LedgerInv' /\ StagedInv' /\ TargetInv' /\ AuthorityIsDurable'
  BY DEF CellInv, LedgerInv, StagedInv, TargetInv, AuthorityIsDurable, Matches,
         GenesisAdmitted
<1>3. QED
  BY <1>1, <1>2

LEMMA NextKeeps == IInv /\ [Next]_vars => IInv'
<1> SUFFICES ASSUME IInv, [Next]_vars PROVE IInv'
  OBVIOUS
<1>1. CASE UNCHANGED vars
  BY <1>1, StutterKeeps
<1>2. CASE Progress
  BY <1>2, ReserveCellKeeps, WriteHeaderKeeps, WriteValueKeeps, FinishPreparationKeeps,
     StageDeclarationKeeps, CommitGenerationKeeps, PublishKeeps DEF Progress
<1>3. CASE Host
  BY <1>3, ConstructKeeps, ColdBootstrapKeeps, WarmBootstrapKeeps, IncludeHistoricalKeeps,
     PopulateKeeps, RestartKeeps, TrapKeeps, PanicKeeps DEF Host
<1>4. QED
  BY <1>1, <1>2, <1>3 DEF Next

-----------------------------------------------------------------------------
(***************************************************************************)
(* The theorems.                                                           *)
(***************************************************************************)
\* IInv holds of every state bootstrap can reach: the cell tells the committed
\* history or nothing, and a frame never runs ahead of it by more than the
\* one generation it is about to write (runtime/mod.rs, bootstrap).
THEOREM InductiveInvariant == Spec => []IInv
<1>1. Init => IInv
  BY InitIInv
<1>2. IInv /\ [Next]_vars => IInv'
  BY NextKeeps
<1>3. QED
  BY <1>1, <1>2, PTL DEF Spec

\* Every variable keeps its type; a frame exists exactly while an attempt runs
\* and a capability exactly on a bootstrapped runtime (runtime/mod.rs).
THEOREM TypeCorrect == Spec => []TypeOK
<1>1. IInv => TypeOK
  BY DEF IInv
<1>2. QED
  BY <1>1, InductiveInvariant, PTL

\* Whatever failed and wherever, recovery yields the last committed ledger or
\* an error, never an older ledger or a genesis over a history
\* (ledger/mod.rs, recover_or_genesis and commit_generation).
THEOREM RecoveryExact == Spec => []RecoveryIsExact
<1>1. IInv => RecoveryIsExact
  <2> SUFFICES ASSUME IInv, Settled, Recoverable(cell)
               PROVE  RecoverOrGenesis(cell) = witness
    BY DEF RecoveryIsExact
  <2>1. Matches(cell)
    BY DEF IInv, CellInv, Settled
  <2>2. QED
    BY <2>1 DEF Matches, Recoverable, RecoverOrGenesis
<1>2. QED
  BY <1>1, InductiveInvariant, PTL

\* A capability names only bindings that the backing holds, at the generation
\* that the backing holds (runtime/mod.rs, bootstrap_unbootstrapped).
THEOREM DurableAuthority == Spec => []AuthorityIsDurable
<1>1. IInv => AuthorityIsDurable
  BY DEF IInv
<1>2. QED
  BY <1>1, InductiveInvariant, PTL

\* No attempt begins, writes or publishes over a cell that recovery rejects
\* (ledger/mod.rs, recover_or_genesis; runtime/mod.rs, bootstrap).
THEOREM DamageKept == Spec => DamageIsKept
<1> DEFINE Damaged == pc = "idle" /\ cell.kind \in {"blank", "garbled"}
           Kept == cell' = cell /\ pc' = "idle" /\ authority' = Null
<1>1. IInv /\ [Next]_vars => [Damaged => Kept]_vars
  <2> SUFFICES ASSUME IInv, Next, Damaged PROVE Kept
    OBVIOUS
  <2> USE DEF durable, frame
  <2>1. authority = Null /\ runtime # "bootstrapped"
    BY DEF IInv, TypeOK, AuthorityIsDurable, Committed
  <2>2. ASSUME Progress PROVE FALSE
    BY <2>2 DEF Progress, ReserveCell, WriteHeader, WriteValue, FinishPreparation,
                StageDeclaration, CommitGeneration, Publish
  <2>3. CASE \E i \in HostInput : ColdBootstrap(i)
    BY <2>1, <2>3 DEF ColdBootstrap, Refuse, Leave, Recoverable, GenesisAdmitted
  <2>4. CASE Construct \/ Restart
    BY <2>1, <2>4 DEF Construct, Restart
  <2>5. CASE Host /\ ~ (\E i \in HostInput : ColdBootstrap(i)) /\ ~ (Construct \/ Restart)
    BY <2>1, <2>5 DEF Host, WarmBootstrap, IncludeHistorical, Populate, Trap, Panic
  <2>6. QED
    BY <2>2, <2>3, <2>4, <2>5 DEF Next, Host
<1>2. QED
  BY <1>1, InductiveInvariant, PTL DEF Spec, DamageIsKept

\* Bootstrap implements the ownership contract: bindings are permanent,
\* injective, one generation apart, and durable before they are usable, across
\* restarts, retries, refusals and torn writes (all of runtime/mod.rs).
THEOREM Refinement == Spec => ImplementsContract
<1> USE DEF Contract!contractVars
<1>1. Init => Contract!ContractInit
  BY DEF Init, Contract!ContractInit, Contract!Genesis, Contract!NoBindings,
         Contract!LedgerSlot, Genesis, NoBindings, LedgerSlot, CapabilityView
<1>2. IInv /\ IInv' /\ [Next]_vars => [Contract!ContractNext]_(Contract!contractVars)
  <2> SUFFICES ASSUME IInv, IInv', [Next]_vars
               PROVE  [Contract!ContractNext]_(Contract!contractVars)
    OBVIOUS
  <2> USE DEF durable, frame
  <2>1. CASE UNCHANGED <<witness, authority>>
    BY <2>1 DEF CapabilityView
  <2>2. CASE WriteValue
    <3>1. authority = Null /\ authority' = Null /\ witness' \in Ledger
      BY <2>2 DEF WriteValue, IInv, TypeOK
    <3>2. witness' = witness \/ Contract!Advances(witness, witness')
      BY <2>2, CommittedType, HostAssumption
         DEF WriteValue, IInv, TypeOK, TargetInv, Committed, EmptyCell
    <3>3. QED
      BY <3>1, <3>2, ContractValues DEF Contract!ContractNext, Contract!Commit, CapabilityView
  <2>3. CASE Publish
    <3>1. authority = Null /\ authority' \in Authority /\ authority' # Null
      BY <2>3, PublishFacts, HostAssumption
    <3>2. witness' \in Ledger
      BY DEF IInv, TypeOK
    <3>3. CapabilityView' \in Contract!View
      BY <3>1, ContractValues DEF CapabilityView, Authority, Contract!View
    <3>4. Contract!ViewOf(CapabilityView', witness')
      BY <2>3, <3>1, PublishFacts DEF CapabilityView, Contract!ViewOf
    <3>5. QED
      BY <2>3, <3>1, <3>2, <3>3, <3>4, PublishFacts, ContractValues
         DEF Contract!ContractNext, Contract!Publish, CapabilityView
  <2>4. CASE Restart
    BY <2>4 DEF Restart, Contract!ContractNext, Contract!Revoke, CapabilityView
  <2>5. CASE Progress /\ ~ WriteValue /\ ~ Publish
    BY <2>1, <2>5 DEF Progress, ReserveCell, WriteHeader, FinishPreparation,
                      StageDeclaration, CommitGeneration, Refuse
  <2>6. CASE Host /\ ~ Restart
    BY <2>1, <2>6 DEF Host, Construct, ColdBootstrap, WarmBootstrap, IncludeHistorical,
                      Populate, Trap, Panic, Refuse
  <2>7. QED
    BY <2>1, <2>2, <2>3, <2>4, <2>5, <2>6 DEF Next, vars
<1>3. QED
  BY <1>1, <1>2, InductiveInvariant, PTL DEF Spec, ImplementsContract, Contract!ContractSpec

-----------------------------------------------------------------------------
(***************************************************************************)
(* The second half: custody of unmanaged pages, the confinement of what an *)
(* attempt may claim, and what a failed attempt leaves behind.  It rests   *)
(* on ClaimsInv, which is inductive together with IInv.                    *)
(***************************************************************************)

(***************************************************************************)
(* Facts about pools, ledgers and resolutions.                             *)
(***************************************************************************)
\* No pool hands out governance's slot: it excludes governance's ids.
LEMMA PoolSparesLedgerSlot ==
  ASSUME NEW i \in HostInput, NEW s, Contains(i.pool, s)
  PROVE  s # LedgerSlot /\ s \notin i.pool.excluded \cup Governance
BY PoolAssumption, InputAssumption DEF Contains

LEMMA GenesisIsEmpty ==
  OccupiedSlots(Genesis) = {} /\ DOMAIN Genesis.records = {}
BY NoBindingsType, GenesisType DEF OccupiedSlots, Range

LEMMA OccupiedMonotonic ==
  ASSUME NEW f, NEW g, Contract!SubBindings(f.records, g.records)
  PROVE  OccupiedSlots(f) \subseteq OccupiedSlots(g)
BY DEF Contract!SubBindings, OccupiedSlots, Range

\* An admitted claim occupies the claimed slot and no other new one.
LEMMA WithClaimOccupies ==
  ASSUME NEW r, NEW k, NEW s
  PROVE  Range(WithClaim(r, k, s)) \subseteq Range(r) \cup {s}
BY DEF WithClaim, Range

\* An attempt is refused, trapped or aborted with nothing left in its frame.
LEMMA LeaveEmpties ==
  ASSUME NEW result, Leave(result)
  PROVE  /\ pc' = "idle" /\ selected' = {} /\ pending' = {} /\ poisoned' = FALSE
         /\ ledger' = Genesis
         /\ DOMAIN resolved' = {}
         /\ target'.kind = "absent" /\ saved'.kind = "absent"
BY NoBindingsType DEF Leave, EmptyCell

\* Governance's key is not one that applications request or select.
LEMMA RequestedKeys ==
  ASSUME NEW i \in HostInput
  PROVE  i \in Input /\ DOMAIN i.requests \subseteq AppKey
         /\ LedgerKey \notin DOMAIN i.requests
BY InputAssumption, KeyAssumption DEF Input, Requests

\* What resolution yields: governance's own binding, and for each requested
\* or selected key a slot the arguments allow, the recorded one if there is
\* one and otherwise one that no record holds; no slot twice.
LEMMA ResolutionIsAllowed ==
  ASSUME NEW i \in HostInput, NEW l \in Ledger, NEW sel \in SUBSET AppKey,
         sel \subseteq DOMAIN l.records,
         \A k \in sel : i.pool.owner[k] \in Owner /\ Contains(i.pool, l.records[k]),
         Injective(l.records), Reserved(l.records),
         RequestsAdmitted(l, i.requests, sel, i.pool),
         NEW p \in Placements(NewKeys(l.records, i.requests), FreeSlots(l, i.pool))
  PROVE  LET r == Resolved(l.records, i.requests, sel, p)
         IN  /\ r[LedgerKey] = LedgerSlot
             /\ \A k \in DOMAIN r \ {LedgerKey} :
                  k \in AppKey /\ i.pool.owner[k] \in Owner /\ Contains(i.pool, r[k])
             /\ \A k \in DOMAIN i.requests :
                  k \in DOMAIN r /\ i.pool.owner[k] = i.requests[k]
             /\ \A k \in DOMAIN r : ~ ClaimConflict(l.records, k, r[k])
             /\ \A j, k \in DOMAIN r : r[j] = r[k] => j = k
<1> DEFINE new == NewKeys(l.records, i.requests)
           free == FreeSlots(l, i.pool)
           r == Resolved(l.records, i.requests, sel, p)
<1>1. /\ i \in Input /\ DOMAIN i.requests \subseteq AppKey
      /\ LedgerKey \notin AppKey /\ AppKey \subseteq Nat
  BY RequestedKeys, KeyAssumption
<1>2. DOMAIN r = {LedgerKey} \cup DOMAIN i.requests \cup sel
  BY DEF Resolved
<1>3. r[LedgerKey] = LedgerSlot
  BY DEF Resolved
<1>4. \A k \in DOMAIN r \ {LedgerKey} :
        IF k \in DOMAIN l.records THEN r[k] = l.records[k] ELSE k \in new /\ r[k] = p[k]
  BY <1>2 DEF Resolved, NewKeys
<1>5. \A k \in new : p[k] \in free
  BY DEF Placements
<1>6. \A k \in new : Contains(i.pool, p[k]) /\ p[k] \notin OccupiedSlots(l)
  BY <1>5 DEF FreeSlots
<1>7. \A k \in DOMAIN i.requests : i.requests[k] \in Owner
  BY <1>1 DEF Input, Requests
<1>8. \A k \in DOMAIN i.requests :
        i.pool.owner[k] = i.requests[k]
          /\ (k \in DOMAIN l.records => Contains(i.pool, l.records[k]))
  BY DEF RequestsAdmitted, AuthorityValid
<1>9. \A k \in DOMAIN r \ {LedgerKey} :
        k \in AppKey /\ i.pool.owner[k] \in Owner /\ Contains(i.pool, r[k])
  BY <1>1, <1>2, <1>4, <1>6, <1>7, <1>8
<1>10. \A k \in DOMAIN r : (k = LedgerKey) <=> (r[k] = LedgerSlot)
  BY <1>3, <1>9, PoolSparesLedgerSlot
<1>11. \A k \in DOMAIN r : ~ ClaimConflict(l.records, k, r[k])
  <2> TAKE k \in DOMAIN r
  <2>1. CASE k = LedgerKey
    BY <1>3, <2>1
       DEF ClaimConflict, StableKeyMoved, SlotReused, Reserved, Range
  <2>2. CASE k # LedgerKey /\ k \in DOMAIN l.records
    BY <1>4, <2>2 DEF ClaimConflict, StableKeyMoved, SlotReused
  <2>3. CASE k # LedgerKey /\ k \notin DOMAIN l.records
    BY <1>4, <1>6, <2>3
       DEF ClaimConflict, StableKeyMoved, SlotReused, OccupiedSlots
  <2>4. QED
    BY <2>1, <2>2, <2>3
<1>12. \A j, k \in new : p[j] = p[k] => j = k
  <2> SUFFICES ASSUME NEW j \in new, NEW k \in new, p[j] = p[k]
               PROVE  j = k
    OBVIOUS
  <2>1. j \in Nat /\ k \in Nat
    BY <1>1 DEF NewKeys
  <2>2. p[j] \in Nat /\ p[k] \in Nat
    BY <1>5, BoundAssumption DEF FreeSlots, Slot
  <2>3. ~ (j < k) /\ ~ (k < j)
    BY <2>2 DEF Placements
  <2>4. QED
    BY <2>1, <2>3
<1>13. \A j, k \in DOMAIN r : r[j] = r[k] => j = k
  <2> SUFFICES ASSUME NEW j \in DOMAIN r, NEW k \in DOMAIN r, r[j] = r[k]
               PROVE  j = k
    OBVIOUS
  <2>1. CASE j = LedgerKey \/ k = LedgerKey
    BY <1>10, <2>1
  <2>2. CASE j # LedgerKey /\ k # LedgerKey /\ j \in DOMAIN l.records /\ k \in DOMAIN l.records
    BY <1>4, <2>2 DEF Injective
  <2>3. CASE j # LedgerKey /\ k # LedgerKey /\ j \notin DOMAIN l.records /\ k \notin DOMAIN l.records
    BY <1>4, <1>12, <2>3
  <2>4. CASE /\ j # LedgerKey /\ k # LedgerKey
             /\ (j \in DOMAIN l.records) # (k \in DOMAIN l.records)
    BY <1>4, <1>6, <2>4 DEF OccupiedSlots, Range
  <2>5. QED
    BY <2>1, <2>2, <2>3, <2>4
<1>14. QED
  BY <1>1, <1>2, <1>3, <1>8, <1>9, <1>11, <1>13

-----------------------------------------------------------------------------
(***************************************************************************)
(* The invariant holds initially.                                          *)
(***************************************************************************)
LEMMA InitClaimsInv == Init => ClaimsInv
<1> SUFFICES ASSUME Init PROVE ClaimsInv
  OBVIOUS
<1> USE DEF Init, IdleFrame
<1>1. DOMAIN resolved = {} /\ target.kind = "absent" /\ saved.kind = "absent"
  BY NoBindingsType DEF EmptyCell
<1>2. CustodyInv
  BY GenesisIsEmpty DEF CustodyInv, PagesAreExplained
<1>3. IntegrityInv
  <2>1. Cardinality(DOMAIN Genesis.records) <= MaxAllocations
    BY GenesisIsEmpty, FS_EmptySet, BoundAssumption DEF MaxAllocations
  <2>2. QED
    BY <1>1, <2>1, GenesisIsEmpty DEF IntegrityInv, Integral, Bounded, Injective
<1>4. ConfinementInv
  BY <1>1 DEF ConfinementInv, AuthorityIsConfined
<1>5. ClaimInv
  BY GenesisIsEmpty DEF ClaimInv, Reserved, PoisonedNeverCommits, ResolutionIsClaimable
<1>6. RollbackInv
  BY DEF RollbackInv, EmptyCell
<1>7. DecisionInv
  BY DEF DecisionInv
<1>8. QED
  BY <1>2, <1>3, <1>4, <1>5, <1>6, <1>7 DEF ClaimsInv

-----------------------------------------------------------------------------
(***************************************************************************)
(* How the actions move what the invariant speaks about.                   *)
(***************************************************************************)
\* The committed history stays, or becomes the ledger that was staged.
LEMMA WitnessSteps ==
  ASSUME IInv, Next
  PROVE  \/ witness' = witness
         \/ /\ pc \in {"value", "publish"}
            /\ witness' = ledger
            /\ Contract!SubBindings(witness.records, ledger.records)
<1> USE DEF durable, frame
<1>1. CASE WriteValue
  BY <1>1, CommittedType, AdvancesInjective
     DEF WriteValue, IInv, TypeOK, TargetInv, EmptyCell, Committed
<1>2. CASE Publish
  BY <1>2, PublishFacts, AdvancesInjective DEF Publish
<1>3. CASE Progress /\ ~ WriteValue /\ ~ Publish
  BY <1>3 DEF Progress, ReserveCell, WriteHeader, FinishPreparation, StageDeclaration,
              CommitGeneration, Refuse
<1>4. CASE Host
  BY <1>4 DEF Host, Construct, ColdBootstrap, WarmBootstrap, IncludeHistorical,
              Populate, Restart, Trap, Panic, Refuse
<1>5. QED
  BY <1>1, <1>2, <1>3, <1>4 DEF Next

\* Only Populate puts pages anywhere, through a binding of the capability.
LEMMA PopulatedSteps ==
  ASSUME IInv, Next
  PROVE  \/ populated' = populated
         \/ /\ authority # Null /\ witness' = witness
            /\ \E k \in DOMAIN authority.allocations :
                 populated' = populated \cup {authority.allocations[k]}
<1> USE DEF durable, frame
<1>1. CASE Progress
  BY <1>1 DEF Progress, ReserveCell, WriteHeader, WriteValue, FinishPreparation,
              StageDeclaration, CommitGeneration, Publish, Refuse
<1>2. CASE \E k \in AppKey : Populate(k)
  BY <1>2 DEF Populate, IInv, TypeOK
<1>3. CASE Host /\ ~ (\E k \in AppKey : Populate(k))
  BY <1>3 DEF Host, Construct, ColdBootstrap, WarmBootstrap, IncludeHistorical,
              Restart, Trap, Panic, Refuse
<1>4. QED
  BY <1>1, <1>2, <1>3 DEF Next

\* Only publication hands out a capability.
LEMMA AuthoritySteps ==
  ASSUME Next
  PROVE  authority' = Null \/ authority' = authority \/ Publish
<1> USE DEF durable, frame
<1>1. CASE Progress
  BY <1>1 DEF Progress, ReserveCell, WriteHeader, WriteValue, FinishPreparation,
              StageDeclaration, CommitGeneration, Refuse
<1>2. CASE Host
  BY <1>2 DEF Host, Construct, ColdBootstrap, WarmBootstrap, IncludeHistorical,
              Populate, Restart, Trap, Panic, Refuse
<1>3. QED
  BY <1>1, <1>2 DEF Next

\* A step ends the attempt, begins one, decides what it will claim, stages a
\* claim, takes the next generation, or leaves the claims of the attempt alone.
Ends == \E result \in {"ok", "error", "fault"} : Leave(result)

Begins(i) ==
  /\ pc = "idle" /\ runtime = "unbootstrapped"
  /\ Recoverable(cell) /\ CustodyHolds(RecoverOrGenesis(cell), i.pool, populated)
  /\ pc' \in {"reserve", "prepare"}
  /\ input' = i /\ ledger' = RecoverOrGenesis(cell) /\ saved' = cell
  /\ pc' = "reserve" => cell.kind = "absent"
  /\ pc' = "prepare" => cell.kind # "absent" /\ target' = target
  /\ target' \in {target, EmptyCell("unset")}
  /\ UNCHANGED <<cell, populated, runtime, authority, selected, poisoned, resolved,
                 pending, outcome, witness>>

Decides(p) ==
  /\ pc = "prepare" /\ pc' = "stage"
  /\ ~ poisoned
  /\ RequestsAdmitted(ledger, input.requests, selected, input.pool)
  /\ resolved' = Resolved(ledger.records, input.requests, selected, p)
  /\ pending' = {LedgerKey} \cup DOMAIN input.requests \cup selected
  /\ UNCHANGED <<durable, runtime, authority, input, ledger, selected,
                 poisoned, target, saved, outcome, witness>>

Stages(k) ==
  /\ pc = "stage"
  /\ ~ ClaimConflict(ledger.records, k, resolved[k])
  /\ ledger' = [ledger EXCEPT !.records = WithClaim(@, k, resolved[k])]
  /\ pending' = pending \ {k}
  /\ pc' = IF pending' = {} THEN "commit" ELSE "stage"
  /\ UNCHANGED <<durable, runtime, authority, input, selected, poisoned,
                 resolved, target, saved, outcome, witness>>

Numbers ==
  /\ pc = "commit" /\ pc' = "reserve"
  /\ ~ GenerationOverflows(ledger)
  /\ ledger' = NextGeneration(ledger)
  /\ CommitAdmitted(cell, NextGeneration(ledger))
  /\ target' = Committed(ledger')
  /\ UNCHANGED <<durable, runtime, authority, input, selected, poisoned,
                 resolved, pending, saved, outcome, witness>>

Selects(k, owner) ==
  /\ pc = "prepare" /\ pc' = "prepare"
  /\ selected' = selected \/ (Selectable(k, owner) /\ selected' = selected \cup {k})
  /\ UNCHANGED <<durable, runtime, authority, pc, input, ledger, resolved, pending,
                 target, saved, outcome, witness>>

Passes ==
  /\ UNCHANGED <<input, ledger, selected, poisoned, resolved, pending, target, saved>>
  /\ \/ pc' = pc /\ cell' = cell
     \/ pc = "reserve" /\ pc' = "header"
     \/ pc = "header" /\ pc' = "value"
     \/ pc = "value" /\ pc' = "prepare" /\ target.kind = "unset" /\ cell' = target
     \/ pc = "value" /\ pc' = "publish" /\ target.kind # "unset"

LEMMA StepShapes ==
  ASSUME IInv, Next
  PROVE  \/ Ends
         \/ \E i \in HostInput : Begins(i)
         \/ \E p \in Placements(NewKeys(ledger.records, input.requests),
                                FreeSlots(ledger, input.pool)) : Decides(p)
         \/ \E k \in pending : Stages(k)
         \/ Numbers
         \/ \E k \in StableKey, owner \in Owner : Selects(k, owner)
         \/ Passes
<1> USE DEF durable, frame
<1>1. CASE ReserveCell \/ WriteHeader \/ WriteValue \/ Publish
  BY <1>1 DEF ReserveCell, WriteHeader, WriteValue, Publish, Refuse, Ends, Passes
<1>2. CASE \E accepted \in BOOLEAN : FinishPreparation(accepted)
  BY <1>2 DEF FinishPreparation, Refuse, Ends, Decides
<1>3. CASE \E accepted \in BOOLEAN : StageDeclaration(accepted)
  BY <1>3 DEF StageDeclaration, Refuse, Ends, Stages
<1>4. CASE CommitGeneration
  BY <1>4 DEF CommitGeneration, Refuse, Ends, Numbers
<1>5. CASE \E i \in HostInput : ColdBootstrap(i)
  BY <1>5 DEF ColdBootstrap, Refuse, Ends, Begins
<1>6. CASE \E k \in StableKey, owner \in Owner : IncludeHistorical(k, owner)
  BY <1>6 DEF IncludeHistorical, Selects
<1>7. CASE Trap \/ Panic
  BY <1>7 DEF Trap, Panic, Ends
<1>8. CASE \/ Construct \/ Restart
           \/ \E i \in HostInput : WarmBootstrap(i)
           \/ \E k \in AppKey : Populate(k)
  BY <1>8 DEF Construct, Restart, WarmBootstrap, Populate, Passes
<1>9. QED
  BY <1>1, <1>2, <1>3, <1>4, <1>5, <1>6, <1>7, <1>8 DEF Next, Progress, Host

\* How an attempt comes to its end, or a call does without having begun one.
Refused == Refuse /\ pc \in {"reserve", "prepare", "stage", "commit"}

LEMMA ExitSteps ==
  ASSUME IInv, Next, pc' = "idle"
  PROVE  \/ Publish \/ Trap \/ Panic \/ Refused
         \/ /\ pc = "idle"
            /\ UNCHANGED <<cell, witness>>
            /\ outcome' = "ok" => runtime = "bootstrapped" \/ outcome = "ok"
<1> USE DEF durable, frame
<1>1. CASE Progress
  BY <1>1 DEF Progress, ReserveCell, WriteHeader, WriteValue, FinishPreparation,
              StageDeclaration, CommitGeneration, Refused
<1>2. CASE Host
  BY <1>2 DEF Host, Construct, ColdBootstrap, WarmBootstrap, IncludeHistorical,
              Populate, Restart, Refuse, Leave
<1>3. QED
  BY <1>1, <1>2 DEF Next

\* A cold attempt that starts, starts from exactly the committed history.
LEMMA BeginsFromHistory ==
  ASSUME IInv, NEW i \in HostInput, Begins(i)
  PROVE  RecoverOrGenesis(cell) = witness
BY DEF Begins, IInv, CellInv, Matches, Recoverable, RecoverOrGenesis

\* What an attempt decides is what resolution yields against the recovered
\* ledger and the selection the callback was allowed.
LEMMA DecisionIsAllowed ==
  ASSUME IInv, ClaimsInv,
         NEW p \in Placements(NewKeys(ledger.records, input.requests),
                              FreeSlots(ledger, input.pool)),
         Decides(p)
  PROVE  /\ LedgerKey \in DOMAIN resolved'
         /\ resolved'[LedgerKey] = LedgerSlot
         /\ \A k \in DOMAIN resolved' \ {LedgerKey} :
              /\ k \in AppKey /\ input.pool.owner[k] \in Owner
              /\ Contains(input.pool, resolved'[k])
         /\ \A k \in DOMAIN input.requests :
              k \in DOMAIN resolved' /\ input.pool.owner[k] = input.requests[k]
         /\ \A k \in DOMAIN resolved' : ~ ClaimConflict(ledger.records, k, resolved'[k])
         /\ \A j, k \in DOMAIN resolved' : resolved'[j] = resolved'[k] => j = k
<1>1. /\ input \in HostInput /\ ledger \in Ledger /\ selected \in SUBSET AppKey
      /\ selected \subseteq DOMAIN ledger.records
      /\ Injective(ledger.records) /\ Reserved(ledger.records)
  BY DEF Decides, IInv, TypeOK, StagedInv, LedgerInv, ClaimsInv, ClaimInv
<1>2. \A k \in selected : /\ input.pool.owner[k] \in Owner
                          /\ Contains(input.pool, ledger.records[k])
  BY DEF ClaimsInv, ConfinementInv, Allowed
<1>3. /\ RequestsAdmitted(ledger, input.requests, selected, input.pool)
      /\ resolved' = Resolved(ledger.records, input.requests, selected, p)
  BY DEF Decides
<1>4. LedgerKey \in DOMAIN resolved'
  BY <1>3 DEF Resolved
<1> DEFINE r == Resolved(ledger.records, input.requests, selected, p)
<1>5. /\ r[LedgerKey] = LedgerSlot
      /\ \A k \in DOMAIN r \ {LedgerKey} :
           k \in AppKey /\ input.pool.owner[k] \in Owner /\ Contains(input.pool, r[k])
      /\ \A k \in DOMAIN input.requests :
           k \in DOMAIN r /\ input.pool.owner[k] = input.requests[k]
      /\ \A k \in DOMAIN r : ~ ClaimConflict(ledger.records, k, r[k])
      /\ \A j, k \in DOMAIN r : r[j] = r[k] => j = k
  BY ONLY <1>1, <1>2, <1>3, ResolutionIsAllowed,
          p \in Placements(NewKeys(ledger.records, input.requests),
                           FreeSlots(ledger, input.pool))
<1>6. resolved' = r
  BY <1>3
<1> HIDE DEF r
<1>7. QED
  BY <1>4, <1>5, <1>6

-----------------------------------------------------------------------------
(***************************************************************************)
(* Each part of the invariant is kept.                                     *)
(***************************************************************************)
\* Custody: the pool of an attempt that started cannot reach foreign pages,
\* and pages appear only where the committed history says so.
LEMMA CustodyKeeps ==
  ASSUME IInv, ClaimsInv, Next
  PROVE  CustodyInv'
<1> USE DEF durable, frame
<1>1. CustodyInv /\ ConfinementInv
  BY DEF ClaimsInv
<1>2. OccupiedSlots(witness) \subseteq OccupiedSlots(witness')
  BY WitnessSteps, OccupiedMonotonic
<1>3. OccupiedSlots(witness') \cap ForeignSlots = {}
  BY <1>1, WitnessSteps DEF CustodyInv
<1>4. (ForeignSlots \subseteq populated)' /\ PagesAreExplained'
  <2>1. CASE populated' = populated
    BY <1>1, <1>2, <2>1 DEF CustodyInv, PagesAreExplained
  <2>2. CASE /\ authority # Null /\ witness' = witness
             /\ \E k \in DOMAIN authority.allocations :
                  populated' = populated \cup {authority.allocations[k]}
    <3>1. PICK k \in DOMAIN authority.allocations :
            populated' = populated \cup {authority.allocations[k]}
      BY <2>2
    <3>2. authority.allocations[k] \in OccupiedSlots(witness)
      BY <2>2 DEF IInv, AuthorityIsDurable, OccupiedSlots, Range
    <3>3. QED
      BY <1>1, <2>2, <3>1, <3>2 DEF CustodyInv, PagesAreExplained
  <2>3. QED
    BY <2>1, <2>2, PopulatedSteps
<1>5. OccupiedSlots(ledger') \cap ForeignSlots = {}
  <2>1. CASE Ends
    BY <2>1, LeaveEmpties, GenesisIsEmpty DEF Ends
  <2>2. CASE \E i \in HostInput : Begins(i)
    BY <1>1, <2>2, BeginsFromHistory DEF CustodyInv, Begins
  <2>3. CASE \E k \in pending : Stages(k)
    <3>1. PICK k \in pending : Stages(k)
      BY <2>3
    <3>2. k \in DOMAIN resolved /\ ledger \in Ledger
      BY DEF IInv, TypeOK
    <3>3. \A s \in ForeignSlots : ~ Contains(input.pool, s)
      BY <1>1, <3>1 DEF CustodyInv, CustodyHolds, Stages
    <3>4. resolved[k] \notin ForeignSlots
      BY <1>1, <3>2, <3>3, HostAssumption DEF ConfinementInv, Allowed
    <3>5. ledger'.records = WithClaim(ledger.records, k, resolved[k])
      BY <3>1, <3>2 DEF Stages, Ledger
    <3>6. OccupiedSlots(ledger') \subseteq OccupiedSlots(ledger) \cup {resolved[k]}
      BY <3>5, WithClaimOccupies DEF OccupiedSlots
    <3>7. QED
      BY <1>1, <3>4, <3>6 DEF CustodyInv
  <2>4. CASE Numbers
    <3>1. ledger'.records = ledger.records
      BY <2>4, NextGenerationType DEF Numbers, IInv, TypeOK
    <3>2. QED
      BY <1>1, <3>1 DEF CustodyInv, OccupiedSlots
  <2>5. CASE \/ \E p \in Placements(NewKeys(ledger.records, input.requests),
                                    FreeSlots(ledger, input.pool)) : Decides(p)
             \/ \E k \in StableKey, owner \in Owner : Selects(k, owner)
             \/ Passes
    BY <1>1, <2>5 DEF CustodyInv, Decides, Selects, Passes
  <2>6. QED
    BY <2>1, <2>2, <2>3, <2>4, <2>5, StepShapes
<1>6. ASSUME NEW pool, CustodyHolds(witness, pool, populated)
      PROVE  CustodyHolds(witness', pool, populated')
  <2>1. CASE populated' = populated
    BY <1>2, <1>6, <2>1 DEF CustodyHolds
  <2>2. CASE /\ authority # Null /\ witness' = witness
             /\ \E k \in DOMAIN authority.allocations :
                  populated' = populated \cup {authority.allocations[k]}
    <3>1. PICK k \in DOMAIN authority.allocations :
            populated' = populated \cup {authority.allocations[k]}
      BY <2>2
    <3>2. authority.allocations[k] \in OccupiedSlots(witness)
      BY <2>2 DEF IInv, AuthorityIsDurable, OccupiedSlots, Range
    <3>3. QED
      BY <1>6, <2>2, <3>1, <3>2 DEF CustodyHolds
  <2>3. QED
    BY <2>1, <2>2, PopulatedSteps
<1>7. pc' # "idle" => CustodyHolds(witness', input'.pool, populated')
  <2>1. CASE Ends
    BY <2>1, LeaveEmpties DEF Ends
  <2>2. CASE \E i \in HostInput : Begins(i)
    BY <2>2, BeginsFromHistory DEF Begins
  <2>3. CASE pc = "idle" /\ pc' = "idle"
    BY <2>3
  <2>4. CASE pc # "idle" /\ input' = input
    BY <1>1, <1>6, <2>4 DEF CustodyInv
  <2>5. QED
    BY <2>1, <2>2, <2>3, <2>4, StepShapes DEF Decides, Stages, Numbers, Selects, Passes
<1>8. authority' # Null => CustodyHolds(witness', authority'.binding.pool, populated')
  <2>1. CASE authority' = authority
    BY <1>1, <1>6, <2>1 DEF CustodyInv
  <2>2. CASE Publish
    <3>1. authority'.binding = input /\ pc # "idle"
      BY <2>2 DEF Publish
    <3>2. QED
      BY <1>1, <1>6, <3>1 DEF CustodyInv
  <2>3. QED
    BY <2>1, <2>2, AuthoritySteps
<1>9. QED
  BY <1>3, <1>4, <1>5, <1>7, <1>8 DEF CustodyInv

\* Integrity: the commit store admits a ledger only after checking it.
LEMMA IntegrityKeeps ==
  ASSUME IInv, ClaimsInv, Next
  PROVE  IntegrityInv'
<1>1. IntegrityInv
  BY DEF ClaimsInv
<1>2. Integral(witness')
  <2>1. CASE witness' = witness
    BY <1>1, <2>1 DEF IntegrityInv
  <2>2. CASE /\ witness' # witness
             /\ pc \in {"value", "publish"}
             /\ witness' = ledger
             /\ Contract!SubBindings(witness.records, ledger.records)
    <3>1. target = Committed(ledger)
      BY <2>2 DEF IInv, TargetInv
    <3>2. QED
      BY <1>1, <2>2, <3>1 DEF IntegrityInv, Committed
  <2>3. QED
    BY <2>1, <2>2, WitnessSteps
<1>3. target'.kind = "committed" => Integral(target'.ledger)
  <2>1. CASE Ends
    BY <2>1, LeaveEmpties DEF Ends
  <2>2. CASE \E i \in HostInput : Begins(i)
    BY <1>1, <2>2 DEF Begins, IntegrityInv, EmptyCell
  <2>3. CASE Numbers
    BY <2>3 DEF Numbers, CommitAdmitted, Committed
  <2>4. CASE target' = target
    BY <1>1, <2>4 DEF IntegrityInv
  <2>5. QED
    BY <2>1, <2>2, <2>3, <2>4, StepShapes DEF Decides, Stages, Selects, Passes
<1>4. QED
  BY <1>2, <1>3 DEF IntegrityInv

\* The decision is taken against the committed history, and nothing that it
\* was taken from changes while it is staged.
LEMMA DecisionKeeps ==
  ASSUME IInv, ClaimsInv, Next
  PROVE  DecisionInv'
<1> USE DEF durable
<1>1. DecisionInv
  BY DEF ClaimsInv
<1>2. CASE \E p \in Placements(NewKeys(ledger.records, input.requests),
                               FreeSlots(ledger, input.pool)) : Decides(p)
  <2>1. PICK p \in Placements(NewKeys(ledger.records, input.requests),
                              FreeSlots(ledger, input.pool)) : Decides(p)
    BY <1>2
  <2>2. ledger = witness
    BY <2>1 DEF Decides, IInv, LedgerInv
  <2>3. QED
    BY <2>1, <2>2 DEF Decides, DecisionInv
<1>3. CASE \E k \in pending : Stages(k)
  BY <1>1, <1>3 DEF Stages, DecisionInv
<1>4. CASE Ends
  BY <1>4, LeaveEmpties DEF Ends, DecisionInv
<1>5. CASE \/ \E i \in HostInput : Begins(i)
           \/ Numbers
           \/ \E k \in StableKey, owner \in Owner : Selects(k, owner)
  BY <1>5 DEF Begins, Numbers, Selects, DecisionInv
<1>6. CASE Passes
  <2>1. pc = "stage" => witness' = witness
    BY WitnessSteps
  <2>2. QED
    BY <1>1, <1>6, <2>1 DEF Passes, DecisionInv
<1>7. QED
  BY <1>2, <1>3, <1>4, <1>5, <1>6, StepShapes

\* Confinement of the frame: whatever the callback selects and resolution
\* places is allowed by the arguments the attempt was given.
LEMMA FrameIsConfined ==
  ASSUME IInv, ClaimsInv, Next
  PROVE  /\ \A k \in selected' : Allowed(k, ledger.records[k])'
         /\ \A k \in DOMAIN resolved' :
              IF k = LedgerKey THEN resolved'[k] = LedgerSlot
              ELSE Allowed(k, resolved[k])'
         /\ LedgerKey \in DOMAIN resolved' =>
              \A k \in DOMAIN input'.requests :
                k \in DOMAIN resolved' /\ input'.pool.owner[k] = input'.requests[k]
         /\ pc' \in {"stage", "commit", "publish"} \/ target'.kind = "committed" =>
              LedgerKey \in DOMAIN resolved'
<1> DEFINE Goal ==
             /\ \A k \in selected' : Allowed(k, ledger.records[k])'
             /\ \A k \in DOMAIN resolved' :
                  IF k = LedgerKey THEN resolved'[k] = LedgerSlot
                  ELSE Allowed(k, resolved[k])'
             /\ LedgerKey \in DOMAIN resolved' =>
                  \A k \in DOMAIN input'.requests :
                    k \in DOMAIN resolved' /\ input'.pool.owner[k] = input'.requests[k]
             /\ pc' \in {"stage", "commit", "publish"} \/ target'.kind = "committed" =>
                  LedgerKey \in DOMAIN resolved'
<1> USE DEF durable, frame
<1>1. ConfinementInv
  BY DEF ClaimsInv
<1>2. CASE Ends
  BY <1>2, LeaveEmpties DEF Ends
<1>3. CASE \E i \in HostInput : Begins(i)
  <2>1. selected = {} /\ DOMAIN resolved = {} /\ target.kind = "absent"
    BY <1>3, NoBindingsType DEF Begins, IInv, TypeOK, IdleFrame, EmptyCell
  <2>2. QED
    BY <1>3, <2>1 DEF Begins, EmptyCell
<1>4. CASE \E p \in Placements(NewKeys(ledger.records, input.requests),
                               FreeSlots(ledger, input.pool)) : Decides(p)
  <2>1. PICK p \in Placements(NewKeys(ledger.records, input.requests),
                              FreeSlots(ledger, input.pool)) : Decides(p)
    BY <1>4
  <2>2. QED
    BY <1>1, <2>1, DecisionIsAllowed DEF Decides, ConfinementInv, Allowed
<1>5. CASE \E k \in pending : Stages(k)
  <2>1. PICK k \in pending : Stages(k)
    BY <1>5
  <2>2. ledger'.records = WithClaim(ledger.records, k, resolved[k])
    BY <2>1 DEF Stages, IInv, TypeOK, Ledger
  <2>3. \A j \in selected : ledger'.records[j] = ledger.records[j]
    BY <2>2 DEF WithClaim, IInv, StagedInv
  <2>4. QED
    BY <1>1, <2>1, <2>3 DEF Stages, ConfinementInv, Allowed
<1>6. CASE Numbers
  <2>1. ledger'.records = ledger.records
    BY <1>6, NextGenerationType DEF Numbers, IInv, TypeOK
  <2>2. QED
    BY <1>1, <1>6, <2>1 DEF Numbers, ConfinementInv, Allowed
<1>7. CASE \E k \in StableKey, owner \in Owner : Selects(k, owner)
  <2>1. PICK k \in StableKey, owner \in Owner : Selects(k, owner)
    BY <1>7
  <2>2. \A j \in selected' : Allowed(j, ledger.records[j])
    BY <1>1, <2>1 DEF Selects, Selectable, AuthorityValid, ConfinementInv, Allowed
  <2>3. QED
    BY <1>1, <2>1, <2>2 DEF Selects, ConfinementInv, Allowed
<1>8. CASE Passes
  <2>1. target.kind = "unset" \/ pc # "value" \/ target.kind = "committed"
    BY <1>8, CommittedType DEF IInv, TypeOK, TargetInv, EmptyCell, Committed
  <2>2. QED
    BY <1>1, <1>8, <2>1 DEF Passes, ConfinementInv, Allowed
<1>9. QED
  BY <1>2, <1>3, <1>4, <1>5, <1>6, <1>7, <1>8, StepShapes

\* Confinement of the capability: it is the confined resolution, and keeps
\* the arguments it was published under.
LEMMA AuthorityConfinedKeeps ==
  ASSUME IInv, ClaimsInv, Next
  PROVE  AuthorityIsConfined'
<1> USE DEF durable, frame
<1>1. ConfinementInv
  BY DEF ClaimsInv
<1>2. CASE authority' = Null
  BY <1>2 DEF AuthorityIsConfined
<1>3. CASE authority' = authority
  BY <1>1, <1>3 DEF ConfinementInv, AuthorityIsConfined
<1>4. CASE Publish
  <2> DEFINE shown == DOMAIN resolved \ {LedgerKey}
  <2>1. input \in HostInput /\ LedgerKey \in DOMAIN resolved
    BY <1>1, <1>4 DEF Publish, IInv, TypeOK, ConfinementInv
  <2>2. /\ authority'.allocations = Restrict(resolved, shown)
        /\ authority'.binding = input
    BY <1>4 DEF Publish
  <2>3. /\ DOMAIN authority'.allocations = shown
        /\ \A k \in shown : authority'.allocations[k] = resolved[k]
    BY <2>2 DEF Restrict
  <2>4. \A k \in shown : /\ k \in AppKey /\ input.pool.owner[k] \in Owner
                         /\ Contains(input.pool, resolved[k])
    BY <1>1 DEF ConfinementInv, Allowed
  <2>5. \A k \in shown : resolved[k] \notin input.pool.excluded \cup Governance
    BY <2>1, <2>4, PoolSparesLedgerSlot
  <2>6. \A k \in DOMAIN input.requests : k \in shown /\ input.pool.owner[k] = input.requests[k]
    BY <1>1, <2>1, RequestedKeys DEF ConfinementInv
  <2>7. QED
    BY <2>2, <2>3, <2>4, <2>5, <2>6 DEF AuthorityIsConfined
<1>5. QED
  BY <1>2, <1>3, <1>4, AuthoritySteps

\* Governance's slot stays governance's, in both ledgers.
LEMMA ReservedKeeps ==
  ASSUME IInv, ClaimsInv, Next
  PROVE  Reserved(witness.records)' /\ Reserved(ledger.records)'
<1>1. ClaimInv /\ ConfinementInv
  BY DEF ClaimsInv
<1>2. Reserved(witness.records)'
  BY <1>1, WitnessSteps DEF ClaimInv
<1>3. Reserved(ledger.records)'
  <2>1. CASE Ends
    BY <2>1, LeaveEmpties, GenesisIsEmpty DEF Ends, Reserved
  <2>2. CASE \E i \in HostInput : Begins(i)
    <3>1. ledger' = witness
      BY <2>2, BeginsFromHistory DEF Begins
    <3>2. QED
      BY <1>1, <3>1 DEF ClaimInv
  <2>3. CASE \E k \in pending : Stages(k)
    <3>1. PICK k \in pending : Stages(k)
      BY <2>3
    <3>2. k \in DOMAIN resolved /\ input \in HostInput
      BY <3>1 DEF Stages, IInv, TypeOK
    <3>3. (k = LedgerKey) <=> (resolved[k] = LedgerSlot)
      BY <1>1, <3>2, PoolSparesLedgerSlot DEF ConfinementInv, Allowed
    <3>4. ledger'.records = WithClaim(ledger.records, k, resolved[k])
      BY <3>1 DEF Stages, IInv, TypeOK, Ledger
    <3>5. QED
      BY <1>1, <3>3, <3>4 DEF ClaimInv, Reserved, WithClaim
  <2>4. CASE Numbers
    <3>1. ledger'.records = ledger.records
      BY <2>4, NextGenerationType DEF Numbers, IInv, TypeOK
    <3>2. QED
      BY <1>1, <3>1 DEF ClaimInv
  <2>5. CASE \/ \E p \in Placements(NewKeys(ledger.records, input.requests),
                                    FreeSlots(ledger, input.pool)) : Decides(p)
             \/ \E k \in StableKey, owner \in Owner : Selects(k, owner)
             \/ Passes
    BY <1>1, <2>5 DEF ClaimInv, Decides, Selects, Passes
  <2>6. QED
    BY <2>1, <2>2, <2>3, <2>4, <2>5, StepShapes
<1>4. QED
  BY <1>2, <1>3

\* A latched failure cannot be left behind: only a refusal leads out of it.
LEMMA PoisonKeeps ==
  ASSUME IInv, ClaimsInv, Next
  PROVE  PoisonedNeverCommits'
<1> USE DEF durable, frame
<1>1. PoisonedNeverCommits
  BY DEF ClaimsInv, ClaimInv
<1>2. CASE \E k \in StableKey, owner \in Owner : IncludeHistorical(k, owner)
  BY <1>2 DEF IncludeHistorical, PoisonedNeverCommits
<1>3. CASE Ends
  BY <1>3, LeaveEmpties DEF Ends, PoisonedNeverCommits
<1>4. CASE ~ Ends /\ ~ (\E k \in StableKey, owner \in Owner : IncludeHistorical(k, owner))
  <2>1. UNCHANGED poisoned /\ (poisoned => pc' = pc \/ pc = "idle")
    <3>1. CASE Progress
      BY <1>1, <1>4, <3>1
         DEF Progress, ReserveCell, WriteHeader, WriteValue, FinishPreparation,
             StageDeclaration, CommitGeneration, Publish, Refuse, Ends, PoisonedNeverCommits
    <3>2. CASE Host
      BY <1>1, <1>4, <3>2
         DEF Host, Construct, ColdBootstrap, WarmBootstrap, Populate, Restart, Trap,
             Panic, Refuse, Ends, PoisonedNeverCommits
    <3>3. QED
      BY <3>1, <3>2 DEF Next
  <2>2. QED
    BY <1>1, <2>1 DEF PoisonedNeverCommits
<1>5. QED
  BY <1>2, <1>3, <1>4

\* What is to be staged stays claimable while its predecessors are staged.
LEMMA ClaimableKeeps ==
  ASSUME IInv, ClaimsInv, Next
  PROVE  /\ ResolutionIsClaimable'
         /\ pc' = "stage" =>
              \A j, k \in pending' : resolved'[j] = resolved'[k] => j = k
<1>1. ClaimInv
  BY DEF ClaimsInv
<1>2. CASE \E k \in pending : Stages(k)
  <2>1. PICK k \in pending : Stages(k)
    BY <1>2
  <2> DEFINE r == ledger.records
             w == WithClaim(r, k, resolved[k])
  <2>2. /\ ledger'.records = w /\ resolved' = resolved /\ pending' = pending \ {k}
        /\ pc = "stage"
    BY <2>1 DEF Stages, IInv, TypeOK, Ledger
  <2>3. \A i, j \in pending : resolved[i] = resolved[j] => i = j
    BY <1>1, <2>2 DEF ClaimInv
  <2>4. ASSUME NEW j \in pending'
        PROVE  ~ ClaimConflict(w, j, resolved[j])
    <3>1. j \in pending /\ j # k /\ resolved[j] # resolved[k]
      BY <2>2, <2>3
    <3>2. ~ ClaimConflict(r, j, resolved[j])
      BY <1>1, <2>2, <3>1 DEF ClaimInv, ResolutionIsClaimable
    <3>3. ~ StableKeyMoved(w, j, resolved[j])
      BY <3>1, <3>2 DEF ClaimConflict, StableKeyMoved, WithClaim
    <3>4. ~ SlotReused(w, j, resolved[j])
      <4>1. CASE j \in DOMAIN r
        BY <4>1 DEF SlotReused, WithClaim
      <4>2. CASE j \notin DOMAIN r
        BY <3>1, <3>2, <4>2, WithClaimOccupies DEF ClaimConflict, SlotReused
      <4>3. QED
        BY <4>1, <4>2
    <3>5. QED
      BY <3>3, <3>4 DEF ClaimConflict
  <2>5. QED
    BY <2>2, <2>3, <2>4 DEF ResolutionIsClaimable
<1>3. CASE \E p \in Placements(NewKeys(ledger.records, input.requests),
                               FreeSlots(ledger, input.pool)) : Decides(p)
  <2>1. PICK p \in Placements(NewKeys(ledger.records, input.requests),
                              FreeSlots(ledger, input.pool)) : Decides(p)
    BY <1>3
  <2>2. pending' = DOMAIN resolved' /\ ledger' = ledger
    BY <2>1 DEF Decides, Resolved
  <2>3. QED
    BY <2>1, <2>2, DecisionIsAllowed DEF ResolutionIsClaimable
<1>4. CASE Ends
  BY <1>4, LeaveEmpties DEF Ends, ResolutionIsClaimable
<1>5. CASE (\E i \in HostInput : Begins(i)) \/ Numbers
  BY <1>5 DEF Begins, Numbers, ResolutionIsClaimable
<1>6. CASE (\E k \in StableKey, owner \in Owner : Selects(k, owner)) \/ Passes
  BY <1>1, <1>6 DEF Selects, Passes, ClaimInv, ResolutionIsClaimable
<1>7. QED
  BY <1>2, <1>3, <1>4, <1>5, <1>6, StepShapes

\* What a failed attempt leaves: nothing was written where it can be refused.
LEMMA RollbackKeeps ==
  ASSUME IInv, ClaimsInv, Next
  PROVE  RollbackInv'
<1> USE DEF durable
<1>1. RollbackInv
  BY DEF ClaimsInv
<1>2. CASE Ends
  BY <1>2, LeaveEmpties DEF Ends, RollbackInv
<1>3. CASE \E i \in HostInput : Begins(i)
  <2>1. target.kind = "absent"
    BY <1>3 DEF Begins, IInv, TypeOK, IdleFrame, EmptyCell
  <2>2. cell.kind \notin {"blank", "garbled"}
    BY <1>3 DEF Begins, Recoverable, GenesisAdmitted
  <2>3. QED
    BY <1>3, <2>1, <2>2 DEF Begins, RollbackInv
<1>4. CASE \/ \E p \in Placements(NewKeys(ledger.records, input.requests),
                                  FreeSlots(ledger, input.pool)) : Decides(p)
           \/ \E k \in pending : Stages(k)
           \/ \E k \in StableKey, owner \in Owner : Selects(k, owner)
  BY <1>1, <1>4 DEF Decides, Stages, Selects, RollbackInv
<1>5. CASE Numbers
  BY <1>1, <1>5 DEF Numbers, RollbackInv, Committed
<1>6. CASE Passes
  BY <1>1, <1>6 DEF Passes, RollbackInv
<1>7. QED
  BY <1>2, <1>3, <1>4, <1>5, <1>6, StepShapes

LEMMA NextClaimsKeeps ==
  ASSUME IInv, ClaimsInv, [Next]_vars
  PROVE  ClaimsInv'
<1>1. CASE Next
  <2>1. CustodyInv'
    BY <1>1, CustodyKeeps
  <2>2. ConfinementInv'
    BY <1>1, FrameIsConfined, AuthorityConfinedKeeps DEF ConfinementInv
  <2>3. ClaimInv'
    BY <1>1, ReservedKeeps, PoisonKeeps, ClaimableKeeps DEF ClaimInv
  <2>4. RollbackInv'
    BY <1>1, RollbackKeeps
  <2>5. IntegrityInv' /\ DecisionInv'
    BY <1>1, IntegrityKeeps, DecisionKeeps
  <2>6. QED
    BY <2>1, <2>2, <2>3, <2>4, <2>5 DEF ClaimsInv
<1>2. CASE UNCHANGED vars
  <2> USE DEF vars, durable, frame, ClaimsInv
  <2>1. CustodyInv' /\ IntegrityInv' /\ DecisionInv' /\ RollbackInv'
    BY <1>2 DEF CustodyInv, PagesAreExplained, IntegrityInv, DecisionInv, RollbackInv
  <2>2. ConfinementInv'
    BY <1>2 DEF ConfinementInv, Allowed, AuthorityIsConfined
  <2>3. ClaimInv'
    BY <1>2 DEF ClaimInv, Reserved, PoisonedNeverCommits, ResolutionIsClaimable
  <2>4. QED
    BY <2>1, <2>2, <2>3
<1>3. QED
  BY <1>1, <1>2

-----------------------------------------------------------------------------
(***************************************************************************)
(* The theorems.                                                           *)
(***************************************************************************)
\* ClaimsInv holds of every state bootstrap can reach: foreign pages are out
\* of the reach of an attempt, what it selects, resolves and stages is allowed
\* by its arguments and free in the ledger, and until it writes a store that
\* is not empty it can be refused without a trace (runtime/mod.rs, bootstrap;
\* requests.rs, SealedDeclarationSnapshot::resolve).
THEOREM ClaimsInvariant == Spec => []ClaimsInv
<1>1. Init => ClaimsInv
  BY InitClaimsInv
<1>2. IInv /\ ClaimsInv /\ [Next]_vars => ClaimsInv'
  BY NextClaimsKeeps
<1>3. QED
  BY <1>1, <1>2, InductiveInvariant, PTL DEF Spec

\* A capability reaches granted keys and ids its pool does not exclude, never
\* governance's, and every request it was bound to (runtime/mod.rs,
\* bootstrap_unbootstrapped; requests.rs, SealedDeclarationSnapshot::resolve).
THEOREM ConfinedAuthority == Spec => []AuthorityIsConfined
<1>1. ClaimsInv => AuthorityIsConfined
  BY DEF ClaimsInv, ConfinementInv
<1>2. QED
  BY <1>1, ClaimsInvariant, PTL

\* Neither the committed history nor the ledger on the backing ever gives an
\* id with unexplained pages to a key, whichever pools successive releases
\* pass (runtime/mod.rs, validate_pool_custody).
THEOREM UnownedForeignPages == Spec => []ForeignPagesStayUnowned
<1>1. IInv /\ ClaimsInv => ForeignPagesStayUnowned
  <2> SUFFICES ASSUME IInv, ClaimsInv PROVE ForeignPagesStayUnowned
    OBVIOUS
  <2>1. CustodyInv
    BY DEF ClaimsInv
  <2>2. cell.kind = "committed" => cell.ledger = witness \/ cell.ledger = ledger
    BY CommittedType DEF IInv, TypeOK, CellInv, Matches, TargetInv
  <2>3. QED
    BY <2>1, <2>2 DEF CustodyInv, ForeignPagesStayUnowned
<1>2. QED
  BY <1>1, InductiveInvariant, ClaimsInvariant, PTL

\* Every page that is not foreign lies under a committed record
\* (runtime/mod.rs, open_memory and validate_pool_custody).
THEOREM ExplainedPages == Spec => []PagesAreExplained
<1>1. ClaimsInv => PagesAreExplained
  BY DEF ClaimsInv, CustodyInv
<1>2. QED
  BY <1>1, ClaimsInvariant, PTL

\* A latched selection failure never gets past preparation (runtime/admission.rs,
\* BootstrapAdmission::include_historical).
THEOREM PoisonIsFinal == Spec => []PoisonedNeverCommits
<1>1. ClaimsInv => PoisonedNeverCommits
  BY DEF ClaimsInv, ClaimInv
<1>2. QED
  BY <1>1, ClaimsInvariant, PTL

\* Resolution against the recovered ledger is claimed without a conflict from
\* the staged one (requests.rs, resolve; ledger/stage.rs, stage_generation).
THEOREM ClaimableResolution == Spec => []ResolutionIsClaimable
<1>1. ClaimsInv => ResolutionIsClaimable
  BY DEF ClaimsInv, ClaimInv
<1>2. QED
  BY <1>1, ClaimsInvariant, PTL

\* No return from bootstrap leaves the cell unreadable unless it was so when no
\* attempt was running; only a panic on a host without rollback does
\* (ledger/mod.rs, commit_generation; runtime/mod.rs, bootstrap).
THEOREM SoundCell == Spec => CellStaysSound
<1> DEFINE Bad == pc' = "idle" /\ cell'.kind \in {"blank", "garbled"}
           Excused == \/ pc = "idle" /\ cell' = cell
                      \/ ~ Atomic /\ outcome' = "fault"
<1>1. IInv /\ ClaimsInv /\ [Next]_vars => [Bad => Excused]_vars
  <2> SUFFICES ASSUME IInv, ClaimsInv, Next, Bad PROVE Excused
    OBVIOUS
  <2> USE DEF durable
  <2>1. RollbackInv
    BY DEF ClaimsInv
  <2>2. ASSUME Publish PROVE FALSE
    BY <2>2, PublishFacts DEF Committed
  <2>3. ASSUME Trap PROVE FALSE
    BY <2>1, <2>3 DEF Trap, RollbackInv
  <2>4. CASE Panic
    BY <2>4 DEF Panic, Leave
  <2>5. ASSUME Refused PROVE FALSE
    BY <2>1, <2>5 DEF Refused, Refuse, RollbackInv
  <2>6. QED
    BY <2>2, <2>3, <2>4, <2>5, ExitSteps
<1>2. QED
  BY <1>1, InductiveInvariant, ClaimsInvariant, PTL DEF Spec, CellStaysSound

\* An error return leaves the cell as the attempt found it, but for the empty
\* root of a fresh backing (runtime/mod.rs, bootstrap_unbootstrapped).
THEOREM HarmlessRefusal == Spec => RefusalIsHarmless
<1> DEFINE Errs == outcome' = "error" /\ pc # "idle" /\ pc' = "idle"
           Harmless == cell' = saved \/ (saved.kind = "absent" /\ cell'.kind = "unset")
<1>1. IInv /\ ClaimsInv /\ [Next]_vars => [Errs => Harmless]_vars
  <2> SUFFICES ASSUME IInv, ClaimsInv, Next, Errs PROVE Harmless
    OBVIOUS
  <2>1. Refused
    BY ExitSteps DEF Publish, Trap, Panic, Leave
  <2>2. QED
    BY <2>1 DEF Refused, Refuse, durable, ClaimsInv, RollbackInv
<1>2. QED
  BY <1>1, InductiveInvariant, ClaimsInvariant, PTL DEF Spec, RefusalIsHarmless

\* A call on a bootstrapped runtime changes neither the backing's ledger nor
\* the capability (runtime/mod.rs, RuntimeBootstrapBinding::validate).
THEOREM PassiveWarmth == Spec => WarmIsPassive
<1> DEFINE Warm == pc = "idle" /\ runtime = "bootstrapped" /\ runtime' # "none"
           Passive == cell' = cell /\ authority' = authority /\ pc' = "idle"
<1>1. [Next]_vars => [Warm => Passive]_vars
  <2> SUFFICES ASSUME Next, Warm PROVE Passive
    OBVIOUS
  <2> USE DEF durable, frame
  <2>1. ASSUME Progress PROVE FALSE
    BY <2>1 DEF Progress, ReserveCell, WriteHeader, WriteValue, FinishPreparation,
                StageDeclaration, CommitGeneration, Publish
  <2>2. CASE Host
    BY <2>2 DEF Host, Construct, ColdBootstrap, WarmBootstrap, IncludeHistorical,
                Populate, Restart, Trap, Panic
  <2>3. QED
    BY <2>1, <2>2 DEF Next
<1>2. QED
  BY <1>1, PTL DEF Spec, WarmIsPassive
=============================================================================
