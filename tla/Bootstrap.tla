------------------------------ MODULE Bootstrap ------------------------------
(***************************************************************************)
(* Cold and warm bootstrap of one MemoryRuntime over one backing memory.   *)
(*                                                                         *)
(* bootstrap() runs alone (it holds &mut self), so an attempt is one       *)
(* thread of control.  It is cut into steps wherever control or bytes      *)
(* leave the crate: each call into the host's policy and each operation on *)
(* the backing, because there a callback may refuse or panic, the backing  *)
(* may refuse to grow or panic, and the process may end.                   *)
(*                                                                         *)
(* Two hosts are modelled.  With Atomic, the backing is a canister's       *)
(* stable memory and every attempt is a message: a trap restores the       *)
(* backing to what it was when the message began.  Without it the backing  *)
(* is a native memory with no transaction: a panic leaves the bytes that   *)
(* were written, whether the process catches it or ends.                   *)
(***************************************************************************)
EXTENDS AllocationPool

CONSTANTS
  Atomic,        \* the host rolls a failed message back
  ForeignSlots,  \* ids that hold pages no record explains, at the outset;
                 \* memory 0 is not one of them: foreign pages there are a
                 \* garbled cell
  Null

\* A published capability, with the arguments it is bound to.
Authority ==
  [allocations : Bindings, generation : 0 .. MaxGeneration, binding : Input]

ASSUME HostAssumption ==
  /\ Atomic \in BOOLEAN
  /\ ForeignSlots \subseteq Slot \ {LedgerSlot}
  /\ Null \notin Input \cup Authority \cup Ledger

VARIABLES
  cell,       \* durable: the ledger cell, virtual memory 0
  populated,  \* durable: the other ids whose memories hold pages
  runtime,    \* "none", "unbootstrapped" or "bootstrapped"
  authority,  \* the published capability, or Null
  pc,         \* where the running attempt is, "idle" when there is none
  input,      \* arguments of the running attempt
  ledger,     \* the recovered ledger, staged in place
  selected,   \* historical keys the preparation callback has selected
  poisoned,   \* a selection has failed and is latched
  resolved,   \* resolved declarations, key to slot
  pending,    \* keys of resolved that staging has not reached
  target,     \* the commit store being written to the cell
  saved,      \* the cell when the attempt began
  outcome,    \* how the last call of bootstrap ended
  witness     \* history: the last ledger that was durably committed

durable == <<cell, populated>>

frame == <<input, ledger, selected, poisoned, resolved, pending, target, saved>>

vars == <<durable, runtime, authority, pc, frame, outcome, witness>>

Step == {"idle", "reserve", "header", "value", "prepare", "stage", "commit", "publish"}

-----------------------------------------------------------------------------
(***************************************************************************)
(* Frames.  Between attempts the frame holds canonical values.             *)
(***************************************************************************)
IdleFrame ==
  /\ input = Null
  /\ ledger = Genesis
  /\ selected = {}
  /\ poisoned = FALSE
  /\ resolved = NoBindings
  /\ pending = {}
  /\ target = EmptyCell("absent")
  /\ saved = EmptyCell("absent")

\* Every exit from an attempt drops its locals.  The lease on memory 0 goes with
\* them: it is not part of this module, whose attempts run one at a time.
Leave(result) ==
  /\ pc' = "idle"
  /\ input' = Null
  /\ ledger' = Genesis
  /\ selected' = {}
  /\ poisoned' = FALSE
  /\ resolved' = NoBindings
  /\ pending' = {}
  /\ target' = EmptyCell("absent")
  /\ saved' = EmptyCell("absent")
  /\ outcome' = result

\* An error return: what the attempt staged is discarded, what it wrote stays.
Refuse ==
  /\ Leave("error")
  /\ UNCHANGED <<durable, runtime, authority, witness>>

Init ==
  /\ cell \in {EmptyCell("absent"), EmptyCell("garbled")}
  /\ populated = ForeignSlots
  /\ runtime = "none"
  /\ authority = Null
  /\ pc = "idle"
  /\ IdleFrame
  /\ outcome = "none"
  /\ witness = Genesis

-----------------------------------------------------------------------------
(***************************************************************************)
(* A cold attempt.                                                         *)
(***************************************************************************)
\* MemoryRuntime::new over a backing whose manager layout is sound.
Construct ==
  /\ runtime = "none"
  /\ runtime' = "unbootstrapped"
  /\ outcome' = "none"
  /\ UNCHANGED <<durable, authority, pc, frame, witness>>

\* Decode and recover the ledger, check custody of the pool, and go on to
\* the fresh root cell or straight to the host's preparation.
ColdBootstrap(i) ==
  /\ pc = "idle"
  /\ runtime = "unbootstrapped"
  /\ \/ /\ Recoverable(cell)
        /\ CustodyHolds(RecoverOrGenesis(cell), i.pool, populated)
        /\ input' = i
        /\ ledger' = RecoverOrGenesis(cell)
        /\ saved' = cell
        /\ IF cell.kind = "absent"
             THEN pc' = "reserve" /\ target' = EmptyCell("unset")
             ELSE pc' = "prepare" /\ target' = target
        /\ UNCHANGED <<durable, runtime, authority, selected, poisoned, resolved,
                       pending, outcome, witness>>
     \/ /\ ~ Recoverable(cell) \/ ~ CustodyHolds(RecoverOrGenesis(cell), i.pool, populated)
        /\ Refuse

\* Mutant: a refused growth of the ledger's memory is swallowed.
ReserveCellMutant ==
  /\ pc = "reserve"
  /\ \/ /\ pc' = "header"
        /\ cell' = IF cell.kind = "absent" THEN EmptyCell("blank") ELSE cell
     \/ /\ pc' = IF target.kind = "unset" THEN "prepare" ELSE "publish"
        /\ cell' = cell
  /\ UNCHANGED <<populated, runtime, authority, frame, outcome, witness>>

\* write_ledger_cell: grow memory 0 when the encoded store does not fit.
ReserveCell ==
  /\ pc = "reserve"
  /\ \/ /\ pc' = "header"
        /\ cell' = IF cell.kind = "absent" THEN EmptyCell("blank") ELSE cell
        /\ UNCHANGED <<populated, runtime, authority, frame, outcome, witness>>
     \/ Refuse

\* The cell header carries the new length while the value is still the old
\* one.  Only a record of the very same length stays readable.
HeaderOutcomes ==
  {EmptyCell("garbled")} \cup
    {c \in {cell} : /\ c.kind = "committed"
                    /\ DOMAIN c.ledger.records = DOMAIN target.ledger.records}

WriteHeader ==
  /\ pc = "header"
  /\ pc' = "value"
  /\ cell' \in HeaderOutcomes
  /\ UNCHANGED <<populated, runtime, authority, frame, outcome, witness>>

\* Mutant: the record is found too large between the header and the value.
WriteValueMutant ==
  /\ pc = "value"
  /\ \/ /\ cell' = target
        /\ pc' = IF target.kind = "unset" THEN "prepare" ELSE "publish"
        /\ witness' = IF target.kind = "committed" /\ ~ Atomic THEN target.ledger ELSE witness
        /\ UNCHANGED <<populated, runtime, authority, frame, outcome>>
     \/ Refuse

\* A committed store is irrevocable at once on a backing without rollback.
WriteValue ==
  /\ pc = "value"
  /\ cell' = target
  /\ pc' = IF target.kind = "unset" THEN "prepare" ELSE "publish"
  /\ witness' = IF target.kind = "committed" /\ ~ Atomic THEN target.ledger ELSE witness
  /\ UNCHANGED <<populated, runtime, authority, frame, outcome>>

\* One call of BootstrapAdmission::include_historical by the preparation
\* callback, on any key.  After a failure every later call just repeats it.
Selectable(k, owner) ==
  /\ k \in AppKey
  /\ k \notin DOMAIN input.requests \cup selected
  /\ Cardinality(DOMAIN input.requests) + Cardinality(selected) < MaxExternal
  /\ k \in DOMAIN ledger.records
  /\ AuthorityValid(input.pool, k, owner)
  /\ Contains(input.pool, ledger.records[k])

IncludeHistorical(k, owner) ==
  /\ pc = "prepare"
  /\ ~ poisoned
  /\ IF Selectable(k, owner)
       THEN selected' = selected \cup {k} /\ poisoned' = FALSE
       ELSE selected' = selected /\ poisoned' = TRUE
  /\ UNCHANGED <<durable, runtime, authority, pc, input, ledger, resolved, pending,
                 target, saved, outcome, witness>>

\* Mutant: the callback's own verdict stands in for the latched failure.
FinishPreparationMutant(accepted) ==
  /\ pc = "prepare"
  /\ LET new == NewKeys(ledger.records, input.requests)
     IN IF accepted /\ RequestsAdmitted(ledger, input.requests, selected, input.pool)
          THEN /\ \E p \in Placements(new, FreeSlots(ledger, input.pool)) :
                    resolved' = Resolved(ledger.records, input.requests, selected, p)
               /\ pending' = {LedgerKey} \cup DOMAIN input.requests \cup selected
               /\ pc' = "stage"
               /\ UNCHANGED <<durable, runtime, authority, input, ledger, selected,
                              poisoned, target, saved, outcome, witness>>
          ELSE Refuse

\* The preparation callback returns, accepting or not.  A latched selection
\* failure and a preparation error end the attempt; otherwise the requests
\* are resolved, which fails on a revoked grant, an excluded id or an
\* exhausted pool.
FinishPreparation(accepted) ==
  /\ pc = "prepare"
  /\ LET new == NewKeys(ledger.records, input.requests)
         placed == Placements(new, FreeSlots(ledger, input.pool))
         admitted == /\ ~ poisoned
                     /\ accepted
                     /\ RequestsAdmitted(ledger, input.requests, selected, input.pool)
     IN \/ /\ admitted
           /\ \E p \in placed :
                /\ resolved' = Resolved(ledger.records, input.requests, selected, p)
                /\ pending' = {LedgerKey} \cup DOMAIN input.requests \cup selected
           /\ pc' = "stage"
           /\ UNCHANGED <<durable, runtime, authority, input, ledger, selected,
                          poisoned, target, saved, outcome, witness>>
        \/ (~ admitted \/ placed = {}) /\ Refuse

\* Mutant: staging forgets to take a declaration off its list.
StageDeclarationMutant(accepted) ==
  /\ pc = "stage"
  /\ \E k \in pending :
       /\ \A j \in pending : k <= j
       /\ k = LedgerKey \/ accepted
       /\ ledger' = [ledger EXCEPT !.records = WithClaim(@, k, resolved[k])]
  /\ UNCHANGED <<durable, runtime, authority, pc, input, selected, poisoned, resolved,
                 pending, target, saved, outcome, witness>>

\* Mutant: a new key is admitted without being recorded.
StageUnrecordedMutant(accepted) ==
  /\ pc = "stage"
  /\ \E k \in pending :
       /\ k = LedgerKey \/ accepted
       /\ pending' = pending \ {k}
       /\ pc' = IF pending' = {} THEN "commit" ELSE "stage"
  /\ UNCHANGED <<durable, runtime, authority, input, ledger, selected, poisoned,
                 resolved, target, saved, outcome, witness>>

\* Staging takes the declarations in key order.  The policy callback judges
\* every key but governance's own, and the claim check follows it.
StageDeclaration(accepted) ==
  /\ pc = "stage"
  /\ \E k \in pending :
       /\ \A j \in pending : k <= j
       /\ \/ /\ k = LedgerKey \/ accepted
             /\ ~ ClaimConflict(ledger.records, k, resolved[k])
             /\ ledger' = [ledger EXCEPT !.records = WithClaim(@, k, resolved[k])]
             /\ pending' = pending \ {k}
             /\ pc' = IF pending' = {} THEN "commit" ELSE "stage"
             /\ UNCHANGED <<durable, runtime, authority, input, selected, poisoned,
                            resolved, target, saved, outcome, witness>>
          \/ /\ \/ k # LedgerKey /\ ~ accepted
                \/ ClaimConflict(ledger.records, k, resolved[k])
             /\ Refuse

\* Mutant: records that are not declared this time are dropped.
CommitPrunedMutant ==
  /\ pc = "commit"
  /\ LET pruned == [ledger EXCEPT !.records = Restrict(@, DOMAIN resolved)]
     IN IF ~ GenerationOverflows(ledger) /\ CommitAdmitted(cell, NextGeneration(pruned))
          THEN /\ target' = Committed(NextGeneration(pruned))
               /\ ledger' = NextGeneration(pruned)
               /\ pc' = "reserve"
               /\ UNCHANGED <<durable, runtime, authority, input, selected, poisoned,
                              resolved, pending, saved, outcome, witness>>
          ELSE Refuse

\* Mutant: the commit replaces the cell before its growth was reserved.
CommitInPlaceMutant ==
  /\ pc = "commit"
  /\ ~ GenerationOverflows(ledger)
  /\ target' = Committed(NextGeneration(ledger))
  /\ ledger' = NextGeneration(ledger)
  /\ cell' = target'
  /\ pc' = "reserve"
  /\ UNCHANGED <<populated, runtime, authority, input, selected, poisoned,
                 resolved, pending, saved, outcome, witness>>

\* The generation advances only after every callback has been heard, and
\* the commit store takes the staged ledger only as its exact successor.
CommitGeneration ==
  /\ pc = "commit"
  /\ \/ /\ ~ GenerationOverflows(ledger)
        /\ CommitAdmitted(cell, NextGeneration(ledger))
        /\ target' = Committed(NextGeneration(ledger))
        /\ ledger' = NextGeneration(ledger)
        /\ pc' = "reserve"
        /\ UNCHANGED <<durable, runtime, authority, input, selected, poisoned,
                       resolved, pending, saved, outcome, witness>>
     \/ /\ GenerationOverflows(ledger) \/ ~ CommitAdmitted(cell, NextGeneration(ledger))
        /\ Refuse

\* Only now do the application's bindings become usable.
Publish ==
  /\ pc = "publish"
  /\ runtime' = "bootstrapped"
  /\ authority' = [allocations |-> Restrict(resolved, DOMAIN resolved \ {LedgerKey}),
                   generation |-> ledger.generation,
                   binding |-> input]
  /\ witness' = target.ledger
  /\ Leave("ok")
  /\ UNCHANGED durable

\* Mutant: a warm call rebinds the runtime to its new arguments.
WarmBootstrapMutant(i) ==
  /\ pc = "idle"
  /\ runtime = "bootstrapped"
  /\ authority' = [authority EXCEPT !.binding = i]
  /\ outcome' = "ok"
  /\ UNCHANGED <<durable, runtime, pc, frame, witness>>

\* A bootstrapped runtime compares the arguments with its binding, and does
\* nothing else.
WarmBootstrap(i) ==
  /\ pc = "idle"
  /\ runtime = "bootstrapped"
  /\ outcome' = IF i = authority.binding THEN "ok" ELSE "error"
  /\ UNCHANGED <<durable, runtime, authority, pc, frame, witness>>

-----------------------------------------------------------------------------
(***************************************************************************)
(* The world around the runtime.                                           *)
(***************************************************************************)
\* The application opens a committed key and grows its memory.
Populate(k) ==
  /\ runtime = "bootstrapped"
  /\ k \in DOMAIN authority.allocations
  /\ populated' = populated \cup {authority.allocations[k]}
  /\ UNCHANGED <<cell, runtime, authority, pc, frame, outcome, witness>>

\* Upgrade, restart, or an owner that drops the runtime with its leases.
Restart ==
  /\ pc = "idle"
  /\ runtime # "none"
  /\ runtime' = "none"
  /\ authority' = Null
  /\ outcome' = "none"
  /\ UNCHANGED <<durable, pc, frame, witness>>

\* A trap anywhere in the message of an attempt.  When the message also
\* constructed the runtime, that is undone too.
Trap ==
  /\ Atomic
  /\ pc # "idle"
  /\ cell' = saved
  /\ runtime' \in {"none", "unbootstrapped"}
  /\ Leave("fault")
  /\ UNCHANGED <<populated, authority, witness>>

\* A panic out of a callback or the backing: nothing written is undone.  The
\* runtime survives when the host catches the unwinding.
Panic ==
  /\ ~ Atomic
  /\ pc # "idle"
  /\ runtime' \in {"none", "unbootstrapped"}
  /\ Leave("fault")
  /\ UNCHANGED <<durable, authority, witness>>

-----------------------------------------------------------------------------
Progress ==
  \/ ReserveCell
  \/ WriteHeader
  \/ WriteValue
  \/ \E accepted \in BOOLEAN : FinishPreparation(accepted)
  \/ \E accepted \in BOOLEAN : StageDeclaration(accepted)
  \/ CommitGeneration
  \/ Publish

Host ==
  \/ Construct
  \/ \E i \in HostInput : ColdBootstrap(i)
  \/ \E i \in HostInput : WarmBootstrap(i)
  \/ \E k \in StableKey, owner \in Owner : IncludeHistorical(k, owner)
  \/ \E k \in AppKey : Populate(k)
  \/ Restart
  \/ Trap
  \/ Panic

Next == Progress \/ Host

Spec == Init /\ [][Next]_vars

\* The attempt is straight-line code, and a trusted callback returns.
FairSpec == Spec /\ WF_vars(Progress)

-----------------------------------------------------------------------------
(***************************************************************************)
(* Properties.                                                             *)
(***************************************************************************)
\* Every variable has its type, and there is a frame exactly while an
\* attempt runs and a capability exactly on a bootstrapped runtime.
TypeOK ==
  /\ cell \in Cell
  /\ populated \subseteq Slot
  /\ runtime \in {"none", "unbootstrapped", "bootstrapped"}
  /\ authority \in Authority \cup {Null}
  /\ (authority # Null) <=> (runtime = "bootstrapped")
  /\ pc \in Step
  /\ pc # "idle" => input \in HostInput /\ runtime = "unbootstrapped"
  /\ pc = "idle" => IdleFrame
  /\ ledger \in Ledger
  /\ selected \subseteq AppKey
  /\ poisoned \in BOOLEAN
  /\ resolved \in Bindings
  /\ pending \subseteq DOMAIN resolved
  /\ target \in Cell
  /\ saved \in Cell
  /\ outcome \in {"none", "ok", "error", "fault"}
  /\ witness \in Ledger

\* Bytes cannot change under a host that must still hear about the attempt.
Settled == pc = "idle" \/ ~ Atomic

\* Whatever failed, and wherever, the next recovery finds the last committed
\* ledger or an error: never an older ledger, another one, or a new genesis
\* over a history.
RecoveryIsExact ==
  Settled /\ Recoverable(cell) => RecoverOrGenesis(cell) = witness

\* A capability names only bindings that are on the backing, at the
\* generation that is on the backing: persistence comes before publication.
AuthorityIsDurable ==
  authority # Null =>
    /\ cell = Committed(witness)
    /\ authority.generation = witness.generation
    /\ \A k \in DOMAIN authority.allocations :
          k \in DOMAIN witness.records /\ witness.records[k] = authority.allocations[k]

\* A capability reaches what the bound arguments allow and nothing else: each
\* of its keys has a current grant and a slot that is neither excluded nor
\* governance's, and every request is in it under the owner of its grant.
AuthorityIsConfined ==
  authority # Null =>
    LET requests == authority.binding.requests
        pool == authority.binding.pool
    IN /\ \A k \in DOMAIN authority.allocations :
            /\ k \in AppKey
            /\ pool.owner[k] \in Owner
            /\ authority.allocations[k] \notin pool.excluded \cup Governance
       /\ \A k \in DOMAIN requests :
            k \in DOMAIN authority.allocations /\ pool.owner[k] = requests[k]

\* No record ever explains away an id whose pages were there before the
\* ledger was: custody of unmanaged pages is never given to a key.
ForeignPagesStayUnowned ==
  /\ OccupiedSlots(witness) \cap ForeignSlots = {}
  /\ cell.kind = "committed" => OccupiedSlots(cell.ledger) \cap ForeignSlots = {}

\* Pages are only ever written through a permanent binding.
PagesAreExplained == populated \subseteq ForeignSlots \cup OccupiedSlots(witness)

\* An error return leaves the cell exactly as it was, except that a fresh
\* backing may have acquired its root cell without a snapshot.
RefusalIsHarmless ==
  [][outcome' = "error" /\ pc # "idle" /\ pc' = "idle" =>
       cell' = saved \/ (saved.kind = "absent" /\ cell'.kind = "unset")]_vars

\* A latched selection failure ends the attempt without a new generation,
\* whatever the callback goes on to return.
PoisonedNeverCommits == poisoned => pc = "prepare"

\* What resolution decides against the recovered ledger is claimed without a
\* conflict from the ledger staging has changed since, governance's own slot
\* included: the claim check is a second line that is never reached.
ResolutionIsClaimable ==
  pc = "stage" => \A k \in pending : ~ ClaimConflict(ledger.records, k, resolved[k])

\* Bytes that recovery rejects are never replaced: no attempt starts a
\* history, or publishes anything, over a cell it could not read.
DamageIsKept ==
  [][pc = "idle" /\ cell.kind \in {"blank", "garbled"} =>
       cell' = cell /\ pc' = "idle" /\ authority' = Null]_vars

\* No return from bootstrap makes a cell unreadable, on a fresh root neither:
\* between the first byte of a write and its last there is no error return, and
\* a trap that a canister rolls back is none.  Where no attempt is running, an
\* unreadable cell is the one that was there a step before, outside any attempt
\* too, so nothing but a panic makes one that was not there at the outset.
CellStaysSound ==
  [][pc' = "idle" /\ cell'.kind \in {"blank", "garbled"} =>
       \/ pc = "idle" /\ cell' = cell
       \/ ~ Atomic /\ outcome' = "fault"]_vars

\* A call on a bootstrapped runtime changes neither the backing nor the
\* capability, whichever arguments it is given.
WarmIsPassive ==
  [][pc = "idle" /\ runtime = "bootstrapped" /\ runtime' # "none" =>
       cell' = cell /\ authority' = authority /\ pc' = "idle"]_vars

\* Every attempt ends: with a capability, an error or a fault.
AttemptsEnd == pc # "idle" ~> pc = "idle"

-----------------------------------------------------------------------------
\* The bootstrap implements the ownership contract.
CapabilityView ==
  IF authority = Null THEN Null
  ELSE [allocations |-> authority.allocations, generation |-> authority.generation]

Contract == INSTANCE OwnershipContract WITH registry <- witness, view <- CapabilityView

\* Bindings are permanent, injective and one generation apart, across
\* restarts, retries, refusals and torn writes.
ImplementsContract == Contract!ContractSpec
-----------------------------------------------------------------------------
(***************************************************************************)
(* The inductive invariant behind the safety properties.                   *)
(***************************************************************************)
\* The cell tells the truth about the committed history, or tells nothing.
Matches(c) ==
  /\ GenesisAdmitted(c) => witness = Genesis
  /\ c.kind = "committed" => c.ledger = witness

CellInv ==
  /\ Injective(witness.records)
  /\ Matches(cell) \/ (Atomic /\ pc = "publish")
  /\ Atomic => (pc # "idle" => Matches(saved))

\* The ledger in the frame is the committed one, or grows out of it.
LedgerInv ==
  /\ pc = "prepare" => ledger = witness
  /\ pc \in {"prepare", "stage", "commit"} =>
       /\ cell.kind \in {"unset", "committed"}
       /\ ledger.generation = witness.generation
       /\ Contract!SubBindings(witness.records, ledger.records)
       /\ Injective(ledger.records)

\* Declarations that staging has passed are in the staged ledger.
StagedInv ==
  /\ selected \subseteq DOMAIN ledger.records
  /\ pc # "stage" => pending = {}
  /\ \A k \in DOMAIN resolved \ pending :
        k \in DOMAIN ledger.records /\ ledger.records[k] = resolved[k]

\* What is being written is the empty store of a fresh root, or the exact
\* successor of the committed ledger.
TargetInv ==
  /\ pc \in {"reserve", "header", "value"} =>
       \/ /\ target = EmptyCell("unset")
          /\ witness = Genesis
          /\ ledger = Genesis
       \/ /\ target = Committed(ledger)
          /\ Contract!Advances(witness, ledger)
  /\ pc = "publish" =>
       /\ cell = target
       /\ target = Committed(ledger)
       /\ IF Atomic THEN Contract!Advances(witness, ledger) ELSE witness = ledger

IInv ==
  /\ TypeOK
  /\ CellInv
  /\ LedgerInv
  /\ StagedInv
  /\ TargetInv
  /\ AuthorityIsDurable
  /\ authority # Null => LedgerKey \notin DOMAIN authority.allocations

-----------------------------------------------------------------------------
(***************************************************************************)
(* The rest of the inductive invariant: what an attempt may claim, and     *)
(* what it leaves behind when it fails.                                    *)
(***************************************************************************)
\* Governance's key has governance's slot, and no other key has it.
Reserved(records) ==
  \A k \in DOMAIN records : (k = LedgerKey) <=> (records[k] = LedgerSlot)

\* Foreign pages stay and are owned by nobody, and the custody check that an
\* attempt passed goes on to hold of it and of the capability it publishes.
CustodyInv ==
  /\ ForeignSlots \subseteq populated
  /\ PagesAreExplained
  /\ OccupiedSlots(witness) \cap ForeignSlots = {}
  /\ OccupiedSlots(ledger) \cap ForeignSlots = {}
  /\ pc # "idle" => CustodyHolds(witness, input.pool, populated)
  /\ authority # Null => CustodyHolds(witness, authority.binding.pool, populated)

\* What the arguments allow: the grant of the key and the id itself.
Allowed(k, s) ==
  /\ k \in AppKey
  /\ input.pool.owner[k] \in Owner
  /\ Contains(input.pool, s)

\* Selected and resolved keys are allowed by the arguments, and once there is
\* a resolution, which is before anything but an empty store is written, it
\* holds governance's own binding and every request.
ConfinementInv ==
  /\ \A k \in selected : Allowed(k, ledger.records[k])
  /\ \A k \in DOMAIN resolved :
        IF k = LedgerKey THEN resolved[k] = LedgerSlot ELSE Allowed(k, resolved[k])
  /\ LedgerKey \in DOMAIN resolved =>
        \A k \in DOMAIN input.requests :
          k \in DOMAIN resolved /\ input.pool.owner[k] = input.requests[k]
  /\ pc \in {"stage", "commit", "publish"} \/ target.kind = "committed" =>
        LedgerKey \in DOMAIN resolved
  /\ AuthorityIsConfined

\* What is or may become the committed history passes recovery's check.
IntegrityInv ==
  /\ Integral(witness)
  /\ target.kind = "committed" => Integral(target.ledger)

\* The declarations being staged are what the committed history resolves to.
DecisionInv ==
  pc = "stage" =>
    /\ RequestsAdmitted(witness, input.requests, selected, input.pool)
    /\ \E p \in Placements(NewKeys(witness.records, input.requests),
                            FreeSlots(witness, input.pool)) :
         resolved = Resolved(witness.records, input.requests, selected, p)

\* What is still to be staged conflicts neither with the staged ledger nor
\* with itself.
ClaimInv ==
  /\ Reserved(witness.records)
  /\ Reserved(ledger.records)
  /\ PoisonedNeverCommits
  /\ ResolutionIsClaimable
  /\ pc = "stage" => \A j, k \in pending : resolved[j] = resolved[k] => j = k

\* Where an attempt can be refused, it has changed nothing, or has put the
\* empty root into an empty backing.
RollbackInv ==
  /\ pc \in {"reserve", "prepare", "stage", "commit"} =>
        /\ cell = saved \/ (saved.kind = "absent" /\ cell.kind = "unset")
        /\ cell.kind \notin {"blank", "garbled"}
  /\ pc \in {"reserve", "header", "value"} /\ target.kind = "unset" =>
        saved.kind = "absent"
  /\ pc # "idle" => saved.kind \notin {"blank", "garbled"}

\* Inductive together with IInv.
ClaimsInv ==
  /\ CustodyInv
  /\ IntegrityInv
  /\ ConfinementInv
  /\ DecisionInv
  /\ ClaimInv
  /\ RollbackInv
=============================================================================
