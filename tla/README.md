# ic-memory: models and proofs

`ic-memory` decides, for an application that keeps several stores in one stable
memory, which store owns which virtual memory, for ever. A release of the
application names its stores by *stable key*; the crate recovers the *ledger*
(key to memory-manager id) from virtual memory 0, resolves the keys, stages the
next generation of the ledger, makes it durable, and only then lets the
application open memories. What can go wrong lies between those steps: refusals
and panics of host callbacks, a backing that does not grow, a process that ends
inside a write, and releases that drop, add and return to keys.

Paths below are relative to `src/crates/ic-memory/src/` of the repository, except
that `repo_tool/mod.rs` is the repository's release tool in
`src/crates/ic-memory/examples/`.

## 1. Inventory

| Part | State it keeps | Operations | What makes it correct |
|---|---|---|---|
| Runtime bootstrap (`runtime/mod.rs`, `runtime/admission.rs`, `policy.rs`) | `RuntimeLifecycle`; the attempt's locals: recovered ledger, selections and their latched failure, resolved declarations | `bootstrap` cold and warm, `include_historical` | persistence before publication; a failed attempt is harmless; a latched failure wins; a warm call is passive; every attempt ends |
| Ledger (`ledger/`, `validation.rs`, `declaration.rs`) | generation, records | claim, stage, integrity check | bindings permanent and injective, generations one apart |
| Commit store and cell (`physical.rs`, `stable_cell.rs`, `ledger/codec.rs`) | at most one committed snapshot, in one `Cell` in virtual memory 0 | decode, recover or genesis, commit, encode, write | recovery finds the last committed ledger or an error |
| Pool and requests (`allocation_pool.rs`, `requests.rs`) | grants, excluded ids; sealed requests (immutable) | seal, resolve, authority and id checks, custody | no access beyond current grants and exclusions; pages of others stay theirs |
| Leases (`runtime/mod.rs`, `runtime/backing.rs`) | four words of lease bits | `open_memory`, drop | one live handle per memory |
| Growth (`runtime/backing.rs`, `runtime/config.rs`) | assigned-bucket count, bucket size | `grow` | the library's manager never runs short; a refusal changes nothing |
| Layout and construction (`runtime/layout.rs`, `runtime/mod.rs`) | none (reads manager header and table) | `new`, `new_with_config` | nothing foreign is overwritten; acknowledged extents are found again |
| Adoption, measurement, diagnostics, doctor (`runtime/adoption.rs`, `runtime/allocations.rs`, `runtime/diagnostics.rs`, `diagnostics.rs`, `testing/diagnostics.rs`) | none (read-only) | verify, measure, export, doctor | verdicts agree with what the writers would do |
| Pure algorithms (`sort.rs`, `key.rs`, `cbor.rs`, `bounded_writer.rs`, `hash.rs`, `text.rs`) | none | sort, duplicates, grammar, syntax walk, bounded buffer | result equals the reference definition, bounds hold |
| Release tooling (`repo_tool/mod.rs`) | no process state between commands: receipts `validated`, `prepared`, `final`, archives by digest, and the git repository | preflight, verify, prepare, prepared check, commit check, final qualification, push check, publish | what is published went through the gate; receipts say what happened; a failed preparation undoes its own edits and no others |
| Test support, examples, qualification canister | | | outside the program |

**Interaction.** The owner of a backing builds one `MemoryRuntime`, which reads
the manager's metadata once and shares the backing with the library's
`MemoryManager`. `bootstrap` takes the lease on memory 0, decodes the cell, and
calls the host's policy twice: once to prepare (the callback may select keys
from history) and once per declaration. It writes memory 0 through the same
`RuntimeMemory::grow` an application uses. After publication the application
opens memories by key; every handle shares the growth state, so two handles
meet in the bucket count. The backing itself is a host type (`M: Memory`): each
of its operations may refuse, panic or call back into the runtime through other
handles. Measurement reads the manager's metadata through the same host type, so
it can run inside a growth, and growths inside it. The release tool's commands
talk to each other through files only.

**Hard behaviours.** On the Internet Computer a trap rolls a message back; a
native backing has no transaction (SAFETY.md, docs/current-ledger.md). So each
write of the cell, and each write of the manager's metadata, can be the last
one. Single-threaded reentrancy replaces concurrency. `PROJECT.json` lists the
hazards with their lines and the property that watches each.

## 2. Modules

| Module | What it is |
|---|---|
| `AllocationLedger` | values and operators: bindings, claims, integrity, generations, the durable cell |
| `AllocationPool` | values and operators: pool, requests, resolution, custody |
| `OwnershipContract` | abstract specification: a registry that only grows, and a view of it |
| `Bootstrap` | state machine of bootstrap over one backing, its properties, and the inductive invariant in two halves |
| `Bootstrap_proofs` | theorems about `Bootstrap`: recovery, authority and the refinement; then custody, confinement, claims and refused attempts |
| `Growth` | state machine of construction, leases and growth |
| `Growth_proofs` | theorems about `Growth` |
| `Measurement` | allocation reports read step by step, around and inside the growths of `Growth`, which it extends |
| `Measurement_proofs` | theorems about `Measurement` |
| `Diagnostics` | what is asked of a runtime without changing it: adoption check, export, doctor; extends `Bootstrap` |
| `Diagnostics_proofs` | theorems about `Diagnostics` |
| `CommitStore` | the cell below `Bootstrap`'s kinds: encoding within bounds, snapshot, torn and damaged units |
| `CommitStore_proofs` | theorems about `CommitStore`, and the lemmas on encodings |
| `CborPreflight` | the syntax walk over persisted bytes, and the values it accepts, defined level by level |
| `CborPreflight_proofs` | theorems about `CborPreflight`, and the lemmas on rows and levels of values |
| `Canonical` | key grammar, heap sort, and the scans of sorted lists |
| `Canonical_proofs` | theorems about `Canonical`, and the lemmas on the order of texts, heaps and segments |
| `Release` | state machine of one version's release by successive commands |
| `Release_proofs` | theorems about `Release` |
| `MCBootstrap`, `MCGrowth`, `MCMeasurement`, `MCDiagnostics`, `MCCommitStore`, `MCCborPreflight`, `MCCanonical`, `MCRelease` | the small instances TLC checks |

`Bootstrap` extends `AllocationPool`, which extends `AllocationLedger`;
`Contract == INSTANCE OwnershipContract WITH registry <- witness, view <- CapabilityView`
is the refinement mapping. `Growth` is independent of them: memory 0 is one
of its ids, and `Bootstrap` sees of it only that a growth may be refused or panic.
Operators named `...Mutant` are deliberate bugs next to the definition they
would replace. No specification uses them; they show that a property would
notice such a bug.

### Data

* A stable key is its rank in the canonical key order: resolution and staging go
  by that order, and nothing else about a key matters after its checks.
* Records are a function from key to slot. A list that repeats a key fails
  `validate_integrity`; here such a cell is `garbled`.
* The cell has five kinds. `absent`: a memory of no pages. `blank`: grown and
  not written. `unset`: a cell whose store holds no snapshot (the root cell
  acquired before admission). `committed`: marker, checksum and payload are
  sound. `garbled`: anything else, torn writes included. After the header of a
  new record is written the old value stays readable only if the length is the
  same, which `HeaderOutcomes` allows when both ledgers have the same keys (the
  encodings of two generations may or may not be equally long).
* A pool maps each key to the owner of its governing grant. The constructor's
  overlap check makes that owner unique.
* A key that is requested was checked for grammar and reservation when the
  request was made, so requests are over `AppKey`. The preparation callback
  passes free text, so `IncludeHistorical` takes any key.

* `CommitStore` justifies the five kinds: there the cell is a sequence of units,
  a unit being a run of bytes written at once (cell header, field, head of the
  entries, part of an entry). The checksum is ideal: it is what it sums up.
* `Canonical` and `CborPreflight` have characters and bytes as numbers, because their
  properties are about single ones. Nothing else does.

### Actions of `Bootstrap` and the code

| Action | Code |
|---|---|
| `Construct` | `MemoryRuntime::construct` on sound manager metadata |
| `ColdBootstrap` | decode, `recover_or_genesis`, `validate_pool_custody`, then to the fresh root cell or to preparation (`runtime/mod.rs` 219-274) |
| `ReserveCell`, `WriteHeader`, `WriteValue` | `write_ledger_cell`: encode and grow, then `Cell::new`. Used twice, for the empty root cell and for the new generation |
| `IncludeHistorical` | `BootstrapAdmission::include_historical`, any number of calls |
| `FinishPreparation` | `complete`, the callback's verdict, `resolve` |
| `StageDeclaration` | one round of `stage_generation`: policy callback, claim, append |
| `CommitGeneration` | successor, integrity and `commit_payload_at_generation` |
| `Publish` | the lifecycle becomes `Bootstrapped` |
| `WarmBootstrap` | `RuntimeBootstrapBinding::validate` |
| `Populate` | the application grows a memory it has opened |
| `Restart`, `Trap`, `Panic` | upgrade or exit; rollback of a message; a panic that undoes nothing |

An attempt is cut into steps exactly where control or bytes leave the crate.
Between two such points nothing can be observed and nothing can fail halfway, so
an error return anywhere in between is one disjunct of the step. `witness` is a
history variable: the last ledger whose commit cannot be undone any more. On a
native backing that is at the value's write, in a canister at the end of the
message.

### Actions of `Growth` and the code

| Action | Code |
|---|---|
| `ConstructFresh`, `InitHeader`, `InitTable` | `construct` on an empty backing: the metadata page, then the library's header and table |
| `ConstructExisting` | `layout::read`, `check_bucket_size`, and the library's own load |
| `OpenMemory`, `DropHandle`, `ForgetHandle`, `DropRuntime` | the lease bits; a forgotten handle leaves its bit set; handles outlive the runtime |
| `Grow` | `RuntimeMemory::grow` up to the first call of the backing |
| `ReserveBacking` | `backing.grow`, granted or refused |
| `AssignBucket`, `ManagerExtend`, `SaveHeader` | the library's `grow`, one metadata write each |
| `FinishGrow` | the new count is taken over |
| `ReentrantGrow` | `try_borrow_mut` fails in a call from within the backing |
| `CaughtPanic` | the backing panics in the reservation and the host goes on |
| `ProcessEnd` | exit anywhere, or the owner discards everything after a panic out of the manager |

A panic out of the library's manager leaves its cached metadata ahead of the
backing's; SAFETY.md gives no guarantee for going on with such a runtime, so the
owner is taken to discard it. A panic in the reservation is before any such
change and going on is modelled. `promised` is a history variable: what `grow`
has acknowledged, with the buckets that back it.

### Actions of the other modules and the code

`Measurement`: `MeasureSize`, `MeasureHeader` and `MeasureTable` are the three reads of
`layout::read` with the checks that follow each; `MeasureCompare` is the rest of
`measure_allocations` from `try_borrow` on; `MeasurePanic` is a panic out of a read;
`GrowthStep` is any step of `Growth`, which waits while a measurement it called runs. What
the report computes (groups, slack, unmanaged pages) are operators on what was read.

`Diagnostics` has no actions: `VerifyAuthority`, `DiagnosticExport` and `DoctorReport`
are operators on the state of `Bootstrap`, evaluated in every state.

| `CommitStore` | Code |
|---|---|
| `WriteRootCell` | `write_ledger_cell` of a store without snapshot, on a memory without pages |
| `CommitGeneration`, `CommitPayload` | `commit_generation`: encode the ledger, then `commit_payload_at_generation` |
| `WriteAll` | one `BoundedWriter::write_all`, in either encoding; a refusal discards the attempt |
| `GrowCell` | the growth of memory 0 for the whole cell, granted or refused |
| `WriteHeader`, `WriteUnit`, `Publish` | `Cell::new`, header first; the value may be cut at any unit |
| `Crash`, `Damage` | process end anywhere; one unit replaced, once |
| `ReadStore`, `Recover` | envelope, record, marker and checksum, ledger: operators, evaluated in every state |

| `CborPreflight` | Code |
|---|---|
| `Start`, `Exact` | `from_slice_exact` and `preflight` around the walk; a ledger has to begin with an array |
| `Value`, `Return` | a call of `value` up to its own calls, and its return; `left` is the recursion |
| `Reserve` | `deserialize_bounded_vec`: refusal by the head, capacity for the entries and one more |

| `Canonical` | Code |
|---|---|
| `Scan` | the pre-scan of `sort_unstable_by`, and the reversal |
| `Heapify`, `Extract`, `Sift` | its two loops, and one round of `sift_down` |
| `Valid`, `IsKeyPrefix` | `validate`, `is_key_prefix` |
| `DuplicatePositions`, `RepeatsRequest`, `NamespacesOverlap`, `GrantOf` | what is decided from the sorted list |

| `Release` | Code (`repo_tool/mod.rs`) |
|---|---|
| `Preflight`, `PreflightAgain` | `preflight` before and after it asks the remote |
| `Verify`, `RunGate`, `AdmitValidation`, `RetainReceipts`, `RetireStale`, `WriteValidation` | `verify`: the gate, the checks after it, and one step per file it writes or removes |
| `PrepareSelected`, `CopySurfaces`, `EditSurface`, `EditsDone` | `prepare_selected`: its checks, the copies, one step per file written |
| `RollbackSurface`, `RollbackDone` | its rollback, in path order |
| `Prepared`, `InspectPrepared`, `PackageCandidate`, `AdmitPackage`, `RecordPackage`, `WritePrepared`, `CheckIndex` | `prepared` and `commit_check` |
| `QualifyReleaseAt`, `PackageFinal`, `AdmitFinal`, `WriteFinal` | `qualify_release_at` |
| `PushCheck`, `PushCheckAgain`, `Publish`, `Upload`, `PublishedAgain` | `push_check`, `publish` |
| `Edit`, `StageHidden`, `SwitchSetup`, `RestoreSetup`, `Stage`, `Commit`, `CommitFix`, `Checkout`, `Tag` | maintainers and the runner, also while a command runs |
| `Crash` | the end of a command's process |

Choices in `Release`: one version and its receipts. The README surface equals the source text
in every check, so it is part of the code. A text is an old or new version of a
revision; an edit makes a fresh revision and is not undone within one command, since
the tool compares before and after and cannot see what came and went between. A staging or tag
move half done counts as an edit. A publication may be visible and still report an error. A command
that refuses before it changes anything is no action. A selection is its source, its release (kind,
numbers, remote and branch) and its date: a stale receipt is retired whatever its date, everything
else compares the whole selection. A text does not carry the date that the changelog gets: a tree
written for one date passes the checks of another, so the model admits a little more than the code.
Between its checks, which run other programs, and the copies it rolls back to, preparation reads
nothing: an edit in that window is copied as the original, and overwritten unless it is the candidate.

## 3. Runs

| Run | Config | States | Shows |
|---|---|---|---|
| `bootstrap_native` | `BootstrapNative.cfg` | 37,089 | safety of bootstrap on a backing without rollback, and the refinement |
| `bootstrap_atomic` | `BootstrapAtomic.cfg` | 36,802 | the same code as a canister: no return leaves a half-written cell; the refinement with commit and publication in one message |
| `bootstrap_live` | `BootstrapLive.cfg` | 18,451 | every attempt ends |
| `growth` | `Growth.cfg` | 172,494 (with symmetry) | leases, reservation, metadata, extents and access bounds over successive runtimes |
| `measurement` | `Measurement.cfg` | 612,155 | reports beside, around and inside growths are exact, or fail for a growth |
| `measurement_reentrant` | `MeasurementReentrant.cfg` | violation | a report inside a growth that is writing metadata says "damaged layout" |
| `diagnostics` | `Diagnostics.cfg` | 37,089 | adoption checks and the doctor, asked in every state of `bootstrap_native` |
| `canonical` | `Canonical.cfg` | 822,613 | grammar, sort and scans against their reference definitions |
| `preflight` | `CborPreflight.cfg` | 22,493,419 | the syntax walk against the definition of a bounded value by its structure |
| `commit_store` | `CommitStore.cfg` | 634,787 | encoding bounds, and recovery from any mixture of two records |
| `release` | `Release.cfg` | 1,906,342 (with symmetry) | the release of one version, with failures and edits anywhere |
| `release_manifest` | `ReleaseManifest.cfg` | violation | a rollback cut short leaves the manifest ahead of the other files |

### Properties of `Bootstrap`

* `RecoveryIsExact`: whatever failed and wherever, a cell that recovers gives the
  last committed ledger: not an older one, another one, or a new genesis.
* `AuthorityIsDurable`: a capability names only what is on the backing.
* `AuthorityIsConfined`: each of its keys has a current grant and a slot neither
  excluded nor governance's, including keys selected from history. It is also
  why the `expect` in `verify_requirement` holds.
* `ForeignPagesStayUnowned`, `PagesAreExplained`: ids that held pages before the
  ledger was are never given to a key, and pages appear only under a record.
* `PoisonedNeverCommits`: a latched selection failure ends the attempt.
* `ResolutionIsClaimable`: what resolution decides is claimed without a conflict from
  the ledger that staging has changed since. The claim check in `ledger/claim.rs`
  is a second line of defence that is never reached on a history this crate wrote.
* `RefusalIsHarmless`: an error return from within an attempt leaves the cell as it was, except for the
  root cell a fresh backing may have acquired.
* `DamageIsKept`: bytes that recovery rejects are never replaced.
* `CellStaysSound`: no return makes the cell unreadable, on a fresh root neither. A step that
  leaves it unreadable with no attempt running found it so, with no attempt running either; only
  a panic on a host without rollback is excepted. So in a canister unreadable bytes are those of the outset.
* `WarmIsPassive`: a call on a bootstrapped runtime changes neither the backing
  nor the capability.
* `ImplementsContract`: refinement of `OwnershipContract`: bindings are permanent
  and injective and generations one apart, across restarts, retries, refusals
  and torn writes.
* `AttemptsEnd`: liveness.

### Properties of `Growth`

* `LeasesAreExclusive`: one live handle per memory.
* `AccountingIsExact`: the runtime's bucket count is the manager's and the
  persisted one between calls, though it is read from the metadata only once.
* `ManagerIsNeverShort`: the library, which would panic for want of pages, is only
  called with enough buckets and pages.
* `ExtentsAreBacked`: every page within an extent is in a bucket of its own that
  the backing covers, and the bounds check of an access, with its unchecked
  multiplication, admits exactly what lies within the extent.
* `PromisesAreKept`: metadata that pass the layout check hold every acknowledged
  extent in its buckets; after a process ended inside a growth, reopening finds
  everything or is refused.
* `RefusalKeepsMetadata`: a growth refused from the reservation of pages onward may simply be made again.
* `ForeignBackingIsKept`: a backing that is not a manager's is never written.

### Properties of the other modules

* `ReportIsExact`: a report that is returned has the extents and buckets of the live
  manager, though it was read in three steps; its groups add up and no difference goes below zero.
* `QuietMeasurementSucceeds`: only a growth around or within a measurement makes it fail.
* `AdoptionIsSound`: `verify_authority` never meets a committed key without an owner, where
  it would panic; what it accepts is durable, in the pool and granted to that authority.
* `DoctorAgrees`: with the arguments of an attempt that reaches staging the doctor passes, it
  fails when the policy refuses a key that is still to be staged, and does not run exactly when
  recovery refuses; a doctor that passes before preparation means resolution is admitted; and
  on a bootstrapped runtime the bound arguments pass and the export is the committed ledger.
* `KeysAreExact`, `SortIsCanonical`, `ScansAreExact`: the grammar that looks for the last `.v`
  is the one that allows any; the sort is a sort whether or not the pre-scan takes over; the
  comparison of neighbours decides about all pairs, so a key has at most one grant.
* `PreflightIsExact`: the walk accepts exactly one bounded, well-formed value. Comparing announced
  lengths with all the bytes left refuses nothing whole. Nothing is reserved beyond what was received.
* `PublicationIsExact`: recovery finds the ledger last published, the one being written, or an
  error, never a mixture and never genesis; without a write begun, the published one, whatever was
  refused since. A ledger is refused for its size exactly when it is too long, one that fits its
  payload always fits its record, and buffers stay within their limits.
* `EvidenceIsSound`: a receipt speaks of a tree, a setup and a package that the gate passed or that
  was packaged. `ReceiptsAreKept`: no receipt is lost before its successor is complete.
* `RollbackIsExact`: a rollback gives every surface the text back that was copied, except those that
  somebody wrote since or whose restoration failed, and one more: a `Cargo.lock` edited between the
  checks and the copy. Preparation overwrites that edit with the source's lock, and the rollback,
  which owns a lock only if it is its copy with the version replaced, leaves it so.
  `PreparationResumes`: an interrupted preparation of a source whose texts can be rendered is taken
  up by the same command.
* `CheckedIndexQualifies`: what the commit check admits is a release commit that qualifies, hidden
  staging included. `AdmittedReleaseIsQualified`: success is only reported for a tagged release
  commit of the gated tree, packaged from it.

### Findings

* `measurement_reentrant` (`ReentrancyIsReported`): `measure_allocations` validates the backing's
  metadata before it tries the borrow that a running growth holds. Inside a growth that has written
  the bucket table and not the header it reports a damaged layout, where
  `docs/changelog/0.44.md` promises `ReentrantAccess`. Nothing is changed by it.
* `release_manifest` (`ManifestIsLast`): preparation writes `Cargo.toml` last, and a comment concludes
  that a manifest at the candidate means that everything else is too. Rollback goes in path order, the changelog
  and the root lock first: cut short, it leaves the state that the comment excludes. The runner then
  skips preparation, and the prepared check refuses.

### Bounds, and why they are enough

`Bootstrap`: application keys 1, 2 and 4 around governance's key 3, so staging
meets governance's key first, in between and last; ids 0 to 4, of which 0 is
governance's and 3 holds foreign pages, so the open pool has as many ids as there
are application keys and the others fewer (exhaustion). Four pools
(open, split ownership, revoked, one whose least id is the foreign one), two policies and the requests of ten
releases cover: omission and return of a key, a moved and a revoked grant, an id
excluded after it was recorded, an exhausted pool, and arguments that differ from
the bound ones in one component only. The generation is bounded by
`MaxGeneration` (3; 2 for liveness), which stands for the counter's width: the
overflow refusal is reached, and no guard of the model cuts a behaviour short.

`Growth`: two memories, `Capacity` of 4 buckets, sizes of one and two pages, and
pages of two bytes, and counts of at most `MaxWord` = 19, so that a full table in bytes is close
to the word as the assumption allows (in the code it is 2^47 of 2^64). Requests 0, 1, 3, 18 and 19 give the zero
request, growth within a bucket, into one more and into several, an exhausted
table, and an overflowing page count. `physical` cannot exceed 1 + 4 * 2 pages.

`Measurement`: three buckets of two pages; requests within a bucket, of a whole number of buckets and
past the capacity. Two growths may run inside one measurement, and one measurement inside a growth.

`Diagnostics`: the instance of `bootstrap_native`.

`CommitStore`: three entries, one of two units, so that payloads of 2 to 5 units meet a limit of 4; a
page of 4 units, so that a record crosses pages; three generations, so that a record overwrites one of its
own length and a shorter one. One damaged unit stands for accidental corruption, and meets every torn write.

`CborPreflight`: five bytes hold a map in an array, two-byte arguments, and nesting one level past
the limit of 2. The thirteen heads contain each branch of the walk and arrays on both sides of the reservation limit; strings lie on both sides of both limits.
Four- and eight-byte arguments run the same function, and the theorem covers them.

`Canonical`: texts of six characters of six kinds hold two segments and a version and two candidates for `.v`;
five items make a heap of three levels with an only child; six namespaces contain two within a
third, separated from it in the order by others.

`Release`: two releases and two dates; the source, its release commit and one commit more; one
edit, of a file, the index, the tag or the setup, at any point. One is enough: each check
compares with what an earlier step saw, so the first undetected change is already a violation.

Deadlock is checked in the runs of `Bootstrap`, `Growth`, `Measurement` and `Diagnostics`. In the others it is
not: texts, walks and sorts end, a cell that is damaged or at the last generation is left
alone, and a release may have come to a point where every command refuses. Symmetry is used in `growth`, on the two
ids, and in `release`, on the releases and the dates: no action or property distinguishes them.

### Fairness

`AttemptsEnd` assumes weak fairness of `Progress`, the steps of the attempt
itself. They are straight-line code between calls of host code, and the policy
and the backing are trusted to return (or to panic, which ends the attempt). Nothing is
assumed of the host: `IncludeHistorical` may go on for as long as there are keys
left to select, and restarts, traps and panics may happen or not. The other
properties are checked without fairness.

## 4. Proofs

The theorems hold for every value of the constants that the modules' assumptions
allow; the runs of section 3 show the same properties on one instance. Each
inductive invariant was checked by TLC on the instance of the run of its component before it was proved, with two
exceptions: `CborPreflight`'s on a smaller instance (`MaxRecord` 4, `MaxNesting` 1), for its quantifiers over cuts, and
`Typed` of `CommitStore_proofs` not at all, for its infinite sets of units.
Where a property below is not itself part of the invariant, it follows from it in one step.

| Module | Theorem | Property |
|---|---|---|
| `Bootstrap_proofs` | `InductiveInvariant`, `TypeCorrect` | `IInv`, `TypeOK` |
| | `RecoveryExact` | `RecoveryIsExact` |
| | `DurableAuthority` | `AuthorityIsDurable` |
| | `DamageKept` | `DamageIsKept` |
| | `Refinement` | `ImplementsContract` |
| | `ClaimsInvariant` | `ClaimsInv` |
| | `ConfinedAuthority` | `AuthorityIsConfined` |
| | `UnownedForeignPages`, `ExplainedPages` | `ForeignPagesStayUnowned`, `PagesAreExplained` |
| | `PoisonIsFinal` | `PoisonedNeverCommits` |
| | `ClaimableResolution` | `ResolutionIsClaimable` |
| | `SoundCell` | `CellStaysSound` |
| | `HarmlessRefusal`, `PassiveWarmth` | `RefusalIsHarmless`, `WarmIsPassive` |
| `Diagnostics_proofs` | `SoundAdoption`, `DoctorAgreement` | `AdoptionIsSound`, `DoctorAgrees` |
| `Growth_proofs` | `InductiveInvariant`, `TypeCorrect` | `IInv`, `TypeOK` |
| | `ExclusiveLeases` | `LeasesAreExclusive` |
| | `ExactAccounting`, `ManagerNeverShort` | `AccountingIsExact`, `ManagerIsNeverShort` |
| | `BackedExtents` | `ExtentsAreBacked` |
| | `KeptPromises` | `PromisesAreKept` |
| | `HarmlessRefusal`, `ForeignBackingKept` | `RefusalKeepsMetadata`, `ForeignBackingIsKept` |
| `Measurement_proofs` | `MeasurementIsPassive` | `MSpec => Spec` of `Growth` |
| | `MeasurementInvariant` | `IInv /\ MInv` |
| | `QuietSuccess`, `ExactReport` | `QuietMeasurementSucceeds`, `ReportIsExact` |
| `Release_proofs` | `InductiveInvariant`, `TypeCorrect` | `IInv`, `TypeOK` |
| | `SoundEvidence`, `KeptReceipts` | `EvidenceIsSound`, `ReceiptsAreKept` |
| | `AdmittedRelease` | `AdmittedReleaseIsQualified` |
| | `ExactRollback`, `ResumablePreparation` | `RollbackIsExact`, `PreparationResumes` |
| | `QualifyingIndex` | `CheckedIndexQualifies` |
| `CommitStore_proofs` | `InductiveInvariant` | `Typed /\ IInv` |
| | `PublicationExact` | `PublicationIsExact` |
| `CborPreflight_proofs` | `InductiveInvariant` | `IInv` |
| | `PreflightExact` | `PreflightIsExact` |
| `Canonical_proofs` | `InductiveInvariant` | `IInv` |
| | `SortCanonical`, `ScansExact`, `KeysExact` | `SortIsCanonical`, `ScansAreExact`, `KeysAreExact` |

### Assumptions

They are those of the modules on their constants, and TLC evaluates them on every run:

* `KeyAssumption`, `BoundAssumption`, `PoolAssumption`, `InputAssumption`, `HostAssumption` (`Bootstrap`): keys
  are naturals, governance's key is none of the application's, memory 0 is governance's, and pools
  exclude governance's ids, as `MemoryAllocationPool::new` sees to. Foreign pages on memory 0 are a garbled cell
  and so no member of `ForeignSlots`. `Null` is no ledger, input or capability.
* `GrowthAssumption`: the whole managed extent in bytes fits the word (2^47 of 2^64 in the code), bucket sizes
  are positive, `Free` (255 in the code) is no id.
* `MeasurementAssumption`: memory 0 is an id, and ids are finite (a byte in the code).
* `ReleaseAssumption`, `NoneAssumption`: the bounds are naturals, and an absent receipt is not a receipt.
* `CommitStoreAssumption`: finitely many entries of a unit or more (keys and ids are bounded), a payload has room for the head of the
  entries, a record for every payload and its frame, and a page for the cell header and an empty record.
* `CborAssumption`: bytes are 0 to 255, bounds are naturals.
* `CanonicalAssumption`: bounds are naturals, and namespaces that are granted have passed `is_key_prefix`, as
  `MemoryAllocationPool::new` sees to. Characters are not restricted.

### Bootstrap: the inductive invariant

`RecoveryIsExact` speaks of moments when bytes are
settled, and `AuthorityIsDurable` of a published capability; neither says what an
attempt in flight has in hand. `IInv` adds that:

* `CellInv`: the cell tells the truth about `witness`, or nothing, except in a
  canister between the write and the end of the message; and there `saved` does,
  so a trap goes back to the truth.
* `LedgerInv`: in the attempt the ledger in hand has the committed generation and
  contains the committed bindings, injectively. This is what makes the cell that
  the commit checks against the right one, although the ledger was decoded before
  all callbacks.
* `StagedInv`: declarations that staging has passed are in the staged ledger, so
  the capability to be published is a part of it.
* `TargetInv`: what is being written is the empty store of a fresh root or the exact
  successor of the committed ledger, and before publication the cell is that.

There is a lemma for each action, `NextKeeps` puts them together. For `Refinement` every step maps to
`Commit` (a native value write), `Publish`, `Revoke` or a stutter; `PublishFacts` shows that the view
published is one of the registry.

`ClaimsInv` is inductive only together with `IInv`. It follows the arguments through an attempt:

* `CustodyInv`: the custody check ran once, on the recovered ledger and the attempt's pool. It stays true of both,
  and of the bound pool after publication, while applications grow memories and staging adds
  records. This is why ids with foreign pages are never given away.
* `ConfinementInv`: what is selected and resolved is allowed by the attempt's own pool, governance's binding is
  in every resolution, and every request is answered under its grant.
* `IntegrityInv`, `DecisionInv`: what was or will be written passes recovery's check, and what is being staged
  is what the *committed* history resolves to, although the staged one has moved on. The doctor
  resolves the committed history, so `DoctorAgreement` needs this.
* `ClaimInv`: what is left to stage conflicts neither with the staged ledger nor with itself.
* `RollbackInv`: where an attempt can be refused, the cell is as it was or an empty root on an empty backing.

`Diagnostics` has no steps, and its two theorems are consequences of `IInv /\ ClaimsInv`. `DoctorAgreement`
compares staging in any order of the policy's answers with the doctor's one pass over the declarations.

### Growth: the inductive invariant

The metadata is a header and a bucket table, written at different times; beside them the library's manager has its
own copy and the runtime its own count. `IInv` says at each write which of them are ahead:

* `FormatInv`: a backing becomes a manager in two writes, before which nothing is promised.
* `LeaseInv`: leases outlive a runtime only with its manager.
* `ManagerInv`: the manager's buckets are the table's, a dense prefix that the backing covers. Density makes
  the next bucket of the library the free one.
* `ExtentInv`: a memory owns as many buckets as its extent needs; the growing one those of its new extent less the
  ones still to come. After a process end in between, the count does not match the header, and the layout check refuses.
* `CallInv`: header, manager and runtime's count go through a growth in this order, and the
  reservation covers all of it before the first bucket is assigned.
* `PromiseInv`: what was acknowledged is the *lowest* buckets the memory owns, also in a layout that
  is no longer accepted. Together with `ExtentInv` this gives `KeptPromises`: where reopening succeeds, every
  acknowledged page is in the bucket it was in.

`BackedExtents` needs the arithmetic of the access bounds: `PageBytes` times the pages of an extent does not pass
`MaxWord` by `GrowthAssumption`, so the multiplication that is unchecked in the code does not wrap. `FirstIsExact` shows
that the lowest n buckets of a memory that has as many are n.

### Measurement

`MeasurementIsPassive` shows that every step of `MSpec` is a step of `Growth` or leaves its variables alone, so that all
theorems on `Growth` hold beside measurements. `MInv` says what may still be believed of values read a while ago:

* `Reserving`: backing is only asked for where there is too little of it.
* `KeptInv`: a measurement keeps its runtime, and the backing only grows.
* `HeaderReadInv`, `TableReadInv`: the header read fits the size read before, the table read fits that header, and
  no bucket the table shows owned changes hands. A measurement inside a growth may read a
  table of buckets that the header does not count yet; the comparison refuses it.
* `QuietInv`: what was read is what the backing holds, unless a growth ran in between.

`ExactReport` also states that the groups of a report add up for every declared set of keys. The sum is a fold over a finite
set of ids; the induction it needs is done inside the proof by a least counterexample (`SumIsTotal`, as in
`FirstIsExact` of `Growth_proofs`), because the library's induction theorems cannot be instantiated.

### Release: the inductive invariant

Commands trust files that other commands wrote, and look again only at some of them. `IInv` holds what may be trusted,
while maintainers edit, stage, commit, tag and change the setup beside the command:

* `FreshInv`: an edit is a revision and a change of setup a number that was not there before. It is what makes a
  comparison of before and after find every change in between.
* `RunInv`, `GateInv`: what a step knows of the command it belongs to. After the gate the working tree is the gated one *or was
  edited since*, in the texts that differ; the check that follows rules the second out, so the validation that is
  written is of the source's own tree. What is about to be replaced has been copied.
* `ValidatedInv`, `EvidenceIsSound`: so it is for the receipts on disk, for ever.
* `FinalInv`: from the qualified release commit on, no surface has an old text anywhere: neither validation nor
  preparation can start again and retire the receipts that a final one continues.
* `PackageInv`, `QualifyInv`: what was packaged is the candidate of the source (the release commit), or an edit shows.
* `EditInv`: until it is copied a surface is what the check admitted or was edited since, and the copy is the same; from then
  on a surface is the copy, the candidate, or edited since; written surfaces are new; after a rollback got through its list,
  only foreign (`IsForeign`) or failed ones differ from the copy. This gives `ExactRollback`. That no two texts of the manifest
  share an edited revision (`SharedManifest`) keeps `ManifestInv` through a rollback to an edited copy.
* `ManifestInv`: a new manifest beside an old one of the same revision, in the index or the last commit, comes with
  all surfaces new: *the manifest is last*. It has to speak of the index too, since staging and commits move it. It
  holds except in a rollback and after one that failed or was cut short, which is exactly the exception that `release_manifest` reports.

Maintainers' nine actions are reduced to two shapes (`MaintainShape`): texts that are touched take a fresh revision and old
commits stay, or the trees go back to the last commit. Each part of the invariant is shown for the two shapes.

### CommitStore: the inductive invariant, and unique reading

A cell may be a mixture of the old record, the new one, zeros and one damaged unit. `IInv` does not list the
mixtures; it says what keeps recovery from taking one for a record:

* `LedgersInv`, `BufferInv`, `EncodeInv`: what is in the buffer and what is still to be written are the encoding. So a
  refusal for size is one of the whole, and the bound on a record is never the one that refuses.
* `CellInv`: the header and the units up to `at` are the new record's. The rest may be anything.
* `ChecksumInv`: a checksum in its place is that of the published or the pending ledger. This excludes every other
  ledger, older ones included, whatever stands around it, because a snapshot that recovery accepts is what its checksum sums up.
* `RootInv`, `BegunInv`: an absent snapshot has no checksum. Genesis is excluded once something was published, because
  the root cell's header and its value would both have to come back, and one unit at most is damaged.
* `IntactInv`: a cell that was not begun to be overwritten reads as what was published.

From the checksum recovery gets a payload, and `DecodeLedger` chooses *some* entries with that payload. `UniqueReading` shows
that there are no others: each unit of an entry names it, so that two sets of entries with one payload have the same members
(`PayloadHolds`), and the number of entries does not matter. What the library's `FlattenSeq` returns is itself a
recursive function; `FlattenIs`, `FlattenHead` and `FlattenHolds` say what it is on sequences of any length.

### CborPreflight: the inductive invariant

`WalkInv` relates the walk to what is *left*: the bytes are a value exactly when the bytes behind `pos` are, one behind
the other, what the open containers still want (`Completes`). It is an equivalence, so it serves for both
verdicts: at the end nothing is wanted and nothing may be left, and wherever `Value` refuses, no completion exists.

* `LevelsIs`: values of at most n levels are those whose entries are of at most n - 1. `Levels` is a recursive function; that it exists
  is shown by a least counterexample, like the inductions below.
* `CompletesMore`: a row that still wants a value is that value and a row that wants one less, in both directions. With
  `OpensIs` it says that a head and its entries may be taken apart (`ValueStep`).
* `RowLength`: every value takes a byte at least, so n values take n bytes. This is why the comparison of an announced length with all
  the bytes left refuses nothing that is whole (`EntriesFit`), although some of them belong to later entries, and why what is
  reserved does not exceed what was received.
* `TooDeep`: a value at the level past the limit has no completion.

### Canonical: sort, scans and grammar

`IInv` describes the heap under repair: `HeapInv` holds at every node from `root` on, except below the hole, and
there it holds of the hole's parent and children, so that moving the greater child up repairs one level and breaks at most
the next (`SiftStep`). `RootIsGreatest` then makes `ExtractStep` keep `TailInv`: what is behind the heap is in order and nothing
before it is greater. `ItemsInv` says that the items are those handed in. The pre-scan that leaves out the heap reverses a list
whose neighbours never ascend; `NeighboursInOrder` makes that an order of all pairs, with equal ends as well.

* `ScansExact`: of two items where one's text begins the other's, everything between them in the order begins with it too
  (`Between`), so some neighbours show the overlap. Prefixes of one key nest (`PrefixesNest`), so without overlap a key
  has one grant at most. For records, equal texts are adjacent in the order they were handed in, so exactly the later ones are reported.
* `KeysExact`: `SegmentsValid` reads the segments between dots position by position. Only the last `.v` of a text can split it,
  because a version has digits only (`ValidIs`); and a namespace is valid as it stands exactly when it begins a key.

### Only model-checked

`AttemptsEnd` (`Bootstrap`) is: liveness under fairness is out of the prover's reach. Every other invariant and action
property of a run that passes is stated by a theorem above. Inductions over lengths, levels and sums are done inside
proofs by a least counterexample (`LeastElement`), because the library's induction theorems cannot be
instantiated.

## 5. Plan

Done: the values (`AllocationLedger`, `AllocationPool`); `Bootstrap`, its runs and the refinement of
`OwnershipContract`; `Growth`; `Release`; `Measurement`; `Diagnostics`; `Canonical`; `CborPreflight`; `CommitStore`;
proofs of every safety property that the runs check.

Left:

1. `Bootstrap`: ownership for ever, as one theorem on any two moments of a behaviour. `Refinement` has it step by step.
2. `Bootstrap` and `Growth` composed over one backing: the lease on memory 0 and the growth of the cell
   as steps of `Growth`, ids of `Growth` owned by the records of `Bootstrap`.
3. `CommitStore` shown to implement the cell of `Bootstrap`: its reading mapped to the five kinds.

## 6. Not modelled

* What the CBOR codec makes of bytes that passed the walk, the value of the checksum, and the byte copies
  of `read` and `write`. That a mixture of two records fails its checksum is assumed (`CommitStore`).
* A torn cell header: its eight bytes are one unit.
* Which error is returned, except where a property is about it: one refusal stands for all.
* Composition of `Bootstrap` with `Growth`: bootstrap's growth of memory 0 is granted, refused or panics.
* `hash.rs` and `text.rs`: pure functions, an ideal digest and a predicate on characters.
* The other commands of the release tool, its text formats, shell scripts and CI. Two versions
  in one repository: receipts are named by version and do not meet.
* Test support (fixture cells and runtimes, sparse images), examples and the qualification canister: they
  call what is modelled and keep no state of their own.
* The manager of `ic-stable-structures` is a library: its actions in `Growth`, and the
  writes of its `Cell` in `Bootstrap` and `CommitStore`, are modelled from how this crate uses them and pins them.
