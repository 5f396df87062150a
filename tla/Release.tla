------------------------------- MODULE Release -------------------------------
(***************************************************************************)
(* The repository tool's release of one version: validation of a source    *)
(* commit, preparation of the version metadata in the working tree, final  *)
(* qualification of the release commit, tag checks and publication.        *)
(*                                                                         *)
(* The tool keeps no process between commands.  What one command tells the *)
(* next is in files: three receipts named by the version, copies of the    *)
(* receipts it superseded, and package archives named by their digest.     *)
(* Maintainers and the runner edit, stage, commit, tag and change the      *)
(* build setup between commands and while one runs; a command may fail at  *)
(* any external program or write, and may end anywhere.                    *)
(*                                                                         *)
(* A text is an old or new version of some revision.  The tool turns an    *)
(* old text into the new one of the same revision; an edit makes a new     *)
(* revision, and is not undone while a command runs.                       *)
(***************************************************************************)
EXTENDS Naturals, Sequences

CONSTANTS
  Releases,     \* kind, numbers, remote and branch of a selection
  Dates,        \* its date
  None,         \* no receipt, no archive, no tag
  MaxCommits,   \* bound: commits of the branch
  MaxEdits      \* bound: edits of texts and setup

ASSUME ReleaseAssumption ==
  /\ MaxCommits \in Nat \ {0}
  /\ MaxEdits \in Nat

VARIABLES
  commits,    \* the branch: every commit is the child of the one before
  work,       \* working tree
  index,      \* staging area
  setup,      \* the setup commands run under
  validated,  \* receipt of the full gate
  prepared,   \* receipt of the prepared package
  final,      \* receipt of the release commit's package
  archives,   \* archives retained by digest
  package,    \* what cargo left in its package directory
  tag,        \* the commit that the version's tag names
  gated,      \* history: trees and setups for which the gate passed
  edits,      \* history: edits made, bounded
  torn,       \* history: surfaces a rollback could not restore, all once it ended
  pc,         \* step of the running command, "idle" between commands
  run,        \* locals of the running command
  outcome     \* a success just reported: "admitted", "committable", "pushable", "published"

repository == <<commits, work, index, setup, tag, edits>>

evidence == <<validated, prepared, final, archives, package>>

history == <<gated, torn>>

vars == <<repository, evidence, history, pc, run, outcome>>

-----------------------------------------------------------------------------
(***************************************************************************)
(* Texts, selections and the checks every command shares.                  *)
(***************************************************************************)
Surfaces == {"changelog", "lock", "manifest", "detail"}

\* "code" stands for every other file, untracked ones included.
File == Surfaces \cup {"code"}

Text == [new : BOOLEAN, rev : 0 .. MaxEdits]

Tree == [File -> Text]

\* HEAD is the tip of the branch.
Tip == Len(commits)

\* Compiler identities and build configuration: a fresh number for every
\* change, 1 at first; a compiler override is refused.
Setup == 0 .. MaxEdits + 1

Override == 0

Selection == [source : 1 .. MaxCommits, release : Releases, date : Dates]

\* The exact new version of one text.
Rendered(text) == [text EXCEPT !.new = TRUE]

Candidate(tree) == [f \in File |-> IF f \in Surfaces THEN Rendered(tree[f]) ELSE tree[f]]

\* The lock after is the lock before with nothing but the version replaced.
LockUpdated(before, after) == ~ before.new /\ after = Rendered(before)

\* check_selection: the saved source exists and has the previous version.
Selectable(sel) ==
  /\ sel.source <= Tip
  /\ ~ commits[sel.source].tree["manifest"].new

\* surfaces: the texts of the candidate can be made, because the source has
\* the new version on none of its surfaces.
Renderable(sel) ==
  /\ Selectable(sel)
  /\ \A f \in Surfaces : ~ commits[sel.source].tree[f].new

Clean == work = commits[Tip].tree /\ index = commits[Tip].tree

\* check_surfaces: the tree is the source with the surfaces rewritten; when
\* partial, with some of them rewritten.
TreeIsRelease(sel, tree, partial) ==
  LET source == commits[sel.source].tree
  IN  /\ \A f \in Surfaces : tree[f] = Candidate(source)[f] \/ (partial /\ tree[f] = source[f])
      /\ tree["code"] = source["code"]

\* check_index
IndexIsRelease(sel) ==
  LET source == commits[sel.source].tree
  IN  \A f \in File : index[f] # source[f] =>
        f \in Surfaces /\ index[f] = Candidate(source)[f]

\* verify_inputs
InputsHold(validation, updated) ==
  /\ Selectable(validation.sel)
  /\ validation.lock = commits[validation.sel.source].tree["lock"]
  /\ setup = validation.setup
  /\ \/ work["lock"] = validation.lock
     \/ updated /\ LockUpdated(validation.lock, work["lock"])

\* validated
ValidatedFor(sel) ==
  validated # None /\ validated.sel = sel /\ InputsHold(validated, TRUE)

\* verify_evidence: the receipt is this release's, of this commit, and the
\* archive it names is retained, and in the package directory when asked.
EvidenceHolds(receipt, sel, commit, isFinal, working) ==
  /\ receipt # None
  /\ receipt.validation.sel = sel
  /\ InputsHold(receipt.validation, TRUE)
  /\ work["lock"] = receipt.lock
  /\ receipt.head = commit
  /\ receipt.package \in archives
  /\ working => package = receipt.package
  /\ receipt.final = isFinal

\* inspect_release_commit: the commit is the prepared edit of its parent.
IsReleaseCommit(commit) ==
  /\ Clean
  /\ commit <= Tip
  /\ commits[commit].tree["manifest"].new
  /\ prepared # None
  /\ LET sel == prepared.validation.sel
     IN  /\ commit = sel.source + 1
         /\ commits[commit].release
         /\ Renderable(sel)
         /\ TreeIsRelease(sel, commits[commit].tree, FALSE)

\* release_commit, with the tag check that publication adds to it
IsPublishable(commit) ==
  /\ commit = Tip
  /\ IsReleaseCommit(commit)
  /\ EvidenceHolds(final, prepared.validation.sel, commit, TRUE, TRUE)
  /\ tag = commit

NoRun == [command |-> "none", sel |-> None, validation |-> None, backup |-> None,
          todo |-> <<>>, kept |-> {}, receipt |-> None, commit |-> 0]

OldTree == [f \in File |-> [new |-> FALSE, rev |-> 0]]

Init ==
  /\ commits = <<[tree |-> OldTree, release |-> FALSE]>>
  /\ work = OldTree
  /\ index = OldTree
  /\ setup = 1
  /\ validated = None
  /\ prepared = None
  /\ final = None
  /\ archives = {}
  /\ package = None
  /\ tag = None
  /\ gated = {}
  /\ edits = 0
  /\ torn = {}
  /\ pc = "idle"
  /\ run = NoRun
  /\ outcome = "ended"

Start(command, sel, step) ==
  /\ run' = [NoRun EXCEPT !.command = command, !.sel = sel]
  /\ pc' = step
  /\ outcome' = "ended"

Go(step) == pc' = step /\ UNCHANGED <<run, outcome>>

End(result) == pc' = "idle" /\ run' = NoRun /\ outcome' = result

\* The surfaces in the order of their paths; the manifest after the lock.
PathOrder == <<"changelog", "lock", "manifest", "detail">>

\* A failed step ends the command; preparation first undoes its own writes.
Fail ==
  IF run.command = "prepare"
  THEN /\ pc' = "rollback"
       /\ run' = [run EXCEPT !.todo = PathOrder]
       /\ UNCHANGED outcome
  ELSE End("ended")

-----------------------------------------------------------------------------
(***************************************************************************)
(* release-preflight changes nothing of this state: it admits a source,    *)
(* or a preparation that was interrupted before its manifest, and looks    *)
(* again after the programs it runs.                                       *)
(***************************************************************************)
PreflightHolds(sel) ==
  /\ setup # Override
  /\ Renderable(sel)
  /\ Tip = sel.source
  /\ ~ work["manifest"].new
  /\ TreeIsRelease(sel, work, TRUE)
  /\ IndexIsRelease(sel)
  /\ work["lock"] # commits[sel.source].tree["lock"] => ValidatedFor(sel)

Preflight(sel) ==
  /\ pc = "idle"
  /\ PreflightHolds(sel)
  /\ run' = [NoRun EXCEPT !.command = "preflight", !.sel = sel, !.receipt = work["lock"]]
  /\ pc' = "preflight"
  /\ outcome' = "ended"
  /\ UNCHANGED <<repository, evidence, history>>

PreflightAgain ==
  /\ pc = "preflight"
  /\ IF /\ work["lock"] = run.receipt
        /\ Tip = run.sel.source
        /\ TreeIsRelease(run.sel, work, TRUE)
        /\ IndexIsRelease(run.sel)
     THEN End("admitted")
     ELSE End("ended")
  /\ UNCHANGED <<repository, evidence, history>>

-----------------------------------------------------------------------------
(***************************************************************************)
(* release-verify: the full gate on a clean source.                        *)
(***************************************************************************)
VerifyHolds(sel) ==
  /\ setup # Override
  /\ Selectable(sel)
  /\ Clean
  /\ Tip = sel.source
  /\ ~ work["lock"].new

Verify(sel) ==
  /\ pc = "idle"
  /\ VerifyHolds(sel)
  /\ run' = [NoRun EXCEPT !.command = "verify", !.sel = sel,
               !.validation = [sel |-> sel, lock |-> work["lock"], setup |-> setup]]
  /\ pc' = "gate"
  /\ outcome' = "ended"
  /\ UNCHANGED <<repository, evidence, history>>

RunGate ==
  /\ pc = "gate"
  /\ \/ gated' = gated \cup {[tree |-> work, setup |-> setup]} /\ Go("admit")
     \/ End("ended") /\ UNCHANGED gated
  /\ UNCHANGED <<repository, evidence, torn>>

\* A prepared receipt of another source, to be retired by this validation.
Stale(sel) == prepared # None /\ prepared.validation.sel.source # sel.source

\* The source is what it was, and a stale receipt is of the same release,
\* of whatever date, from an older source.
AdmitValidation ==
  /\ pc = "admit"
  /\ IF /\ Clean
        /\ Tip = run.sel.source
        /\ InputsHold(run.validation, FALSE)
        /\ Stale(run.sel) =>
             /\ prepared.validation.sel.release = run.sel.release
             /\ prepared.head = prepared.validation.sel.source
             /\ prepared.validation.sel.source <= run.sel.source
     THEN Go("retain")
     ELSE End("ended")
  /\ UNCHANGED <<repository, evidence, history>>

\* Mutant: only the validation receipt is kept.
RetainReceiptsMutant ==
  /\ pc = "retain"
  /\ run' = [run EXCEPT !.kept = {validated} \ {None}]
  /\ pc' = "retire"
  /\ UNCHANGED <<repository, evidence, history, outcome>>

\* Copies of the receipts that are about to be superseded.  They stay on
\* disk under names of their own and are not read again: only what the
\* running command kept is in the model.
RetainReceipts ==
  /\ pc = "retain"
  /\ \/ /\ run' = [run EXCEPT !.kept =
                    ({validated} \cup IF Stale(run.sel) THEN {prepared} ELSE {}) \ {None}]
        /\ pc' = "retire"
        /\ UNCHANGED outcome
     \/ End("ended")
  /\ UNCHANGED <<repository, evidence, history>>

\* Mutant: the stale receipt stays.
RetireStaleMutant ==
  /\ pc = "retire"
  /\ Go("validate")
  /\ UNCHANGED <<repository, evidence, history>>

RetireStale ==
  /\ pc = "retire"
  /\ \/ /\ prepared' = IF Stale(run.sel) THEN None ELSE prepared
        /\ Go("validate")
     \/ Stale(run.sel) /\ End("ended") /\ UNCHANGED prepared
  /\ UNCHANGED <<repository, validated, final, archives, package, history>>

\* A publication may be visible and still report an error.
WriteValidation ==
  /\ pc = "validate"
  /\ \/ validated' = run.validation /\ End("ended")
     \/ validated' \in {validated, run.validation} /\ End("ended")
  /\ UNCHANGED <<repository, prepared, final, archives, package, history>>

-----------------------------------------------------------------------------
(***************************************************************************)
(* release-prepare-version: the surfaces, the manifest last, and then what *)
(* release-prepared-check does.                                            *)
(***************************************************************************)
PrepareHolds(sel) ==
  /\ ValidatedFor(sel)
  /\ Renderable(sel)
  /\ Tip = sel.source
  /\ TreeIsRelease(sel, work, TRUE)

\* prepared, before it looks for evidence
PreparedHolds(sel) ==
  /\ ValidatedFor(sel)
  /\ Renderable(sel)
  /\ Tip = sel.source
  /\ TreeIsRelease(sel, work, FALSE)

PrepareSelected(sel) ==
  /\ pc = "idle"
  /\ PrepareHolds(sel)
  /\ Start("prepare", sel, "copy")
  /\ UNCHANGED <<repository, evidence, history>>

\* The surfaces are read again, edited since the check perhaps.  Until then
\* there is nothing to undo.
CopySurfaces ==
  /\ pc = "copy"
  /\ \/ /\ run' = [run EXCEPT !.backup = work,
                    !.todo = <<"changelog", "lock", "detail", "manifest">>]
        /\ pc' = "edit"
        /\ UNCHANGED outcome
     \/ End("ended")
  /\ UNCHANGED <<repository, evidence, history>>

\* Mutant: surfaces are written in the order of their paths.
EditSurfaceMutant ==
  /\ pc = "edit"
  /\ run.todo # <<>>
  /\ LET f == PathOrder[5 - Len(run.todo)]
         wanted == Candidate(commits[run.sel.source].tree)[f]
     IN  work' = [work EXCEPT ![f] = wanted]
  /\ run' = [run EXCEPT !.todo = Tail(@)]
  /\ UNCHANGED <<commits, index, setup, tag, edits, evidence, history, pc, outcome>>

\* One surface, when the copy taken at the start is not the candidate yet.
EditSurface ==
  /\ pc = "edit"
  /\ run.todo # <<>>
  /\ LET f == Head(run.todo)
         wanted == Candidate(commits[run.sel.source].tree)[f]
         written == [work EXCEPT ![f] = wanted]
     IN  \/ /\ work' = IF run.backup[f] = wanted THEN work ELSE written
            /\ run' = [run EXCEPT !.todo = Tail(@)]
            /\ UNCHANGED <<pc, outcome>>
         \/ /\ run.backup[f] # wanted
            /\ work' \in {work, written}
            /\ Fail
  /\ UNCHANGED <<commits, index, setup, tag, edits, evidence, history>>

EditsDone ==
  /\ pc = "edit"
  /\ run.todo = <<>>
  /\ Go("prepared")
  /\ UNCHANGED <<repository, evidence, history>>

\* The surface differs from the copy, and holds what preparation writes.
Owned(f) ==
  /\ work[f] # run.backup[f]
  /\ IF f = "lock"
     THEN LockUpdated(run.backup[f], work[f])
     ELSE work[f] = Candidate(commits[run.sel.source].tree)[f]

\* Mutant: a restoration that fails ends the rollback.
RollbackSurfaceMutant ==
  /\ pc = "rollback"
  /\ run.todo # <<>>
  /\ LET f == Head(run.todo)
         restored == [work EXCEPT ![f] = run.backup[f]]
     IN  \/ /\ work' = IF Owned(f) THEN restored ELSE work
            /\ run' = [run EXCEPT !.todo = Tail(@)]
            /\ UNCHANGED torn
         \/ /\ Owned(f)
            /\ torn' = torn \cup {f}
            /\ run' = [run EXCEPT !.todo = <<>>]
            /\ UNCHANGED work
  /\ UNCHANGED <<commits, index, setup, tag, edits, evidence, gated, pc, outcome>>

\* A surface that holds this command's own text gets its former one back; a
\* restoration that fails, visibly or not, does not stop the others.
RollbackSurface ==
  /\ pc = "rollback"
  /\ run.todo # <<>>
  /\ LET f == Head(run.todo)
         restored == [work EXCEPT ![f] = run.backup[f]]
     IN  \/ work' = (IF Owned(f) THEN restored ELSE work) /\ UNCHANGED torn
         \/ Owned(f) /\ work' \in {work, restored} /\ torn' = torn \cup {f}
  /\ run' = [run EXCEPT !.todo = Tail(@)]
  /\ UNCHANGED <<commits, index, setup, tag, edits, evidence, gated, pc, outcome>>

RollbackDone ==
  /\ pc = "rollback"
  /\ run.todo = <<>>
  /\ torn' = IF torn = {} THEN {} ELSE Surfaces
  /\ End("ended")
  /\ UNCHANGED <<repository, evidence, gated>>

-----------------------------------------------------------------------------
(***************************************************************************)
(* release-prepared-check and release-commit-check.                        *)
(***************************************************************************)
Prepared(sel, command) ==
  /\ pc = "idle"
  /\ PreparedHolds(sel)
  /\ Start(command, sel, "prepared")
  /\ UNCHANGED <<repository, evidence, history>>

Succeed == IF run.command = "commit" THEN Go("index") ELSE End("ended")

\* Evidence that is there is checked, and never replaced.
InspectPrepared ==
  /\ pc = "prepared"
  /\ IF ~ PreparedHolds(run.sel)
     THEN Fail
     ELSE IF prepared = None
     THEN /\ pc' = "package"
          /\ run' = [run EXCEPT !.validation = validated]
          /\ UNCHANGED outcome
     ELSE IF EvidenceHolds(prepared, run.sel, run.sel.source, FALSE, TRUE)
     THEN Succeed
     ELSE Fail
  /\ UNCHANGED <<repository, evidence, history>>

\* cargo update, whose change of the lock would be an Edit, the check of the
\* lock, and the package of the working tree.
PackageCandidate ==
  /\ pc = "package"
  /\ \/ /\ LockUpdated(run.validation.lock, work["lock"])
        /\ package' = [head |-> Tip, tree |-> work]
        /\ run' = [run EXCEPT !.receipt = work["lock"]]
        /\ pc' = "packaged"
        /\ UNCHANGED outcome
     \/ package' \in {package, [head |-> Tip, tree |-> work]} /\ Fail
  /\ UNCHANGED <<repository, validated, prepared, final, archives, history>>

AdmitPackage ==
  /\ pc = "packaged"
  /\ IF /\ TreeIsRelease(run.sel, work, FALSE)
        /\ Tip = run.sel.source
        /\ InputsHold(run.validation, TRUE)
        /\ work["lock"] = run.receipt
     THEN Go("record")
     ELSE Fail
  /\ UNCHANGED <<repository, evidence, history>>

\* The archive is retained under its digest before a receipt names it.
RecordPackage ==
  /\ pc = "record"
  /\ \/ /\ archives' = archives \cup {package}
        /\ pc' = "write"
        /\ run' = [run EXCEPT !.receipt =
                    [validation |-> run.validation, lock |-> run.receipt,
                     head |-> IF run.command = "qualify" THEN run.commit ELSE run.sel.source,
                     package |-> package, final |-> run.command = "qualify"]]
        /\ UNCHANGED outcome
     \/ archives' \in {archives, archives \cup {package}} /\ Fail
  /\ UNCHANGED <<repository, validated, prepared, final, package, history>>

WritePrepared ==
  /\ pc = "write"
  /\ run.command # "qualify"
  /\ \/ prepared' = run.receipt /\ Succeed
     \/ prepared' \in {prepared, run.receipt} /\ Fail
  /\ UNCHANGED <<repository, validated, final, archives, package, history>>

\* Mutant: changes that are not staged are not looked for.
CheckIndexMutant ==
  /\ pc = "index"
  /\ IF IndexIsRelease(run.sel) THEN End("committable") ELSE End("ended")
  /\ UNCHANGED <<repository, evidence, history>>

\* Exactly the prepared surfaces are staged, for a commit on the source.
CheckIndex ==
  /\ pc = "index"
  /\ IF /\ IndexIsRelease(run.sel)
        /\ index = work
        /\ { f \in File : index[f] # commits[Tip].tree[f] }
             = { f \in File : work[f] # commits[run.sel.source].tree[f] }
     THEN End("committable")
     ELSE End("ended")
  /\ UNCHANGED <<repository, evidence, history>>

-----------------------------------------------------------------------------
(***************************************************************************)
(* qualify-release, release-committed-check, release-tagged-check,         *)
(* release-push-check.                                                     *)
(***************************************************************************)
\* An older release commit can only be found qualified already.
QualifyReleaseAt(commit) ==
  /\ pc = "idle"
  /\ IsReleaseCommit(commit)
  /\ LET sel == prepared.validation.sel
     IN  /\ EvidenceHolds(prepared, sel, sel.source, FALSE, FALSE)
         /\ IF final # None
            THEN /\ EvidenceHolds(final, sel, commit, TRUE, Tip = commit)
                 /\ End("ended")
            ELSE /\ Tip = commit
                 /\ run' = [NoRun EXCEPT !.command = "qualify", !.sel = sel,
                              !.commit = commit, !.validation = prepared.validation,
                              !.receipt = prepared.lock]
                 /\ pc' = "final"
                 /\ outcome' = "ended"
  /\ UNCHANGED <<repository, evidence, history>>

\* cargo package refuses a tree that differs from HEAD.
PackageFinal ==
  /\ pc = "final"
  /\ \/ /\ Clean
        /\ package' = [head |-> Tip, tree |-> work]
        /\ Go("finished")
     \/ UNCHANGED package /\ End("ended")
  /\ UNCHANGED <<repository, validated, prepared, final, archives, history>>

AdmitFinal ==
  /\ pc = "finished"
  /\ IF /\ Tip = run.commit
        /\ IsReleaseCommit(run.commit)
        /\ prepared.validation.sel = run.sel
        /\ InputsHold(run.validation, TRUE)
        /\ work["lock"] = run.receipt
     THEN Go("record")
     ELSE End("ended")
  /\ UNCHANGED <<repository, evidence, history>>

WriteFinal ==
  /\ pc = "write"
  /\ run.command = "qualify"
  /\ \/ final' = run.receipt /\ End("ended")
     \/ final' \in {final, run.receipt} /\ End("ended")
  /\ UNCHANGED <<repository, validated, prepared, archives, package, history>>

\* tagged_check, before and after the look at the remote
TaggedHolds(commit) ==
  /\ IsReleaseCommit(commit)
  /\ EvidenceHolds(final, prepared.validation.sel, commit, TRUE, Tip = commit)
  /\ tag = commit

PushCheck(commit) ==
  /\ pc = "idle"
  /\ TaggedHolds(commit)
  /\ run' = [NoRun EXCEPT !.command = "push", !.sel = prepared.validation.sel,
               !.commit = commit]
  /\ pc' = "push"
  /\ outcome' = "ended"
  /\ UNCHANGED <<repository, evidence, history>>

\* remote_ready may refuse.
PushCheckAgain ==
  /\ pc = "push"
  /\ \/ TaggedHolds(run.commit) /\ prepared.validation.sel = run.sel /\ End("pushable")
     \/ End("ended")
  /\ UNCHANGED <<repository, evidence, history>>

-----------------------------------------------------------------------------
(***************************************************************************)
(* publish: cargo packages once more and uploads what it packaged.         *)
(***************************************************************************)
Publish ==
  /\ pc = "idle"
  /\ IsPublishable(Tip)
  /\ run' = [NoRun EXCEPT !.command = "publish", !.sel = prepared.validation.sel,
               !.commit = Tip]
  /\ pc' = "upload"
  /\ outcome' = "ended"
  /\ UNCHANGED <<repository, evidence, history>>

Upload ==
  /\ pc = "upload"
  /\ \/ /\ Clean
        /\ package' = [head |-> Tip, tree |-> work]
        /\ \/ /\ pc' = "uploaded"
              /\ run' = [run EXCEPT !.receipt = package']
              /\ UNCHANGED outcome
           \/ End("ended")
     \/ UNCHANGED package /\ End("ended")
  /\ UNCHANGED <<repository, validated, prepared, final, archives, history>>

\* Mutant: the release is not inspected again after the upload.
PublishedAgainMutant ==
  /\ pc = "uploaded"
  /\ End("published")
  /\ UNCHANGED <<repository, evidence, history>>

PublishedAgain ==
  /\ pc = "uploaded"
  /\ IF IsPublishable(run.commit) /\ prepared.validation.sel = run.sel
     THEN End("published")
     ELSE End("ended")
  /\ UNCHANGED <<repository, evidence, history>>

-----------------------------------------------------------------------------
(***************************************************************************)
(* Maintainers, the runner, and the end of a process.                      *)
(***************************************************************************)
\* What the last command reported is only kept until something else happens.
Forget == outcome' = "ended"

Edit(f) ==
  /\ edits < MaxEdits
  /\ work' = [work EXCEPT ![f].rev = edits + 1]
  /\ edits' = edits + 1
  /\ Forget
  /\ UNCHANGED <<commits, index, setup, tag, evidence, history, pc, run>>

\* An edit that is staged and no longer in the working tree.
StageHidden(f) ==
  /\ pc = "idle"
  /\ edits < MaxEdits
  /\ index' = [index EXCEPT ![f].rev = edits + 1]
  /\ edits' = edits + 1
  /\ Forget
  /\ UNCHANGED <<commits, work, setup, tag, evidence, history, pc, run>>

SwitchSetup ==
  /\ edits < MaxEdits
  /\ setup' \in {Override, edits + 2}
  /\ setup # Override
  /\ edits' = edits + 1
  /\ Forget
  /\ UNCHANGED <<commits, work, index, tag, evidence, history, pc, run>>

RestoreSetup ==
  /\ pc = "idle"
  /\ setup # 1
  /\ setup' = 1
  /\ Forget
  /\ UNCHANGED <<commits, work, index, tag, edits, evidence, history, pc, run>>

\* To stage a preparation that is half written counts as an edit.
Stage ==
  /\ pc = "idle"
  /\ index # work
  /\ IF \A f, g \in Surfaces : work[f].new = work[g].new
     THEN UNCHANGED edits
     ELSE edits < MaxEdits /\ edits' = edits + 1
  /\ index' = work
  /\ Forget
  /\ UNCHANGED <<commits, work, setup, tag, evidence, history, pc, run>>

Commit(release) ==
  /\ Tip < MaxCommits
  /\ index # commits[Tip].tree
  /\ commits' = Append(commits, [tree |-> index, release |-> release])
  /\ Forget
  /\ UNCHANGED <<work, index, setup, tag, edits, evidence, history, pc, run>>

\* A fix committed from a clean tree, beside the running command perhaps.
CommitFix(f) ==
  /\ Tip < MaxCommits
  /\ edits < MaxEdits
  /\ Clean
  /\ work' = [work EXCEPT ![f].rev = edits + 1]
  /\ index' = work'
  /\ commits' = Append(commits, [tree |-> work', release |-> FALSE])
  /\ edits' = edits + 1
  /\ Forget
  /\ UNCHANGED <<setup, tag, evidence, history, pc, run>>

Checkout ==
  /\ pc = "idle"
  /\ ~ Clean
  /\ work' = commits[Tip].tree
  /\ index' = commits[Tip].tree
  /\ torn' = {}
  /\ Forget
  /\ UNCHANGED <<commits, setup, tag, edits, evidence, gated, pc, run>>

\* The runner tags a release commit; to move a tag counts as an edit.
Tag(commit) ==
  /\ commit <= Tip
  /\ tag # commit
  /\ IF tag = None
     THEN pc = "idle" /\ commits[commit].release /\ UNCHANGED edits
     ELSE edits < MaxEdits /\ edits' = edits + 1
  /\ tag' = commit
  /\ Forget
  /\ UNCHANGED <<commits, work, index, setup, evidence, history, pc, run>>

\* The process ends; files stay as they are.
Crash ==
  /\ pc # "idle"
  /\ torn' = IF pc = "rollback" THEN Surfaces ELSE torn
  /\ End("ended")
  /\ UNCHANGED <<repository, evidence, gated>>

Maintain ==
  \/ \E f \in File : Edit(f) \/ StageHidden(f) \/ CommitFix(f)
  \/ SwitchSetup \/ RestoreSetup \/ Stage \/ Checkout
  \/ \E release \in BOOLEAN : Commit(release)
  \/ \E commit \in 1 .. MaxCommits : Tag(commit)

Next ==
  \/ \E sel \in Selection :
       \/ Preflight(sel) \/ Verify(sel) \/ PrepareSelected(sel)
       \/ \E command \in {"check", "commit"} : Prepared(sel, command)
  \/ PreflightAgain
  \/ RunGate \/ AdmitValidation \/ RetainReceipts \/ RetireStale \/ WriteValidation
  \/ CopySurfaces \/ EditSurface \/ EditsDone \/ RollbackSurface \/ RollbackDone
  \/ InspectPrepared \/ PackageCandidate \/ AdmitPackage \/ RecordPackage
  \/ WritePrepared \/ CheckIndex
  \/ \E commit \in 1 .. MaxCommits : QualifyReleaseAt(commit) \/ PushCheck(commit)
  \/ PackageFinal \/ AdmitFinal \/ WriteFinal \/ PushCheckAgain
  \/ Publish \/ Upload \/ PublishedAgain
  \/ Maintain
  \/ Crash

Spec == Init /\ [][Next]_vars

-----------------------------------------------------------------------------
(***************************************************************************)
(* What the tool promises.                                                 *)
(***************************************************************************)
Package == [head : 1 .. MaxCommits, tree : Tree]

Validation == [sel : Selection, lock : Text, setup : Setup]

Evidence ==
  [validation : Validation, lock : Text, head : 1 .. MaxCommits, package : Package,
   final : BOOLEAN]

ASSUME NoneAssumption == None \notin Validation \cup Evidence

\* The release commit made from a source: what has to be true of it.
Qualified(commit, sel) ==
  /\ commit = sel.source + 1
  /\ commits[commit].release
  /\ tag = commit
  /\ commits[commit].tree = Candidate(commits[sel.source].tree)
  /\ [tree |-> commits[sel.source].tree, setup |-> setup] \in gated
  /\ [head |-> commit, tree |-> commits[commit].tree] \in archives

\* publish and release-push-check report success only for a tagged release
\* commit whose tree is the gate's tree with the version replaced, whose own
\* package is retained and, after publish, is what the registry received:
\* whatever was edited, committed, tagged or reconfigured while they ran.
AdmittedReleaseIsQualified ==
  [][/\ outcome' \in {"pushable", "published"} /\ pc # pc' => Qualified(run.commit, run.sel)
     /\ outcome' = "published" /\ pc # pc' =>
          run.receipt = [head |-> run.commit, tree |-> commits[run.commit].tree]]_vars

\* A receipt names an archive that is retained, built from exactly the tree
\* it speaks of; the receipts of one version never speak of two sources; the
\* final one continues the prepared one.  This holds between any two writes.
EvidenceIsSound ==
  /\ prepared # None =>
       /\ prepared.package \in archives
       /\ prepared.package.tree = Candidate(commits[prepared.validation.sel.source].tree)
       /\ prepared.package.head = prepared.validation.sel.source
       /\ validated # None => validated.sel.source = prepared.validation.sel.source
  /\ final # None =>
       /\ prepared # None /\ final.validation = prepared.validation
       /\ final.package \in archives
       /\ final.package = [head |-> final.head, tree |-> commits[final.head].tree]
       /\ final.package.tree = prepared.package.tree

\* No receipt is lost: one that is replaced or removed was copied first, and
\* a final one is never replaced.
ReceiptsAreKept ==
  [][/\ validated' # validated => validated \in run.kept \cup {None}
     /\ prepared' # prepared => prepared \in run.kept \cup {None}
     /\ final' # final => final = None]_vars

SourceTree == commits[run.sel.source].tree

\* The surface holds a text that somebody wrote after the copy; or it is the
\* lock, somebody wrote it between the check and the copy, and preparation
\* overwrote that with the source's lock: the rollback, which asks whether the
\* lock is its copy with the version replaced, takes this for another's text.
IsForeign(f) ==
  /\ work[f].rev # run.backup[f].rev
  /\ \/ work[f].rev # SourceTree[f].rev
     \/ f = "lock" /\ run.backup[f].rev # SourceTree[f].rev

\* A preparation that failed leaves every surface as it was when it was copied,
\* unless somebody else wrote it since or its own restoration failed too.
RollbackIsExact ==
  (pc = "rollback" /\ run.todo = <<>>) =>
    \A f \in Surfaces \ torn : work[f] # run.backup[f] => IsForeign(f)

\* A candidate manifest with another surface that is not the candidate.
Mixed(sel) ==
  /\ TreeIsRelease(sel, work, TRUE)
  /\ work["manifest"].new
  /\ ~ TreeIsRelease(sel, work, FALSE)

\* Whatever cut a preparation short, short of its rollback, the runner can
\* resume it from the version it finds in the manifest: with the old one
\* preflight and preparation admit the tree, with the new one the check of
\* the prepared tree does.
PreparationResumes ==
  (pc = "idle" /\ torn = {}) =>
    \A sel \in Selection :
      (/\ ValidatedFor(sel)
       /\ Renderable(sel)
       /\ Tip = sel.source
       /\ TreeIsRelease(sel, work, TRUE)) =>
        IF work["manifest"].new
        THEN PreparedHolds(sel)
        ELSE PrepareHolds(sel) /\ (IndexIsRelease(sel) => PreflightHolds(sel))

\* What release-commit-check admits is, once it is committed, a release
\* commit that final qualification accepts under the validated setup.
CheckedIndexQualifies ==
  outcome = "committable" =>
    /\ prepared # None
    /\ prepared.validation.sel.source = Tip
    /\ TreeIsRelease(prepared.validation.sel, index, FALSE)
    /\ work = index
    /\ index["lock"] = prepared.lock

\* "Cargo.toml is last: observing the candidate means all other source
\* metadata, including the selected root lock, is complete."
ManifestIsLast ==
  pc = "idle" => \A sel \in Selection : ValidatedFor(sel) => ~ Mixed(sel)

-----------------------------------------------------------------------------
(***************************************************************************)
(* The inductive invariant behind the properties that hold.                *)
(***************************************************************************)
Absent(set) == set \cup {None}

EditOrder == <<"changelog", "lock", "detail", "manifest">>

Ends(seq) == { SubSeq(seq, n, 4) : n \in 1 .. 5 }

Listed(seq) == { seq[n] : n \in 1 .. Len(seq) }

\* The locals of a running command.
RunType ==
  [command : {"none", "preflight", "verify", "prepare", "check", "commit", "qualify",
              "push", "publish"},
   sel : Absent(Selection), validation : Absent(Validation), backup : Absent(Tree),
   todo : Ends(EditOrder) \cup Ends(PathOrder), kept : SUBSET (Validation \cup Evidence),
   receipt : Absent(Text \cup Package \cup Evidence), commit : 0 .. MaxCommits]

TypeOK ==
  /\ commits \in Seq([tree : Tree, release : BOOLEAN]) /\ Tip \in 1 .. MaxCommits
  /\ work \in Tree /\ index \in Tree
  /\ setup \in Setup
  /\ validated \in Absent(Validation)
  /\ prepared \in Absent(Evidence) /\ final \in Absent(Evidence)
  /\ archives \subseteq Package /\ package \in Absent(Package)
  /\ tag \in Absent(1 .. MaxCommits)
  /\ gated \subseteq [tree : Tree, setup : Setup]
  /\ edits \in 0 .. MaxEdits
  /\ torn \subseteq Surfaces
  /\ pc \in {"idle", "preflight", "gate", "admit", "retain", "retire", "validate", "copy",
             "edit", "rollback", "prepared", "package", "packaged", "record", "write", "index",
             "final", "finished", "push", "upload", "uploaded"}
  /\ outcome \in {"ended", "admitted", "committable", "pushable", "published"}
  /\ run \in RunType

\* The texts of a tree are the prepared ones, or were edited since.
IsOrEdited(tree, wanted) ==
  \A f \in File : tree[f] = wanted[f] \/ tree[f].rev # SourceTree[f].rev

\* Every edit is a revision of its own, and every change of the setup a number.
FreshInv ==
  /\ \A f \in File :
       /\ work[f].rev <= edits
       /\ index[f].rev <= edits
       /\ \A c \in 1 .. Tip : commits[c].tree[f].rev <= edits
  /\ setup <= edits + 1
  /\ validated # None => validated.setup \in 1 .. edits + 1
  /\ run.command = "verify" => run.validation.setup \in 1 .. edits + 1

Verifying == pc \in {"gate", "admit", "retain", "retire", "validate"}

Preparing == pc # "idle" /\ run.command \in {"prepare", "check", "commit"}

Qualifying == pc # "idle" /\ run.command = "qualify"

\* What command a step belongs to, and what it was started for.
RunInv ==
  /\ pc = "idle" => run = NoRun
  /\ pc # "idle" => outcome = "ended"
  /\ pc = "preflight" => run.command = "preflight"
  /\ Verifying <=> run.command = "verify"
  /\ pc \in {"copy", "edit", "rollback"} => run.command = "prepare"
  /\ pc \in {"prepared", "package", "packaged"} => run.command \in {"prepare", "check", "commit"}
  /\ pc = "index" => run.command = "commit"
  /\ pc \in {"final", "finished"} => run.command = "qualify"
  /\ pc \in {"record", "write"} => Preparing \/ Qualifying
  /\ pc = "push" => run.command = "push"
  /\ pc \in {"upload", "uploaded"} => run.command = "publish"
  /\ pc # "idle" => run.sel \in Selection /\ run.sel.source <= Tip
  /\ Verifying => Selectable(run.sel) /\ final = None
  /\ Preparing => Renderable(run.sel) /\ final = None
  /\ Verifying => run.validation \in Validation /\ run.validation.sel = run.sel
  /\ Preparing => validated \in Validation /\ validated.sel = run.sel

\* A validation that is admitted passed the gate on its source's own tree.
GateInv ==
  /\ pc = "admit" =>
       \E gate \in gated : /\ IsOrEdited(work, gate.tree)
                           /\ setup = gate.setup \/ setup # run.validation.setup
  /\ pc \in {"retain", "retire", "validate"} =>
       [tree |-> SourceTree, setup |-> run.validation.setup] \in gated
  /\ pc \in {"retire", "validate"} => validated \in run.kept \cup {None}
  /\ pc = "retire" /\ Stale(run.sel) => prepared \in run.kept
  /\ pc = "validate" => ~ Stale(run.sel)

\* So is every validation that is on disk.
ValidatedInv ==
  /\ validated # None =>
       /\ validated.sel.source <= Tip
       /\ [tree |-> commits[validated.sel.source].tree, setup |-> validated.setup] \in gated
  /\ prepared # None =>
       /\ prepared.validation.sel.source <= Tip
       /\ [tree |-> commits[prepared.validation.sel.source].tree,
           setup |-> prepared.validation.setup] \in gated

\* From this commit on, no surface has an old text.
NewFrom(commit) ==
  \A f \in Surfaces :
    /\ work[f].new /\ index[f].new
    /\ \A c \in commit .. Tip : commits[c].tree[f].new

FinalInv ==
  final # None =>
    /\ final.head <= Tip
    /\ final.head = final.validation.sel.source + 1
    /\ NewFrom(final.head)

\* A preparation packages the candidate of its source.
PackageInv ==
  /\ Preparing => run.sel.source = Tip \/ commits[Tip].tree = index
  /\ Preparing /\ pc \in {"package", "packaged", "record", "write"} =>
       prepared = None /\ run.validation = validated
  /\ pc = "packaged" =>
       /\ package \in Package /\ package.head \in run.sel.source .. Tip
       /\ IsOrEdited(work, package.tree)
  /\ Preparing /\ pc \in {"record", "write"} =>
       package = [head |-> run.sel.source, tree |-> Candidate(SourceTree)]
  /\ Preparing /\ pc = "record" => run.receipt = Rendered(SourceTree["lock"])
  /\ Preparing /\ pc = "write" =>
       /\ package \in archives
       /\ run.receipt = [validation |-> run.validation, lock |-> Rendered(SourceTree["lock"]),
                         head |-> run.sel.source, package |-> package, final |-> FALSE]
  /\ Preparing /\ pc \in {"record", "write", "index"} => IsOrEdited(work, Candidate(SourceTree))
  /\ pc = "index" =>
       /\ prepared \in Evidence /\ prepared.validation.sel = run.sel
       /\ prepared.lock = Rendered(SourceTree["lock"])

\* Final qualification packages the release commit that it was started for.
QualifyInv ==
  /\ Qualifying =>
       /\ prepared \in Evidence /\ run.validation = prepared.validation
       /\ run.sel = prepared.validation.sel
       /\ final = None
       /\ run.commit \in 1 .. Tip
  /\ pc = "finished" =>
       /\ package \in Package /\ package.head \in run.commit .. Tip
       /\ package.tree = commits[package.head].tree
       /\ run.receipt \in Text
  /\ pc = "final" => run.receipt \in Text
  /\ Qualifying /\ pc \in {"record", "write"} =>
       /\ run.commit = run.sel.source + 1
       /\ package = [head |-> run.commit, tree |-> commits[run.commit].tree]
       /\ commits[run.commit].tree = Candidate(SourceTree)
       /\ NewFrom(run.commit)
  /\ Qualifying /\ pc = "record" => run.receipt \in Text
  /\ Qualifying /\ pc = "write" =>
       /\ package \in archives
       /\ run.receipt \in Evidence
       /\ run.receipt.validation = run.validation
       /\ run.receipt.head = run.commit
       /\ run.receipt.package = package
  /\ pc \in {"upload", "uploaded", "push"} => run.commit \in 1 .. Tip
  /\ pc = "uploaded" =>
       /\ run.receipt \in Package /\ run.receipt.head \in run.commit .. Tip
       /\ run.receipt.tree = commits[run.receipt.head].tree

\* Texts of the manifest that are not the source's are in the index and the
\* tip as they are.
SharedManifest(text) ==
  \A tree \in {index, commits[Tip].tree} :
    text.rev # SourceTree["manifest"].rev /\ text.rev = tree["manifest"].rev =>
      text = tree["manifest"]

\* From a text of the source, the candidate or an editor.
Admissible(tree) ==
  \A f \in File : \/ tree[f] \in {SourceTree[f], Candidate(SourceTree)[f]}
                  \/ tree[f].rev # SourceTree[f].rev

\* A preparation that has copied the surfaces.
Editing == pc \notin {"idle", "copy"} /\ run.command = "prepare"

\* A surface is the copy or the candidate, or was edited since; before there is
\* a copy, it is what the check admitted, or was edited since.
EditInv ==
  /\ pc = "copy" =>
       /\ Admissible(work)
       /\ torn = {} /\ work["manifest"].new => \A f \in Surfaces : work[f].new
       /\ SharedManifest(work["manifest"])
  /\ Editing =>
       /\ run.backup \in Tree
       /\ Admissible(run.backup)
       /\ \A f \in File : run.backup[f].rev <= edits
       /\ \A f \in File : \/ work[f] \in {run.backup[f], Candidate(SourceTree)[f]}
                          \/ work[f].rev \notin {SourceTree[f].rev, run.backup[f].rev}
       /\ \A f \in Surfaces : run.backup[f].new => work[f].new
       /\ torn = {} /\ run.backup["manifest"].new => \A f \in Surfaces : run.backup[f].new
       /\ SharedManifest(work["manifest"])
       /\ SharedManifest(run.backup["manifest"])
       /\ pc = "edit" =>
            /\ run.todo \in Ends(EditOrder)
            /\ \A f \in Surfaces \ Listed(run.todo) : work[f].new
       /\ pc = "rollback" =>
            /\ run.todo \in Ends(PathOrder)
            /\ \A f \in Surfaces \ (Listed(run.todo) \cup torn) :
                 work[f] = run.backup[f] \/ IsForeign(f)

\* A new manifest beside an old one of the same revision comes with all other
\* surfaces new.
ManifestInv ==
  torn = {} /\ pc # "rollback" =>
    \A tree \in {index, commits[Tip].tree} :
      /\ work["manifest"].new /\ ~ tree["manifest"].new
      /\ work["manifest"].rev = tree["manifest"].rev
      => \A f \in Surfaces : work[f].new

IInv ==
  /\ TypeOK /\ FreshInv /\ RunInv /\ GateInv /\ ValidatedInv /\ EvidenceIsSound
  /\ FinalInv /\ PackageInv /\ QualifyInv /\ EditInv /\ ManifestInv

=============================================================================
