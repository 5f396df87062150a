---------------------------- MODULE Release_proofs ----------------------------
(***************************************************************************)
(* Theorems about Release, for every number of commits, edits, releases    *)
(* and dates: what receipts say stays true, whatever maintainers do        *)
(* between commands and beside them, and wherever a command fails or ends. *)
(***************************************************************************)
EXTENDS Release, SequenceTheorems, TLAPS

-----------------------------------------------------------------------------
(***************************************************************************)
(* Texts, trees and the commits of the branch.                             *)
(***************************************************************************)
LEMMA RenderedFacts ==
  ASSUME NEW text \in Text
  PROVE  /\ Rendered(text) \in Text
         /\ Rendered(text).new
         /\ Rendered(text).rev = text.rev
BY DEF Rendered, Text

LEMMA TreeTexts ==
  ASSUME NEW tree \in Tree, NEW f \in File
  PROVE  tree[f] \in Text /\ tree[f].new \in BOOLEAN /\ tree[f].rev \in 0 .. MaxEdits
BY DEF Tree, Text

\* A text is its revision and whether it is new.
LEMMA SameText ==
  ASSUME NEW s \in Text, NEW t \in Text, s.new = t.new, s.rev = t.rev
  PROVE  s = t
BY DEF Text

LEMMA CandidateFacts ==
  ASSUME NEW tree \in Tree
  PROVE  /\ Candidate(tree) \in Tree
         /\ \A f \in Surfaces :
              /\ Candidate(tree)[f] = Rendered(tree[f])
              /\ Candidate(tree)[f].new
         /\ Candidate(tree)["code"] = tree["code"]
         /\ \A f \in File : Candidate(tree)[f].rev = tree[f].rev
<1>1. \A f \in File : tree[f] \in Text
  BY DEF Tree
<1>2. \A f \in File : Rendered(tree[f]) \in Text /\ Rendered(tree[f]).new
                      /\ Rendered(tree[f]).rev = tree[f].rev
  BY <1>1, RenderedFacts
<1>3. /\ DOMAIN Candidate(tree) = File
      /\ \A f \in File : Candidate(tree)[f] =
           IF f \in Surfaces THEN Rendered(tree[f]) ELSE tree[f]
  BY DEF Candidate
<1>4. Candidate(tree) \in Tree
  <2>1. \A f \in File : Candidate(tree)[f] \in Text
    BY <1>1, <1>2, <1>3
  <2>2. Candidate(tree) = [f \in File |-> Candidate(tree)[f]]
    BY DEF Candidate
  <2>3. QED
    BY <2>1, <2>2 DEF Tree
<1>5. QED
  BY <1>2, <1>3, <1>4 DEF File, Surfaces

\* Two trees with the same texts are the same.
LEMMA SameTree ==
  ASSUME NEW s \in Tree, NEW t \in Tree, \A f \in File : s[f] = t[f]
  PROVE  s = t
BY DEF Tree

LEMMA CommitTree ==
  ASSUME TypeOK, NEW c \in 1 .. Tip
  PROVE  /\ commits[c].tree \in Tree
         /\ commits[c].release \in BOOLEAN
         /\ commits[c] = [tree |-> commits[c].tree, release |-> commits[c].release]
<1>1. commits \in Seq([tree : Tree, release : BOOLEAN])
  BY DEF TypeOK
<1>2. commits[c] \in [tree : Tree, release : BOOLEAN]
  BY <1>1, ElementOfSeq DEF Tip
<1>3. QED
  BY <1>2

LEMMA TipFacts ==
  ASSUME TypeOK
  PROVE  Tip \in Nat /\ Tip >= 1 /\ Tip <= MaxCommits /\ MaxCommits \in Nat
         /\ commits[Tip].tree \in Tree
<1>1. Tip \in 1 .. MaxCommits /\ MaxCommits \in Nat
  BY ReleaseAssumption DEF TypeOK
<1>2. Tip \in Nat /\ Tip >= 1 /\ Tip <= MaxCommits
  BY <1>1
<1>3. Tip \in 1 .. Tip
  BY <1>2
<1>4. QED
  BY <1>1, <1>2, <1>3, CommitTree

\* The tree of a whole release is the candidate of its source.
LEMMA ReleaseTree ==
  ASSUME TypeOK, NEW sel, sel.source \in 1 .. Tip, NEW tree \in Tree
  PROVE  TreeIsRelease(sel, tree, FALSE) <=> tree = Candidate(commits[sel.source].tree)
<1> DEFINE source == commits[sel.source].tree
<1>1. source \in Tree
  BY CommitTree
<1>2. Candidate(source) \in Tree /\ Candidate(source)["code"] = source["code"]
  BY <1>1, CandidateFacts
<1>3. ASSUME TreeIsRelease(sel, tree, FALSE) PROVE tree = Candidate(source)
  <2>1. \A f \in File : tree[f] = Candidate(source)[f]
    BY <1>2, <1>3 DEF TreeIsRelease, File
  <2>2. QED
    BY <1>2, <2>1, SameTree
<1>4. ASSUME tree = Candidate(source) PROVE TreeIsRelease(sel, tree, FALSE)
  BY <1>2, <1>4 DEF TreeIsRelease, File
<1>5. QED
  BY <1>3, <1>4

-----------------------------------------------------------------------------
(***************************************************************************)
(* The ends of a list that is worked off from its front.                   *)
(***************************************************************************)
LEMMA EndFacts ==
  ASSUME NEW seq \in Seq(Surfaces), Len(seq) = 4, NEW n \in 1 .. 5
  PROVE  /\ SubSeq(seq, n, 4) \in Seq(Surfaces) /\ Len(SubSeq(seq, n, 4)) = 5 - n
         /\ \A i \in 1 .. 5 - n : SubSeq(seq, n, 4)[i] = seq[n + i - 1]
<1>1. n \in Int /\ 4 \in Int /\ \A i \in n .. 4 : seq[i] \in Surfaces
  <2>1. n \in Int /\ 4 \in Int /\ \A i \in n .. 4 : i \in 1 .. Len(seq)
    OBVIOUS
  <2>2. \A i \in 1 .. Len(seq) : seq[i] \in Surfaces
    OBVIOUS
  <2>3. QED
    BY <2>1, <2>2
<1>2. /\ SubSeq(seq, n, 4) \in Seq(Surfaces)
      /\ Len(SubSeq(seq, n, 4)) = IF n <= 4 THEN 4 - n + 1 ELSE 0
      /\ \A i \in 1 .. 4 - n + 1 : SubSeq(seq, n, 4)[i] = seq[n + i - 1]
  BY <1>1, SubSeqProperties
<1>3. QED
  BY <1>2

LEMMA EndsFacts ==
  ASSUME NEW seq \in Seq(Surfaces), Len(seq) = 4, NEW todo \in Ends(seq)
  PROVE  /\ todo \in Seq(Surfaces)
         /\ Listed(todo) \subseteq Surfaces
         /\ todo = <<>> => Listed(todo) = {}
         /\ todo # <<>> => /\ Tail(todo) \in Ends(seq)
                           /\ Head(todo) \in Surfaces
                           /\ Listed(todo) = {Head(todo)} \cup Listed(Tail(todo))
<1>1. PICK n \in 1 .. 5 : todo = SubSeq(seq, n, 4)
  BY DEF Ends
<1>2. /\ todo \in Seq(Surfaces) /\ Len(todo) = 5 - n
      /\ \A i \in 1 .. 5 - n : todo[i] = seq[n + i - 1]
  BY <1>1, EndFacts
<1>3. Listed(todo) \subseteq Surfaces
  BY <1>2 DEF Listed
<1>4. todo = <<>> => Listed(todo) = {}
  BY DEF Listed
<1>5. ASSUME todo # <<>>
      PROVE  /\ Tail(todo) \in Ends(seq)
             /\ Head(todo) \in Surfaces
             /\ Listed(todo) = {Head(todo)} \cup Listed(Tail(todo))
  <2>1. n \in 1 .. 4
    BY <1>2, <1>5
  <2>2. /\ Tail(todo) \in Seq(Surfaces) /\ Len(Tail(todo)) = 4 - n
        /\ \A i \in 1 .. 4 - n : Tail(todo)[i] = todo[i + 1]
    BY <1>2, <1>5, <2>1
  <2>3. Tail(todo) = SubSeq(seq, n + 1, 4)
    <3>1. /\ SubSeq(seq, n + 1, 4) \in Seq(Surfaces)
          /\ Len(SubSeq(seq, n + 1, 4)) = 4 - n
          /\ \A i \in 1 .. 4 - n : SubSeq(seq, n + 1, 4)[i] = seq[n + i]
      <4>1. /\ SubSeq(seq, n + 1, 4) \in Seq(Surfaces)
            /\ Len(SubSeq(seq, n + 1, 4)) = 5 - (n + 1)
            /\ \A i \in 1 .. 5 - (n + 1) : SubSeq(seq, n + 1, 4)[i] = seq[n + 1 + i - 1]
        BY <2>1, EndFacts
      <4>2. QED
        BY <2>1, <4>1
    <3>2. \A i \in 1 .. 4 - n : Tail(todo)[i] = seq[n + i]
      BY <1>2, <2>1, <2>2
    <3>3. QED
      BY <2>2, <3>1, <3>2, SeqEqual
  <2>4. Head(todo) = todo[1] /\ Head(todo) \in Surfaces
    BY <1>2, <2>1
  <2>5. Listed(todo) = {Head(todo)} \cup Listed(Tail(todo))
    <3>1. \A i \in 1 .. 5 - n : i = 1 \/ i - 1 \in 1 .. 4 - n
      BY <2>1
    <3>2. \A i \in 1 .. 5 - n : i # 1 => todo[i] = Tail(todo)[i - 1]
      BY <2>1, <2>2
    <3>3. Listed(todo) \subseteq {Head(todo)} \cup Listed(Tail(todo))
      BY <1>2, <2>2, <2>4, <3>1, <3>2 DEF Listed
    <3>4. {Head(todo)} \cup Listed(Tail(todo)) \subseteq Listed(todo)
      BY <1>2, <2>1, <2>2, <2>4 DEF Listed
    <3>5. QED
      BY <3>3, <3>4
  <2>6. QED
    BY <2>1, <2>3, <2>4, <2>5 DEF Ends
<1>6. QED
  BY <1>2, <1>3, <1>4, <1>5

\* Nothing has been written at first, and everything has been listed.
LEMMA OrderFacts ==
  /\ EditOrder \in Seq(Surfaces) /\ Len(EditOrder) = 4 /\ EditOrder \in Ends(EditOrder)
  /\ PathOrder \in Seq(Surfaces) /\ Len(PathOrder) = 4 /\ PathOrder \in Ends(PathOrder)
  /\ Listed(EditOrder) = Surfaces /\ Listed(PathOrder) = Surfaces
  /\ <<>> \in Ends(EditOrder)
<1>1. EditOrder \in Seq(Surfaces) /\ Len(EditOrder) = 4
  BY DEF EditOrder, Surfaces
<1>2. PathOrder \in Seq(Surfaces) /\ Len(PathOrder) = 4
  BY DEF PathOrder, Surfaces
<1>3. SubSeq(EditOrder, 1, 4) = EditOrder /\ SubSeq(PathOrder, 1, 4) = PathOrder
  BY <1>1, <1>2, SeqEqual
<1>4. EditOrder \in Ends(EditOrder) /\ PathOrder \in Ends(PathOrder)
  BY <1>3 DEF Ends
<1>5. Listed(EditOrder) = Surfaces
  BY DEF EditOrder, Listed, Surfaces
<1>6. Listed(PathOrder) = Surfaces
  BY DEF PathOrder, Listed, Surfaces
<1>7. SubSeq(EditOrder, 5, 4) = <<>>
  BY <1>1
<1>8. <<>> \in Ends(EditOrder)
  BY <1>7 DEF Ends
<1>9. QED
  BY <1>1, <1>2, <1>4, <1>5, <1>6, <1>8

-----------------------------------------------------------------------------
(***************************************************************************)
(* The inductive invariant: initially, and after each action.  Most steps  *)
(* leave what is stored alone, or change one receipt of it.                *)
(***************************************************************************)
LEMMA OldTreeFacts ==
  /\ OldTree \in Tree
  /\ \A f \in File : OldTree[f] = [new |-> FALSE, rev |-> 0]
BY ReleaseAssumption DEF OldTree, Tree, Text

LEMMA NoRunType ==
  /\ NoRun \in RunType
  /\ NoRun.command = "none" /\ NoRun.validation = None /\ NoRun.sel = None
  /\ NoRun.commit = 0
BY OrderFacts, ReleaseAssumption DEF NoRun, RunType, Absent

LEMMA InitIInv == Init => IInv
<1> SUFFICES ASSUME Init PROVE IInv
  OBVIOUS
<1> USE DEF Init
<1>1. commits \in Seq([tree : Tree, release : BOOLEAN]) /\ Tip = 1
      /\ commits[1].tree = OldTree
  BY OldTreeFacts DEF Tip
<1>2. TypeOK
  BY <1>1, OldTreeFacts, NoRunType, ReleaseAssumption DEF TypeOK, Absent, Setup
<1>3. FreshInv
  BY <1>1, OldTreeFacts, NoRunType DEF FreshInv
<1>4. RunInv /\ GateInv /\ ValidatedInv /\ EvidenceIsSound /\ FinalInv
  BY NoRunType DEF RunInv, GateInv, ValidatedInv, EvidenceIsSound, FinalInv, Verifying,
                   Preparing, Qualifying
<1>5. PackageInv /\ QualifyInv /\ EditInv
  BY NoRunType DEF PackageInv, QualifyInv, EditInv, Editing, Preparing, Qualifying
<1>6. ManifestInv
  BY <1>1, OldTreeFacts DEF ManifestInv, File, Surfaces
<1>7. QED
  BY <1>2, <1>3, <1>4, <1>5, <1>6 DEF IInv

\* What the files say, whatever step a command is at.
Stored ==
  /\ ValidatedInv /\ EvidenceIsSound /\ FinalInv

\* Receipts stay, and archives and passed gates are only added.
Passive ==
  /\ UNCHANGED <<repository, validated, prepared, final>>
  /\ archives \subseteq archives' /\ archives' \subseteq Package
  /\ gated \subseteq gated' /\ gated' \subseteq [tree : Tree, setup : Setup]

LEMMA StoredStays ==
  ASSUME IInv, Passive
  PROVE  Stored'
<1> USE DEF IInv, Passive, repository
<1>1. Tip' = Tip
  BY DEF Tip
<1>2. ValidatedInv'
  BY <1>1 DEF ValidatedInv
<1>3. EvidenceIsSound'
  BY DEF EvidenceIsSound
<1>4. FinalInv'
  BY <1>1 DEF FinalInv, NewFrom
<1>5. QED
  BY <1>2, <1>3, <1>4 DEF Stored

LEMMA ManifestStays ==
  ASSUME IInv, UNCHANGED <<commits, index, work>>,
         torn' = {} => torn = {} /\ pc # "rollback"
  PROVE  ManifestInv'
BY DEF IInv, ManifestInv, Tip

\* A command that ends forgets what it knew; what it leaves is what it stored.
LEMMA EndKeeps ==
  ASSUME IInv, UNCHANGED <<commits, index, work, setup, tag, edits>>,
         validated' \in Absent(Validation),
         validated' # None => validated'.setup \in 1 .. edits + 1,
         prepared' \in Absent(Evidence), final' \in Absent(Evidence),
         archives' \subseteq Package, package' \in Absent(Package),
         gated' \subseteq [tree : Tree, setup : Setup],
         torn' \subseteq Surfaces,
         pc' = "idle", run' = NoRun,
         outcome' \in {"ended", "admitted", "committable", "pushable", "published"},
         Stored', ManifestInv'
  PROVE  IInv'
<1> USE DEF IInv, Stored
<1>1. Tip' = Tip
  BY DEF Tip
<1>2. TypeOK'
  BY <1>1, NoRunType DEF TypeOK
<1>3. FreshInv'
  <2>1. /\ \A f \in File :
             /\ work'[f].rev <= edits'
             /\ index'[f].rev <= edits'
             /\ \A c \in 1 .. Tip' : commits'[c].tree[f].rev <= edits'
        /\ setup' <= edits' + 1
    BY <1>1 DEF FreshInv
  <2>2. /\ validated' # None => validated'.setup \in 1 .. edits' + 1
        /\ run'.command = "verify" => run'.validation.setup \in 1 .. edits' + 1
    BY NoRunType
  <2>3. QED
    BY <2>1, <2>2 DEF FreshInv
<1>4. RunInv' /\ GateInv'
  BY NoRunType DEF RunInv, GateInv, Verifying, Preparing, Qualifying
<1>5. PackageInv' /\ QualifyInv' /\ EditInv'
  BY DEF PackageInv, QualifyInv, EditInv, Editing, Preparing, Qualifying
<1>6. QED
  BY <1>2, <1>3, <1>4, <1>5

LEMMA PassiveEndKeeps ==
  ASSUME IInv, Passive, package' \in Absent(Package), torn' = torn, pc # "rollback",
         pc' = "idle", run' = NoRun,
         outcome' \in {"ended", "admitted", "committable", "pushable", "published"}
  PROVE  IInv'
<1>1. Stored'
  BY StoredStays
<1>2. /\ UNCHANGED <<commits, index, work, setup, tag, edits>>
      /\ validated' = validated /\ prepared' = prepared /\ final' = final
      /\ archives' \subseteq Package
      /\ gated' \subseteq [tree : Tree, setup : Setup]
  BY DEF Passive, repository
<1>3. TypeOK /\ FreshInv
  BY DEF IInv
<1>4. /\ validated' \in Absent(Validation)
      /\ prepared' \in Absent(Evidence) /\ final' \in Absent(Evidence)
      /\ torn' \subseteq Surfaces
  BY <1>2, <1>3 DEF TypeOK
<1>5. validated' # None => validated'.setup \in 1 .. edits + 1
  BY <1>2, <1>3 DEF FreshInv
<1>6. ManifestInv'
  BY <1>2, ManifestStays
<1>7. QED
  BY <1>1, <1>2, <1>4, <1>5, <1>6, EndKeeps

\* A source that can be released at the tip: nothing was released from it.
LEMMA NoFinal ==
  ASSUME IInv, NEW sel \in Selection, Selectable(sel), Tip = sel.source
  PROVE  final = None
<1>1. Tip \in Nat
  BY TipFacts DEF IInv
<1>2. final # None => final.head <= Tip /\ NewFrom(final.head) /\ final \in Evidence
  BY DEF IInv, FinalInv, TypeOK, Absent
<1>3. final # None => final.head \in Nat
  BY <1>2 DEF Evidence
<1>4. final # None => Tip \in final.head .. Tip
  BY <1>1, <1>2, <1>3
<1>5. "manifest" \in Surfaces
  BY DEF Surfaces
<1>6. QED
  BY <1>2, <1>4, <1>5 DEF NewFrom, Selectable

\* A step of a command that leaves repository and receipts alone, or packages:
\* what remains to be shown of it.
LEMMA StepKeeps ==
  ASSUME IInv, Passive, package' \in Absent(Package), torn' = torn,
         pc' = "rollback" \/ pc # "rollback",
         run' \in RunType, run'.command = "verify" => run'.validation.setup \in 1 .. edits + 1,
         pc' \in {"preflight", "gate", "admit", "retain", "retire", "validate", "copy",
             "edit", "rollback", "prepared", "package", "packaged", "record", "write", "index",
             "final", "finished", "push", "upload", "uploaded"},
         outcome' = "ended",
         RunInv', GateInv', PackageInv', QualifyInv', EditInv'
  PROVE  IInv'
<1> USE DEF IInv, Passive, repository
<1>1. Tip' = Tip
  BY DEF Tip
<1>2. TypeOK'
  BY <1>1 DEF TypeOK
<1>3. FreshInv'
  <2>1. /\ \A f \in File :
             /\ work'[f].rev <= edits'
             /\ index'[f].rev <= edits'
             /\ \A c \in 1 .. Tip' : commits'[c].tree[f].rev <= edits'
        /\ setup' <= edits' + 1
    BY <1>1 DEF FreshInv
  <2>2. /\ validated' # None => validated'.setup \in 1 .. edits' + 1
        /\ run'.command = "verify" => run'.validation.setup \in 1 .. edits' + 1
    BY DEF FreshInv
  <2>3. QED
    BY <2>1, <2>2 DEF FreshInv
<1>4. Stored'
  BY StoredStays
<1>5. ManifestInv'
  BY <1>1 DEF ManifestInv
<1>6. QED
  BY <1>2, <1>3, <1>4, <1>5 DEF Stored

-----------------------------------------------------------------------------
\* release-preflight
LEMMA PreflightKeeps ==
  ASSUME IInv, NEW sel \in Selection, Preflight(sel)
  PROVE  IInv'
<1> USE DEF Preflight, evidence, history
<1>1. Passive
  BY DEF Passive, IInv, TypeOK
<1>2. Tip' = Tip /\ SourceTree' = commits[run'.sel.source].tree
  BY DEF repository, Tip, SourceTree
<1>3. work["lock"] \in Text
  BY TreeTexts DEF IInv, TypeOK, File, Surfaces
<1>4. /\ run' \in RunType /\ run'.command = "preflight" /\ run'.validation = None
      /\ run'.sel = sel
  BY <1>3, NoRunType DEF RunType, Absent
<1>5. RunInv' /\ GateInv' /\ PackageInv' /\ QualifyInv' /\ EditInv'
  BY <1>2, <1>4
     DEF PreflightHolds, Selectable, Renderable, RunInv, GateInv, PackageInv, QualifyInv,
                    EditInv, Editing, Verifying, Preparing, Qualifying
<1>6. package' \in Absent(Package)
  BY DEF IInv, TypeOK
<1>7. QED
  BY <1>1, <1>4, <1>5, <1>6, StepKeeps

LEMMA PreflightAgainKeeps ==
  ASSUME IInv, PreflightAgain
  PROVE  IInv'
<1> USE DEF PreflightAgain, evidence, history, End
<1>1. Passive /\ package' \in Absent(Package)
  BY DEF Passive, IInv, TypeOK
<1>2. QED
  BY <1>1, PassiveEndKeeps

-----------------------------------------------------------------------------
\* release-verify
LEMMA VerifyKeeps ==
  ASSUME IInv, NEW sel \in Selection, Verify(sel)
  PROVE  IInv'
<1> USE DEF Verify, evidence, history
<1>1. Passive /\ package' \in Absent(Package)
  BY DEF Passive, IInv, TypeOK
<1>2. Tip' = Tip /\ Tip \in Nat
  BY TipFacts DEF repository, Tip, IInv
<1>3. work["lock"] \in Text
  BY TreeTexts DEF IInv, TypeOK, File, Surfaces
<1>4. setup \in Setup /\ setup \in 1 .. edits + 1
  <2>1. setup \in Setup /\ setup # Override /\ setup <= edits + 1 /\ edits \in Nat
    BY DEF IInv, TypeOK, FreshInv, VerifyHolds
  <2>2. QED
    BY <2>1, ReleaseAssumption DEF Setup, Override
<1> DEFINE v == [sel |-> sel, lock |-> work["lock"], setup |-> setup]
<1>5. v \in Validation /\ v.setup \in 1 .. edits + 1 /\ v.sel = sel
  BY <1>3, <1>4 DEF Validation
<1>6. /\ run' \in RunType /\ run'.command = "verify" /\ run'.validation = v
      /\ run'.sel = sel
  BY <1>5, NoRunType DEF RunType, Absent
<1>7. final' = None
  BY NoFinal DEF VerifyHolds
<1>8. Selectable(sel)'
  BY <1>2 DEF VerifyHolds, Selectable, repository
<1> HIDE DEF v
<1>9. RunInv' /\ GateInv' /\ PackageInv' /\ QualifyInv' /\ EditInv'
  BY <1>2, <1>5, <1>6, <1>7, <1>8 DEF VerifyHolds, RunInv, GateInv, PackageInv, QualifyInv,
                    EditInv, Editing, Verifying, Preparing, Qualifying
<1>10. QED
  BY <1>1, <1>5, <1>6, <1>9, StepKeeps

LEMMA RunGateKeeps ==
  ASSUME IInv, RunGate
  PROVE  IInv'
<1> USE DEF RunGate, evidence
<1> DEFINE gate == [tree |-> work, setup |-> setup]
<1>1. gate \in [tree : Tree, setup : Setup] /\ package' \in Absent(Package)
  BY DEF IInv, TypeOK
<1>2. Passive
  BY <1>1 DEF Passive, IInv, TypeOK
<1>3. CASE pc' = "idle"
  BY <1>1, <1>2, <1>3, PassiveEndKeeps DEF End, Go
<1>4. CASE pc' = "admit"
  <2>1. gate \in gated' /\ pc = "gate" /\ run' = run /\ outcome' = outcome /\ torn' = torn
    BY <1>4 DEF End, Go
  <2>2. Tip' = Tip /\ work' = work /\ setup' = setup
    BY DEF repository, Tip
  <2>3. /\ \A f \in File : \/ work'[f] = gate.tree[f]
                          \/ work'[f].rev # SourceTree'[f].rev
        /\ setup' = gate.setup
    BY <2>2
  <2>4. RunInv'
    BY <1>4, <2>1, <2>2
       DEF IInv, RunInv, Verifying, Preparing, Qualifying, Selectable, Renderable, repository
  <2>5. GateInv'
    <3>1. \E g \in gated' :
            /\ \A f \in File : work'[f] = g.tree[f] \/ work'[f].rev # SourceTree'[f].rev
            /\ setup' = g.setup
      BY <2>1, <2>3
    <3>2. QED
      BY <1>4, <3>1 DEF GateInv, IsOrEdited
  <2>6. PackageInv' /\ QualifyInv' /\ EditInv'
    BY <1>4, <2>1
       DEF IInv, PackageInv, QualifyInv, EditInv, Editing, RunInv, Verifying, Preparing,
                      Qualifying
  <2>7. /\ run' \in RunType /\ outcome' = "ended"
        /\ run'.command = "verify" => run'.validation.setup \in 1 .. edits + 1
    BY <2>1 DEF IInv, TypeOK, RunInv, FreshInv
  <2>8. QED
    BY <1>1, <1>2, <1>4, <2>1, <2>4, <2>5, <2>6, <2>7, StepKeeps
<1>5. QED
  BY <1>3, <1>4 DEF End, Go

LEMMA AdmitValidationKeeps ==
  ASSUME IInv, AdmitValidation
  PROVE  IInv'
<1> USE DEF AdmitValidation, evidence, history
<1>1. Passive /\ package' \in Absent(Package)
  BY DEF Passive, IInv, TypeOK
<1>2. CASE pc' = "idle"
  BY <1>1, <1>2, PassiveEndKeeps DEF End, Go
<1>3. CASE pc' = "retain"
  <2>1. /\ Clean /\ Tip = run.sel.source /\ InputsHold(run.validation, FALSE)
        /\ run' = run /\ outcome' = outcome
    BY <1>3 DEF End, Go
  <2>2. Tip' = Tip /\ commits' = commits /\ final' = final /\ validated' = validated
    BY DEF repository, Tip
  <2>3. [tree |-> SourceTree, setup |-> run.validation.setup] \in gated
    <3>1. PICK gate \in gated : /\ IsOrEdited(work, gate.tree)
                                /\ setup = gate.setup \/ setup # run.validation.setup
      BY DEF IInv, GateInv
    <3>2. gate \in [tree : Tree, setup : Setup] /\ work \in Tree
      BY DEF IInv, TypeOK
    <3>3. work = SourceTree
      BY <2>1 DEF Clean, SourceTree
    <3>4. \A f \in File : work[f] = gate.tree[f]
      BY <3>1, <3>3 DEF IsOrEdited
    <3>5. work = gate.tree
      BY <3>2, <3>4, SameTree
    <3>6. setup = run.validation.setup
      BY <2>1 DEF InputsHold
    <3>7. gate = [tree |-> SourceTree, setup |-> run.validation.setup]
      BY <3>1, <3>2, <3>3, <3>5, <3>6
    <3>8. QED
      BY <3>7
  <2>4. SourceTree' = SourceTree
    BY <2>1, <2>2 DEF SourceTree
  <2>5. RunInv'
    BY <1>3, <2>1, <2>2
       DEF IInv, RunInv, Verifying, Preparing, Qualifying, Selectable, Renderable
  <2>6. GateInv'
    BY <1>3, <2>1, <2>3, <2>4 DEF GateInv
  <2>7. PackageInv' /\ QualifyInv' /\ EditInv'
    BY <1>3, <2>1
       DEF IInv, PackageInv, QualifyInv, EditInv, Editing, RunInv, Verifying, Preparing,
                      Qualifying
  <2>8. /\ run' \in RunType /\ outcome' = "ended"
        /\ run'.command = "verify" => run'.validation.setup \in 1 .. edits + 1
    BY <2>1 DEF IInv, TypeOK, RunInv, FreshInv
  <2>9. QED
    BY <1>1, <1>3, <2>5, <2>6, <2>7, <2>8, StepKeeps
<1>4. QED
  BY <1>2, <1>3 DEF End, Go

LEMMA RetainReceiptsKeeps ==
  ASSUME IInv, RetainReceipts
  PROVE  IInv'
<1> USE DEF RetainReceipts, evidence, history
<1>1. Passive /\ package' \in Absent(Package)
  BY DEF Passive, IInv, TypeOK
<1>2. CASE pc' = "idle"
  BY <1>1, <1>2, PassiveEndKeeps DEF End
<1>3. CASE pc' = "retire"
  <2> DEFINE kept == ({validated} \cup IF Stale(run.sel) THEN {prepared} ELSE {}) \ {None}
  <2>1. run' = [run EXCEPT !.kept = kept] /\ outcome' = outcome /\ pc = "retain"
    BY <1>3 DEF End
  <2>2. kept \subseteq Validation \cup Evidence
    BY DEF IInv, TypeOK, Absent
  <2>3. validated \in kept \cup {None} /\ (Stale(run.sel) => prepared \in kept)
    BY DEF Stale
  <2> HIDE DEF kept
  <2>4. /\ run' \in RunType /\ run'.kept = kept
        /\ run'.command = run.command /\ run'.sel = run.sel
        /\ run'.validation = run.validation
    BY <2>1, <2>2 DEF IInv, TypeOK, RunType
  <2>5. /\ Tip' = Tip /\ commits' = commits /\ final' = final /\ validated' = validated
        /\ gated' = gated /\ prepared' = prepared
    BY DEF repository, Tip
  <2>6. SourceTree' = SourceTree
    BY <2>4, <2>5 DEF SourceTree
  <2>7. RunInv'
    BY <1>3, <2>1, <2>4, <2>5
       DEF IInv, RunInv, Verifying, Preparing, Qualifying, Selectable, Renderable
  <2>8. GateInv'
    BY <1>3, <2>1, <2>3, <2>4, <2>5, <2>6 DEF IInv, GateInv, Stale
  <2>9. PackageInv' /\ QualifyInv' /\ EditInv'
    BY <1>3, <2>1, <2>4 DEF IInv, PackageInv, QualifyInv, EditInv, Editing, RunInv, Verifying,
                            Preparing, Qualifying
  <2>10. /\ outcome' = "ended"
         /\ run'.command = "verify" => run'.validation.setup \in 1 .. edits + 1
    BY <2>1, <2>4 DEF IInv, TypeOK, RunInv, FreshInv
  <2>11. QED
    BY <1>1, <1>3, <2>1, <2>4, <2>7, <2>8, <2>9, <2>10, StepKeeps
<1>4. QED
  BY <1>2, <1>3 DEF End

\* Without a final receipt, a prepared receipt that was copied may go.
LEMMA RetireStaleKeeps ==
  ASSUME IInv, RetireStale
  PROVE  IInv'
<1> USE DEF RetireStale, history
<1>1. UNCHANGED <<commits, index, work, setup, tag, edits, validated, final, archives, package,
                  gated, torn>>
  BY DEF repository
<1>2. pc = "retire" /\ Tip' = Tip
  BY <1>1 DEF Tip
<1>3. prepared' = IF pc' = "validate" /\ Stale(run.sel) THEN None ELSE prepared
  BY DEF End, Go
<1>4. final = None
  BY <1>2 DEF IInv, RunInv, Verifying
<1>5. Stored'
  BY <1>1, <1>2, <1>3, <1>4 DEF IInv, Stored, ValidatedInv, EvidenceIsSound, FinalInv
<1>6. CASE pc' = "idle"
  <2>1. Passive /\ package' \in Absent(Package)
    BY <1>1, <1>3, <1>6 DEF Passive, repository, IInv, TypeOK
  <2>2. QED
    BY <1>1, <1>2, <1>6, <2>1, PassiveEndKeeps DEF End, Go
<1>7. CASE pc' = "validate"
  <2> USE DEF IInv
  <2>1. run' = run /\ outcome' = outcome
    BY <1>7 DEF End, Go
  <2>2. SourceTree' = SourceTree
    BY <1>1, <2>1 DEF SourceTree
  <2>3. TypeOK'
    BY <1>1, <1>2, <1>3, <1>7, <2>1 DEF TypeOK, Absent
  <2>4. FreshInv'
    BY <1>1, <1>2, <2>1 DEF FreshInv
  <2>5. RunInv'
    BY <1>1, <1>2, <1>7, <2>1
       DEF RunInv, Verifying, Preparing, Qualifying, Selectable, Renderable
  <2>6. GateInv'
    BY <1>1, <1>2, <1>3, <1>7, <2>1, <2>2 DEF GateInv, Stale
  <2>7. PackageInv' /\ QualifyInv' /\ EditInv'
    BY <1>2, <1>7, <2>1
       DEF PackageInv, QualifyInv, EditInv, Editing, RunInv, Verifying, Preparing,
                            Qualifying
  <2>8. ManifestInv'
    BY <1>1, <1>2, <1>7 DEF ManifestInv
  <2>9. QED
    BY <1>5, <2>3, <2>4, <2>5, <2>6, <2>7, <2>8 DEF Stored
<1>8. QED
  BY <1>6, <1>7 DEF End, Go

LEMMA WriteValidationKeeps ==
  ASSUME IInv, WriteValidation
  PROVE  IInv'
<1> USE DEF WriteValidation, history
<1>1. /\ UNCHANGED <<commits, index, work, setup, tag, edits, prepared, final, archives, package,
                     gated, torn>>
      /\ pc' = "idle" /\ run' = NoRun /\ outcome' = "ended"
  BY DEF repository, End
<1>2. pc = "validate" /\ Tip' = Tip
  BY <1>1 DEF Tip
<1>3. validated' \in {validated, run.validation}
  OBVIOUS
<1>4. /\ final = None /\ run.validation \in Validation /\ run.validation.sel = run.sel
      /\ run.sel.source <= Tip /\ run.command = "verify"
  BY <1>2 DEF IInv, RunInv, Verifying
<1>5. [tree |-> SourceTree, setup |-> run.validation.setup] \in gated /\ ~ Stale(run.sel)
  BY <1>2 DEF IInv, GateInv
<1>6. ValidatedInv'
  BY <1>1, <1>2, <1>3, <1>4, <1>5 DEF IInv, ValidatedInv, SourceTree
<1>7. EvidenceIsSound'
  BY <1>1, <1>3, <1>4, <1>5 DEF IInv, EvidenceIsSound, Stale
<1>8. Stored'
  BY <1>1, <1>4, <1>6, <1>7 DEF Stored, FinalInv
<1>9. validated' \in Absent(Validation) /\ run.validation # None
  BY <1>3, <1>4, NoneAssumption DEF IInv, TypeOK, Absent
<1>10. validated' # None => validated'.setup \in 1 .. edits + 1
  BY <1>3, <1>4 DEF IInv, FreshInv
<1>11. /\ prepared' \in Absent(Evidence) /\ final' \in Absent(Evidence)
       /\ archives' \subseteq Package /\ package' \in Absent(Package)
       /\ gated' \subseteq [tree : Tree, setup : Setup]
       /\ torn' \subseteq Surfaces
       /\ torn' = {} => torn = {} /\ pc # "rollback"
  BY <1>1, <1>2 DEF IInv, TypeOK
<1>12. ManifestInv'
  BY <1>1, <1>11, ManifestStays
<1>13. QED
  BY <1>1, <1>8, <1>9, <1>10, <1>11, <1>12, EndKeeps

-----------------------------------------------------------------------------
\* release-prepare-version
LEMMA ValidatedSource ==
  ASSUME IInv, NEW sel \in Selection, ValidatedFor(sel)
  PROVE  /\ validated \in Validation /\ validated.sel = sel
         /\ Selectable(sel) /\ sel.source \in 1 .. Tip
         /\ work["lock"] = commits[sel.source].tree["lock"]
              \/ work["lock"] = Rendered(commits[sel.source].tree["lock"])
<1>1. validated \in Validation /\ validated.sel = sel /\ InputsHold(validated, TRUE)
  BY DEF ValidatedFor, IInv, TypeOK, Absent
<1>2. Selectable(sel)
  BY <1>1 DEF InputsHold
<1>3. sel.source \in 1 .. MaxCommits /\ Tip \in Nat
  BY TipFacts DEF Selection, IInv
<1>4. sel.source \in 1 .. Tip
  BY <1>2, <1>3, ReleaseAssumption DEF Selectable
<1>5. QED
  BY <1>1, <1>2, <1>4 DEF InputsHold, LockUpdated

LEMMA PrepareSelectedKeeps ==
  ASSUME IInv, NEW sel \in Selection, PrepareSelected(sel)
  PROVE  IInv'
<1> USE DEF PrepareSelected, Start, evidence, history
<1> DEFINE source == commits[sel.source].tree
<1>1. Passive /\ package' \in Absent(Package) /\ work \in Tree
  BY DEF Passive, IInv, TypeOK
<1>2. /\ validated \in Validation /\ validated.sel = sel
      /\ Renderable(sel) /\ Selectable(sel) /\ sel.source \in 1 .. Tip /\ Tip = sel.source
  BY ValidatedSource DEF PrepareHolds
<1>3. /\ Tip' = Tip /\ commits' = commits /\ validated' = validated /\ final' = final
      /\ work' = work /\ index' = index
  BY DEF repository, Tip
<1>4. source \in Tree /\ Candidate(source) \in Tree
  BY <1>2, CommitTree, CandidateFacts DEF IInv
<1>5. /\ run' \in RunType /\ run'.command = "prepare" /\ run'.validation = None
      /\ run'.sel = sel
  BY NoRunType DEF RunType, Absent
<1>6. final = None
  BY <1>2, NoFinal
<1>7. SourceTree' = source
  BY <1>3, <1>5 DEF SourceTree
<1>8. /\ \A f \in File : work[f] \in {source[f], Candidate(source)[f]}
      /\ \A f \in File : work[f].rev = source[f].rev
      /\ "manifest" \in File
  BY <1>4, CandidateFacts DEF PrepareHolds, TreeIsRelease, File, Surfaces
<1>9. torn = {} /\ work["manifest"].new => \A f \in Surfaces : work[f].new
  <2>1. ManifestInv /\ pc = "idle"
    BY DEF IInv
  <2>2. ~ source["manifest"].new
    BY <1>2 DEF Selectable
  <2>3. source = commits[Tip].tree
    BY <1>2
  <2>4. QED
    BY <1>8, <2>1, <2>2, <2>3 DEF ManifestInv
<1> HIDE DEF source
<1>10. RunInv' /\ GateInv'
  <2>1. Renderable(sel)'
    BY <1>2, <1>3 DEF Selectable, Renderable
  <2>2. sel.source <= Tip
    BY <1>2 DEF Selectable
  <2>3. QED
    BY <1>2, <1>3, <1>5, <1>6, <2>1, <2>2 DEF RunInv, GateInv, Verifying, Preparing, Qualifying
<1>11. PackageInv' /\ QualifyInv'
  BY <1>2, <1>3, <1>5 DEF PackageInv, QualifyInv, Preparing, Qualifying
<1>12. EditInv'
  <2>1. pc' = "copy" /\ torn' = torn
    OBVIOUS
  <2>2. Admissible(work)'
    BY <1>3, <1>7, <1>8 DEF Admissible
  <2>3. SharedManifest(work["manifest"])'
    BY <1>3, <1>7, <1>8 DEF SharedManifest
  <2>4. QED
    BY <1>3, <1>9, <2>1, <2>2, <2>3 DEF EditInv, Editing
<1>13. run'.command = "verify" => run'.validation.setup \in 1 .. edits + 1
  BY <1>5
<1>14. QED
  BY <1>1, <1>5, <1>10, <1>11, <1>12, <1>13, StepKeeps

\* A preparation that copied the surfaces has edited none of them.
LEMMA CopySurfacesKeeps ==
  ASSUME IInv, CopySurfaces
  PROVE  IInv'
<1> USE DEF CopySurfaces, evidence, history
<1>1. Passive /\ package' \in Absent(Package) /\ work \in Tree
  BY DEF Passive, IInv, TypeOK
<1>2. CASE pc' = "idle"
  BY <1>1, <1>2, PassiveEndKeeps DEF End
<1>3. CASE pc' = "edit"
  <2>1. /\ pc = "copy" /\ outcome' = outcome /\ torn' = torn
        /\ run' = [run EXCEPT !.backup = work, !.todo = EditOrder]
    BY <1>3 DEF End, EditOrder
  <2>2. /\ Tip' = Tip /\ UNCHANGED <<commits, index, work, validated, prepared, final, edits>>
    BY DEF repository, Tip
  <2>3. run.command = "prepare" /\ final = None /\ outcome = "ended"
    BY <2>1 DEF IInv, RunInv, Preparing
  <2>4. /\ run' \in RunType /\ run'.command = run.command /\ run'.sel = run.sel
        /\ run'.validation = run.validation /\ run'.backup = work /\ run'.todo = EditOrder
    BY <1>1, <2>1, OrderFacts DEF IInv, TypeOK, RunType, Absent
  <2>5. SourceTree' = SourceTree
    BY <2>2, <2>4 DEF SourceTree
  <2>6. RunInv'
    BY <1>3, <2>1, <2>2, <2>3, <2>4
       DEF IInv, RunInv, Verifying, Preparing, Qualifying, Selectable, Renderable
  <2>7. GateInv' /\ QualifyInv'
    BY <1>3, <2>3, <2>4 DEF GateInv, QualifyInv, Qualifying
  <2>8. PackageInv'
    BY <1>3, <2>1, <2>2, <2>4 DEF IInv, PackageInv, Preparing
  <2>9. EditInv'
    <3>1. /\ Admissible(work) /\ SharedManifest(work["manifest"])
          /\ torn = {} /\ work["manifest"].new => \A f \in Surfaces : work[f].new
      BY <2>1 DEF IInv, EditInv
    <3>2. Admissible(work)' /\ SharedManifest(work["manifest"])'
      BY <2>2, <2>5, <3>1 DEF Admissible, SharedManifest
    <3>3. \A f \in File : work[f].rev <= edits
      BY DEF IInv, FreshInv
    <3>4. Surfaces \ Listed(EditOrder) = {} /\ EditOrder \in Ends(EditOrder)
      BY OrderFacts
    <3>5. QED
      BY <1>1, <1>3, <2>1, <2>2, <2>4, <3>1, <3>2, <3>3, <3>4 DEF EditInv, Editing
  <2>10. /\ outcome' = "ended"
         /\ run'.command = "verify" => run'.validation.setup \in 1 .. edits + 1
    BY <2>1, <2>3, <2>4
  <2>11. QED
    BY <1>1, <1>3, <2>1, <2>4, <2>6, <2>7, <2>8, <2>9, <2>10, StepKeeps
<1>4. QED
  BY <1>2, <1>3 DEF End

\* What an edit of the surfaces knows of its copy and of the working tree.
LEMMA EditingFacts ==
  ASSUME IInv, Editing
  PROVE  /\ run.backup \in Tree
         /\ Admissible(run.backup)
         /\ \A f \in File : run.backup[f].rev <= edits
         /\ \A f \in File : \/ work[f] \in {run.backup[f], Candidate(SourceTree)[f]}
                            \/ work[f].rev \notin {SourceTree[f].rev, run.backup[f].rev}
         /\ \A f \in Surfaces : run.backup[f].new => work[f].new
         /\ torn = {} /\ run.backup["manifest"].new => \A f \in Surfaces : run.backup[f].new
         /\ SharedManifest(work["manifest"])
         /\ SharedManifest(run.backup["manifest"])
BY DEF IInv, EditInv

\* The manifest is the last surface that is written.
LEMMA ManifestEndsList ==
  ASSUME NEW todo \in Ends(EditOrder), todo # <<>>, Head(todo) = "manifest"
  PROVE  Listed(Tail(todo)) = {}
<1>1. PICK n \in 1 .. 5 : todo = SubSeq(EditOrder, n, 4)
  BY DEF Ends
<1>2. /\ todo \in Seq(Surfaces) /\ Len(todo) = 5 - n
      /\ \A i \in 1 .. 5 - n : todo[i] = EditOrder[n + i - 1]
  BY <1>1, OrderFacts, EndFacts
<1>3. n \in 1 .. 4
  BY <1>2
<1>4. Head(todo) = todo[1] /\ 1 \in 1 .. 5 - n
  BY <1>2, <1>3
<1>5. EditOrder[n] = "manifest"
  BY <1>2, <1>3, <1>4
<1>6. n = 4
  BY <1>3, <1>5 DEF EditOrder
<1>7. Len(Tail(todo)) = 0
  BY <1>2, <1>6
<1>8. QED
  BY <1>7 DEF Listed

\* A later step of the same command that leaves the trees alone.
LEMMA EditStays ==
  ASSUME IInv, UNCHANGED <<commits, index, work, torn, edits>>,
         pc \notin {"idle", "copy"}, pc' \notin {"copy", "edit", "rollback"},
         run'.command = run.command, run'.sel = run.sel, run'.backup = run.backup
  PROVE  EditInv'
<1>1. SourceTree' = SourceTree /\ Tip' = Tip
  BY DEF SourceTree, Tip
<1>2. SUFFICES ASSUME Editing' PROVE EditInv'
  BY DEF EditInv
<1>3. Editing
  BY <1>2 DEF Editing
<1>4. Admissible(run.backup)' /\ SharedManifest(work["manifest"])'
      /\ SharedManifest(run.backup["manifest"])'
  BY <1>1, <1>3, EditingFacts DEF Admissible, SharedManifest
<1>5. QED
  BY <1>1, <1>3, <1>4, EditingFacts DEF EditInv

\* The first surface of the list takes its candidate text, or keeps its own.
LEMMA EditSurfaceKeeps ==
  ASSUME IInv, EditSurface
  PROVE  IInv'
<1> DEFINE f == Head(run.todo)
           source == SourceTree
           wanted == Candidate(source)[f]
           written == [work EXCEPT ![f] = wanted]
<1>1. /\ pc = "edit" /\ run.todo # <<>>
      /\ work' \in {work, written}
      /\ UNCHANGED <<commits, index, setup, tag, edits, evidence, history>>
  BY DEF EditSurface, SourceTree
<1>2. /\ run.command = "prepare" /\ final = None /\ outcome = "ended"
      /\ run.sel \in Selection /\ run.sel.source <= Tip
  BY <1>1 DEF IInv, RunInv, Preparing
<1>3. \/ /\ pc' = "edit" /\ run' = [run EXCEPT !.todo = Tail(@)]
         /\ work' = IF run.backup[f] = wanted THEN work ELSE written
      \/ pc' = "rollback" /\ run' = [run EXCEPT !.todo = PathOrder]
  BY <1>2 DEF EditSurface, Fail, SourceTree
<1>4. outcome' = outcome
  BY <1>2 DEF EditSurface, Fail
<1>5. /\ run.todo \in Ends(EditOrder) /\ run.backup \in Tree
      /\ \A g \in Surfaces \ Listed(run.todo) : work[g].new
      /\ \A g \in Surfaces : run.backup[g].new => work[g].new
  BY <1>1, <1>2 DEF IInv, EditInv, Editing
<1>6. /\ f \in Surfaces /\ Tail(run.todo) \in Ends(EditOrder)
      /\ Listed(run.todo) = {f} \cup Listed(Tail(run.todo))
  BY <1>1, <1>5, OrderFacts, EndsFacts
<1>7. run.sel.source \in 1 .. Tip
  BY <1>2, TipFacts DEF Selection, IInv
<1>8. source \in Tree /\ Candidate(source) \in Tree
  BY <1>7, CommitTree, CandidateFacts DEF IInv, SourceTree
<1>9. wanted \in Text /\ wanted.new /\ wanted.rev = source[f].rev /\ f \in File
  BY <1>6, <1>8, CandidateFacts DEF Tree, File
<1>10. work' \in Tree /\ \A g \in File : work'[g] = work[g] \/ (g = f /\ work'[g] = wanted)
  BY <1>1, <1>9 DEF IInv, TypeOK, Tree
<1> HIDE DEF f
<1>11. run' \in RunType /\ run'.command = run.command /\ run'.sel = run.sel
       /\ run'.validation = run.validation /\ run'.backup = run.backup
       /\ run'.todo = IF pc' = "edit" THEN Tail(run.todo) ELSE PathOrder
  BY <1>3, <1>6, OrderFacts DEF IInv, TypeOK, RunType
<1>12. Tip' = Tip /\ SourceTree' = source
  BY <1>1, <1>11 DEF Tip, SourceTree
<1> HIDE DEF source
<1>13. EditInv'
  <2> USE <1>12, <1>11
  <2>1. /\ run.backup \in Tree /\ Admissible(run.backup)
        /\ \A g \in File : run.backup[g].rev <= edits
        /\ torn = {} /\ run.backup["manifest"].new => \A g \in Surfaces : run.backup[g].new
        /\ SharedManifest(work["manifest"]) /\ SharedManifest(run.backup["manifest"])
    BY <1>1, <1>2, EditingFacts DEF Editing
  <2>2. \A g \in File : \/ work'[g] \in {run.backup[g], Candidate(source)[g]}
                        \/ work'[g].rev \notin {source[g].rev, run.backup[g].rev}
    BY <1>1, <1>2, <1>10, EditingFacts DEF Editing, source
  <2>3. \A g \in Surfaces : run.backup[g].new => work'[g].new
    BY <1>5, <1>9, <1>10 DEF File
  <2>4. SharedManifest(work["manifest"])' /\ SharedManifest(run.backup["manifest"])'
    <3>1. "manifest" \in File
      BY DEF File, Surfaces
    <3>2. work'["manifest"] = work["manifest"] \/ work'["manifest"].rev = source["manifest"].rev
      BY <1>9, <1>10, <3>1
    <3>3. QED
      BY <1>1, <2>1, <3>2 DEF SharedManifest, source
  <2>5. ASSUME pc' = "edit"
        PROVE  /\ run'.todo \in Ends(EditOrder)
               /\ \A g \in Surfaces \ Listed(run'.todo) : work'[g].new
    <3>1. work' = IF run.backup[f] = wanted THEN work ELSE written
      BY <1>3, <2>5
    <3>2. work'[f].new
      <4>1. work \in Tree
        BY DEF IInv, TypeOK
      <4>2. CASE run.backup[f] = wanted
        BY <1>5, <1>6, <1>9, <3>1, <4>2
      <4>3. CASE run.backup[f] # wanted
        BY <1>9, <3>1, <4>1, <4>3 DEF Tree
      <4>4. QED
        BY <4>2, <4>3
    <3>3. \A g \in Surfaces \ Listed(run.todo) : work'[g].new
      BY <1>5, <1>9, <1>10 DEF File
    <3>4. QED
      BY <1>6, <2>5, <3>2, <3>3
  <2>6. pc' = "rollback" => /\ run'.todo \in Ends(PathOrder)
                            /\ Surfaces \ Listed(run'.todo) = {}
    BY OrderFacts
  <2>7. UNCHANGED <<commits, index, torn>>
    BY <1>1 DEF history
  <2>8. Admissible(run.backup)'
    BY <2>1 DEF Admissible, source
  <2>9. QED
    BY <1>1, <1>2, <1>3, <2>1, <2>2, <2>3, <2>4, <2>5, <2>6, <2>7, <2>8 DEF EditInv, Editing
<1>14. UNCHANGED <<validated, prepared, final, archives, package, gated, torn>>
  BY <1>1 DEF evidence, history
<1>15. ManifestInv'
  <2> SUFFICES ASSUME torn = {}, pc' = "edit", NEW tree \in {index, commits[Tip].tree},
                      work'["manifest"].new, ~ tree["manifest"].new,
                      work'["manifest"].rev = tree["manifest"].rev,
                      NEW g \in Surfaces
               PROVE  work'[g].new
    BY <1>1, <1>3, <1>12, <1>14 DEF ManifestInv
  <2>1. CASE f = "manifest"
    <3>1. Listed(run'.todo) = {}
      BY <1>1, <1>5, <1>11, <2>1, ManifestEndsList DEF f
    <3>2. QED
      BY <1>2, <1>11, <1>13, <3>1 DEF EditInv, Editing
  <2>2. CASE f # "manifest"
    <3>1. work'["manifest"] = work["manifest"]
      BY <1>10, <2>2 DEF File, Surfaces
    <3>2. work[g].new
      BY <1>1, <3>1 DEF IInv, ManifestInv
    <3>3. QED
      BY <1>9, <1>10, <3>2 DEF File
  <2>3. QED
    BY <2>1, <2>2
<1>16. TypeOK'
  BY <1>1, <1>2, <1>3, <1>4, <1>10, <1>12, <1>11, <1>14 DEF IInv, TypeOK
<1>17. FreshInv'
  <2>1. source[f].rev <= edits
    BY <1>7, <1>9 DEF IInv, FreshInv, source, SourceTree
  <2>2. \A g \in File : work'[g].rev <= edits
    BY <1>9, <1>10, <2>1 DEF IInv, FreshInv
  <2>3. QED
    BY <1>1, <1>12, <1>11, <1>14, <2>2 DEF IInv, FreshInv
<1>18. RunInv' /\ GateInv' /\ PackageInv' /\ QualifyInv'
  <2>1. RunInv'
    BY <1>1, <1>2, <1>3, <1>4, <1>12, <1>11, <1>14
       DEF IInv, RunInv, Verifying, Preparing, Qualifying, Selectable, Renderable
  <2>2. GateInv' /\ QualifyInv'
    BY <1>2, <1>3, <1>11 DEF GateInv, QualifyInv, Qualifying
  <2>3. PackageInv'
    BY <1>1, <1>2, <1>3, <1>12, <1>11 DEF IInv, PackageInv, Preparing
  <2>4. QED
    BY <2>1, <2>2, <2>3
<1>19. ValidatedInv' /\ EvidenceIsSound' /\ FinalInv'
  BY <1>1, <1>2, <1>12, <1>14 DEF IInv, ValidatedInv, EvidenceIsSound, FinalInv
<1>20. QED
  BY <1>13, <1>15, <1>16, <1>17, <1>18, <1>19 DEF IInv

LEMMA EditsDoneKeeps ==
  ASSUME IInv, EditsDone
  PROVE  IInv'
<1> USE DEF EditsDone, Go, evidence, history
<1>1. Passive /\ package' \in Absent(Package)
  BY DEF Passive, IInv, TypeOK
<1>2. /\ Tip' = Tip /\ UNCHANGED <<commits, index, work, validated, prepared, final, torn>>
      /\ SourceTree' = SourceTree
  BY DEF repository, Tip, SourceTree
<1>3. run.command = "prepare" /\ final = None /\ outcome = "ended"
  BY DEF IInv, RunInv, Preparing
<1>4. RunInv' /\ GateInv' /\ QualifyInv'
  BY <1>2, <1>3
     DEF IInv, RunInv, GateInv, QualifyInv, Verifying, Preparing, Qualifying, Selectable,
         Renderable
<1>5. PackageInv'
  BY <1>2, <1>3 DEF IInv, PackageInv, Preparing
<1>6. EditInv'
  BY <1>2, <1>3, EditStays DEF repository
<1>7. /\ run' \in RunType /\ outcome' = "ended"
      /\ run'.command = "verify" => run'.validation.setup \in 1 .. edits + 1
  BY <1>3 DEF IInv, TypeOK, FreshInv
<1>8. QED
  BY <1>1, <1>4, <1>5, <1>6, <1>7, StepKeeps

\* A preparation that fails begins its rollback, a check that fails ends.
LEMMA FailKeeps ==
  ASSUME IInv, Preparing, pc \notin {"rollback", "copy"}, Fail,
         UNCHANGED <<commits, index, work, setup, tag, edits, validated, final, gated, torn>>,
         prepared' \in Absent(Evidence), archives' \subseteq Package,
         package' \in Absent(Package), Stored'
  PROVE  IInv'
<1>1. Tip' = Tip
  BY DEF Tip
<1>2. CASE run.command = "prepare"
  <2> USE <1>2 DEF IInv
  <2>1. pc' = "rollback" /\ run' = [run EXCEPT !.todo = PathOrder] /\ outcome' = outcome
    BY DEF Fail
  <2>2. /\ pc # "idle" /\ outcome = "ended" /\ final = None
        /\ run.sel \in Selection
    BY DEF RunInv, Preparing
  <2>3. /\ run' \in RunType /\ run'.command = "prepare" /\ run'.sel = run.sel
        /\ run'.validation = run.validation /\ run'.backup = run.backup
        /\ run'.todo = PathOrder
    BY <2>1, OrderFacts DEF TypeOK, RunType
  <2>4. SourceTree' = SourceTree
    BY <2>3 DEF SourceTree
  <2>5. TypeOK'
    BY <1>1, <2>1, <2>3 DEF TypeOK
  <2>6. FreshInv'
    BY <1>1, <2>3 DEF FreshInv
  <2>7. RunInv'
    BY <1>1, <2>1, <2>2, <2>3
       DEF RunInv, Verifying, Preparing, Qualifying, Selectable, Renderable
  <2>8. GateInv' /\ QualifyInv'
    BY <2>1, <2>3 DEF GateInv, QualifyInv, Qualifying
  <2>9. PackageInv'
    BY <1>1, <2>1, <2>3 DEF PackageInv, Preparing
  <2>10. EditInv'
    <3>1. run'.todo \in Ends(PathOrder) /\ Surfaces \ (Listed(run'.todo) \cup torn') = {}
      BY <2>3, OrderFacts
    <3>2. Admissible(run.backup)' /\ SharedManifest(work["manifest"])'
          /\ SharedManifest(run.backup["manifest"])'
      BY <1>1, <2>1, <2>2, <2>3, <2>4, EditingFacts DEF Admissible, SharedManifest, Editing
    <3>3. QED
      BY <1>1, <2>1, <2>2, <2>3, <2>4, <3>1, <3>2 DEF EditInv, Editing
  <2>11. ManifestInv'
    BY <2>1 DEF ManifestInv
  <2>12. QED
    BY <2>5, <2>6, <2>7, <2>8, <2>9, <2>10, <2>11 DEF Stored
<1>3. CASE run.command # "prepare"
  <2>1. pc' = "idle" /\ run' = NoRun /\ outcome' = "ended"
    BY <1>3 DEF Fail, End
  <2>2. /\ validated' \in Absent(Validation) /\ final' \in Absent(Evidence)
        /\ validated' # None => validated'.setup \in 1 .. edits + 1
        /\ gated' \subseteq [tree : Tree, setup : Setup]
        /\ torn' \subseteq Surfaces
    BY DEF IInv, TypeOK, FreshInv
  <2>3. ManifestInv'
    BY ManifestStays
  <2>4. QED
    BY <2>1, <2>2, <2>3, EndKeeps
<1>4. QED
  BY <1>2, <1>3

LEMMA PassiveFailKeeps ==
  ASSUME IInv, Preparing, pc \notin {"rollback", "copy"}, Fail, Passive,
         package' \in Absent(Package), torn' = torn, gated' = gated
  PROVE  IInv'
<1>1. /\ UNCHANGED <<commits, index, work, setup, tag, edits, validated, final>>
      /\ prepared' \in Absent(Evidence) /\ archives' \subseteq Package
  BY DEF Passive, repository, IInv, TypeOK
<1>2. QED
  BY <1>1, StoredStays, FailKeeps

\* The first surface of the list gets its copy back, or was edited since.
LEMMA RollbackSurfaceKeeps ==
  ASSUME IInv, RollbackSurface
  PROVE  IInv'
<1> DEFINE f == Head(run.todo)
           source == SourceTree
           restored == [work EXCEPT ![f] = run.backup[f]]
<1>1. /\ pc = "rollback" /\ run.todo # <<>>
      /\ \/ work' = (IF Owned(f) THEN restored ELSE work) /\ torn' = torn
         \/ work' \in {work, restored} /\ torn' = torn \cup {f}
      /\ run' = [run EXCEPT !.todo = Tail(@)]
      /\ UNCHANGED <<commits, index, setup, tag, edits, evidence, gated, pc, outcome>>
  BY DEF RollbackSurface
<1>2. /\ run.command = "prepare" /\ final = None /\ outcome = "ended"
      /\ run.sel \in Selection /\ run.sel.source <= Tip
  BY <1>1 DEF IInv, RunInv, Preparing
<1>3. /\ run.backup \in Tree /\ run.todo \in Ends(PathOrder)
      /\ Admissible(run.backup)
      /\ \A g \in File : run.backup[g].rev <= edits
      /\ \A g \in File : \/ work[g] \in {run.backup[g], Candidate(source)[g]}
                         \/ work[g].rev \notin {source[g].rev, run.backup[g].rev}
      /\ \A g \in Surfaces : run.backup[g].new => work[g].new
      /\ torn = {} /\ run.backup["manifest"].new => \A g \in Surfaces : run.backup[g].new
      /\ SharedManifest(work["manifest"]) /\ SharedManifest(run.backup["manifest"])
      /\ \A g \in Surfaces \ (Listed(run.todo) \cup torn) :
           work[g] = run.backup[g] \/ IsForeign(g)
  BY <1>1, <1>2 DEF IInv, EditInv, Editing
<1>4. /\ f \in Surfaces /\ f \in File /\ Tail(run.todo) \in Ends(PathOrder)
      /\ Listed(run.todo) = {f} \cup Listed(Tail(run.todo))
  BY <1>1, <1>3, OrderFacts, EndsFacts DEF File
<1>5. run.sel.source \in 1 .. Tip
  BY <1>2, TipFacts DEF Selection, IInv
<1>6. source \in Tree /\ \A g \in Surfaces : Candidate(source)[g] = Rendered(source[g])
  BY <1>5, CommitTree, CandidateFacts DEF IInv, SourceTree
<1>7. run.backup[f] \in Text
  BY <1>3, <1>4 DEF Tree
<1>8. /\ work \in Tree /\ work' \in Tree
      /\ \A g \in File : work'[g] = work[g] \/ (g = f /\ work'[g] = run.backup[g])
  BY <1>1, <1>4, <1>7 DEF IInv, TypeOK, Tree
\* A surface of preparation's own writing is one that it owns, unless it is
\* a lock that was edited before the copy.
<1>9. ~ Owned(f) => work[f] = run.backup[f] \/ IsForeign(f)
  <2> SUFFICES ASSUME ~ Owned(f), work[f] # run.backup[f]
               PROVE  IsForeign(f)
    OBVIOUS
  <2>1. CASE work[f].rev \notin {source[f].rev, run.backup[f].rev}
    BY <2>1 DEF IsForeign
  <2>2. CASE work[f] = Candidate(source)[f]
    <3>1. f = "lock" /\ ~ LockUpdated(run.backup[f], work[f])
      BY <2>2 DEF Owned, SourceTree
    <3>2. work[f] = Rendered(source[f]) /\ source[f] \in Text
      BY <1>4, <1>6, <2>2 DEF Tree
    <3>3. Rendered(source[f]) \in Text /\ Rendered(source[f]).rev = source[f].rev
      BY <3>2, RenderedFacts
    <3>4. run.backup[f].rev # source[f].rev
      <4> SUFFICES ASSUME run.backup[f].rev = source[f].rev PROVE FALSE
        OBVIOUS
      <4>1. run.backup[f] = source[f]
        BY <1>3, <1>4, <1>6, <3>2 DEF Admissible
      <4>2. source[f].new
        BY <3>1, <3>2, <4>1 DEF LockUpdated
      <4>3. Rendered(source[f]) = source[f]
        BY <3>2, <4>2 DEF Rendered, Text
      <4>4. QED
        BY <3>2, <4>1, <4>3
    <3>5. QED
      BY <3>1, <3>2, <3>3, <3>4 DEF IsForeign
  <2>3. QED
    BY <1>3, <1>4, <2>1, <2>2
<1>10. torn \subseteq torn' /\ torn' \subseteq Surfaces
  BY <1>1, <1>4 DEF IInv, TypeOK
<1>11. \A g \in Surfaces \ (Listed(Tail(run.todo)) \cup torn') :
         work'[g] = run.backup[g] \/ (work'[g] = work[g] /\ IsForeign(g))
  <2> SUFFICES ASSUME NEW g \in Surfaces, g \notin Listed(Tail(run.todo)), g \notin torn'
               PROVE  work'[g] = run.backup[g] \/ (work'[g] = work[g] /\ IsForeign(g))
    OBVIOUS
  <2>1. CASE g = f
    <3>1. work' = IF Owned(f) THEN restored ELSE work
      BY <1>1, <2>1
    <3>2. CASE Owned(f)
      BY <1>4, <1>8, <2>1, <3>1, <3>2 DEF Tree
    <3>3. CASE ~ Owned(f)
      BY <1>9, <2>1, <3>1, <3>3
    <3>4. QED
      BY <3>2, <3>3
  <2>2. CASE g # f
    BY <1>3, <1>4, <1>8, <1>10, <2>2 DEF File
  <2>3. QED
    BY <2>1, <2>2
<1> HIDE DEF f
<1>12. /\ run' \in RunType /\ run'.command = run.command /\ run'.sel = run.sel
       /\ run'.validation = run.validation /\ run'.backup = run.backup
       /\ run'.todo = Tail(run.todo)
  BY <1>1, <1>4 DEF IInv, TypeOK, RunType
<1>13. Tip' = Tip /\ SourceTree' = source
  BY <1>1, <1>12 DEF Tip, SourceTree
<1>14. UNCHANGED <<validated, prepared, final, archives, package>>
  BY <1>1 DEF evidence
<1>15. EditInv'
  <2>1. \A g \in File : \/ work'[g] \in {run.backup[g], Candidate(source)[g]}
                        \/ work'[g].rev \notin {source[g].rev, run.backup[g].rev}
    BY <1>3, <1>8
  <2>2. \A g \in Surfaces : run.backup[g].new => work'[g].new
    BY <1>3, <1>8 DEF File
  <2>3. SharedManifest(work["manifest"])' /\ SharedManifest(run.backup["manifest"])'
    <3>1. "manifest" \in File
      BY DEF File, Surfaces
    <3>2. work'["manifest"] \in {work["manifest"], run.backup["manifest"]}
      BY <1>8, <3>1
    <3>3. QED
      BY <1>1, <1>3, <1>12, <1>13, <3>2 DEF SharedManifest
  <2>4. torn' = {} => torn = {}
    BY <1>10
  <2>5. \A g \in Surfaces \ (Listed(run'.todo) \cup torn') :
          work'[g] = run'.backup[g] \/ IsForeign(g)'
    BY <1>11, <1>12, <1>13 DEF IsForeign
  <2>6. Admissible(run.backup)'
    BY <1>3, <1>12, <1>13 DEF Admissible
  <2> HIDE DEF source
  <2>7. QED
    BY <1>1, <1>3, <1>4, <1>12, <1>13, <2>1, <2>2, <2>3, <2>4, <2>5, <2>6 DEF EditInv, Editing
<1> HIDE DEF source
<1>16. TypeOK'
  BY <1>1, <1>8, <1>10, <1>12, <1>13, <1>14 DEF IInv, TypeOK
<1>17. FreshInv'
  <2>1. \A g \in File : work'[g].rev <= edits
    BY <1>3, <1>8 DEF IInv, FreshInv
  <2>2. QED
    BY <1>1, <1>12, <1>13, <1>14, <2>1 DEF IInv, FreshInv
<1>18. RunInv'
  BY <1>1, <1>2, <1>12, <1>13, <1>14
     DEF IInv, RunInv, Verifying, Preparing, Qualifying, Selectable, Renderable
<1>19. GateInv' /\ QualifyInv' /\ ManifestInv'
  BY <1>1, <1>2, <1>12 DEF GateInv, QualifyInv, Qualifying, ManifestInv
<1>20. PackageInv'
  BY <1>1, <1>2, <1>12, <1>13 DEF IInv, PackageInv, Preparing
<1>21. ValidatedInv' /\ EvidenceIsSound' /\ FinalInv'
  BY <1>1, <1>2, <1>13, <1>14 DEF IInv, ValidatedInv, EvidenceIsSound, FinalInv
<1>22. QED
  BY <1>15, <1>16, <1>17, <1>18, <1>19, <1>20, <1>21 DEF IInv

\* Where no restoration failed, a new manifest that is left is one that was
\* found, beside what belongs to it, or one that was edited since.
LEMMA RollbackDoneKeeps ==
  ASSUME IInv, RollbackDone
  PROVE  IInv'
<1> USE DEF RollbackDone, End, evidence
<1>1. Passive /\ package' \in Absent(Package) /\ torn' \subseteq Surfaces
  BY DEF Passive, IInv, TypeOK
<1>2. Stored'
  BY <1>1, StoredStays
<1>3. Tip' = Tip /\ UNCHANGED <<commits, index, work, setup, tag, edits>>
  BY DEF repository, Tip
<1>4. ManifestInv'
  <2> SUFFICES ASSUME torn = {}, NEW tree \in {index, commits[Tip].tree},
                      work["manifest"].new, ~ tree["manifest"].new,
                      work["manifest"].rev = tree["manifest"].rev,
                      NEW g \in Surfaces
               PROVE  work[g].new
    BY <1>3 DEF ManifestInv, Surfaces
  <2>1. /\ run.command = "prepare" /\ pc = "rollback" /\ run.todo = <<>>
        /\ run.backup \in Tree
    BY DEF IInv, RunInv, EditInv, Editing
  <2>2. "manifest" \in Surfaces /\ Listed(run.todo) = {}
    BY <2>1 DEF Surfaces, Listed
  <2>3. work["manifest"] # tree["manifest"]
    OBVIOUS
  <2>4. /\ work["manifest"] = run.backup["manifest"] \/ IsForeign("manifest")
        /\ SharedManifest(work["manifest"])
        /\ run.backup["manifest"].new => run.backup[g].new
        /\ run.backup[g].new => work[g].new
    BY <2>1, <2>2 DEF IInv, EditInv, Editing
  <2>5. QED
    BY <2>3, <2>4 DEF IsForeign, SharedManifest
<1>5. /\ validated' \in Absent(Validation)
      /\ prepared' \in Absent(Evidence) /\ final' \in Absent(Evidence)
      /\ validated' # None => validated'.setup \in 1 .. edits + 1
      /\ archives' \subseteq Package
      /\ gated' \subseteq [tree : Tree, setup : Setup]
  BY DEF IInv, TypeOK, FreshInv
<1>6. QED
  BY <1>1, <1>2, <1>3, <1>4, <1>5, EndKeeps

LEMMA CrashKeeps ==
  ASSUME IInv, Crash
  PROVE  IInv'
<1> USE DEF Crash, End, evidence
<1>1. Passive /\ package' \in Absent(Package) /\ torn' \subseteq Surfaces
  BY DEF Passive, IInv, TypeOK
<1>2. Stored'
  BY <1>1, StoredStays
<1>3. UNCHANGED <<commits, index, work, setup, tag, edits>>
  BY DEF repository
<1>4. Surfaces # {}
  BY DEF Surfaces
<1>5. ManifestInv'
  BY <1>3, <1>4, ManifestStays
<1>6. /\ validated' \in Absent(Validation)
      /\ prepared' \in Absent(Evidence) /\ final' \in Absent(Evidence)
      /\ validated' # None => validated'.setup \in 1 .. edits + 1
      /\ archives' \subseteq Package
      /\ gated' \subseteq [tree : Tree, setup : Setup]
  BY DEF IInv, TypeOK, FreshInv
<1>7. QED
  BY <1>1, <1>2, <1>3, <1>5, <1>6, EndKeeps

-----------------------------------------------------------------------------
\* release-prepared-check and release-commit-check
LEMMA PreparedKeeps ==
  ASSUME IInv, NEW sel \in Selection, NEW command \in {"check", "commit"},
         Prepared(sel, command)
  PROVE  IInv'
<1> USE DEF Prepared, Start, evidence, history
<1>1. Passive /\ package' \in Absent(Package)
  BY DEF Passive, IInv, TypeOK
<1>2. /\ validated \in Validation /\ validated.sel = sel
      /\ Renderable(sel) /\ Selectable(sel) /\ sel.source \in 1 .. Tip /\ Tip = sel.source
  BY ValidatedSource DEF PreparedHolds
<1>3. /\ Tip' = Tip /\ commits' = commits /\ validated' = validated /\ final' = final
      /\ work' = work /\ index' = index
  BY DEF repository, Tip
<1>4. /\ run' \in RunType /\ run'.command = command /\ run'.validation = None
      /\ run'.sel = sel
  BY NoRunType DEF RunType, Absent
<1>5. final = None
  BY <1>2, NoFinal
<1>6. Renderable(sel)' /\ sel.source <= Tip
  BY <1>2, <1>3 DEF Selectable, Renderable
<1>7. RunInv' /\ GateInv'
  BY <1>2, <1>3, <1>4, <1>5, <1>6 DEF RunInv, GateInv, Verifying, Preparing, Qualifying
<1>8. PackageInv' /\ QualifyInv' /\ EditInv'
  BY <1>2, <1>3, <1>4 DEF PackageInv, QualifyInv, EditInv, Editing, Preparing, Qualifying
<1>9. QED
  BY <1>1, <1>4, <1>7, <1>8, StepKeeps

\* What is known of a preparation or check at any of its steps.
LEMMA PreparingFacts ==
  ASSUME IInv, Preparing
  PROVE  /\ run.sel \in Selection /\ run.sel.source \in 1 .. Tip
         /\ SourceTree \in Tree /\ Candidate(SourceTree) \in Tree
         /\ validated \in Validation /\ validated.sel = run.sel /\ validated # None
         /\ final = None /\ pc # "idle" /\ outcome = "ended"
         /\ work \in Tree
<1>1. /\ run.sel \in Selection /\ run.sel.source <= Tip
      /\ validated \in Validation /\ validated.sel = run.sel
      /\ final = None /\ pc # "idle" /\ outcome = "ended"
  BY DEF IInv, RunInv, Preparing
<1>2. run.sel.source \in 1 .. Tip
  BY <1>1, TipFacts DEF Selection, IInv
<1>3. SourceTree \in Tree
  BY <1>2, CommitTree DEF IInv, SourceTree
<1>4. QED
  BY <1>1, <1>2, <1>3, CandidateFacts, NoneAssumption DEF IInv, TypeOK

\* Once the tree is checked, the step goes on to the index or ends.
LEMMA SucceedKeeps ==
  ASSUME IInv, Preparing, pc \in {"prepared", "write"}, Succeed,
         UNCHANGED <<commits, index, work, setup, tag, edits, validated, final, archives, package,
                     gated, torn>>,
         prepared' \in Evidence, Stored',
         prepared'.validation.sel = run.sel, prepared'.lock = Rendered(SourceTree["lock"]),
         IsOrEdited(work, Candidate(SourceTree))
  PROVE  IInv'
<1>1. Tip' = Tip
  BY DEF Tip
<1>2. CASE run.command = "commit"
  <2> USE <1>2 DEF IInv
  <2>1. pc' = "index" /\ run' = run /\ outcome' = outcome
    BY DEF Succeed, Go
  <2>2. final = None /\ pc # "idle" /\ outcome = "ended"
    BY PreparingFacts
  <2>3. SourceTree' = SourceTree
    BY <2>1 DEF SourceTree
  <2>4. TypeOK'
    BY <1>1, <2>1 DEF TypeOK, Absent
  <2>5. FreshInv'
    BY <1>1, <2>1 DEF FreshInv
  <2>6. RunInv'
    BY <1>1, <2>1, <2>2 DEF RunInv, Verifying, Preparing, Qualifying, Selectable, Renderable
  <2>7. GateInv' /\ QualifyInv' /\ EditInv'
    BY <2>1 DEF GateInv, QualifyInv, EditInv, Editing, Qualifying
  <2>8. IsOrEdited(work, Candidate(SourceTree))'
    BY <2>3 DEF IsOrEdited
  <2>9. PackageInv'
    BY <1>1, <2>1, <2>3, <2>8 DEF PackageInv, Preparing
  <2>10. ManifestInv'
    BY ManifestStays
  <2>11. QED
    BY <2>4, <2>5, <2>6, <2>7, <2>9, <2>10 DEF Stored
<1>3. CASE run.command # "commit"
  <2>1. pc' = "idle" /\ run' = NoRun /\ outcome' = "ended"
    BY <1>3 DEF Succeed, End
  <2>2. /\ validated' \in Absent(Validation) /\ final' \in Absent(Evidence)
        /\ prepared' \in Absent(Evidence)
        /\ validated' # None => validated'.setup \in 1 .. edits + 1
        /\ gated' \subseteq [tree : Tree, setup : Setup]
        /\ torn' \subseteq Surfaces
        /\ archives' \subseteq Package /\ package' \in Absent(Package)
    BY DEF IInv, TypeOK, FreshInv, Absent
  <2>3. ManifestInv'
    BY ManifestStays
  <2>4. QED
    BY <2>1, <2>2, <2>3, EndKeeps
<1>4. QED
  BY <1>2, <1>3

LEMMA InspectPreparedKeeps ==
  ASSUME IInv, InspectPrepared
  PROVE  IInv'
<1> USE DEF InspectPrepared, evidence, history
<1>1. Passive /\ package' \in Absent(Package)
  BY DEF Passive, IInv, TypeOK
<1>2. Preparing /\ pc = "prepared"
  BY DEF IInv, RunInv, Preparing
<1>3. /\ Tip' = Tip
      /\ UNCHANGED <<commits, index, work, setup, tag, edits, validated, prepared, final,
                     archives, package, gated, torn>>
  BY DEF repository, Tip
<1>4. CASE Fail
  BY <1>1, <1>2, <1>3, <1>4, PassiveFailKeeps
<1>5. CASE PreparedHolds(run.sel) /\ prepared = None /\ ~ Fail
  <2>1. /\ pc' = "package" /\ outcome' = outcome
        /\ run' = [run EXCEPT !.validation = validated]
    BY <1>5
  <2>2. /\ run' \in RunType /\ run'.command = run.command /\ run'.sel = run.sel
        /\ run'.validation = validated /\ run'.backup = run.backup
    BY <2>1 DEF IInv, TypeOK, RunType
  <2>3. SourceTree' = SourceTree
    BY <1>3, <2>2 DEF SourceTree
  <2>4. validated \in Validation /\ validated.sel = run.sel /\ outcome = "ended" /\ final = None
    BY <1>2, PreparingFacts
  <2>5. RunInv'
    BY <1>2, <1>3, <2>1, <2>2, <2>4
       DEF IInv, RunInv, Verifying, Preparing, Qualifying, Selectable, Renderable
  <2>6. GateInv' /\ QualifyInv'
    BY <1>2, <2>1, <2>2 DEF GateInv, QualifyInv, Preparing, Qualifying
  <2>7. PackageInv'
    BY <1>2, <1>3, <1>5, <2>1, <2>2 DEF IInv, PackageInv, Preparing
  <2>8. EditInv'
    BY <1>2, <1>3, <2>1, <2>2, EditStays
  <2>9. run'.command = "verify" => run'.validation.setup \in 1 .. edits + 1
    BY <1>2, <2>2 DEF Preparing
  <2>10. QED
    BY <1>1, <1>2, <1>3, <2>1, <2>2, <2>4, <2>5, <2>6, <2>7, <2>8, <2>9, StepKeeps
<1>6. CASE /\ PreparedHolds(run.sel) /\ prepared # None /\ Succeed
           /\ EvidenceHolds(prepared, run.sel, run.sel.source, FALSE, TRUE)
  <2>1. /\ prepared \in Evidence /\ prepared.validation.sel = run.sel
        /\ prepared.lock = work["lock"]
    BY <1>6 DEF IInv, TypeOK, Absent, EvidenceHolds
  <2>2. TreeIsRelease(run.sel, work, FALSE)
    BY <1>6 DEF PreparedHolds
  <2>3. work = Candidate(SourceTree)
    BY <1>2, <2>2, PreparingFacts, ReleaseTree DEF IInv, SourceTree
  <2>4. work["lock"] = Rendered(SourceTree["lock"])
    BY <1>2, <2>3, PreparingFacts, CandidateFacts DEF Surfaces
  <2>5. IsOrEdited(work, Candidate(SourceTree))
    BY <2>3 DEF IsOrEdited
  <2>6. Stored'
    BY <1>1, StoredStays
  <2>7. QED
    BY <1>2, <1>3, <1>6, <2>1, <2>4, <2>5, <2>6, SucceedKeeps
<1>7. QED
  BY <1>4, <1>5, <1>6

LEMMA PackageCandidateKeeps ==
  ASSUME IInv, PackageCandidate
  PROVE  IInv'
<1> USE DEF PackageCandidate, history
<1>1. Preparing /\ pc = "package"
  BY DEF IInv, RunInv, Preparing
<1>2. /\ Tip' = Tip
      /\ UNCHANGED <<commits, index, work, setup, tag, edits, validated, prepared, final,
                     archives, gated, torn>>
  BY DEF repository, Tip
<1>3. [head |-> Tip, tree |-> work] \in Package
  BY DEF IInv, TypeOK, Package
<1>4. Passive
  BY <1>2 DEF Passive, IInv, TypeOK
<1>5. package' \in Absent(Package)
  BY <1>3 DEF IInv, TypeOK, Absent
<1>6. CASE Fail
  BY <1>1, <1>2, <1>4, <1>5, <1>6, PassiveFailKeeps
<1>7. CASE /\ package' = [head |-> Tip, tree |-> work]
           /\ run' = [run EXCEPT !.receipt = work["lock"]]
           /\ pc' = "packaged" /\ outcome' = outcome
  <2>1. work["lock"] \in Text
    BY TreeTexts DEF IInv, TypeOK, File, Surfaces
  <2>2. /\ run' \in RunType /\ run'.command = run.command /\ run'.sel = run.sel
        /\ run'.validation = run.validation /\ run'.backup = run.backup
    BY <1>7, <2>1 DEF IInv, TypeOK, RunType, Absent
  <2>3. SourceTree' = SourceTree
    BY <1>2, <2>2 DEF SourceTree
  <2>4. outcome = "ended" /\ run.sel.source \in 1 .. Tip /\ Tip \in Nat
    BY <1>1, PreparingFacts, TipFacts DEF IInv
  <2>5. RunInv'
    BY <1>1, <1>2, <1>7, <2>2, <2>4
       DEF IInv, RunInv, Verifying, Preparing, Qualifying, Selectable, Renderable
  <2>6. GateInv' /\ QualifyInv'
    BY <1>1, <1>7, <2>2 DEF GateInv, QualifyInv, Preparing, Qualifying
  <2>7. PackageInv'
    <3>1. IsOrEdited(work, package.tree)'
      BY <1>2, <1>7 DEF IsOrEdited
    <3>2. package'.head \in run.sel.source .. Tip /\ package' \in Package
      BY <1>3, <1>7, <2>4
    <3>3. QED
      BY <1>1, <1>2, <1>7, <2>2, <3>1, <3>2 DEF IInv, PackageInv, Preparing
  <2>8. EditInv'
    BY <1>1, <1>2, <1>7, <2>2, EditStays
  <2>9. run'.command = "verify" => run'.validation.setup \in 1 .. edits + 1
    BY <2>2 DEF IInv, FreshInv
  <2>10. QED
    BY <1>1, <1>2, <1>4, <1>5, <1>7, <2>2, <2>4, <2>5, <2>6, <2>7, <2>8, <2>9, StepKeeps
<1>8. QED
  BY <1>6, <1>7

\* The tree that was packaged is the candidate: no edit came in between.
LEMMA AdmitPackageKeeps ==
  ASSUME IInv, AdmitPackage
  PROVE  IInv'
<1> USE DEF AdmitPackage, evidence, history
<1>1. Preparing /\ pc = "packaged"
  BY DEF IInv, RunInv, Preparing
<1>2. Passive /\ package' \in Absent(Package)
  BY DEF Passive, IInv, TypeOK
<1>3. /\ Tip' = Tip
      /\ UNCHANGED <<commits, index, work, setup, tag, edits, validated, prepared, final,
                     archives, package, gated, torn>>
  BY DEF repository, Tip
<1>4. CASE Fail
  BY <1>1, <1>2, <1>3, <1>4, PassiveFailKeeps
<1>5. CASE /\ TreeIsRelease(run.sel, work, FALSE) /\ Tip = run.sel.source
           /\ work["lock"] = run.receipt /\ Go("record")
  <2>1. pc' = "record" /\ run' = run /\ outcome' = outcome
    BY <1>5 DEF Go
  <2>2. SourceTree' = SourceTree
    BY <1>3, <2>1 DEF SourceTree
  <2>3. work = Candidate(SourceTree)
    BY <1>1, <1>5, PreparingFacts, ReleaseTree DEF IInv, SourceTree
  <2>4. package = [head |-> run.sel.source, tree |-> Candidate(SourceTree)]
    <3>1. /\ package \in Package /\ package.head \in run.sel.source .. Tip
          /\ IsOrEdited(work, package.tree)
      BY <1>1 DEF IInv, PackageInv
    <3>2. /\ SourceTree \in Tree /\ run.sel.source \in Nat
          /\ \A f \in File : work[f].rev = SourceTree[f].rev
      BY <1>1, <2>3, PreparingFacts, CandidateFacts, TipFacts DEF IInv
    <3>3. \A f \in File : work[f] = package.tree[f]
      BY <3>1, <3>2 DEF IsOrEdited
    <3>4. package.tree = work
      BY <1>1, <3>1, <3>3, SameTree, PreparingFacts DEF Package
    <3>5. package.head = run.sel.source
      BY <1>5, <3>1, <3>2
    <3>6. QED
      BY <2>3, <3>1, <3>4, <3>5 DEF Package
  <2>5. run.receipt = Rendered(SourceTree["lock"])
    BY <1>1, <1>5, <2>3, PreparingFacts, CandidateFacts DEF Surfaces
  <2>6. IsOrEdited(work, Candidate(SourceTree))'
    BY <1>3, <2>2, <2>3 DEF IsOrEdited
  <2>7. run' \in RunType /\ outcome = "ended"
        /\ (run'.command = "verify" => run'.validation.setup \in 1 .. edits + 1)
    BY <1>1, <2>1, PreparingFacts DEF IInv, TypeOK, FreshInv
  <2>8. RunInv'
    BY <1>1, <1>3, <2>1, <2>7
       DEF IInv, RunInv, Verifying, Preparing, Qualifying, Selectable, Renderable
  <2>9. GateInv' /\ QualifyInv'
    BY <1>1, <2>1 DEF GateInv, QualifyInv, Preparing, Qualifying
  <2>10. PackageInv'
    BY <1>1, <1>3, <2>1, <2>2, <2>4, <2>5, <2>6 DEF IInv, PackageInv, Preparing
  <2>11. EditInv'
    BY <1>1, <1>3, <2>1, EditStays
  <2>12. QED
    BY <1>1, <1>2, <1>3, <2>1, <2>7, <2>8, <2>9, <2>10, <2>11, StepKeeps
<1>6. QED
  BY <1>4, <1>5

\* The archive is there before the receipt that names it.
LEMMA RecordPackageKeeps ==
  ASSUME IInv, RecordPackage
  PROVE  IInv'
<1> USE DEF RecordPackage, history
<1>1. /\ pc = "record" /\ Tip' = Tip
      /\ UNCHANGED <<commits, index, work, setup, tag, edits, validated, prepared, final,
                     package, gated, torn>>
  BY DEF repository, Tip
<1>2. Preparing \/ Qualifying
  BY <1>1 DEF IInv, RunInv
<1>3. Preparing => SourceTree \in Tree /\ Candidate(SourceTree) \in Tree
                   /\ run.sel.source \in 1 .. Tip /\ validated \in Validation
  BY PreparingFacts
<1>4. package \in Package
  <2>1. CASE Preparing
    <3>1. package = [head |-> run.sel.source, tree |-> Candidate(SourceTree)]
      BY <1>1, <2>1 DEF IInv, PackageInv
    <3>2. run.sel.source \in 1 .. MaxCommits
      BY <2>1, PreparingFacts DEF Selection
    <3>3. QED
      BY <1>3, <2>1, <3>1, <3>2 DEF Package
  <2>2. CASE Qualifying
    <3>1. /\ package = [head |-> run.commit, tree |-> commits[run.commit].tree]
          /\ run.commit \in 1 .. Tip
      BY <1>1, <2>2 DEF IInv, QualifyInv
    <3>2. commits[run.commit].tree \in Tree /\ run.commit \in 1 .. MaxCommits
      <4>1. commits[run.commit].tree \in Tree
        BY <3>1, CommitTree DEF IInv
      <4>2. Tip \in Nat /\ Tip <= MaxCommits /\ MaxCommits \in Nat
        BY TipFacts DEF IInv
      <4>3. QED
        BY <3>1, <4>1, <4>2
    <3>3. QED
      BY <3>1, <3>2 DEF Package
  <2>3. QED
    BY <1>2, <2>1, <2>2
<1>5. archives' \subseteq Package /\ archives \subseteq archives'
  BY <1>4 DEF IInv, TypeOK
<1>6. Passive /\ package' \in Absent(Package)
  BY <1>1, <1>5 DEF Passive, repository, IInv, TypeOK
<1>7. CASE Fail /\ Preparing
  BY <1>1, <1>6, <1>7, PassiveFailKeeps
<1>8. CASE Fail /\ Qualifying
  <2>1. pc' = "idle" /\ run' = NoRun /\ outcome' = "ended"
    BY <1>8 DEF Fail, End, Qualifying
  <2>2. QED
    BY <1>1, <1>6, <2>1, PassiveEndKeeps
<1>9. CASE ~ Fail
  <2> DEFINE head == IF run.command = "qualify" THEN run.commit ELSE run.sel.source
             receipt == [validation |-> run.validation, lock |-> run.receipt,
                         head |-> head, package |-> package,
                         final |-> run.command = "qualify"]
  <2>1. /\ archives' = archives \cup {package} /\ pc' = "write" /\ outcome' = outcome
        /\ run' = [run EXCEPT !.receipt = receipt]
    BY <1>9
  <2>2. receipt \in Evidence
    <3>1. run.validation \in Validation /\ run.receipt \in Text /\ head \in 1 .. MaxCommits
      <4>1. CASE Preparing
        <5>1. run.validation = validated /\ run.receipt = Rendered(SourceTree["lock"])
          BY <1>1, <4>1 DEF IInv, PackageInv
        <5>2. SourceTree["lock"] \in Text
          BY <1>3, <4>1, TreeTexts DEF File, Surfaces
        <5>3. Rendered(SourceTree["lock"]) \in Text
          BY <5>2, RenderedFacts
        <5>4. head \in 1 .. MaxCommits
          BY <4>1, PreparingFacts DEF Selection, Preparing
        <5>5. QED
          BY <1>3, <4>1, <5>1, <5>3, <5>4
      <4>2. CASE Qualifying
        <5>1. /\ run.receipt \in Text /\ run.commit \in 1 .. Tip /\ prepared \in Evidence
              /\ run.validation = prepared.validation
          BY <1>1, <4>2 DEF IInv, QualifyInv
        <5>2. run.validation \in Validation
          BY <5>1 DEF Evidence
        <5>3. head \in 1 .. MaxCommits
          BY <4>2, <5>1, TipFacts DEF Qualifying, IInv
        <5>4. QED
          BY <5>1, <5>2, <5>3
      <4>3. QED
        BY <1>2, <4>1, <4>2
    <3> HIDE DEF head
    <3>2. QED
      BY <1>4, <3>1 DEF Evidence
  <2>3. /\ receipt.validation = run.validation /\ receipt.lock = run.receipt
        /\ receipt.head = head /\ receipt.package = package
    OBVIOUS
  <2>4. /\ run' \in RunType /\ run'.command = run.command /\ run'.sel = run.sel
        /\ run'.validation = run.validation /\ run'.backup = run.backup
        /\ run'.commit = run.commit /\ run'.receipt = receipt
    <3> HIDE DEF receipt
    <3>1. QED
      BY <2>1, <2>2 DEF IInv, TypeOK, RunType, Absent
  <2>5. SourceTree' = SourceTree
    BY <1>1, <2>4 DEF SourceTree
  <2>6. outcome = "ended" /\ run.command \in {"prepare", "check", "commit", "qualify"}
    BY <1>1, <1>2 DEF IInv, RunInv, Preparing, Qualifying
  <2>7. RunInv'
    <3> HIDE DEF receipt
    <3>1. QED
      BY <1>1, <2>1, <2>4, <2>6
         DEF IInv, RunInv, Verifying, Preparing, Qualifying, Selectable, Renderable
  <2>8. GateInv'
    BY <2>1 DEF GateInv
  <2>9. PackageInv'
    <3>1. CASE Preparing
      <4>1. /\ package = [head |-> run.sel.source, tree |-> Candidate(SourceTree)]
            /\ run.receipt = Rendered(SourceTree["lock"])
            /\ IsOrEdited(work, Candidate(SourceTree))
            /\ prepared = None /\ run.validation = validated
        BY <1>1, <3>1 DEF IInv, PackageInv
      <4>2. IsOrEdited(work, Candidate(SourceTree))'
        BY <1>1, <2>5, <4>1 DEF IsOrEdited
      <4>3. /\ run.command # "qualify"
            /\ receipt = [validation |-> run.validation, lock |-> Rendered(SourceTree["lock"]),
                          head |-> run.sel.source, package |-> package, final |-> FALSE]
        BY <3>1, <4>1 DEF Preparing
      <4> HIDE DEF receipt
      <4>4. run.sel.source = Tip \/ commits[Tip].tree = index
        BY <3>1 DEF IInv, PackageInv
      <4>5. QED
        BY <1>1, <2>1, <2>4, <2>5, <3>1, <4>1, <4>2, <4>3, <4>4 DEF PackageInv, Preparing
    <3>2. CASE Qualifying
      BY <2>1, <2>4, <3>2 DEF PackageInv, Preparing, Qualifying
    <3>3. QED
      BY <1>2, <3>1, <3>2
  <2>10. QualifyInv'
    <3>1. CASE Preparing
      BY <2>1, <2>4, <3>1 DEF QualifyInv, Preparing, Qualifying
    <3>2. CASE Qualifying
      <4>1. head = run.commit
        BY <3>2 DEF Qualifying
      <4>2. NewFrom(run.commit)'
        BY <1>1, <2>4, <3>2 DEF IInv, QualifyInv, NewFrom
      <4> HIDE DEF receipt
      <4>3. QED
        BY <1>1, <2>1, <2>2, <2>3, <2>4, <2>5, <3>2, <4>1, <4>2 DEF IInv, QualifyInv, Qualifying
    <3>3. QED
      BY <1>2, <3>1, <3>2
  <2> HIDE DEF receipt
  <2>11. EditInv'
    BY <1>1, <2>1, <2>4, EditStays
  <2>12. run'.command = "verify" => run'.validation.setup \in 1 .. edits + 1
    BY <2>4 DEF IInv, FreshInv
  <2>13. QED
    BY <1>1, <1>6, <2>1, <2>4, <2>6, <2>7, <2>8, <2>9, <2>10, <2>11, <2>12, StepKeeps
<1>10. QED
  BY <1>2, <1>7, <1>8, <1>9

\* The receipt continues the validation, and speaks of the retained archive.
LEMMA WritePreparedKeeps ==
  ASSUME IInv, WritePrepared
  PROVE  IInv'
<1> USE DEF WritePrepared, history
<1>1. /\ pc = "write" /\ Tip' = Tip
      /\ UNCHANGED <<commits, index, work, setup, tag, edits, validated, final, archives,
                     package, gated, torn>>
      /\ prepared' \in {prepared, run.receipt}
  BY DEF repository, Tip
<1>2. Preparing
  BY <1>1 DEF IInv, RunInv, Qualifying
<1>3. /\ SourceTree \in Tree /\ Candidate(SourceTree) \in Tree
      /\ run.sel.source \in 1 .. Tip /\ run.sel.source \in 1 .. MaxCommits
      /\ validated \in Validation /\ validated # None
      /\ validated.sel = run.sel /\ final = None
  BY <1>2, PreparingFacts DEF Selection
<1>4. /\ run.validation = validated
      /\ package = [head |-> run.sel.source, tree |-> Candidate(SourceTree)]
      /\ package \in archives
      /\ run.receipt = [validation |-> run.validation, lock |-> Rendered(SourceTree["lock"]),
                        head |-> run.sel.source, package |-> package, final |-> FALSE]
      /\ IsOrEdited(work, Candidate(SourceTree))
  BY <1>1, <1>2 DEF IInv, PackageInv
<1>5. run.receipt \in Evidence
  <2>1. SourceTree["lock"] \in Text
    BY <1>3, TreeTexts DEF File, Surfaces
  <2>2. Rendered(SourceTree["lock"]) \in Text /\ package \in Package
    BY <1>3, <1>4, <2>1, RenderedFacts DEF Package
  <2>3. QED
    BY <1>3, <1>4, <2>2 DEF Evidence
<1>6. prepared' \in Absent(Evidence)
  BY <1>1, <1>5 DEF IInv, TypeOK, Absent
<1>7. /\ run.receipt.validation = validated /\ run.receipt.package = package
      /\ package.tree = Candidate(SourceTree) /\ package.head = run.sel.source
      /\ run.receipt.lock = Rendered(SourceTree["lock"])
  BY <1>4
<1>8. validated.sel.source <= Tip
      /\ [tree |-> commits[validated.sel.source].tree, setup |-> validated.setup] \in gated
  BY <1>3 DEF IInv, ValidatedInv
<1>9. ValidatedInv'
  <2>1. CASE prepared' = prepared
    BY <1>1, <2>1 DEF IInv, ValidatedInv
  <2>2. CASE prepared' = run.receipt
    BY <1>1, <1>7, <1>8, <2>2 DEF ValidatedInv
  <2>3. QED
    BY <1>1, <2>1, <2>2
<1>10. EvidenceIsSound'
  <2>1. CASE prepared' = prepared
    BY <1>1, <2>1 DEF IInv, EvidenceIsSound
  <2>2. CASE prepared' = run.receipt
    BY <1>1, <1>3, <1>4, <1>7, <2>2 DEF EvidenceIsSound, SourceTree
  <2>3. QED
    BY <1>1, <2>1, <2>2
<1>11. Stored'
  BY <1>1, <1>3, <1>9, <1>10 DEF Stored, FinalInv
<1>12. CASE Fail
  <2>1. archives' \subseteq Package /\ package' \in Absent(Package)
    BY <1>1 DEF IInv, TypeOK
  <2>2. QED
    BY <1>1, <1>2, <1>6, <1>11, <1>12, <2>1, FailKeeps
<1>13. CASE prepared' = run.receipt /\ Succeed
  <2>1. prepared' \in Evidence /\ prepared'.validation.sel = run.sel
        /\ prepared'.lock = Rendered(SourceTree["lock"])
    BY <1>3, <1>5, <1>7, <1>13
  <2>2. QED
    BY <1>1, <1>2, <1>4, <1>11, <1>13, <2>1, SucceedKeeps
<1>14. QED
  BY <1>12, <1>13

LEMMA CheckIndexKeeps ==
  ASSUME IInv, CheckIndex
  PROVE  IInv'
<1> USE DEF CheckIndex, evidence, history, End
<1>1. Passive /\ package' \in Absent(Package)
  BY DEF Passive, IInv, TypeOK
<1>2. QED
  BY <1>1, PassiveEndKeeps

-----------------------------------------------------------------------------
\* qualify-release, release-push-check and publish
LEMMA ReleaseCommitFacts ==
  ASSUME IInv, NEW commit \in 1 .. MaxCommits, IsReleaseCommit(commit)
  PROVE  /\ prepared \in Evidence
         /\ prepared.validation \in Validation /\ prepared.lock \in Text
         /\ prepared.validation.sel \in Selection
         /\ prepared.validation.sel.source \in 1 .. Tip
         /\ commit \in 1 .. Tip /\ commit = prepared.validation.sel.source + 1
         /\ commits[commit].tree = Candidate(commits[prepared.validation.sel.source].tree)
         /\ commits[commit].release
         /\ Clean
<1> DEFINE sel == prepared.validation.sel
<1>1. /\ prepared \in Evidence
      /\ commit <= Tip /\ commit = sel.source + 1 /\ commits[commit].release
      /\ Selectable(sel) /\ TreeIsRelease(sel, commits[commit].tree, FALSE) /\ Clean
  BY DEF IInv, TypeOK, Absent, IsReleaseCommit, Renderable
<1>2. prepared.validation \in Validation /\ prepared.lock \in Text
  BY <1>1 DEF Evidence
<1>3. sel \in Selection /\ sel.source \in 1 .. MaxCommits
  BY <1>2 DEF Validation, Selection
<1>4. Tip \in Nat
  BY TipFacts DEF IInv
<1>5. commit \in 1 .. Tip
  BY <1>1, <1>4, ReleaseAssumption
<1>6. sel.source <= Tip
  BY <1>1 DEF Selectable
<1>7. sel.source \in 1 .. Tip
  BY <1>3, <1>4, <1>6, ReleaseAssumption
<1>8. commits[commit].tree \in Tree
  BY <1>5, CommitTree DEF IInv
<1>9. commits[commit].tree = Candidate(commits[sel.source].tree)
  BY <1>1, <1>7, <1>8, ReleaseTree DEF IInv
<1>10. QED
  BY <1>1, <1>2, <1>3, <1>5, <1>7, <1>9

LEMMA QualifyReleaseAtKeeps ==
  ASSUME IInv, NEW commit \in 1 .. MaxCommits, QualifyReleaseAt(commit)
  PROVE  IInv'
<1> USE DEF QualifyReleaseAt, evidence, history
<1> DEFINE sel == prepared.validation.sel
<1>1. Passive /\ package' \in Absent(Package) /\ pc = "idle"
  BY DEF Passive, IInv, TypeOK
<1>2. CASE final # None
  BY <1>1, <1>2, PassiveEndKeeps DEF End
<1>3. CASE final = None
  <2>1. /\ prepared \in Evidence
        /\ prepared.validation \in Validation /\ prepared.lock \in Text
        /\ sel \in Selection /\ sel.source \in 1 .. Tip /\ commit \in 1 .. Tip
    BY ReleaseCommitFacts
  <2>2. /\ pc' = "final" /\ outcome' = "ended"
        /\ run' = [NoRun EXCEPT !.command = "qualify", !.sel = sel,
                     !.commit = commit, !.validation = prepared.validation,
                     !.receipt = prepared.lock]
    BY <1>3
  <2> DEFINE validation == prepared.validation
             lock == prepared.lock
  <2>3. /\ run' \in RunType /\ run'.command = "qualify" /\ run'.sel = sel
        /\ run'.validation = validation /\ run'.commit = commit
        /\ run'.receipt = lock
    <3> HIDE DEF sel, validation, lock
    <3>1. /\ run' = [NoRun EXCEPT !.command = "qualify", !.sel = sel,
                     !.commit = commit, !.validation = validation, !.receipt = lock]
          /\ commit \in 0 .. MaxCommits
      BY <2>2 DEF sel, validation, lock
    <3>2. sel \in Absent(Selection) /\ validation \in Absent(Validation)
          /\ lock \in Absent(Text \cup Package \cup Evidence)
      BY <2>1 DEF Absent, validation, lock
    <3>3. QED
      BY <3>1, <3>2, NoRunType DEF RunType
  <2>4. /\ Tip' = Tip /\ Tip \in Nat
        /\ UNCHANGED <<commits, index, work, setup, tag, edits, validated, prepared, final>>
    BY TipFacts DEF repository, Tip, IInv
  <2>5. sel.source <= Tip
    BY <2>1, <2>4
  <2>6. RunInv' /\ GateInv'
    BY <2>1, <2>2, <2>3, <2>4, <2>5 DEF RunInv, GateInv, Verifying, Preparing, Qualifying
  <2>7. PackageInv' /\ EditInv'
    BY <2>2, <2>3 DEF PackageInv, EditInv, Editing, Preparing
  <2>8. QualifyInv'
    BY <1>3, <2>1, <2>2, <2>3, <2>4 DEF QualifyInv, Qualifying
  <2>9. run'.command = "verify" => run'.validation.setup \in 1 .. edits + 1
    BY <2>3
  <2>10. QED
    BY <1>1, <2>2, <2>3, <2>6, <2>7, <2>8, <2>9, StepKeeps
<1>4. QED
  BY <1>2, <1>3

\* What is known of a final qualification at any of its steps.
LEMMA QualifyingFacts ==
  ASSUME IInv, Qualifying
  PROVE  /\ prepared \in Evidence /\ run.validation = prepared.validation
         /\ run.validation \in Validation
         /\ run.sel = prepared.validation.sel /\ final = None
         /\ run.sel \in Selection /\ run.sel.source \in 1 .. Tip
         /\ run.commit \in 1 .. Tip /\ run.commit \in 1 .. MaxCommits
         /\ outcome = "ended" /\ pc # "idle"
<1>1. /\ prepared \in Evidence /\ run.validation = prepared.validation
      /\ run.sel = prepared.validation.sel /\ final = None
      /\ run.commit \in 1 .. Tip
  BY DEF IInv, QualifyInv
<1>2. /\ run.sel \in Selection /\ run.sel.source <= Tip /\ outcome = "ended" /\ pc # "idle"
  BY DEF IInv, RunInv, Qualifying
<1>3. run.validation \in Validation
  BY <1>1 DEF Evidence
<1>4. run.sel.source \in 1 .. MaxCommits
  BY <1>2 DEF Selection
<1>5. Tip \in Nat /\ Tip <= MaxCommits /\ MaxCommits \in Nat
  BY TipFacts DEF IInv
<1>6. run.sel.source \in 1 .. Tip /\ run.commit \in 1 .. MaxCommits
  BY <1>1, <1>2, <1>4, <1>5
<1>7. QED
  BY <1>1, <1>2, <1>3, <1>6

LEMMA PackageFinalKeeps ==
  ASSUME IInv, PackageFinal
  PROVE  IInv'
<1> USE DEF PackageFinal, history
<1>1. Qualifying /\ pc = "final" /\ run.command = "qualify"
  BY DEF IInv, RunInv, Qualifying
<1>2. /\ Tip' = Tip
      /\ UNCHANGED <<commits, index, work, setup, tag, edits, validated, prepared, final,
                     archives, gated, torn>>
  BY DEF repository, Tip
<1>3. [head |-> Tip, tree |-> work] \in Package
  BY DEF IInv, TypeOK, Package
<1>4. Passive /\ package' \in Absent(Package)
  BY <1>2, <1>3 DEF Passive, IInv, TypeOK, Absent
<1>5. CASE End("ended")
  BY <1>1, <1>2, <1>4, <1>5, PassiveEndKeeps DEF End
<1>6. CASE Clean /\ package' = [head |-> Tip, tree |-> work] /\ Go("finished")
  <2>1. pc' = "finished" /\ run' = run /\ outcome' = outcome
    BY <1>6 DEF Go
  <2>2. SourceTree' = SourceTree
    BY <1>2, <2>1 DEF SourceTree
  <2>3. run.receipt \in Text /\ run.commit \in 1 .. Tip /\ outcome = "ended" /\ final = None
    BY <1>1, QualifyingFacts DEF IInv, QualifyInv
  <2>4. /\ package' \in Package /\ package'.head \in run.commit .. Tip
        /\ package'.tree = commits[package'.head].tree
    BY <1>3, <1>6, <2>3, TipFacts DEF Clean, IInv
  <2>5. RunInv'
    BY <1>1, <1>2, <2>1, <2>3
       DEF IInv, RunInv, Verifying, Preparing, Qualifying, Selectable, Renderable
  <2>6. GateInv' /\ PackageInv' /\ EditInv'
    BY <1>1, <2>1 DEF GateInv, PackageInv, EditInv, Editing, Preparing
  <2>7. QualifyInv'
    BY <1>1, <1>2, <2>1, <2>3, <2>4 DEF IInv, QualifyInv, Qualifying
  <2>8. run' \in RunType /\ run'.command # "verify"
    BY <1>1, <2>1 DEF IInv, TypeOK
  <2>9. QED
    BY <1>1, <1>2, <1>4, <2>1, <2>3, <2>5, <2>6, <2>7, <2>8, StepKeeps
<1>7. QED
  BY <1>5, <1>6

\* The package is of the release commit: nothing was committed in between.
LEMMA AdmitFinalKeeps ==
  ASSUME IInv, AdmitFinal
  PROVE  IInv'
<1> USE DEF AdmitFinal, evidence, history
<1>1. Qualifying /\ pc = "finished" /\ run.command = "qualify"
  BY DEF IInv, RunInv, Qualifying
<1>2. /\ Tip' = Tip
      /\ UNCHANGED <<commits, index, work, setup, tag, edits, validated, prepared, final,
                     archives, package, gated, torn>>
  BY DEF repository, Tip
<1>3. Passive /\ package' \in Absent(Package)
  BY DEF Passive, IInv, TypeOK
<1>4. CASE End("ended")
  BY <1>1, <1>2, <1>3, <1>4, PassiveEndKeeps DEF End
<1>5. CASE Tip = run.commit /\ IsReleaseCommit(run.commit) /\ Go("record")
  <2>1. pc' = "record" /\ run' = run /\ outcome' = outcome
    BY <1>5 DEF Go
  <2>2. SourceTree' = SourceTree
    BY <1>2, <2>1 DEF SourceTree
  <2>3. /\ run.sel = prepared.validation.sel /\ run.commit \in 1 .. MaxCommits
        /\ run.sel.source \in 1 .. Tip /\ run.commit \in 1 .. Tip
        /\ outcome = "ended" /\ final = None
    BY <1>1, QualifyingFacts
  <2>4. /\ run.commit = run.sel.source + 1
        /\ commits[run.commit].tree = Candidate(SourceTree) /\ Clean
    BY <1>5, <2>3, ReleaseCommitFacts DEF SourceTree
  <2>5. /\ package \in Package /\ package.head \in run.commit .. Tip
        /\ package.tree = commits[package.head].tree /\ run.receipt \in Text
    BY <1>1 DEF IInv, QualifyInv
  <2>6. package = [head |-> run.commit, tree |-> commits[run.commit].tree]
    <3>1. Tip \in Nat
      BY TipFacts DEF IInv
    <3>2. package.head = run.commit
      BY <1>5, <2>5, <3>1
    <3>3. QED
      BY <2>5, <3>2 DEF Package
  <2>7. NewFrom(run.commit)
    <3>1. SourceTree \in Tree
      BY <2>3, CommitTree DEF IInv, SourceTree
    <3>2. \A f \in Surfaces : commits[Tip].tree[f].new
      BY <1>5, <2>4, <3>1, CandidateFacts
    <3>3. \A c \in run.commit .. Tip : c = Tip
      BY <1>5, TipFacts DEF IInv
    <3>4. QED
      BY <2>4, <3>2, <3>3 DEF NewFrom, Clean
  <2>8. NewFrom(run.commit)'
    BY <1>2, <2>1, <2>7 DEF NewFrom
  <2>9. RunInv'
    BY <1>1, <1>2, <2>1, <2>3
       DEF IInv, RunInv, Verifying, Preparing, Qualifying, Selectable, Renderable
  <2>10. GateInv' /\ PackageInv' /\ EditInv'
    BY <1>1, <2>1 DEF GateInv, PackageInv, EditInv, Editing, Preparing
  <2>11. QualifyInv'
    BY <1>1, <1>2, <2>1, <2>2, <2>4, <2>5, <2>6, <2>8 DEF IInv, QualifyInv, Qualifying
  <2>12. run' \in RunType /\ run'.command # "verify"
    BY <1>1, <2>1 DEF IInv, TypeOK
  <2>13. QED
    BY <1>1, <1>2, <1>3, <2>1, <2>3, <2>9, <2>10, <2>11, <2>12, StepKeeps
<1>6. QED
  BY <1>4, <1>5

\* The final receipt continues the prepared one, and all later trees are new.
LEMMA WriteFinalKeeps ==
  ASSUME IInv, WriteFinal
  PROVE  IInv'
<1> USE DEF WriteFinal, history
<1>1. /\ pc = "write" /\ Tip' = Tip
      /\ UNCHANGED <<commits, index, work, setup, tag, edits, validated, prepared, archives,
                     package, gated, torn>>
      /\ final' \in {final, run.receipt}
      /\ pc' = "idle" /\ run' = NoRun /\ outcome' = "ended"
  BY DEF repository, Tip, End
<1>2. Qualifying
  BY <1>1 DEF Qualifying
<1>3. /\ prepared \in Evidence /\ run.validation = prepared.validation
      /\ run.sel = prepared.validation.sel /\ final = None
      /\ run.commit \in 1 .. Tip /\ Tip \in Nat
  BY <1>2, QualifyingFacts, TipFacts DEF IInv
<1>4. /\ run.commit = run.sel.source + 1
      /\ package = [head |-> run.commit, tree |-> commits[run.commit].tree]
      /\ commits[run.commit].tree = Candidate(SourceTree)
      /\ NewFrom(run.commit)
      /\ package \in archives
      /\ run.receipt \in Evidence
      /\ run.receipt.validation = run.validation
      /\ run.receipt.head = run.commit
      /\ run.receipt.package = package
  BY <1>1, <1>2 DEF IInv, QualifyInv
<1>5. prepared # None /\ package.tree = Candidate(SourceTree)
  BY <1>3, <1>4, NoneAssumption
<1>6. EvidenceIsSound'
  <2>1. prepared.package.tree = Candidate(SourceTree)
    BY <1>3, <1>5 DEF IInv, EvidenceIsSound, SourceTree
  <2>2. CASE final' = final
    BY <1>1, <2>2 DEF IInv, EvidenceIsSound
  <2>3. CASE final' = run.receipt
    BY <1>1, <1>3, <1>4, <1>5, <2>1, <2>3 DEF IInv, EvidenceIsSound
  <2>4. QED
    BY <1>1, <2>2, <2>3
<1>7. FinalInv'
  <2>1. \A f \in Surfaces :
          /\ work'[f].new /\ index'[f].new
          /\ \A c \in run.commit .. Tip' : commits'[c].tree[f].new
    BY <1>1, <1>4 DEF NewFrom
  <2>2. run.commit <= Tip
    BY <1>3
  <2>3. CASE final' = final
    BY <1>3, <2>3 DEF FinalInv
  <2>4. CASE final' = run.receipt
    BY <1>1, <1>3, <1>4, <2>1, <2>2, <2>4 DEF FinalInv, NewFrom
  <2>5. QED
    BY <1>1, <2>3, <2>4
<1>8. Stored'
  BY <1>1, <1>6, <1>7 DEF IInv, Stored, ValidatedInv
<1>9. /\ validated' \in Absent(Validation)
      /\ prepared' \in Absent(Evidence) /\ final' \in Absent(Evidence)
      /\ validated' # None => validated'.setup \in 1 .. edits + 1
      /\ archives' \subseteq Package /\ package' \in Absent(Package)
      /\ gated' \subseteq [tree : Tree, setup : Setup]
      /\ torn' \subseteq Surfaces
  BY <1>1, <1>4 DEF IInv, TypeOK, FreshInv, Absent
<1>10. ManifestInv'
  BY <1>1, ManifestStays
<1>11. QED
  BY <1>1, <1>8, <1>9, <1>10, EndKeeps

\* A command that only reads, and packages perhaps, on a release commit.
LEMMA StartOnRelease ==
  ASSUME IInv, NEW commit \in 1 .. MaxCommits, IsReleaseCommit(commit), pc = "idle",
         NEW command \in {"push", "publish"},
         pc' = (IF command = "push" THEN "push" ELSE "upload"),
         run' = [NoRun EXCEPT !.command = command, !.sel = prepared.validation.sel,
                   !.commit = commit],
         outcome' = "ended", UNCHANGED <<repository, evidence, history>>
  PROVE  IInv'
<1> DEFINE sel == prepared.validation.sel
<1>1. Passive /\ package' \in Absent(Package) /\ torn' = torn
  BY DEF evidence, history, Passive, IInv, TypeOK
<1>2. sel \in Selection /\ sel.source \in 1 .. Tip /\ commit \in 1 .. Tip
  BY ReleaseCommitFacts
<1>3. run' = [NoRun EXCEPT !.command = command, !.sel = sel, !.commit = commit]
      /\ commit \in 0 .. MaxCommits
  OBVIOUS
<1> HIDE DEF sel
<1>4. /\ run' \in RunType /\ run'.command = command /\ run'.sel = sel /\ run'.commit = commit
      /\ run'.validation = None
  BY <1>2, <1>3, NoRunType DEF RunType, Absent
<1>5. Tip' = Tip /\ Tip \in Nat
  BY TipFacts DEF repository, Tip, IInv
<1>6. sel.source <= Tip
  BY <1>2, <1>5
<1>7. RunInv' /\ GateInv'
  BY <1>2, <1>4, <1>5, <1>6 DEF RunInv, GateInv, Verifying, Preparing, Qualifying
<1>8. PackageInv' /\ QualifyInv' /\ EditInv'
  BY <1>2, <1>4, <1>5 DEF PackageInv, QualifyInv, EditInv, Editing, Preparing, Qualifying
<1>9. pc' \in {"push", "upload"} /\ pc # "rollback" /\ run'.command # "verify"
  BY <1>4
<1>10. QED
  BY <1>1, <1>4, <1>7, <1>8, <1>9, StepKeeps

LEMMA PushCheckKeeps ==
  ASSUME IInv, NEW commit \in 1 .. MaxCommits, PushCheck(commit)
  PROVE  IInv'
<1>1. IsReleaseCommit(commit)
  BY DEF PushCheck, TaggedHolds
<1>2. QED
  BY <1>1, StartOnRelease DEF PushCheck

LEMMA PublishKeeps ==
  ASSUME IInv, Publish
  PROVE  IInv'
<1>1. IsReleaseCommit(Tip) /\ Tip \in 1 .. MaxCommits
  BY DEF Publish, IsPublishable, IInv, TypeOK
<1>2. QED
  BY <1>1, StartOnRelease DEF Publish

LEMMA PushCheckAgainKeeps ==
  ASSUME IInv, PushCheckAgain
  PROVE  IInv'
<1> USE DEF PushCheckAgain, evidence, history, End
<1>1. Passive /\ package' \in Absent(Package)
  BY DEF Passive, IInv, TypeOK
<1>2. QED
  BY <1>1, PassiveEndKeeps

LEMMA PublishedAgainKeeps ==
  ASSUME IInv, PublishedAgain
  PROVE  IInv'
<1> USE DEF PublishedAgain, evidence, history, End
<1>1. Passive /\ package' \in Absent(Package)
  BY DEF Passive, IInv, TypeOK
<1>2. QED
  BY <1>1, PassiveEndKeeps

LEMMA UploadKeeps ==
  ASSUME IInv, Upload
  PROVE  IInv'
<1> USE DEF Upload, history
<1>1. pc = "upload" /\ run.command = "publish" /\ run.sel \in Selection
      /\ run.sel.source <= Tip /\ run.commit \in 1 .. Tip /\ outcome = "ended"
  BY DEF IInv, RunInv, QualifyInv
<1>2. /\ Tip' = Tip
      /\ UNCHANGED <<commits, index, work, setup, tag, edits, validated, prepared, final,
                     archives, gated, torn>>
  BY DEF repository, Tip
<1>3. [head |-> Tip, tree |-> work] \in Package
  BY DEF IInv, TypeOK, Package
<1>4. Passive /\ package' \in Absent(Package)
  BY <1>2, <1>3 DEF Passive, IInv, TypeOK, Absent
<1>5. CASE End("ended")
  BY <1>1, <1>2, <1>4, <1>5, PassiveEndKeeps DEF End
<1>6. CASE /\ Clean /\ package' = [head |-> Tip, tree |-> work]
           /\ pc' = "uploaded" /\ run' = [run EXCEPT !.receipt = package'] /\ outcome' = outcome
  <2>1. package' \in Package
    BY <1>3, <1>6
  <2>2. /\ run' \in RunType /\ run'.command = "publish" /\ run'.sel = run.sel
        /\ run'.commit = run.commit /\ run'.receipt = package'
    BY <1>1, <1>6, <2>1 DEF IInv, TypeOK, RunType, Absent
  <2>3. /\ package'.head \in run.commit .. Tip /\ package'.tree = commits[package'.head].tree
    BY <1>1, <1>6, TipFacts DEF Clean, IInv
  <2>4. RunInv' /\ GateInv'
    BY <1>1, <1>2, <1>6, <2>2 DEF RunInv, GateInv, Verifying, Preparing, Qualifying
  <2>5. PackageInv' /\ EditInv'
    BY <1>6, <2>2 DEF PackageInv, EditInv, Editing, Preparing
  <2>6. QualifyInv'
    BY <1>1, <1>2, <1>6, <2>1, <2>2, <2>3 DEF QualifyInv, Qualifying
  <2>7. QED
    BY <1>1, <1>2, <1>4, <1>6, <2>2, <2>4, <2>5, <2>6, StepKeeps
<1>7. QED
  BY <1>5, <1>6

-----------------------------------------------------------------------------
(***************************************************************************)
(* Maintainers.  Whatever they do is one of two things: texts that are     *)
(* touched take a revision that no text has had before, and old commits    *)
(* stay; or the trees are taken back to the last commit.                   *)
(***************************************************************************)
Touched(old, new) ==
  \A f \in File :
    new[f] = old[f] \/ (new[f].new = old[f].new /\ edits' = edits + 1 /\ new[f].rev = edits + 1)

BranchGrows ==
  \/ commits' = commits
  \/ /\ Tip < MaxCommits
     /\ \E release \in BOOLEAN : commits' = Append(commits, [tree |-> index', release |-> release])

Edited ==
  /\ torn' = torn
  /\ Touched(work, work')
  /\ \/ index' = index
     \/ index' = work' /\ commits' # commits
     \/ index' = work' /\ pc = "idle"
     \/ Touched(index, index') /\ work' = work /\ pc = "idle"

CheckedOut ==
  /\ pc = "idle"
  /\ work' = commits[Tip].tree
  /\ index' = commits[Tip].tree
  /\ torn' = {}
  /\ commits' = commits

Maintained ==
  /\ UNCHANGED <<evidence, gated, pc, run>>
  /\ outcome' = "ended"
  /\ edits' \in {edits, edits + 1} /\ edits' \in 0 .. MaxEdits
  /\ work' \in Tree /\ index' \in Tree
  /\ tag' \in Absent(1 .. MaxCommits)
  /\ \/ setup' = setup
     \/ setup' \in {Override, edits + 2} /\ edits' = edits + 1
     \/ setup' = 1 /\ pc = "idle"
  /\ BranchGrows
  /\ Edited \/ CheckedOut

LEMMA EditedTree ==
  ASSUME TypeOK, edits < MaxEdits, edits' = edits + 1, NEW tree \in Tree, NEW f \in File
  PROVE  /\ [tree EXCEPT ![f].rev = edits + 1] \in Tree
         /\ Touched(tree, [tree EXCEPT ![f].rev = edits + 1])
         /\ edits' \in 0 .. MaxEdits
<1>1. edits \in Nat /\ edits + 1 \in 0 .. MaxEdits
  BY ReleaseAssumption DEF TypeOK
<1>2. tree[f] \in Text
  BY DEF Tree
<1> DEFINE text == [tree[f] EXCEPT !.rev = edits + 1]
<1>3. text \in Text /\ text.new = tree[f].new /\ text.rev = edits + 1
  BY <1>1, <1>2 DEF Text
<1>4. [tree EXCEPT ![f].rev = edits + 1] = [tree EXCEPT ![f] = text]
  OBVIOUS
<1> HIDE DEF text
<1>5. [tree EXCEPT ![f] = text] \in Tree
  BY <1>3 DEF Tree
<1>6. Touched(tree, [tree EXCEPT ![f] = text])
  BY <1>3 DEF Touched, Tree
<1>7. QED
  BY <1>1, <1>4, <1>5, <1>6

LEMMA MaintainShape ==
  ASSUME TypeOK, Maintain
  PROVE  Maintained
<1> USE DEF Forget
<1>1. work \in Tree /\ index \in Tree /\ edits \in 0 .. MaxEdits /\ edits \in Nat
      /\ tag \in Absent(1 .. MaxCommits) /\ commits[Tip].tree \in Tree
  BY TipFacts, ReleaseAssumption DEF TypeOK
<1>2. Touched(work, work) /\ Touched(index, index)
  BY DEF Touched
<1>3. ASSUME NEW f \in File, Edit(f) PROVE Maintained
  <2>1. work' \in Tree /\ Touched(work, work') /\ edits' \in 0 .. MaxEdits
    BY <1>1, <1>3, EditedTree DEF Edit
  <2>2. QED
    BY <1>1, <1>3, <2>1 DEF Edit, Maintained, Edited, BranchGrows, history
<1>4. ASSUME NEW f \in File, StageHidden(f) PROVE Maintained
  <2>1. index' \in Tree /\ Touched(index, index') /\ edits' \in 0 .. MaxEdits
    BY <1>1, <1>4, EditedTree DEF StageHidden
  <2>2. Touched(work, work')
    BY <1>2, <1>4 DEF StageHidden
  <2>3. QED
    BY <1>1, <1>4, <2>1, <2>2 DEF StageHidden, Maintained, Edited, BranchGrows, history
<1>5. ASSUME NEW f \in File, CommitFix(f) PROVE Maintained
  <2>1. work' \in Tree /\ Touched(work, work') /\ edits' \in 0 .. MaxEdits
    BY <1>1, <1>5, EditedTree DEF CommitFix
  <2>2. index' = work' /\ Tip < MaxCommits
        /\ commits' = Append(commits, [tree |-> index', release |-> FALSE])
    BY <1>5 DEF CommitFix
  <2>3. commits' # commits
    <3>1. commits \in Seq([tree : Tree, release : BOOLEAN])
      BY DEF TypeOK
    <3>2. [tree |-> index', release |-> FALSE] \in [tree : Tree, release : BOOLEAN]
      BY <2>1, <2>2
    <3>3. Len(commits') = Len(commits) + 1 /\ Len(commits) \in Nat
      BY <2>2, <3>1, <3>2, AppendProperties
    <3>4. QED
      BY <3>3
  <2>4. BranchGrows
    BY <2>2 DEF BranchGrows
  <2>5. QED
    BY <1>1, <1>5, <2>1, <2>2, <2>3, <2>4 DEF CommitFix, Maintained, Edited, history
<1>6. ASSUME SwitchSetup PROVE Maintained
  <2>1. edits' \in 0 .. MaxEdits /\ Touched(work, work')
    BY <1>1, <1>2, <1>6, ReleaseAssumption DEF SwitchSetup
  <2>2. QED
    BY <1>1, <1>6, <2>1 DEF SwitchSetup, Maintained, Edited, BranchGrows, history
<1>7. ASSUME RestoreSetup PROVE Maintained
  BY <1>1, <1>2, <1>7 DEF RestoreSetup, Maintained, Edited, BranchGrows, history
<1>8. ASSUME Stage PROVE Maintained
  <2>1. edits' \in {edits, edits + 1} /\ edits' \in 0 .. MaxEdits
    BY <1>1, <1>8, ReleaseAssumption DEF Stage
  <2>2. QED
    BY <1>1, <1>2, <1>8, <2>1 DEF Stage, Maintained, Edited, BranchGrows, history
<1>9. ASSUME Checkout PROVE Maintained
  BY <1>1, <1>9 DEF Checkout, Maintained, CheckedOut, BranchGrows
<1>10. ASSUME NEW release \in BOOLEAN, Commit(release) PROVE Maintained
  BY <1>1, <1>2, <1>10 DEF Commit, Maintained, Edited, BranchGrows, history
<1>11. ASSUME NEW commit \in 1 .. MaxCommits, Tag(commit) PROVE Maintained
  <2>1. edits' \in {edits, edits + 1} /\ edits' \in 0 .. MaxEdits
    BY <1>1, <1>11, ReleaseAssumption DEF Tag
  <2>2. tag' \in Absent(1 .. MaxCommits)
    BY <1>11 DEF Tag, Absent
  <2>3. QED
    BY <1>1, <1>2, <1>11, <2>1, <2>2 DEF Tag, Maintained, Edited, BranchGrows, history
<1>12. QED
  BY <1>3, <1>4, <1>5, <1>6, <1>7, <1>8, <1>9, <1>10, <1>11 DEF Maintain

\* Commits are never changed; one more has the tree that is then staged.
LEMMA BranchSteps ==
  ASSUME TypeOK, BranchGrows, index' \in Tree
  PROVE  /\ commits' \in Seq([tree : Tree, release : BOOLEAN])
         /\ Tip' \in {Tip, Tip + 1} /\ Tip' \in 1 .. MaxCommits /\ Tip \in Nat
         /\ \A c \in 1 .. Tip : c \in 1 .. Tip' /\ commits'[c] = commits[c]
         /\ Tip' = Tip => commits' = commits
         /\ Tip' = Tip + 1 => commits'[Tip'].tree = index'
<1>1. commits \in Seq([tree : Tree, release : BOOLEAN]) /\ Tip \in 1 .. MaxCommits
      /\ Tip \in Nat /\ MaxCommits \in Nat
  BY TipFacts DEF TypeOK
<1>2. CASE commits' = commits
  <2>1. Tip' = Tip
    BY <1>2 DEF Tip
  <2>2. Tip' # Tip + 1
    BY <1>1, <2>1
  <2>3. QED
    BY <1>1, <1>2, <2>1, <2>2
<1>3. ASSUME Tip < MaxCommits, NEW release \in BOOLEAN,
             commits' = Append(commits, [tree |-> index', release |-> release])
      PROVE  /\ commits' \in Seq([tree : Tree, release : BOOLEAN])
             /\ Tip' = Tip + 1
             /\ \A c \in 1 .. Tip : commits'[c] = commits[c]
             /\ commits'[Tip'].tree = index'
  <2> DEFINE new == [tree |-> index', release |-> release]
  <2>1. new \in [tree : Tree, release : BOOLEAN] /\ new.tree = index'
    OBVIOUS
  <2>2. commits' = Append(commits, new)
    BY <1>3
  <2> HIDE DEF new
  <2>3. /\ commits' \in Seq([tree : Tree, release : BOOLEAN])
        /\ Len(commits') = Len(commits) + 1
        /\ \A c \in 1 .. Len(commits) : commits'[c] = commits[c]
        /\ commits'[Len(commits) + 1] = new
    BY <1>1, <2>1, <2>2, AppendProperties
  <2>4. QED
    BY <1>1, <2>1, <2>3 DEF Tip
<1>4. CASE commits' # commits
  <2>1. PICK release \in BOOLEAN :
          Tip < MaxCommits /\ commits' = Append(commits, [tree |-> index', release |-> release])
    BY <1>4 DEF BranchGrows
  <2>2. /\ commits' \in Seq([tree : Tree, release : BOOLEAN])
        /\ Tip' = Tip + 1
        /\ \A c \in 1 .. Tip : commits'[c] = commits[c]
        /\ commits'[Tip'].tree = index'
    BY <1>3, <2>1
  <2>3. Tip' \in {Tip, Tip + 1} /\ Tip' \in 1 .. MaxCommits /\ Tip \in Nat
        /\ \A c \in 1 .. Tip : c \in 1 .. Tip'
        /\ Tip' # Tip
    BY <1>1, <2>1, <2>2
  <2>4. QED
    BY <2>2, <2>3
<1>5. QED
  BY <1>2, <1>4

\* Maintainers leave old commits, and bring no revision that existed.
LEMMA MaintainFacts ==
  ASSUME IInv, Maintained
  PROVE  /\ TypeOK /\ FreshInv
         /\ Tip' \in {Tip, Tip + 1} /\ Tip' \in 1 .. MaxCommits
         /\ Tip \in 1 .. MaxCommits /\ Tip \in Nat
         /\ \A c \in 1 .. Tip : c \in 1 .. Tip' /\ commits'[c] = commits[c]
         /\ Tip' = Tip => commits' = commits
         /\ Tip' = Tip + 1 => commits'[Tip'].tree = index'
         /\ commits'[Tip'].tree \in {commits[Tip].tree, index'}
         /\ edits \in Nat /\ edits' \in {edits, edits + 1} /\ edits' \in 0 .. MaxEdits
         /\ work \in Tree /\ index \in Tree /\ work' \in Tree /\ index' \in Tree
         /\ commits[Tip].tree \in Tree
<1>1. TypeOK /\ FreshInv
  BY DEF IInv
<1>2. /\ edits \in Nat /\ edits' \in {edits, edits + 1} /\ edits' \in 0 .. MaxEdits
      /\ work \in Tree /\ index \in Tree /\ work' \in Tree /\ index' \in Tree
      /\ BranchGrows
  BY <1>1, ReleaseAssumption DEF TypeOK, Maintained
<1>3. /\ Tip' \in {Tip, Tip + 1} /\ Tip' \in 1 .. MaxCommits
      /\ Tip \in 1 .. MaxCommits /\ Tip \in Nat
      /\ commits[Tip].tree \in Tree
  BY <1>1, <1>2, BranchSteps, TipFacts DEF TypeOK
<1>4. /\ \A c \in 1 .. Tip : c \in 1 .. Tip' /\ commits'[c] = commits[c]
      /\ Tip' = Tip => commits' = commits
      /\ Tip' = Tip + 1 => commits'[Tip'].tree = index'
  BY <1>1, <1>2, BranchSteps
<1>5. commits'[Tip'].tree \in {commits[Tip].tree, index'}
  BY <1>3, <1>4
<1>6. QED
  BY <1>1, <1>2, <1>3, <1>4, <1>5

LEMMA MaintainKeepsType ==
  ASSUME IInv, Maintained
  PROVE  TypeOK'
<1>1. /\ commits' \in Seq([tree : Tree, release : BOOLEAN]) /\ Tip' \in 1 .. MaxCommits
      /\ work' \in Tree /\ index' \in Tree /\ edits' \in 0 .. MaxEdits
      /\ edits \in Nat /\ edits' \in {edits, edits + 1}
      /\ TypeOK
  BY MaintainFacts, BranchSteps DEF Maintained
<1>2. setup' \in Setup
  <2>1. setup \in 0 .. MaxEdits + 1 /\ MaxEdits \in Nat
    BY <1>1, ReleaseAssumption DEF TypeOK, Setup
  <2>2. CASE setup' = setup
    BY <1>1, <2>2 DEF TypeOK
  <2>3. CASE setup' \in {Override, edits + 2} /\ edits' = edits + 1
    BY <1>1, <2>1, <2>3 DEF Setup, Override
  <2>4. CASE setup' = 1
    BY <2>1, <2>4 DEF Setup
  <2>5. QED
    BY <2>2, <2>3, <2>4 DEF Maintained
<1>3. /\ UNCHANGED <<validated, prepared, final, archives, package, gated, pc, run>>
      /\ outcome' = "ended" /\ tag' \in Absent(1 .. MaxCommits)
      /\ torn' \in {torn, {}}
  BY DEF Maintained, Edited, CheckedOut, evidence
<1>4. QED
  BY <1>1, <1>2, <1>3 DEF TypeOK

LEMMA MaintainKeepsFresh ==
  ASSUME IInv, Maintained
  PROVE  FreshInv'
<1>1. /\ edits \in Nat /\ edits' \in {edits, edits + 1} /\ edits <= edits'
      /\ TypeOK
      /\ Tip \in 1 .. Tip
  BY MaintainFacts
<1>2. \A f \in File : /\ work[f].rev \in Nat /\ index[f].rev \in Nat
                      /\ commits[Tip].tree[f].rev \in Nat
                      /\ work[f].rev <= edits /\ index[f].rev <= edits
                      /\ commits[Tip].tree[f].rev <= edits
  BY <1>1, MaintainFacts, TreeTexts DEF FreshInv
<1>3. \A f \in File : work'[f].rev <= edits' /\ index'[f].rev <= edits'
  <2>1. CASE CheckedOut
    BY <1>1, <1>2, <2>1 DEF CheckedOut
  <2>2. CASE Edited
    <3>1. \A f \in File : work'[f].rev <= edits'
      BY <1>1, <1>2, <2>2 DEF Edited, Touched
    <3>2. \A f \in File : index'[f].rev <= edits'
      BY <1>1, <1>2, <2>2, <3>1 DEF Edited, Touched
    <3>3. QED
      BY <3>1, <3>2
  <2>3. QED
    BY <2>1, <2>2 DEF Maintained
<1>4. \A f \in File : \A c \in 1 .. Tip' : commits'[c].tree[f].rev <= edits'
  <2> SUFFICES ASSUME NEW f \in File, NEW c \in 1 .. Tip'
               PROVE  commits'[c].tree[f].rev <= edits'
    OBVIOUS
  <2>1. CASE c \in 1 .. Tip
    <3>1. commits'[c] = commits[c] /\ commits[c].tree \in Tree
          /\ commits[c].tree[f].rev <= edits
      BY <1>1, <2>1, MaintainFacts, CommitTree DEF FreshInv
    <3>2. commits[c].tree[f].rev \in Nat
      BY <3>1, TreeTexts
    <3>3. QED
      BY <1>1, <3>1, <3>2
  <2>2. CASE c \notin 1 .. Tip
    <3>1. Tip' = Tip + 1 /\ c = Tip'
      BY <2>2, MaintainFacts
    <3>2. QED
      BY <1>3, <3>1, MaintainFacts
  <2>3. QED
    BY <2>1, <2>2
<1>5. setup' <= edits' + 1
  <2>1. setup \in Nat /\ setup <= edits + 1
    BY <1>1, ReleaseAssumption DEF TypeOK, Setup, FreshInv, IInv
  <2>2. QED
    BY <1>1, <2>1 DEF Maintained, Override
<1>6. /\ validated' # None => validated'.setup \in 1 .. edits' + 1
      /\ run'.command = "verify" => run'.validation.setup \in 1 .. edits' + 1
  <2>1. \A n \in 1 .. edits + 1 : n \in 1 .. edits' + 1
    <3>1. CASE edits' = edits
      BY <3>1
    <3>2. CASE edits' = edits + 1
      BY <1>1, <3>2
    <3>3. QED
      BY <1>1, <3>1, <3>2
  <2>2. validated' = validated /\ run' = run
    BY DEF Maintained, evidence
  <2>3. QED
    BY <2>1, <2>2 DEF FreshInv, IInv
<1>7. QED
  BY <1>3, <1>4, <1>5, <1>6 DEF FreshInv

\* Beside a running command.
LEMMA BesideFacts ==
  ASSUME IInv, Maintained, pc # "idle"
  PROVE  /\ run.sel \in Selection /\ run.sel.source \in 1 .. Tip /\ run.sel.source \in Nat
         /\ SourceTree' = SourceTree /\ SourceTree \in Tree
         /\ Edited
         /\ \A f \in File : work'[f].new = work[f].new
         /\ \A f \in File : \/ work'[f] = work[f]
                            \/ /\ work'[f].rev # SourceTree[f].rev
                               /\ work'[f].rev # index[f].rev
                               /\ work'[f].rev # commits[Tip].tree[f].rev
<1>1. run.sel \in Selection /\ run.sel.source <= Tip /\ run' = run /\ TypeOK
  BY MaintainFacts DEF IInv, RunInv, Maintained
<1>2. run.sel.source \in 1 .. MaxCommits /\ MaxCommits \in Nat
  BY <1>1, ReleaseAssumption DEF Selection
<1>3. run.sel.source \in 1 .. Tip /\ run.sel.source \in Nat /\ Tip \in 1 .. Tip
  BY <1>1, <1>2, MaintainFacts
<1>4. SourceTree \in Tree /\ SourceTree' = SourceTree
  BY <1>1, <1>3, CommitTree, MaintainFacts DEF SourceTree
<1>5. Edited
  BY DEF Maintained, CheckedOut
<1>6. \A f \in File : work'[f].new = work[f].new
  BY <1>5 DEF Edited, Touched
<1>7. \A f \in File : /\ SourceTree[f].rev \in Nat /\ index[f].rev \in Nat
                      /\ commits[Tip].tree[f].rev \in Nat
                      /\ SourceTree[f].rev <= edits /\ index[f].rev <= edits
                      /\ commits[Tip].tree[f].rev <= edits
  BY <1>3, <1>4, MaintainFacts, TreeTexts DEF FreshInv, SourceTree
<1>8. \A f \in File : work'[f] = work[f] \/ work'[f].rev = edits + 1
  BY <1>5 DEF Edited, Touched
<1>9. edits \in Nat
  BY MaintainFacts
<1>10. \A f \in File : \/ work'[f] = work[f]
                       \/ /\ work'[f].rev # SourceTree[f].rev
                          /\ work'[f].rev # index[f].rev
                          /\ work'[f].rev # commits[Tip].tree[f].rev
  BY <1>7, <1>8, <1>9
<1>11. QED
  BY <1>1, <1>3, <1>4, <1>5, <1>6, <1>10

LEMMA MaintainKeepsRun ==
  ASSUME IInv, Maintained
  PROVE  RunInv'
<1>1. RunInv /\ pc' = pc /\ run' = run /\ validated' = validated /\ final' = final
      /\ outcome' = "ended"
  BY DEF IInv, Maintained, evidence
<1>2. CASE pc = "idle"
  BY <1>1, <1>2 DEF RunInv, Verifying, Preparing, Qualifying
<1>3. CASE pc # "idle"
  <2>1. /\ run.sel \in Selection /\ run.sel.source <= Tip'
        /\ Selectable(run.sel) => Selectable(run.sel)'
        /\ Renderable(run.sel) => Renderable(run.sel)'
    <3>1. run.sel.source \in 1 .. Tip /\ run.sel \in Selection
      BY <1>3, BesideFacts
    <3>2. run.sel.source \in 1 .. Tip' /\ commits'[run.sel.source] = commits[run.sel.source]
      BY <3>1, MaintainFacts
    <3>3. run.sel.source <= Tip'
      BY <3>2, MaintainFacts
    <3>4. QED
      BY <1>1, <3>1, <3>2, <3>3 DEF Selectable, Renderable
  <2>2. QED
    BY <1>1, <1>3, <2>1 DEF RunInv, Verifying, Preparing, Qualifying
<1>4. QED
  BY <1>2, <1>3

LEMMA MaintainKeepsGate ==
  ASSUME IInv, Maintained
  PROVE  GateInv'
<1>1. GateInv /\ RunInv /\ FreshInv
      /\ pc' = pc /\ run' = run /\ validated' = validated /\ prepared' = prepared
      /\ gated' = gated
  BY DEF IInv, Maintained, evidence
<1>2. CASE pc = "idle"
  BY <1>1, <1>2 DEF GateInv
<1>3. CASE pc # "idle"
  <2>1. SourceTree' = SourceTree
    BY <1>3, BesideFacts
  <2>2. ASSUME pc = "admit"
        PROVE  \E gate \in gated :
                 /\ \A f \in File : work'[f] = gate.tree[f] \/ work'[f].rev # SourceTree'[f].rev
                 /\ setup' = gate.setup \/ setup' # run.validation.setup
    <3>1. PICK gate \in gated :
            /\ \A f \in File : work[f] = gate.tree[f] \/ work[f].rev # SourceTree[f].rev
            /\ setup = gate.setup \/ setup # run.validation.setup
      BY <1>1, <2>2 DEF GateInv, IsOrEdited
    <3>2. \A f \in File : work'[f] = gate.tree[f] \/ work'[f].rev # SourceTree'[f].rev
      BY <1>3, <2>1, <3>1, BesideFacts
    <3>3. setup' = gate.setup \/ setup' # run.validation.setup
      <4>1. run.command = "verify"
        BY <1>1, <2>2 DEF RunInv, Verifying
      <4>2. run.validation.setup \in 1 .. edits + 1 /\ edits \in Nat
        BY <1>1, <4>1, MaintainFacts DEF FreshInv
      <4>3. setup' = setup \/ setup' \in {Override, edits + 2}
        BY <1>3 DEF Maintained
      <4>4. run.validation.setup # Override /\ run.validation.setup # edits + 2
        BY <4>2 DEF Override
      <4>5. QED
        BY <3>1, <4>3, <4>4
    <3>4. QED
      BY <3>2, <3>3
  <2>3. QED
    BY <1>1, <2>1, <2>2 DEF GateInv, IsOrEdited, Stale
<1>4. QED
  BY <1>2, <1>3

\* The commits that receipts speak of.
LEMMA ReceiptCommits ==
  ASSUME IInv
  PROVE  /\ validated # None => validated.sel.source \in 1 .. Tip
         /\ prepared # None => prepared.validation.sel.source \in 1 .. Tip
         /\ final # None => final.head \in 1 .. Tip
<1>1. TypeOK /\ ValidatedInv /\ FinalInv
  BY DEF IInv
<1>2. Tip \in Nat /\ MaxCommits \in Nat
  BY <1>1, TipFacts
<1>3. validated # None => validated.sel.source \in 1 .. Tip
  <2>1. validated # None => validated.sel.source \in 1 .. MaxCommits
    BY <1>1 DEF TypeOK, Absent, Validation, Selection
  <2>2. QED
    BY <1>1, <1>2, <2>1 DEF ValidatedInv
<1>4. prepared # None => prepared.validation.sel.source \in 1 .. Tip
  <2>1. prepared # None => prepared.validation.sel.source \in 1 .. MaxCommits
    BY <1>1 DEF TypeOK, Absent, Evidence, Validation, Selection
  <2>2. QED
    BY <1>1, <1>2, <2>1 DEF ValidatedInv
<1>5. final # None => final.head \in 1 .. Tip
  <2>1. final # None => final.head \in 1 .. MaxCommits
    BY <1>1 DEF TypeOK, Absent, Evidence
  <2>2. QED
    BY <1>1, <1>2, <2>1 DEF FinalInv
<1>6. QED
  BY <1>3, <1>4, <1>5

\* Once all surfaces are new, maintainers do not make an old one.
LEMMA NewStays ==
  ASSUME IInv, Maintained, NEW commit, commit \in 1 .. Tip, NewFrom(commit)
  PROVE  \A f \in Surfaces : /\ work'[f].new /\ index'[f].new
                             /\ \A c \in commit .. Tip' : commits'[c].tree[f].new
<1>1. \A f \in Surfaces : /\ work[f].new /\ index[f].new
                          /\ \A c \in commit .. Tip : commits[c].tree[f].new
  BY DEF NewFrom
<1>2. Tip \in commit .. Tip
  BY MaintainFacts
<1>3. \A f \in Surfaces : f \in File
  BY DEF File
<1>4. \A f \in Surfaces : work'[f].new /\ index'[f].new
  <2>1. CASE CheckedOut
    BY <1>1, <1>2, <2>1 DEF CheckedOut
  <2>2. CASE Edited
    BY <1>1, <1>3, <2>2 DEF Edited, Touched
  <2>3. QED
    BY <2>1, <2>2 DEF Maintained
<1>5. \A f \in Surfaces : \A c \in commit .. Tip' : commits'[c].tree[f].new
  <2> SUFFICES ASSUME NEW f \in Surfaces, NEW c \in commit .. Tip'
               PROVE  commits'[c].tree[f].new
    OBVIOUS
  <2>1. (c \in commit .. Tip /\ c \in 1 .. Tip) \/ (c = Tip' /\ Tip' = Tip + 1)
    BY MaintainFacts
  <2>2. CASE c \in commit .. Tip /\ c \in 1 .. Tip
    BY <1>1, <2>2, MaintainFacts
  <2>3. CASE c = Tip' /\ Tip' = Tip + 1
    BY <1>4, <2>3, MaintainFacts
  <2>4. QED
    BY <2>1, <2>2, <2>3
<1>6. QED
  BY <1>4, <1>5

LEMMA MaintainKeepsStored ==
  ASSUME IInv, Maintained
  PROVE  Stored'
<1>1. /\ UNCHANGED <<validated, prepared, final, archives, gated>>
      /\ ValidatedInv /\ EvidenceIsSound /\ FinalInv
  BY DEF Maintained, evidence, IInv
<1>2. /\ validated # None => /\ validated.sel.source \in 1 .. Tip
                             /\ validated.sel.source \in 1 .. Tip'
                             /\ validated.sel.source <= Tip'
                             /\ commits'[validated.sel.source] = commits[validated.sel.source]
      /\ prepared # None => /\ prepared.validation.sel.source \in 1 .. Tip'
                            /\ prepared.validation.sel.source <= Tip'
                            /\ commits'[prepared.validation.sel.source]
                                 = commits[prepared.validation.sel.source]
      /\ final # None => /\ final.head \in 1 .. Tip'
                         /\ final.head <= Tip'
                         /\ commits'[final.head] = commits[final.head]
  <2>1. \A c \in 1 .. Tip : c \in 1 .. Tip' /\ c <= Tip' /\ commits'[c] = commits[c]
    <3>1. \A c \in 1 .. Tip : c \in 1 .. Tip' /\ commits'[c] = commits[c]
      BY MaintainFacts
    <3>2. \A c \in 1 .. Tip' : c <= Tip'
      BY MaintainFacts
    <3>3. QED
      BY <3>1, <3>2
  <2>2. QED
    BY <2>1, ReceiptCommits
<1>3. ValidatedInv'
  BY <1>1, <1>2 DEF ValidatedInv
<1>4. EvidenceIsSound'
  BY <1>1, <1>2 DEF EvidenceIsSound
<1>5. FinalInv'
  <2>1. SUFFICES ASSUME final # None
                 PROVE  \A f \in Surfaces : /\ work'[f].new /\ index'[f].new
                                            /\ \A c \in final.head .. Tip' : commits'[c].tree[f].new
    BY <1>1, <1>2 DEF FinalInv, NewFrom
  <2>2. final.head \in 1 .. Tip /\ NewFrom(final.head)
    BY <1>1, <2>1, ReceiptCommits DEF FinalInv
  <2>3. \A commit \in 1 .. Tip : NewFrom(commit) =>
          \A f \in Surfaces : /\ work'[f].new /\ index'[f].new
                              /\ \A c \in commit .. Tip' : commits'[c].tree[f].new
    BY NewStays
  <2>4. QED
    BY <2>2, <2>3
<1>6. QED
  BY <1>3, <1>4, <1>5 DEF Stored

LEMMA MaintainKeepsPackage ==
  ASSUME IInv, Maintained
  PROVE  PackageInv'
<1>1. /\ PackageInv
      /\ UNCHANGED <<validated, prepared, archives, package, pc, run>>
  BY DEF Maintained, evidence, IInv
<1>2. CASE pc = "idle"
  BY <1>1, <1>2 DEF PackageInv, Preparing
<1>3. CASE pc # "idle"
  <2>1. SourceTree' = SourceTree
    BY <1>3, BesideFacts
  <2>2. Preparing => run.sel.source = Tip' \/ commits'[Tip'].tree = index'
    <3>1. CASE Tip' = Tip
      <4>1. commits' = commits
        BY <3>1, MaintainFacts
      <4>2. index' = index
        BY <1>3, <4>1, BesideFacts DEF Edited
      <4>3. QED
        BY <1>1, <3>1, <4>1, <4>2 DEF PackageInv
    <3>2. CASE Tip' = Tip + 1
      BY <3>2, MaintainFacts
    <3>3. QED
      BY <3>1, <3>2, MaintainFacts
  <2>3. \A tree : (\A f \in File : work[f] = tree[f] \/ work[f].rev # SourceTree[f].rev)
          => \A f \in File : work'[f] = tree[f] \/ work'[f].rev # SourceTree'[f].rev
    BY <1>3, <2>1, BesideFacts
  <2>4. \A h \in run.sel.source .. Tip : h \in run.sel.source .. Tip'
    <3>1. run.sel.source \in Nat
      BY <1>3, BesideFacts
    <3>2. QED
      BY <3>1, MaintainFacts
  <2>5. pc = "packaged" =>
          /\ package \in Package /\ package.head \in run.sel.source .. Tip'
          /\ \A f \in File : work'[f] = package.tree[f] \/ work'[f].rev # SourceTree'[f].rev
    BY <1>1, <2>3, <2>4 DEF PackageInv, IsOrEdited
  <2>6. Preparing /\ pc \in {"record", "write", "index"} =>
          \A f \in File : work'[f] = Candidate(SourceTree)[f]
                          \/ work'[f].rev # SourceTree'[f].rev
    BY <1>1, <2>3 DEF PackageInv, IsOrEdited
  <2>7. QED
    BY <1>1, <2>1, <2>2, <2>5, <2>6 DEF PackageInv, Preparing, IsOrEdited
<1>4. QED
  BY <1>2, <1>3

LEMMA MaintainKeepsQualify ==
  ASSUME IInv, Maintained
  PROVE  QualifyInv'
<1>1. /\ QualifyInv
      /\ UNCHANGED <<prepared, final, archives, package, pc, run>>
  BY DEF Maintained, evidence, IInv
<1>2. CASE pc = "idle"
  BY <1>1, <1>2 DEF QualifyInv, Qualifying
<1>3. CASE pc # "idle"
  <2>1. SourceTree' = SourceTree
    BY <1>3, BesideFacts
  <2>2. \A c \in 1 .. Tip : /\ c \in 1 .. Tip' /\ commits'[c] = commits[c]
                            /\ \A h \in c .. Tip : h \in c .. Tip' /\ commits'[h] = commits[h]
    <3>1. \A c \in 1 .. Tip : \A h \in c .. Tip : h \in 1 .. Tip /\ h \in c .. Tip'
      BY MaintainFacts
    <3>2. QED
      BY <3>1, MaintainFacts
  <2>3. Qualifying => run.commit \in 1 .. Tip
    BY <1>1 DEF QualifyInv
  <2>4. pc \in {"upload", "uploaded", "push"} => run.commit \in 1 .. Tip
    BY <1>1 DEF QualifyInv
  <2>5. pc = "finished" => Qualifying
    BY <1>3 DEF IInv, RunInv, Qualifying
  <2>6. pc = "finished" =>
          /\ package \in Package /\ package.head \in run.commit .. Tip'
          /\ package.tree = commits'[package.head].tree
          /\ run.receipt \in Text
    BY <1>1, <2>2, <2>3, <2>5 DEF QualifyInv
  <2>7. \A commit \in 1 .. Tip : NewFrom(commit) =>
          \A f \in Surfaces : /\ work'[f].new /\ index'[f].new
                              /\ \A c \in commit .. Tip' : commits'[c].tree[f].new
    BY NewStays
  <2>8. Qualifying /\ pc \in {"record", "write"} =>
          /\ run.commit = run.sel.source + 1
          /\ package = [head |-> run.commit, tree |-> commits'[run.commit].tree]
          /\ commits'[run.commit].tree = Candidate(SourceTree)
          /\ \A f \in Surfaces : /\ work'[f].new /\ index'[f].new
                                 /\ \A c \in run.commit .. Tip' : commits'[c].tree[f].new
    BY <1>1, <2>2, <2>3, <2>7 DEF QualifyInv
  <2>9. pc = "uploaded" =>
          /\ run.receipt \in Package /\ run.receipt.head \in run.commit .. Tip'
          /\ run.receipt.tree = commits'[run.receipt.head].tree
    BY <1>1, <2>2, <2>4 DEF QualifyInv
  <2>10. Qualifying => run.commit \in 1 .. Tip'
    BY <2>2, <2>3
  <2>11. pc \in {"upload", "uploaded", "push"} => run.commit \in 1 .. Tip'
    BY <2>2, <2>4
  <2>12. QED
    BY <1>1, <2>1, <2>6, <2>8, <2>9, <2>10, <2>11 DEF QualifyInv, Qualifying, NewFrom
<1>4. QED
  BY <1>2, <1>3

\* A shared text stays one, when maintainers bring new texts only.
LEMMA SharedStays ==
  ASSUME IInv, Maintained, pc # "idle", NEW text, text.rev \in Nat, text.rev <= edits,
         SharedManifest(text),
         \/ text = work["manifest"] \/ text.rev = SourceTree["manifest"].rev
         \/ text.rev # work["manifest"].rev
  PROVE  SharedManifest(text)'
<1>1. /\ SourceTree' = SourceTree
      /\ index' \in {index, work'} /\ commits'[Tip'].tree \in {commits[Tip].tree, index'}
  BY BesideFacts, MaintainFacts DEF Edited
<1>2. work'["manifest"] = work["manifest"] \/ work'["manifest"].rev = edits + 1
  BY BesideFacts DEF Edited, Touched, File, Surfaces
<1>3. edits \in Nat
  BY MaintainFacts
<1>4. QED
  BY <1>1, <1>2, <1>3 DEF SharedManifest

LEMMA MaintainKeepsEdit ==
  ASSUME IInv, Maintained
  PROVE  EditInv'
<1>1. EditInv /\ UNCHANGED <<pc, run>>
  BY DEF Maintained, IInv
<1>2. CASE pc = "idle"
  BY <1>1, <1>2 DEF EditInv, Editing
<1>3. CASE pc # "idle"
  <2>1. /\ SourceTree' = SourceTree /\ torn' = torn
        /\ \A f \in File : work'[f].new = work[f].new
        /\ \A f \in File : work'[f] = work[f] \/ work'[f].rev = edits + 1
        /\ \A f \in File : work'[f] = work[f] \/ work'[f].rev # SourceTree[f].rev
        /\ Surfaces \subseteq File /\ "manifest" \in File
    BY <1>3, BesideFacts DEF Edited, Touched, File, Surfaces
  <2>2. /\ edits \in Nat /\ edits' \in {edits, edits + 1}
        /\ \A f \in File : work[f].rev \in Nat /\ work[f].rev <= edits
        /\ work \in Tree
    BY MaintainFacts, TreeTexts DEF FreshInv
  <2>3. SharedManifest(work["manifest"]) => SharedManifest(work["manifest"])'
    <3>1. CASE work'["manifest"] = work["manifest"]
      BY <1>3, <2>1, <2>2, <3>1, SharedStays DEF SharedManifest
    <3>2. CASE work'["manifest"].rev = edits + 1
      <4>1. /\ index' \in {index, work'}
            /\ commits'[Tip'].tree \in {commits[Tip].tree, index'}
        BY <1>3, BesideFacts, MaintainFacts DEF Edited
      <4>2. work'["manifest"] = work["manifest"]
            \/ /\ work'["manifest"].rev # index["manifest"].rev
               /\ work'["manifest"].rev # commits[Tip].tree["manifest"].rev
        BY <1>3, <2>1, BesideFacts
      <4>3. CASE work'["manifest"] # work["manifest"]
        BY <4>1, <4>2, <4>3 DEF SharedManifest
      <4>4. QED
        BY <3>1, <4>3
    <3>3. QED
      BY <2>1, <3>1, <3>2
  <2>4. CASE pc = "copy"
    <3>1. Admissible(work)'
      BY <1>1, <2>1, <2>4 DEF EditInv, Admissible
    <3>2. QED
      BY <1>1, <2>1, <2>3, <2>4, <3>1 DEF EditInv, Editing
  <2>5. CASE Editing
    <3> DEFINE copy == run.backup
    <3>1. /\ copy \in Tree /\ Admissible(copy)
          /\ \A f \in File : copy[f].rev <= edits
          /\ \A f \in File : \/ work[f] \in {copy[f], Candidate(SourceTree)[f]}
                             \/ work[f].rev \notin {SourceTree[f].rev, copy[f].rev}
          /\ \A f \in Surfaces : copy[f].new => work[f].new
          /\ torn = {} /\ copy["manifest"].new => \A f \in Surfaces : copy[f].new
          /\ SharedManifest(work["manifest"]) /\ SharedManifest(copy["manifest"])
      BY <2>5, EditingFacts
    <3>2. \A f \in File : copy[f].rev \in Nat
      BY <3>1, TreeTexts
    <3> HIDE DEF copy
    <3>3. \A f \in File : \/ work'[f] = work[f]
                          \/ work'[f].rev \notin {SourceTree[f].rev, copy[f].rev}
      BY <2>1, <2>2, <3>1, <3>2
    <3>4. SharedManifest(copy["manifest"])'
      <4>1. Candidate(SourceTree)["manifest"].rev = SourceTree["manifest"].rev
        BY <1>3, <2>1, BesideFacts, CandidateFacts
      <4>2. \/ copy["manifest"] = work["manifest"]
            \/ copy["manifest"].rev = SourceTree["manifest"].rev
            \/ copy["manifest"].rev # work["manifest"].rev
        BY <2>1, <3>1, <4>1
      <4>3. SharedManifest(copy["manifest"])
            /\ copy["manifest"].rev \in Nat /\ copy["manifest"].rev <= edits
        BY <2>1, <3>1, <3>2
      <4> DEFINE text == copy["manifest"]
      <4>4. text' = text
        BY <1>1 DEF copy
      <4> HIDE DEF text
      <4>5. \A t : /\ t.rev \in Nat /\ t.rev <= edits /\ SharedManifest(t)
                   /\ \/ t = work["manifest"] \/ t.rev = SourceTree["manifest"].rev
                      \/ t.rev # work["manifest"].rev
                   => \A tree \in {index', commits'[Tip'].tree} :
                        t.rev # SourceTree'["manifest"].rev /\ t.rev = tree["manifest"].rev
                          => t = tree["manifest"]
        BY <1>3, SharedStays DEF SharedManifest
      <4>6. QED
        BY <4>2, <4>3, <4>4, <4>5 DEF SharedManifest, text
    <3>5. Admissible(copy)'
      BY <1>1, <2>1, <3>1 DEF Admissible, copy
    <3>6. /\ \A f \in File : copy[f].rev <= edits'
          /\ \A f \in File : \/ work'[f] \in {copy[f], Candidate(SourceTree)[f]}
                             \/ work'[f].rev \notin {SourceTree[f].rev, copy[f].rev}
          /\ \A f \in Surfaces : copy[f].new => work'[f].new
      BY <2>1, <2>2, <3>1, <3>2, <3>3
    <3>7. ASSUME pc = "edit"
          PROVE  /\ run.todo \in Ends(EditOrder)
                 /\ \A f \in Surfaces \ Listed(run.todo) : work'[f].new
      BY <1>1, <2>1, <2>5, <3>7 DEF EditInv
    <3>8. ASSUME pc = "rollback"
          PROVE  /\ run.todo \in Ends(PathOrder)
                 /\ \A f \in Surfaces \ (Listed(run.todo) \cup torn) :
                      work'[f] = copy[f] \/ IsForeign(f)'
      <4>1. /\ run.todo \in Ends(PathOrder)
            /\ \A f \in Surfaces \ (Listed(run.todo) \cup torn) :
                 work[f] = copy[f] \/ IsForeign(f)
        BY <1>1, <2>5, <3>8 DEF EditInv, copy
      <4>2. \A f \in Surfaces : work'[f] = work[f] \/ IsForeign(f)'
        BY <1>1, <2>1, <3>3 DEF IsForeign, copy
      <4>3. \A f \in Surfaces : work'[f] = work[f] /\ IsForeign(f) => IsForeign(f)'
        BY <1>1, <2>1 DEF IsForeign
      <4>4. QED
        BY <4>1, <4>2, <4>3
    <3>9. QED
      BY <1>1, <2>1, <2>3, <2>5, <3>1, <3>4, <3>5, <3>6, <3>7, <3>8
         DEF EditInv, Editing, copy
  <2>6. CASE ~ Editing /\ pc # "copy"
    BY <1>1, <2>6 DEF EditInv, Editing
  <2>7. QED
    BY <2>4, <2>5, <2>6
<1>4. QED
  BY <1>2, <1>3

LEMMA MaintainKeepsManifest ==
  ASSUME IInv, Maintained
  PROVE  ManifestInv'
<1>1. SUFFICES ASSUME torn' = {}, pc # "rollback",
                      NEW tree \in {index', commits'[Tip'].tree},
                      work'["manifest"].new, ~ tree["manifest"].new,
                      work'["manifest"].rev = tree["manifest"].rev
               PROVE  \A f \in Surfaces : work'[f].new
  BY DEF ManifestInv, Maintained
<1>2. Edited
  BY <1>1, MaintainFacts DEF Maintained, CheckedOut
<1>3. /\ torn = {}
      /\ \A f \in Surfaces : work'[f].new = work[f].new
      /\ "manifest" \in File
  BY <1>1, <1>2 DEF Edited, Touched, File, Surfaces
<1>4. tree # work'
  BY <1>1
<1>5. PICK old \in {index, commits[Tip].tree} : work["manifest"].rev = old["manifest"].rev
        /\ work["manifest"].new /\ ~ old["manifest"].new
  <2>1. /\ work["manifest"].rev \in Nat /\ work["manifest"].rev <= edits
        /\ index["manifest"].rev \in Nat /\ index["manifest"].rev <= edits
        /\ commits[Tip].tree["manifest"].rev \in Nat
        /\ commits[Tip].tree["manifest"].rev <= edits
        /\ edits \in Nat
    <3>1. Tip \in 1 .. Tip
      BY MaintainFacts
    <3>2. QED
      BY <1>3, <3>1, MaintainFacts, TreeTexts DEF FreshInv
  <2>2. tree = index' \/ tree = commits[Tip].tree
    BY <1>1, MaintainFacts
  <2>3. CASE tree = index' /\ index' = index
    BY <1>1, <1>2, <1>3, <2>1, <2>3 DEF Edited, Touched
  <2>4. CASE tree = index' /\ Touched(index, index') /\ work' = work
    BY <1>1, <1>3, <2>1, <2>4 DEF Touched
  <2>5. CASE tree = commits[Tip].tree
    BY <1>1, <1>2, <1>3, <2>1, <2>5 DEF Edited, Touched
  <2>6. QED
    BY <1>2, <1>4, <2>2, <2>3, <2>4, <2>5 DEF Edited
<1>6. \A f \in Surfaces : work[f].new
  <2>1. ManifestInv
    BY DEF IInv
  <2>2. QED
    BY <1>1, <1>3, <1>5, <2>1 DEF ManifestInv
<1>7. QED
  BY <1>3, <1>6

LEMMA MaintainKeeps ==
  ASSUME IInv, Maintain
  PROVE  IInv'
<1>1. Maintained
  BY MaintainShape DEF IInv
<1>2. QED
  BY <1>1, MaintainKeepsType, MaintainKeepsFresh, MaintainKeepsRun, MaintainKeepsGate,
     MaintainKeepsStored, MaintainKeepsPackage, MaintainKeepsQualify, MaintainKeepsEdit,
     MaintainKeepsManifest DEF IInv, Stored

-----------------------------------------------------------------------------
(***************************************************************************)
(* Theorems of the specification.                                          *)
(***************************************************************************)
LEMMA StutterKeeps ==
  ASSUME IInv, UNCHANGED vars
  PROVE  IInv'
<1> USE DEF vars, repository, evidence, history
<1>1. Tip' = Tip /\ SourceTree' = SourceTree
  BY DEF Tip, SourceTree
<1>2. TypeOK' /\ FreshInv'
  BY <1>1 DEF IInv, TypeOK, FreshInv
<1>3. RunInv' /\ GateInv'
  BY <1>1
     DEF IInv, RunInv, GateInv, Verifying, Preparing, Qualifying, Selectable, Renderable,
         IsOrEdited, Stale
<1>4. ValidatedInv' /\ EvidenceIsSound' /\ FinalInv'
  BY <1>1 DEF IInv, ValidatedInv, EvidenceIsSound, FinalInv, NewFrom
<1>5. PackageInv' /\ QualifyInv'
  BY <1>1 DEF IInv, PackageInv, QualifyInv, Preparing, Qualifying, IsOrEdited, NewFrom
<1>6. EditInv' /\ ManifestInv'
  BY <1>1 DEF IInv, EditInv, Editing, Admissible, SharedManifest, IsForeign, ManifestInv
<1>7. QED
  BY <1>2, <1>3, <1>4, <1>5, <1>6 DEF IInv

LEMMA NextKeeps == IInv /\ [Next]_vars => IInv'
<1> SUFFICES ASSUME IInv, [Next]_vars PROVE IInv'
  OBVIOUS
<1>1. ASSUME NEW sel \in Selection,
             \/ Preflight(sel) \/ Verify(sel) \/ PrepareSelected(sel)
             \/ \E command \in {"check", "commit"} : Prepared(sel, command)
      PROVE  IInv'
  BY <1>1, PreflightKeeps, VerifyKeeps, PrepareSelectedKeeps, PreparedKeeps
<1>2. ASSUME PreflightAgain \/ RunGate \/ AdmitValidation \/ RetainReceipts \/ RetireStale
             \/ WriteValidation
      PROVE  IInv'
  BY <1>2, PreflightAgainKeeps, RunGateKeeps, AdmitValidationKeeps, RetainReceiptsKeeps,
     RetireStaleKeeps, WriteValidationKeeps
<1>3. ASSUME CopySurfaces \/ EditSurface \/ EditsDone \/ RollbackSurface \/ RollbackDone
      PROVE  IInv'
  BY <1>3, CopySurfacesKeeps, EditSurfaceKeeps, EditsDoneKeeps, RollbackSurfaceKeeps,
     RollbackDoneKeeps
<1>4. ASSUME InspectPrepared \/ PackageCandidate \/ AdmitPackage \/ RecordPackage
             \/ WritePrepared \/ CheckIndex
      PROVE  IInv'
  BY <1>4, InspectPreparedKeeps, PackageCandidateKeeps, AdmitPackageKeeps, RecordPackageKeeps,
     WritePreparedKeeps, CheckIndexKeeps
<1>5. ASSUME NEW commit \in 1 .. MaxCommits, QualifyReleaseAt(commit) \/ PushCheck(commit)
      PROVE  IInv'
  BY <1>5, QualifyReleaseAtKeeps, PushCheckKeeps
<1>6. ASSUME PackageFinal \/ AdmitFinal \/ WriteFinal \/ PushCheckAgain
             \/ Publish \/ Upload \/ PublishedAgain
      PROVE  IInv'
  BY <1>6, PackageFinalKeeps, AdmitFinalKeeps, WriteFinalKeeps, PushCheckAgainKeeps,
     PublishKeeps, UploadKeeps, PublishedAgainKeeps
<1>7. ASSUME Maintain \/ Crash \/ UNCHANGED vars
      PROVE  IInv'
  BY <1>7, MaintainKeeps, CrashKeeps, StutterKeeps
<1>8. QED
  BY <1>1, <1>2, <1>3, <1>4, <1>5, <1>6, <1>7 DEF Next

\* At every step, receipts, archives, working tree, index and commits are
\* related as a resumed command needs them, whatever was done meanwhile.
THEOREM InductiveInvariant == Spec => []IInv
BY InitIInv, NextKeeps, PTL DEF Spec

\* Every variable keeps its type.
THEOREM TypeCorrect == Spec => []TypeOK
<1>1. IInv => TypeOK
  BY DEF IInv
<1>2. QED
  BY <1>1, InductiveInvariant, PTL

\* Receipts name retained archives of the trees they speak of, one source.
THEOREM SoundEvidence == Spec => []EvidenceIsSound
<1>1. IInv => EvidenceIsSound
  BY DEF IInv
<1>2. QED
  BY <1>1, InductiveInvariant, PTL

LEMMA RollbackLeavesCopy == IInv => RollbackIsExact
<1> SUFFICES ASSUME IInv, pc = "rollback", run.todo = <<>>,
                    NEW f \in Surfaces \ torn, work[f] # run.backup[f]
             PROVE  IsForeign(f)
  BY DEF RollbackIsExact
<1>1. Editing
  BY DEF IInv, RunInv, Editing
<1>2. Listed(run.todo) = {}
  BY DEF Listed
<1>3. QED
  BY <1>1, <1>2 DEF IInv, EditInv

\* What a rollback that ended did not give its former text back is somebody
\* else's, or the lock that somebody edited before it was copied.
THEOREM ExactRollback == Spec => []RollbackIsExact
BY RollbackLeavesCopy, InductiveInvariant, PTL

LEMMA IdleResumes == IInv => PreparationResumes
<1> SUFFICES ASSUME IInv, pc = "idle", torn = {}, NEW sel \in Selection,
                    ValidatedFor(sel), Renderable(sel), Tip = sel.source,
                    TreeIsRelease(sel, work, TRUE)
             PROVE  IF work["manifest"].new
                    THEN PreparedHolds(sel)
                    ELSE PrepareHolds(sel) /\ (IndexIsRelease(sel) => PreflightHolds(sel))
  BY DEF PreparationResumes
<1> DEFINE source == commits[sel.source].tree
<1>1. /\ TypeOK /\ source \in Tree /\ work \in Tree
      /\ sel.source \in 1 .. Tip /\ Selectable(sel)
      /\ \A f \in Surfaces : ~ source[f].new
  BY ValidatedSource, CommitTree DEF IInv, TypeOK, Selectable, Renderable
<1>2. ASSUME work["manifest"].new PROVE PreparedHolds(sel)
  <2>1. "manifest" \in Surfaces /\ Surfaces \subseteq File
    BY DEF Surfaces, File
  <2>2. work["manifest"] \in {source["manifest"], Candidate(source)["manifest"]}
    BY <2>1 DEF TreeIsRelease
  <2>3. work["manifest"].rev = source["manifest"].rev
    BY <1>1, <2>1, <2>2, CandidateFacts
  <2>4. \A f \in Surfaces : work[f].new
    <3>1. ManifestInv /\ commits[Tip].tree = source
      BY DEF IInv
    <3>2. QED
      BY <1>1, <1>2, <2>1, <2>3, <3>1 DEF ManifestInv
  <2>5. \A f \in Surfaces : work[f] = Candidate(source)[f]
    BY <1>1, <2>4 DEF TreeIsRelease
  <2>6. TreeIsRelease(sel, work, FALSE)
    BY <2>5 DEF TreeIsRelease
  <2>7. QED
    BY <2>6 DEF PreparedHolds
<1>3. ASSUME ~ work["manifest"].new, IndexIsRelease(sel) PROVE PreflightHolds(sel)
  <2>1. setup = validated.setup /\ validated.setup \in 1 .. edits + 1
    BY DEF ValidatedFor, InputsHold, IInv, FreshInv
  <2>2. edits \in Nat
    BY <1>1, ReleaseAssumption DEF TypeOK
  <2>3. setup # Override
    BY <2>1, <2>2 DEF Override
  <2>4. QED
    BY <1>1, <1>3, <2>3 DEF PreflightHolds
<1>4. QED
  BY <1>2, <1>3 DEF PrepareHolds

\* The version in the manifest tells how to go on with a preparation that was
\* cut short before it began to roll back.
THEOREM ResumablePreparation == Spec => []PreparationResumes
BY IdleResumes, InductiveInvariant, PTL

\* Which steps report a success, and which.
LEMMA ReportSteps ==
  ASSUME IInv, Next
  PROVE  \/ outcome' = "ended"
         \/ outcome' = "admitted"
         \/ outcome' = "committable" /\ CheckIndex
         \/ outcome' = "pushable" /\ PushCheckAgain
         \/ outcome' = "published" /\ PublishedAgain
<1>1. pc # "idle" => outcome = "ended"
  BY DEF IInv, RunInv
<1> USE DEF Go, End, Fail, Succeed, Forget
<1>2. ASSUME NEW sel \in Selection,
             \/ Preflight(sel) \/ Verify(sel) \/ PrepareSelected(sel)
             \/ \E command \in {"check", "commit"} : Prepared(sel, command)
      PROVE  outcome' = "ended"
  BY <1>2 DEF Preflight, Verify, PrepareSelected, Prepared, Start
<1>3. ASSUME PreflightAgain PROVE outcome' \in {"ended", "admitted"}
  BY <1>3 DEF PreflightAgain
<1>4. ASSUME RunGate \/ AdmitValidation \/ RetainReceipts \/ RetireStale \/ WriteValidation
      PROVE  outcome' = "ended"
  BY <1>1, <1>4 DEF RunGate, AdmitValidation, RetainReceipts, RetireStale, WriteValidation
<1>5. ASSUME CopySurfaces \/ EditSurface \/ EditsDone \/ RollbackSurface \/ RollbackDone
      PROVE  outcome' = "ended"
  BY <1>1, <1>5 DEF CopySurfaces, EditSurface, EditsDone, RollbackSurface, RollbackDone
<1>6. ASSUME InspectPrepared \/ PackageCandidate \/ AdmitPackage \/ RecordPackage
             \/ WritePrepared
      PROVE  outcome' = "ended"
  BY <1>1, <1>6
     DEF InspectPrepared, PackageCandidate, AdmitPackage, RecordPackage, WritePrepared
<1>7. ASSUME CheckIndex PROVE outcome' \in {"ended", "committable"}
  BY <1>7 DEF CheckIndex
<1>8. ASSUME NEW commit \in 1 .. MaxCommits, QualifyReleaseAt(commit) \/ PushCheck(commit)
      PROVE  outcome' = "ended"
  BY <1>8 DEF QualifyReleaseAt, PushCheck
<1>9. ASSUME PackageFinal \/ AdmitFinal \/ WriteFinal \/ Publish \/ Upload
      PROVE  outcome' = "ended"
  BY <1>1, <1>9 DEF PackageFinal, AdmitFinal, WriteFinal, Publish, Upload
<1>10. ASSUME PushCheckAgain PROVE outcome' \in {"ended", "pushable"}
  BY <1>10 DEF PushCheckAgain
<1>11. ASSUME PublishedAgain PROVE outcome' \in {"ended", "published"}
  BY <1>11 DEF PublishedAgain
<1>12. ASSUME Maintain PROVE outcome' = "ended"
  BY <1>12, MaintainShape DEF Maintained, IInv
<1>13. ASSUME Crash PROVE outcome' = "ended"
  BY <1>13 DEF Crash
<1> HIDE DEF Go, End, Fail, Succeed, Forget
<1>14. QED
  BY <1>2, <1>3, <1>4, <1>5, <1>6, <1>7, <1>8, <1>9, <1>10, <1>11, <1>12, <1>13 DEF Next

LEMMA ReceiptSteps ==
  ASSUME IInv, Next
  PROVE  /\ validated' = validated \/ WriteValidation
         /\ prepared' = prepared \/ RetireStale \/ WritePrepared
         /\ final' = final \/ WriteFinal
<1> USE DEF evidence
<1>1. ASSUME NEW sel \in Selection,
             \/ Preflight(sel) \/ Verify(sel) \/ PrepareSelected(sel)
             \/ \E command \in {"check", "commit"} : Prepared(sel, command)
      PROVE  UNCHANGED <<validated, prepared, final>>
  BY <1>1 DEF Preflight, Verify, PrepareSelected, Prepared
<1>2. ASSUME PreflightAgain \/ RunGate \/ AdmitValidation \/ RetainReceipts
      PROVE  UNCHANGED <<validated, prepared, final>>
  BY <1>2 DEF PreflightAgain, RunGate, AdmitValidation, RetainReceipts
<1>3. ASSUME CopySurfaces \/ EditSurface \/ EditsDone \/ RollbackSurface \/ RollbackDone
      PROVE  UNCHANGED <<validated, prepared, final>>
  BY <1>3 DEF CopySurfaces, EditSurface, EditsDone, RollbackSurface, RollbackDone
<1>4. ASSUME InspectPrepared \/ PackageCandidate \/ AdmitPackage \/ RecordPackage \/ CheckIndex
      PROVE  UNCHANGED <<validated, prepared, final>>
  BY <1>4 DEF InspectPrepared, PackageCandidate, AdmitPackage, RecordPackage, CheckIndex
<1>5. ASSUME NEW commit \in 1 .. MaxCommits, QualifyReleaseAt(commit) \/ PushCheck(commit)
      PROVE  UNCHANGED <<validated, prepared, final>>
  BY <1>5 DEF QualifyReleaseAt, PushCheck
<1>6. ASSUME PackageFinal \/ AdmitFinal \/ PushCheckAgain \/ Publish \/ Upload \/ PublishedAgain
      PROVE  UNCHANGED <<validated, prepared, final>>
  BY <1>6 DEF PackageFinal, AdmitFinal, PushCheckAgain, Publish, Upload, PublishedAgain
<1>7. ASSUME Maintain \/ Crash
      PROVE  UNCHANGED <<validated, prepared, final>>
  <2>1. CASE Maintain
    BY <2>1, MaintainShape DEF Maintained, IInv
  <2>2. CASE Crash
    BY <2>2 DEF Crash
  <2>3. QED
    BY <1>7, <2>1, <2>2
<1>8. /\ WriteValidation => UNCHANGED <<prepared, final>>
      /\ RetireStale \/ WritePrepared => UNCHANGED <<validated, final>>
      /\ WriteFinal => UNCHANGED <<validated, prepared>>
  BY DEF WriteValidation, RetireStale, WritePrepared, WriteFinal
<1>9. QED
  BY <1>1, <1>2, <1>3, <1>4, <1>5, <1>6, <1>7, <1>8 DEF Next

\* No receipt is lost: what is replaced or retired was copied, what
\* preparation and final qualification write was not there.
THEOREM KeptReceipts == Spec => ReceiptsAreKept
<1>1. ASSUME IInv, [Next]_vars
      PROVE  [/\ validated' # validated => validated \in run.kept \cup {None}
              /\ prepared' # prepared => prepared \in run.kept \cup {None}
              /\ final' # final => final = None]_vars
  <2>1. ASSUME WriteValidation PROVE validated \in run.kept \cup {None}
    BY <1>1, <2>1 DEF WriteValidation, IInv, GateInv
  <2>2. ASSUME RetireStale PROVE prepared' # prepared => prepared \in run.kept \cup {None}
    BY <1>1, <2>2 DEF RetireStale, IInv, GateInv
  <2>3. ASSUME WritePrepared PROVE prepared = None
    BY <1>1, <2>3 DEF WritePrepared, IInv, RunInv, PackageInv, Qualifying
  <2>4. ASSUME WriteFinal PROVE final = None
    BY <1>1, <2>4 DEF WriteFinal, IInv, QualifyInv, Qualifying
  <2>5. QED
    BY <1>1, <2>1, <2>2, <2>3, <2>4, ReceiptSteps
<1>2. QED
  BY <1>1, InductiveInvariant, PTL DEF Spec, ReceiptsAreKept

\* What both commands that report a release look at last.
LEMMA TaggedIsQualified ==
  ASSUME IInv, NEW commit \in 1 .. MaxCommits, NEW sel, TaggedHolds(commit),
         prepared.validation.sel = sel
  PROVE  Qualified(commit, sel)
<1>1. /\ prepared \in Evidence
      /\ commit = sel.source + 1 /\ commits[commit].release
      /\ commits[commit].tree = Candidate(commits[sel.source].tree)
  BY ReleaseCommitFacts DEF TaggedHolds
<1>2. tag = commit /\ final # None /\ final.head = commit /\ setup = final.validation.setup
  BY DEF TaggedHolds, EvidenceHolds, InputsHold
<1>3. [tree |-> commits[sel.source].tree, setup |-> setup] \in gated
  BY <1>1, <1>2, NoneAssumption DEF IInv, EvidenceIsSound, ValidatedInv
<1>4. [head |-> commit, tree |-> commits[commit].tree] \in archives
  BY <1>2 DEF IInv, EvidenceIsSound
<1>5. QED
  BY <1>1, <1>2, <1>3, <1>4 DEF Qualified

\* A release that is reported pushable or published is the gate's source with
\* the version replaced, tagged, its own package retained and, once it is
\* published, uploaded.
THEOREM AdmittedRelease == Spec => AdmittedReleaseIsQualified
<1>1. ASSUME IInv, [Next]_vars
      PROVE  [/\ outcome' \in {"pushable", "published"} /\ pc # pc' =>
                   Qualified(run.commit, run.sel)
              /\ outcome' = "published" /\ pc # pc' =>
                   run.receipt = [head |-> run.commit, tree |-> commits[run.commit].tree]]_vars
  <2>1. pc \in {"push", "upload", "uploaded"} => run.commit \in 1 .. Tip
    BY <1>1 DEF IInv, QualifyInv
  <2>2. Tip \in 1 .. MaxCommits
    BY <1>1 DEF IInv, TypeOK
  <2>3. pc \in {"push", "uploaded"} => run.commit \in 1 .. MaxCommits
    BY <2>1, <2>2, ReleaseAssumption
  <2>4. ASSUME PushCheckAgain, outcome' = "pushable" PROVE Qualified(run.commit, run.sel)
    <3>1. pc = "push" /\ TaggedHolds(run.commit) /\ prepared.validation.sel = run.sel
      BY <2>4 DEF PushCheckAgain, End
    <3>2. QED
      BY <1>1, <2>3, <3>1, TaggedIsQualified
  <2>5. ASSUME PublishedAgain, outcome' = "published"
        PROVE  /\ Qualified(run.commit, run.sel)
               /\ run.receipt = [head |-> run.commit, tree |-> commits[run.commit].tree]
    <3>1. pc = "uploaded" /\ IsPublishable(run.commit) /\ prepared.validation.sel = run.sel
      BY <2>5 DEF PublishedAgain, End
    <3>2. TaggedHolds(run.commit) /\ Tip = run.commit
      BY <3>1 DEF IsPublishable, TaggedHolds
    <3>3. Qualified(run.commit, run.sel)
      BY <1>1, <2>3, <3>1, <3>2, TaggedIsQualified
    <3>4. /\ run.receipt \in Package /\ run.receipt.head \in run.commit .. Tip
          /\ run.receipt.tree = commits[run.receipt.head].tree
      BY <1>1, <3>1 DEF IInv, QualifyInv
    <3>5. run.receipt.head = run.commit
      BY <2>2, <3>2, <3>4, ReleaseAssumption
    <3>6. run.receipt = [head |-> run.commit, tree |-> commits[run.commit].tree]
      BY <3>4, <3>5 DEF Package
    <3>7. QED
      BY <3>3, <3>6
  <2>6. CASE Next
    <3>1. outcome' = "pushable" => PushCheckAgain
      BY <1>1, <2>6, ReportSteps
    <3>2. outcome' = "published" => PublishedAgain
      BY <1>1, <2>6, ReportSteps
    <3>3. QED
      BY <2>4, <2>5, <3>1, <3>2
  <2>7. CASE UNCHANGED vars
    BY <2>7
  <2>8. QED
    BY <1>1, <2>6, <2>7
<1>2. QED
  BY <1>1, InductiveInvariant, PTL DEF Spec, AdmittedReleaseIsQualified

LEMMA CheckIndexQualifies ==
  ASSUME IInv, CheckIndex, outcome' = "committable"
  PROVE  CheckedIndexQualifies'
<1> DEFINE source == commits[run.sel.source].tree
<1>1. /\ pc = "index" /\ IndexIsRelease(run.sel) /\ index = work
      /\ { f \in File : index[f] # commits[Tip].tree[f] }
           = { f \in File : work[f] # commits[run.sel.source].tree[f] }
      /\ UNCHANGED <<repository, evidence>>
  BY DEF CheckIndex, End
<1>2. /\ run.command = "commit" /\ Preparing
      /\ Selectable(run.sel) /\ run.sel \in Selection
  BY <1>1 DEF IInv, RunInv, Preparing, Renderable
<1>3. /\ prepared \in Evidence /\ prepared.validation.sel = run.sel
      /\ prepared.lock = Rendered(source["lock"])
      /\ \A f \in File : work[f] = Candidate(source)[f] \/ work[f].rev # source[f].rev
      /\ run.sel.source = Tip \/ commits[Tip].tree = index
  BY <1>1, <1>2 DEF IInv, PackageInv, IsOrEdited, SourceTree
<1>4. run.sel.source \in 1 .. Tip
  <2>1. run.sel.source \in 1 .. MaxCommits /\ Tip \in Nat /\ run.sel.source <= Tip
    BY <1>2, TipFacts DEF IInv, Selection, Selectable
  <2>2. QED
    BY <2>1, ReleaseAssumption
<1>5. source \in Tree /\ index \in Tree
  BY <1>4, CommitTree DEF IInv, TypeOK
<1>6. index = Candidate(source)
  <2>1. \A f \in File : index[f] = Candidate(source)[f]
    BY <1>1, <1>3 DEF IndexIsRelease
  <2>2. QED
    BY <1>5, <2>1, CandidateFacts, SameTree
<1>7. "manifest" \in Surfaces /\ "manifest" \in File /\ "lock" \in Surfaces
  BY DEF Surfaces, File
<1>8. run.sel.source = Tip
  <2>1. work["manifest"] # source["manifest"]
    <3>1. ~ source["manifest"].new
      BY <1>2, <1>7 DEF Selectable
    <3>2. Candidate(source)["manifest"].new
      BY <1>5, <1>7, CandidateFacts
    <3>3. QED
      BY <1>1, <1>6, <3>1, <3>2
  <2>2. index["manifest"] # commits[Tip].tree["manifest"]
    BY <1>1, <1>7, <2>1
  <2>3. QED
    BY <1>3, <2>2
<1>9. TreeIsRelease(run.sel, index, FALSE)
  BY <1>4, <1>5, <1>6, ReleaseTree DEF IInv
<1>10. index["lock"] = prepared.lock
  BY <1>3, <1>5, <1>6, <1>7, CandidateFacts
<1>11. prepared # None
  BY <1>3, NoneAssumption
<1>12. /\ prepared' # None
       /\ prepared'.validation.sel.source = Tip'
       /\ TreeIsRelease(prepared.validation.sel, index, FALSE)'
       /\ work' = index'
       /\ index'["lock"] = prepared'.lock
  BY <1>1, <1>3, <1>8, <1>9, <1>10, <1>11 DEF repository, evidence, TreeIsRelease, Tip
<1>13. QED
  BY <1>12 DEF CheckedIndexQualifies

\* What the commit check lets through is the whole prepared edit of the tip.
THEOREM QualifyingIndex == Spec => []CheckedIndexQualifies
<1>1. Init => CheckedIndexQualifies
  BY DEF Init, CheckedIndexQualifies
<1>2. IInv /\ CheckedIndexQualifies /\ [Next]_vars => CheckedIndexQualifies'
  <2> SUFFICES ASSUME IInv, CheckedIndexQualifies, [Next]_vars PROVE CheckedIndexQualifies'
    OBVIOUS
  <2>1. CASE Next
    <3>1. outcome' = "committable" => CheckIndex
      BY <2>1, ReportSteps
    <3>2. CASE outcome' = "committable"
      BY <3>1, <3>2, CheckIndexQualifies
    <3>3. CASE outcome' # "committable"
      BY <3>3 DEF CheckedIndexQualifies
    <3>4. QED
      BY <3>2, <3>3
  <2>2. CASE UNCHANGED vars
    BY <2>2 DEF vars, repository, evidence, CheckedIndexQualifies, TreeIsRelease, Tip
  <2>3. QED
    BY <2>1, <2>2
<1>3. QED
  BY <1>1, <1>2, InductiveInvariant, PTL DEF Spec
=============================================================================
