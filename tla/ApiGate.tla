------------------------------ MODULE ApiGate ------------------------------
(***************************************************************************)
(* The update of the wrapper to another upstream tree, from upstream.lock  *)
(* to a release: import, tools/gen_exports.py, tools/audit_snapshot.py and *)
(* the repository checks of tools/check_release.py.                        *)
(*                                                                         *)
(* The tools share the working tree and nothing orders them; a maintainer  *)
(* runs them in any order and any of them may be interrupted.  A tree is a *)
(* complete upstream source tree; the lock pins one by its digest.  There  *)
(* is one snapshot file per upstream tag, snapshots/<tag>.json.            *)
(***************************************************************************)
EXTENDS ApiDrift, Naturals, Sequences

CONSTANTS Trees,        \* upstream source trees
          ApiOf,        \* ApiOf[t]: the API clang reads from the headers of t
          TagOf,        \* TagOf[t]: the build number of the tag t came under
          MaxReleases,  \* bound: releases
          MaxDecisions  \* bound: reviewed drifts

ASSUME TagOfAssumption == TagOf \in [Trees -> Nat]
ASSUME ApiOfAssumption == ApiOf \in [Trees -> Apis]

Tags == {TagOf[t] : t \in Trees}
Outputs == {"declarations", "constants"}    \* llama.inc, typed_constants.inc

VARIABLES
    lock,        \* upstream.lock: the pinned tree
    vendored,    \* third_party/llama.cpp
    exports,     \* src/gen_exports: each output's text, None when cut off
    generating,  \* a running gen_exports: its tree and the outputs to write
    auditing,    \* a running audit --output: what it has read so far
    snapshots,   \* snapshots/<tag>.json: its lock identity and scanned tree
    acceptance,  \* the reviewed drift report for --accept-breaking-api
    published,   \* the releases: tree, exports and snapshot of each
    decided      \* history: pairs of trees somebody reviewed the drift of

toolVars == <<lock, vendored, exports, generating>>
auditVars == <<auditing>>
gateVars == <<snapshots, acceptance, decided>>
vars == <<toolVars, auditVars, gateVars, published>>

(* What gen_exports writes: a using-declaration for every name, and the    *)
(* constants with their values.                                            *)
ExportText(t) == [declarations |-> DOMAIN ApiOf[t].declarations,
                  constants |-> ApiOf[t].constants]

Report(pinned, scanned) == [identity |-> pinned, source |-> scanned]

(* The repository before its first update: one tree, everything in place.  *)
Init ==
    \E t \in Trees :
        /\ lock = t
        /\ vendored = t
        /\ exports = ExportText(t)
        /\ generating = None
        /\ auditing = None
        /\ snapshots = [tag \in Tags |->
                          IF tag = TagOf[t] THEN Report(t, t) ELSE None]
        /\ acceptance = None
        /\ published = <<>>
        /\ decided = {}

-----------------------------------------------------------------------------
(* Maintainer and import.                                                  *)

EditLock(t) ==
    /\ lock' = t
    /\ UNCHANGED <<vendored, exports, generating, auditVars, gateVars, published>>

Import ==
    /\ vendored' = lock
    /\ UNCHANGED <<lock, exports, generating, auditVars, gateVars, published>>

(* The drift between two trees is read and written down as acceptable.     *)
Decide(t, u) ==
    LET reviewed == decided \cup {<<t, u>>}
    IN  /\ Cardinality(reviewed) <= MaxDecisions
        /\ decided' = reviewed
        /\ acceptance' = ClassifyDrift(ApiOf[t], ApiOf[u])
        /\ UNCHANGED <<toolVars, auditVars, snapshots, published>>

-----------------------------------------------------------------------------
(* gen_exports: scan the headers, then write the outputs one after another.*)

StartExports ==
    /\ generating = None
    /\ generating' = [tree |-> vendored, left |-> Outputs]
    /\ UNCHANGED <<lock, vendored, exports, auditVars, gateVars, published>>

(* The outputs are written in the order of sync_outputs' arguments.        *)
OutputAtHand == IF "declarations" \in generating.left THEN "declarations"
                                                      ELSE "constants"

(* write_text opens the file, which empties it, and then fills it.         *)
OpenOutput ==
    /\ generating # None
    /\ exports[OutputAtHand] # None
    /\ exports' = [exports EXCEPT ![OutputAtHand] = None]
    /\ UNCHANGED <<lock, vendored, generating, auditVars, gateVars, published>>

(* Mutant: the generator goes on after its last output.                    *)
WriteOutputAgain ==
    /\ generating # None
    /\ exports[OutputAtHand] = None
    /\ exports' = [exports EXCEPT ![OutputAtHand] =
                                      ExportText(generating.tree)[OutputAtHand]]
    /\ generating' = [generating EXCEPT !.left = @ \ {OutputAtHand}]
    /\ UNCHANGED <<lock, vendored, auditVars, gateVars, published>>

WriteOutput ==
    /\ generating # None
    /\ exports[OutputAtHand] = None
    /\ exports' = [exports EXCEPT ![OutputAtHand] =
                                      ExportText(generating.tree)[OutputAtHand]]
    /\ generating' = IF generating.left = {OutputAtHand} THEN None
                     ELSE [generating EXCEPT !.left = @ \ {OutputAtHand}]
    /\ UNCHANGED <<lock, vendored, auditVars, gateVars, published>>

(* Interrupted, or a write failed: the outputs written so far stay, and    *)
(* the one that was opened stays cut off.                                  *)
StopExports ==
    /\ generating # None
    /\ generating' = None
    /\ UNCHANGED <<lock, vendored, exports, auditVars, gateVars, published>>

-----------------------------------------------------------------------------
(* audit_snapshot --output snapshots/<tag>.json [--accept-breaking-api], a *)
(* process of its own: the lock, the tree, the file that is there and the  *)
(* acceptance are read one after another, and the maintainer may change    *)
(* each of them in between.  One audit runs at a time.                     *)

(* main reads the lock, which names the output file too.                   *)
StartAudit ==
    /\ auditing = None
    /\ auditing' = [phase |-> "scan", pinned |-> lock, source |-> lock]
    /\ UNCHANGED <<toolVars, gateVars, published>>

(* collect_snapshot reads the sources that are there now.                  *)
ScanTree ==
    /\ auditing # None
    /\ auditing.phase = "scan"
    /\ auditing' = [auditing EXCEPT !.phase = "compare", !.source = vendored]
    /\ UNCHANGED <<toolVars, gateVars, published>>

(* The file that is there decides whether there is drift to accept, none   *)
(* without one; a breaking drift without its acceptance ends the audit.    *)
CompareWithPrevious ==
    /\ auditing # None
    /\ auditing.phase = "compare"
    /\ LET previous == snapshots[TagOf[auditing.pinned]]
           accepted == previous # None =>
                         AcceptanceSuffices(
                           ClassifyDrift(ApiOf[previous.source],
                                         ApiOf[auditing.source]),
                           acceptance)
       IN  auditing' = IF accepted THEN [auditing EXCEPT !.phase = "write"]
                                   ELSE None
    /\ UNCHANGED <<toolVars, gateVars, published>>

(* A temporary is written, and os.replace puts it in place as a whole.     *)
ReplaceSnapshot ==
    /\ auditing # None
    /\ auditing.phase = "write"
    /\ snapshots' = [snapshots EXCEPT ![TagOf[auditing.pinned]] =
                                  Report(auditing.pinned, auditing.source)]
    /\ auditing' = None
    /\ UNCHANGED <<toolVars, acceptance, decided, published>>

(* Interrupted, killed, or clang or a file operation failed: nothing shows.*)
StopAudit ==
    /\ auditing # None
    /\ auditing' = None
    /\ UNCHANGED <<toolVars, gateVars, published>>

-----------------------------------------------------------------------------
(* check_release on a commit of the working tree, in its order.            *)

(* load_identity and validate_version_transition, reduced to the tree: see *)
(* ReleasePipeline for the whole rule.                                     *)
TransitionHolds ==
    published # <<>> =>
        LET last == published[Len(published)].tree
        IN  TagOf[last] < TagOf[lock] \/ last = lock

(* gen_exports --check                                                     *)
ExportsMatch == exports = ExportText(vendored)

(* Mutant: the snapshot's identity is compared and not the report.         *)
SnapshotNamesLock == /\ snapshots[TagOf[lock]] # None
                     /\ snapshots[TagOf[lock]].identity = lock

(* audit_snapshot --check: the identity must be the lock's and the whole   *)
(* report the one generated now; an acceptance does not excuse drift.      *)
SnapshotMatches == snapshots[TagOf[lock]] = Report(lock, vendored)

Release ==
    /\ Len(published) < MaxReleases
    /\ TransitionHolds
    /\ vendored = lock                          \* import_upstream --check
    /\ ExportsMatch
    /\ SnapshotMatches
    /\ published' = Append(published, [tree |-> lock, exports |-> exports,
                                       snapshot |-> snapshots[TagOf[lock]]])
    /\ UNCHANGED <<toolVars, auditVars, gateVars>>

-----------------------------------------------------------------------------
Next == \/ \E t \in Trees : EditLock(t)
        \/ Import
        \/ \E t \in Trees : \E u \in Trees \ {t} : Decide(t, u)
        \/ StartExports
        \/ OpenOutput \/ WriteOutput \/ StopExports
        \/ StartAudit \/ ScanTree \/ CompareWithPrevious
        \/ ReplaceSnapshot \/ StopAudit
        \/ Release

Spec == Init /\ [][Next]_vars

-----------------------------------------------------------------------------
(* Properties.                                                             *)

Reports == [identity : Trees, source : Trees]
Texts == [declarations : (SUBSET DeclarationNames) \cup {None},
          constants : PartialMaps(ConstantNames, Values) \cup {None}]
Audits == [phase : {"scan", "compare", "write"}, pinned : Trees, source : Trees]

(* Every file holds what its tool writes: a snapshot is filed under the    *)
(* tag of the tree it is pinned to, and the outputs still to be written    *)
(* are never empty (sync_outputs, audit_snapshot --output).                *)
TypeOK ==
    /\ lock \in Trees /\ vendored \in Trees
    /\ exports \in Texts
    /\ generating \in [tree : Trees, left : (SUBSET Outputs) \ {{}}] \cup {None}
    /\ auditing \in Audits \cup {None}
    /\ snapshots \in [Tags -> Reports \cup {None}]
    /\ \A tag \in Tags : snapshots[tag] # None =>
                            TagOf[snapshots[tag].identity] = tag
    /\ decided \in SUBSET (Trees \X Trees)
    /\ published \in Seq([tree : Trees, exports : Texts, snapshot : Reports])

(* A release exports exactly the names and constants of the API snapshot   *)
(* released beside it, and both describe its vendored tree, however the    *)
(* generators were interrupted or run against a tree that was replaced     *)
(* later (sync_outputs, collect_snapshot, run_repository_checks).          *)
ReleasesAreCoherent ==
    \A i \in DOMAIN published :
        LET api == ApiOf[published[i].snapshot.source]
        IN  /\ published[i].exports.declarations = DOMAIN api.declarations
            /\ published[i].exports.constants = api.constants
            /\ published[i].snapshot.source = published[i].tree

(* The broken declarations between two trees, with both signatures.        *)
BrokenBetween(t, u) ==
    BrokenDeclarations(ApiOf[t].declarations, ApiOf[u].declarations)

Reviewed(t, u) ==
    \/ DOMAIN BrokenBetween(t, u) = {}
    \/ \E d \in decided : BrokenBetween(d[1], d[2]) = BrokenBetween(t, u)

(* Whenever regeneration changes the recorded declarations of a tag in a   *)
(* way that removes one or changes its signature, somebody reviewed a      *)
(* drift with exactly these old and new signatures: an acceptance written  *)
(* for other signatures never lets a change through                        *)
(* (require_breaking_api_acceptance).                                      *)
RegenerationIsReviewed ==
    [][\A tag \in Tags :
          snapshots[tag] # None =>
              Reviewed(snapshots[tag].source, snapshots'[tag].source)]_vars

(* What the policy promises for releases: removals and signature changes   *)
(* between a release and the next were reviewed. The code does not keep    *)
(* this: the gate is the file of one tag (audit_snapshot --output).        *)
BreakingReleaseIsDecided ==
    \A i \in 1..(Len(published) - 1) :
        Reviewed(published[i].tree, published[i + 1].tree)
=============================================================================
