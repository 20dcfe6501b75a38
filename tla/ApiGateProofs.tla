--------------------------- MODULE ApiGateProofs ---------------------------
(***************************************************************************)
(* What the API gate keeps, for all trees, tags and APIs.  The invariant   *)
(* the proofs need besides the types is that an acceptance file always is  *)
(* the drift between two trees somebody reviewed, and that an audit on its *)
(* way to the write has compared with the file that it will replace.       *)
(***************************************************************************)
EXTENDS ApiGate, TLAPS

-----------------------------------------------------------------------------
(* The drift report.                                                       *)

(* A report is breaking exactly when code written against the previous API *)
(* may not compile against the current one: no removal and no change is    *)
(* missed, and an addition never asks for a decision (classify_api_drift,  *)
(* require_breaking_api_acceptance).                                       *)
THEOREM BreakingIsIncompatible ==
    ASSUME NEW previous \in Apis, NEW current \in Apis
    PROVE  Breaking(ClassifyDrift(previous, current))
               <=> ~Compatible(previous, current)
<1> DEFINE PD == previous.declarations
           CD == current.declarations
           PC == previous.constants
           CC == current.constants
<1>1. Keeps(PD, CD) <=> RemovedNames(PD, CD) = {} /\ ChangedNames(PD, CD) = {}
    BY DEF Keeps, RemovedNames, ChangedNames
<1>2. Keeps(PC, CC) <=> RemovedNames(PC, CC) = {} /\ ChangedNames(PC, CC) = {}
    BY DEF Keeps, RemovedNames, ChangedNames
<1>3. Breaking(ClassifyDrift(previous, current)) <=>
          \/ RemovedNames(PD, CD) # {}
          \/ ChangedNames(PD, CD) # {}
          \/ RemovedNames(PC, CC) # {}
          \/ ChangedNames(PC, CC) # {}
    BY DEF Breaking, ClassifyDrift
<1>4. QED BY <1>1, <1>2, <1>3 DEF Compatible

(* The names of the broken declarations are the removed and changed ones.  *)
LEMMA BrokenNames ==
    ASSUME NEW old, NEW new
    PROVE  DOMAIN BrokenDeclarations(old, new)
               = RemovedNames(old, new) \cup ChangedNames(old, new)
BY DEF BrokenDeclarations

(* An API has no drift from itself.                                        *)
LEMMA NothingBrokenBySelf ==
    ASSUME NEW old
    PROVE  DOMAIN BrokenDeclarations(old, old) = {}
BY BrokenNames DEF RemovedNames, ChangedNames

-----------------------------------------------------------------------------
(* Types.                                                                  *)

(* Every tree has an export text.                                          *)
LEMMA TextIsTyped ==
    ASSUME NEW t \in Trees
    PROVE  ExportText(t) \in Texts
<1>1. ApiOf[t] \in Apis BY ApiOfAssumption
<1>2. PICK D \in SUBSET DeclarationNames :
          ApiOf[t].declarations \in [D -> Fingerprints]
    BY <1>1 DEF Apis, PartialMaps
<1>3. DOMAIN ApiOf[t].declarations \in SUBSET DeclarationNames BY <1>2
<1>4. ApiOf[t].constants \in PartialMaps(ConstantNames, Values)
    BY <1>1 DEF Apis
<1>5. QED BY <1>3, <1>4 DEF ExportText, Texts

(* Writing one output file, or emptying it, leaves the texts in their      *)
(* shape.                                                                  *)
LEMMA TextFieldIsTyped ==
    ASSUME NEW text \in Texts, NEW t \in Trees, NEW o \in Outputs
    PROVE  /\ [text EXCEPT ![o] = ExportText(t)[o]] \in Texts
           /\ [text EXCEPT ![o] = None] \in Texts
<1>1. ExportText(t) \in Texts BY TextIsTyped
<1>2. CASE o = "declarations" BY <1>1, <1>2 DEF Texts
<1>3. CASE o = "constants" BY <1>1, <1>3 DEF Texts
<1>4. QED BY <1>2, <1>3 DEF Outputs

(* The files always hold what their tools write (TypeOK).                  *)
THEOREM TypeCorrect == Spec => []TypeOK
<1>1. Init => TypeOK
  <2> SUFFICES ASSUME NEW t \in Trees,
                      lock = t, vendored = t, exports = ExportText(t),
                      generating = None, auditing = None,
                      snapshots = [tag \in Tags |-> IF tag = TagOf[t]
                                                    THEN Report(t, t) ELSE None],
                      published = <<>>, decided = {}
               PROVE  TypeOK
      BY DEF Init
  <2>1. exports \in Texts BY TextIsTyped
  <2>2. Report(t, t) \in Reports /\ Report(t, t).identity = t
      BY DEF Report, Reports
  <2>3. snapshots \in [Tags -> Reports \cup {None}] BY <2>2
  <2>4. \A tag \in Tags : snapshots[tag] # None =>
            TagOf[snapshots[tag].identity] = tag
      BY <2>2
  <2>5. published \in Seq([tree : Trees, exports : Texts, snapshot : Reports])
      OBVIOUS
  <2> QED BY <2>1, <2>3, <2>4, <2>5 DEF TypeOK
<1>2. TypeOK /\ [Next]_vars => TypeOK'
  <2> SUFFICES ASSUME TypeOK, [Next]_vars PROVE TypeOK' OBVIOUS
  <2> USE DEF TypeOK
  <2>1. ASSUME NEW t \in Trees, EditLock(t) PROVE TypeOK'
      BY <2>1 DEF EditLock, auditVars, gateVars
  <2>2. CASE Import BY <2>2 DEF Import, auditVars, gateVars
  <2>3. ASSUME NEW t \in Trees, NEW u \in Trees, Decide(t, u) PROVE TypeOK'
      BY <2>3 DEF Decide, auditVars, toolVars
  <2>4. CASE StartExports
    <3>1. Outputs \in (SUBSET Outputs) \ {{}} BY DEF Outputs
    <3>2. generating' \in [tree : Trees, left : (SUBSET Outputs) \ {{}}]
        BY <2>4, <3>1 DEF StartExports
    <3> QED BY <2>4, <3>2 DEF StartExports, auditVars, gateVars
  <2>5. CASE OpenOutput \/ WriteOutput
    <3> DEFINE o == OutputAtHand
    <3>1. generating \in [tree : Trees, left : (SUBSET Outputs) \ {{}}]
        BY <2>5 DEF OpenOutput, WriteOutput
    <3>2. o \in Outputs BY DEF OutputAtHand, Outputs
    <3>3. \/ exports' = [exports EXCEPT ![o] = ExportText(generating.tree)[o]]
          \/ exports' = [exports EXCEPT ![o] = None]
        BY <2>5 DEF OpenOutput, WriteOutput
    <3> HIDE DEF o
    <3>4. PICK t \in Trees : t = generating.tree BY <3>1
    <3>5. exports' \in Texts
      <4>1. exports \in Texts OBVIOUS
      <4>2. /\ [exports EXCEPT ![o] = ExportText(t)[o]] \in Texts
            /\ [exports EXCEPT ![o] = None] \in Texts
          BY <3>2, <4>1, TextFieldIsTyped
      <4> QED BY <3>3, <3>4, <4>2
    <3>6. CASE OpenOutput
        BY <3>5, <3>6 DEF OpenOutput, auditVars, gateVars
    <3>7. CASE WriteOutput
      <4>1. generating' \in [tree : Trees, left : (SUBSET Outputs) \ {{}}]
                                \cup {None}
        <5>1. CASE generating.left = {o} BY <3>7, <5>1 DEF WriteOutput, o
        <5>2. CASE generating.left # {o}
          <6>1. generating.left \ {o} \in (SUBSET Outputs) \ {{}}
              BY <3>1, <5>2
          <6>2. generating' = [generating EXCEPT !.left = @ \ {o}]
              BY <3>7, <5>2 DEF WriteOutput, o
          <6> QED BY <3>1, <6>1, <6>2
        <5> QED BY <5>1, <5>2
      <4> QED BY <3>5, <3>7, <4>1 DEF WriteOutput, auditVars, gateVars
    <3> QED BY <2>5, <3>6, <3>7
  <2>6. CASE StopExports BY <2>6 DEF StopExports, auditVars, gateVars
  <2>7. CASE StartAudit \/ ScanTree \/ CompareWithPrevious \/ StopAudit
    <3>1. CASE StartAudit BY <3>1 DEF StartAudit, Audits, toolVars, gateVars
    <3>2. CASE ScanTree BY <3>2 DEF ScanTree, Audits, toolVars, gateVars
    <3>3. CASE CompareWithPrevious
      <4>1. auditing' \in {None, [auditing EXCEPT !.phase = "write"]}
            /\ auditing \in Audits
          BY <3>3 DEF CompareWithPrevious
      <4>2. auditing' \in Audits \cup {None} BY <4>1 DEF Audits
      <4> QED BY <3>3, <4>2 DEF CompareWithPrevious, toolVars, gateVars
    <3>4. CASE StopAudit BY <3>4 DEF StopAudit, toolVars, gateVars
    <3> QED BY <2>7, <3>1, <3>2, <3>3, <3>4
  <2>10. CASE ReplaceSnapshot
    <3> DEFINE pinned == auditing.pinned
               report == Report(pinned, auditing.source)
    <3>1. auditing \in Audits BY <2>10 DEF ReplaceSnapshot
    <3>2. pinned \in Trees /\ report \in Reports /\ report.identity = pinned
        BY <3>1 DEF Audits, Report, Reports
    <3>3. TagOf[pinned] \in Tags BY <3>2 DEF Tags
    <3>4. snapshots' = [snapshots EXCEPT ![TagOf[pinned]] = report]
          /\ auditing' = None
        BY <2>10 DEF ReplaceSnapshot
    <3> HIDE DEF pinned, report
    <3>5. snapshots' \in [Tags -> Reports \cup {None}] BY <3>2, <3>4
    <3>6. \A tag \in Tags : snapshots'[tag] # None =>
              TagOf[snapshots'[tag].identity] = tag
        BY <3>2, <3>3, <3>4
    <3> QED BY <2>10, <3>4, <3>5, <3>6 DEF ReplaceSnapshot, toolVars
  <2>8. CASE Release
    <3>1. snapshots[TagOf[lock]] \in Reports
        BY <2>8 DEF Release, SnapshotMatches, Report, Reports
    <3>2. [tree |-> lock, exports |-> exports, snapshot |-> snapshots[TagOf[lock]]]
              \in [tree : Trees, exports : Texts, snapshot : Reports]
        BY <3>1
    <3>3. published' \in Seq([tree : Trees, exports : Texts, snapshot : Reports])
        BY <2>8, <3>2 DEF Release
    <3> QED BY <2>8, <3>3 DEF Release, toolVars, auditVars, gateVars
  <2>9. CASE UNCHANGED vars BY <2>9 DEF vars, toolVars, auditVars, gateVars
  <2> QED BY <2>1, <2>2, <2>3, <2>4, <2>5, <2>6, <2>7, <2>8, <2>9, <2>10 DEF Next
<1>3. QED BY <1>1, <1>2, PTL DEF Spec

-----------------------------------------------------------------------------
(* Reviewed regeneration.                                                  *)

(* An acceptance file is the drift of a reviewed pair.                     *)
AcceptanceIsReviewed ==
    acceptance # None =>
        \E d \in decided : acceptance = ClassifyDrift(ApiOf[d[1]], ApiOf[d[2]])

(* An acceptance file is always the drift of a reviewed pair.              *)
LEMMA AcceptanceInvariant == Spec => []AcceptanceIsReviewed
<1>1. Init => AcceptanceIsReviewed BY DEF Init, AcceptanceIsReviewed
<1>2. AcceptanceIsReviewed /\ [Next]_vars => AcceptanceIsReviewed'
  <2> SUFFICES ASSUME AcceptanceIsReviewed, [Next]_vars
               PROVE  AcceptanceIsReviewed'
      OBVIOUS
  <2>1. ASSUME NEW t \in Trees, NEW u \in Trees, Decide(t, u)
        PROVE  AcceptanceIsReviewed'
    <3>1. <<t, u>> \in decided' /\ acceptance' = ClassifyDrift(ApiOf[t], ApiOf[u])
        BY <2>1 DEF Decide
    <3>2. <<t, u>>[1] = t /\ <<t, u>>[2] = u OBVIOUS
    <3> QED BY <3>1, <3>2 DEF AcceptanceIsReviewed
  <2>2. CASE UNCHANGED <<acceptance, decided>>
      BY <2>2 DEF AcceptanceIsReviewed
  <2> QED BY <2>1, <2>2 DEF Next, vars, toolVars, gateVars, EditLock, Import,
                            StartExports, OpenOutput, WriteOutput,
                            StopExports, StartAudit, ScanTree,
                            CompareWithPrevious, ReplaceSnapshot, StopAudit,
                            Release
<1>3. QED BY <1>1, <1>2, PTL DEF Spec

(* An acceptance that lets a drift through was reviewed for the same broken *)
(* declarations.                                                           *)
LEMMA AcceptanceCovers ==
    ASSUME AcceptanceIsReviewed, NEW t \in Trees, NEW u \in Trees,
           AcceptanceSuffices(ClassifyDrift(ApiOf[t], ApiOf[u]), acceptance)
    PROVE  Reviewed(t, u)
<1> DEFINE report == ClassifyDrift(ApiOf[t], ApiOf[u])
<1>1. CASE DOMAIN BrokenBetween(t, u) = {} BY <1>1 DEF Reviewed
<1>2. CASE DOMAIN BrokenBetween(t, u) # {}
  <2>1. \/ RemovedNames(ApiOf[t].declarations, ApiOf[u].declarations) # {}
        \/ ChangedNames(ApiOf[t].declarations, ApiOf[u].declarations) # {}
      BY <1>2, BrokenNames DEF BrokenBetween
  <2>2. Breaking(report) BY <2>1 DEF Breaking, ClassifyDrift
  <2>3. acceptance # None /\ acceptance = report
      BY <2>2 DEF AcceptanceSuffices
  <2>4. PICK d \in decided : report = ClassifyDrift(ApiOf[d[1]], ApiOf[d[2]])
      BY <2>3 DEF AcceptanceIsReviewed
  <2>5. \A x, y : ClassifyDrift(x, y).breaking_declarations
                      = BrokenDeclarations(x.declarations, y.declarations)
      BY DEF ClassifyDrift
  <2>6. BrokenBetween(d[1], d[2]) = BrokenBetween(t, u)
      BY <2>4, <2>5 DEF BrokenBetween
  <2> QED BY <2>6 DEF Reviewed
<1>3. QED BY <1>1, <1>2

(* An audit that goes on to write has compared what it scanned with the    *)
(* file that still is there, and everything that breaks was reviewed.      *)
AuditIsReviewed ==
    auditing # None /\ auditing.phase = "write" =>
        LET previous == snapshots[TagOf[auditing.pinned]]
        IN  previous # None => Reviewed(previous.source, auditing.source)

(* What was reviewed stays reviewed.                                       *)
LEMMA ReviewsStay ==
    ASSUME [Next]_vars, NEW t, NEW u, Reviewed(t, u)
    PROVE  Reviewed(t, u)'
<1>1. decided \subseteq decided'
    BY DEF Next, vars, gateVars, EditLock, Import, Decide, StartExports,
           OpenOutput, WriteOutput, StopExports, StartAudit, ScanTree,
           CompareWithPrevious, ReplaceSnapshot, StopAudit, Release
<1> QED BY <1>1 DEF Reviewed

(* From the comparison to the write nothing takes the review back: the     *)
(* file is only written by the audit itself.                               *)
LEMMA AuditInvariant == Spec => []AuditIsReviewed
<1>1. Init => AuditIsReviewed BY DEF Init, AuditIsReviewed
<1>2. TypeOK /\ AcceptanceIsReviewed /\ AuditIsReviewed /\ [Next]_vars
          => AuditIsReviewed'
  <2> SUFFICES ASSUME TypeOK, AcceptanceIsReviewed, AuditIsReviewed, [Next]_vars
               PROVE  AuditIsReviewed'
      OBVIOUS
  <2>1. CASE CompareWithPrevious
    <3> SUFFICES ASSUME auditing' # None
                 PROVE  LET previous == snapshots[TagOf[auditing.pinned]]
                        IN  previous # None
                              => Reviewed(previous.source, auditing.source)
      <4>0. auditing' # None =>
               auditing' = [auditing EXCEPT !.phase = "write"]
          BY <2>1 DEF CompareWithPrevious
      <4>1. auditing' # None =>
               /\ auditing' = [auditing EXCEPT !.phase = "write"]
               /\ auditing \in Audits /\ UNCHANGED <<snapshots, decided>>
          BY <2>1, <4>0 DEF CompareWithPrevious, TypeOK, gateVars
      <4>2. auditing' # None =>
               /\ auditing'.pinned = auditing.pinned
               /\ auditing'.source = auditing.source
          BY <4>1 DEF Audits
      <4> QED BY <4>1, <4>2 DEF AuditIsReviewed, Reviewed
    <3>1. /\ auditing \in Audits
          /\ snapshots[TagOf[auditing.pinned]] # None =>
               AcceptanceSuffices(
                 ClassifyDrift(ApiOf[snapshots[TagOf[auditing.pinned]].source],
                               ApiOf[auditing.source]),
                 acceptance)
        BY <2>1 DEF CompareWithPrevious, TypeOK
    <3>2. auditing.pinned \in Trees /\ auditing.source \in Trees
        BY <3>1 DEF Audits
    <3>3. snapshots[TagOf[auditing.pinned]] # None =>
              snapshots[TagOf[auditing.pinned]].source \in Trees
        BY <3>2 DEF TypeOK, Tags, Reports
    <3> QED BY <3>1, <3>2, <3>3, AcceptanceCovers
  <2>2. CASE StartAudit BY <2>2 DEF StartAudit, AuditIsReviewed
  <2>3. CASE ScanTree
    <3>1. auditing' = [auditing EXCEPT !.phase = "compare", !.source = vendored]
          /\ auditing \in Audits
        BY <2>3 DEF ScanTree, TypeOK
    <3>2. auditing'.phase = "compare" BY <3>1 DEF Audits
    <3> QED BY <3>2 DEF AuditIsReviewed
  <2>4. CASE auditing' = None BY <2>4 DEF AuditIsReviewed
  <2>5. CASE UNCHANGED <<auditing, snapshots>>
      BY <2>5, ReviewsStay DEF AuditIsReviewed
  <2> QED BY <2>1, <2>2, <2>3, <2>4, <2>5
             DEF Next, vars, auditVars, gateVars, EditLock, Import, Decide,
                 StartExports, OpenOutput, WriteOutput, StopExports,
                 ReplaceSnapshot, StopAudit, Release
<1>3. QED BY <1>1, <1>2, TypeCorrect, AcceptanceInvariant, PTL DEF Spec

(* A snapshot file never loses or changes a declaration unless somebody    *)
(* reviewed exactly these signatures (RegenerationIsReviewed), although    *)
(* lock, tree and acceptance may change between the steps of an audit.     *)
THEOREM ReviewCorrect == Spec => RegenerationIsReviewed
<1> DEFINE Step == \A tag \in Tags :
                      snapshots[tag] # None =>
                          Reviewed(snapshots[tag].source, snapshots'[tag].source)
<1>1. TypeOK /\ AuditIsReviewed /\ [Next]_vars => [Step]_vars
  <2> SUFFICES ASSUME TypeOK, AuditIsReviewed, Next,
                      NEW tag \in Tags, snapshots[tag] # None
               PROVE  Reviewed(snapshots[tag].source, snapshots'[tag].source)
      OBVIOUS
  <2>1. CASE snapshots'[tag] = snapshots[tag]
      BY <2>1, NothingBrokenBySelf DEF Reviewed, BrokenBetween
  <2>2. CASE ReplaceSnapshot /\ tag = TagOf[auditing.pinned]
    <3>1. snapshots'[tag] = Report(auditing.pinned, auditing.source)
        BY <2>2 DEF ReplaceSnapshot, TypeOK
    <3>2. snapshots'[tag].source = auditing.source BY <3>1 DEF Report
    <3> QED BY <2>2, <3>2 DEF AuditIsReviewed, ReplaceSnapshot
  <2>3. snapshots'[tag] = snapshots[tag]
        \/ (ReplaceSnapshot /\ tag = TagOf[auditing.pinned])
    <3>1. ASSUME ReplaceSnapshot, tag # TagOf[auditing.pinned]
          PROVE  snapshots'[tag] = snapshots[tag]
        BY <3>1 DEF ReplaceSnapshot, TypeOK
    <3>2. ReplaceSnapshot \/ snapshots' = snapshots
        BY DEF Next, EditLock, Import, Decide, StartExports, OpenOutput,
               WriteOutput, StopExports, StartAudit, ScanTree,
               CompareWithPrevious, StopAudit, Release, gateVars
    <3> QED BY <3>1, <3>2
  <2> QED BY <2>1, <2>2, <2>3
<1>2. QED BY <1>1, TypeCorrect, AuditInvariant, PTL
          DEF Spec, RegenerationIsReviewed

-----------------------------------------------------------------------------
(* Every release, the earlier ones included, exports what its snapshot     *)
(* records of the tree it vendors (ReleasesAreCoherent).                   *)
THEOREM CoherenceCorrect == Spec => []ReleasesAreCoherent
<1>1. Init => ReleasesAreCoherent BY DEF Init, ReleasesAreCoherent
<1>2. TypeOK /\ ReleasesAreCoherent /\ [Next]_vars => ReleasesAreCoherent'
  <2> SUFFICES ASSUME TypeOK, ReleasesAreCoherent, [Next]_vars
               PROVE  ReleasesAreCoherent'
      OBVIOUS
  <2>1. CASE Release
    <3> DEFINE new == [tree |-> lock, exports |-> exports,
                       snapshot |-> snapshots[TagOf[lock]]]
    <3>1. published' = Append(published, new) BY <2>1 DEF Release
    <3>2. snapshots[TagOf[lock]] = [identity |-> lock, source |-> lock]
        BY <2>1 DEF Release, SnapshotMatches, Report
    <3>3. new.snapshot.source = lock BY <3>2
    <3>4. new.tree = lock OBVIOUS
    <3>5. new.exports.declarations = DOMAIN ApiOf[lock].declarations
          /\ new.exports.constants = ApiOf[lock].constants
        BY <2>1 DEF Release, ExportsMatch, ExportText
    <3> HIDE DEF new
    <3>6. published \in Seq([tree : Trees, exports : Texts, snapshot : Reports])
        BY DEF TypeOK
    <3>7. ASSUME NEW i \in DOMAIN published'
          PROVE  \/ i \in DOMAIN published /\ published'[i] = published[i]
                 \/ published'[i] = new
        BY <3>1, <3>6
    <3> QED BY <3>3, <3>4, <3>5, <3>7 DEF ReleasesAreCoherent
  <2>2. CASE published' = published BY <2>2 DEF ReleasesAreCoherent
  <2> QED BY <2>1, <2>2 DEF Next, vars, EditLock, Import, Decide, StartExports,
                            OpenOutput, WriteOutput, StopExports, StartAudit,
                            ScanTree, CompareWithPrevious, ReplaceSnapshot,
                            StopAudit
<1>3. QED BY <1>1, <1>2, TypeCorrect, PTL DEF Spec
=============================================================================
