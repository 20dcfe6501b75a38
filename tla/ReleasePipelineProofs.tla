----------------------- MODULE ReleasePipelineProofs -----------------------
(***************************************************************************)
(* Theorems about ReleasePipeline, for every set of versions, sources and  *)
(* runs and every bound.                                                   *)
(*                                                                         *)
(* The argument for the order of releases: tags only grow, so the tag maps *)
(* that checkouts saw (Snapshots) form a chain.  Of two releases the older *)
(* was validated against a map without the newer tag and the newer one     *)
(* against a map that has its own tag, so the newer one's map is above and *)
(* contains the older tag too.                                             *)
(***************************************************************************)
EXTENDS ReleasePipeline, SequenceTheorems, TLAPS

-----------------------------------------------------------------------------
(* The inductive invariant.                                                *)

Below(a, b) == \A v \in Versions : a[v] # None => b[v] = a[v]

Snapshots == {seen[r] : r \in Runs} \cup {basis[v] : v \in Versions}

(* Every tag map somebody looked at is an earlier state of the tags.       *)
SnapshotsAreChain ==
    /\ \A a \in Snapshots : Below(a, tags)
    /\ \A a, b \in Snapshots : Below(a, b) \/ Below(b, a)

Validated == {"upstream", "archive", "ci", "view", "create"}
CheckedOut == Validated \cup {"mapping"}

(* A run works for the tag that triggered it, and carries the verdicts of  *)
(* the steps behind it.                                                    *)
RunIsSound(r) ==
    /\ step[r] # "unused" => tags[ref[r]] = sha[r]
    /\ step[r] \in CheckedOut => seen[r][ref[r]] = sha[r]
    /\ step[r] \in Validated => MappingAccepted(seen[r], ref[r], sha[r])
    /\ step[r] \in {"view", "create"} => sha[r] \in green

ReleaseIsSound(v) ==
    /\ basis[v][v] = releases[v]
    /\ MappingAccepted(basis[v], v, releases[v])
    /\ releases[v] \in green

RunsAreSound == \A r \in Runs : RunIsSound(r)
ReleasesAreSound == \A v \in Released : ReleaseIsSound(v)

(* Whatever RequireCI accepts now is on record as having been green.       *)
LatestIsGreen == \A s \in Sources : LatestSuccess(ciRuns, s) => s \in green

IInv == TypeOK /\ SnapshotsAreChain /\ LatestIsGreen /\ RunsAreSound
        /\ ReleasesAreSound

-----------------------------------------------------------------------------
(* Type correctness.                                                       *)

(* None is neither a source nor a version.                                 *)
LEMMA NoneIsNew == None \notin Sources /\ None \notin Versions
  BY NoneAssumption, SourcesAssumption

(* The empty tag map is a tag map.                                         *)
LEMMA NoTagsType == NoTags \in TagMaps
  BY DEF NoTags, TagMaps

(* The first state has every variable in its shape.                        *)
LEMMA TypeInit == Init => TypeOK
  BY NoTagsType, BoundsAssumption
     DEF Init, TypeOK, Steps, Active, Released, TagMaps, NoTags

(* A list of CI runs that is written stays one.                            *)
LEMMA TypeSetCI ==
  ASSUME NEW list \in Seq([sha : Sources, state : CIStates]),
         Len(list) <= MaxCIRuns, green \subseteq Sources, SetCI(list)
  PROVE  /\ ciRuns' \in Seq([sha : Sources, state : CIStates])
         /\ Len(ciRuns') <= MaxCIRuns
         /\ green' \subseteq Sources
  BY DEF SetCI

(* So does a list with the state of one run changed.                       *)
LEMMA TypeSetState ==
  ASSUME NEW list \in Seq([sha : Sources, state : CIStates]),
         NEW i \in 1 .. Len(list), NEW state \in CIStates
  PROVE  LET changed == [list EXCEPT ![i].state = state]
         IN  /\ changed \in Seq([sha : Sources, state : CIStates])
             /\ Len(changed) = Len(list)
  <1>0. list[i] \in [sha : Sources, state : CIStates]
    BY ElementOfSeq
  <1>1. [list[i] EXCEPT !.state = state] \in [sha : Sources, state : CIStates]
    BY <1>0
  <1>2. [list EXCEPT ![i] = [list[i] EXCEPT !.state = state]]
           \in Seq([sha : Sources, state : CIStates])
    BY <1>1, ExceptSeq
  <1>3. QED
    BY <1>2

(* A step of a release run keeps every variable in its shape.              *)
LEMMA TypeRun ==
  ASSUME TypeOK, NEW r \in Runs, RunStep(r) \/ Abort(r)
  PROVE  TypeOK'
  <1> USE NoTagsType DEF TypeOK, Steps, Active, upstreamVars, releaseVars,
          ciVars, End
  <1>1. CASE Checkout(r)
    BY <1>1 DEF Checkout
  <1>2. CASE CheckMapping(r)
    BY <1>2 DEF CheckMapping, Proceed
  <1>3. CASE ResolveUpstreamTag(r)
    BY <1>3 DEF ResolveUpstreamTag, Proceed
  <1>4. CASE CheckArchive(r)
    BY <1>4 DEF CheckArchive, Proceed
  <1>5. CASE RequireCI(r)
    BY <1>5 DEF RequireCI, Proceed
  <1>6. CASE ViewRelease(r)
    BY <1>6 DEF ViewRelease, Proceed
  <1>7. CASE CreateRelease(r)
    <2>1. ref[r] \in Versions /\ sha[r] \in Sources
      BY <1>7 DEF CreateRelease
    <2>2. /\ releases' \in TagMaps
          /\ uploads' \in [Versions -> Nat]
          /\ basis' \in [Versions -> TagMaps]
      <3>1. releases' \in TagMaps
        BY <1>7, <2>1 DEF CreateRelease, TagMaps
      <3>2. basis' \in [Versions -> TagMaps]
        BY <1>7, <2>1 DEF CreateRelease
      <3>3. uploads' \in [Versions -> Nat]
        BY <1>7, <2>1 DEF CreateRelease
      <3>4. QED
        BY <3>1, <3>2, <3>3
    <2>3. QED
      BY <1>7, <2>2 DEF CreateRelease
  <1>8. CASE Abort(r)
    BY <1>8 DEF Abort
  <1>9. QED
    BY <1>1, <1>2, <1>3, <1>4, <1>5, <1>6, <1>7, <1>8 DEF RunStep

(* Every step of the system does.                                          *)
LEMMA TypeNext == TypeOK /\ [Next]_vars => TypeOK'
  <1> SUFFICES ASSUME TypeOK, [Next]_vars
               PROVE  TypeOK'
    OBVIOUS
  <1>1. ASSUME NEW r \in Runs, NEW v \in Versions, NEW s \in Sources,
               PushTag(r, v, s)
        PROVE  TypeOK'
    BY <1>1, NoneIsNew
       DEF PushTag, TypeOK, TagMaps, Steps, upstreamVars, releaseVars, ciVars
  <1>2. ASSUME NEW r \in Runs, Rerun(r)
        PROVE  TypeOK'
    BY <1>2 DEF Rerun, TypeOK, Steps, upstreamVars, releaseVars, ciVars
  <1>3. ASSUME NEW b \in Builds, NEW c \in Checkpoints, RetagUpstream(b, c)
        PROVE  TypeOK'
    BY <1>3, BoundsAssumption
       DEF RetagUpstream, TypeOK, runVars, releaseVars, ciVars
  <1>4. CASE CIWorkflow
    <2> DEFINE Typed == /\ ciRuns' \in Seq([sha : Sources, state : CIStates])
                        /\ Len(ciRuns') <= MaxCIRuns
                        /\ green' \subseteq Sources
    <2>1. Typed
      <3>1. ASSUME NEW s \in Sources, StartCI(s)
            PROVE  Typed
        <4>1. /\ Append(ciRuns, [sha |-> s, state |-> "running"])
                     \in Seq([sha : Sources, state : CIStates])
              /\ Len(Append(ciRuns, [sha |-> s, state |-> "running"]))
                     <= MaxCIRuns
          BY <3>1, BoundsAssumption DEF StartCI, TypeOK, CIStates
        <4>2. QED
          BY <3>1, <4>1, TypeSetCI DEF StartCI, TypeOK
      <3>2. ASSUME NEW i \in 1 .. Len(ciRuns), NEW state \in CIStates,
                   SetCI([ciRuns EXCEPT ![i].state = state])
            PROVE  Typed
        BY <3>2, TypeSetState, TypeSetCI DEF TypeOK
      <3>3. ASSUME NEW i \in 1 .. Len(ciRuns), NEW outcome \in Outcomes,
                   FinishCI(i, outcome)
            PROVE  Typed
        BY <3>2, <3>3 DEF FinishCI, CIStates
      <3>4. ASSUME NEW i \in 1 .. Len(ciRuns), RerunCI(i)
            PROVE  Typed
        BY <3>2, <3>4 DEF RerunCI, CIStates
      <3>5. QED
        BY <1>4, <3>1, <3>3, <3>4 DEF CIWorkflow
    <2>2. QED
      BY <1>4, <2>1
         DEF CIWorkflow, StartCI, FinishCI, RerunCI, TypeOK, upstreamVars,
             runVars, releaseVars
  <1>5. CASE UNCHANGED vars
    BY <1>5 DEF vars, TypeOK, upstreamVars, runVars, releaseVars, ciVars
  <1>6. QED
    BY <1>1, <1>2, <1>3, <1>4, <1>5, TypeRun DEF Next, Maintainers

(* Every reachable state of the release pipeline is well typed: a run that *)
(* left the pool carries the ref and the commit of its push.               *)
THEOREM TypeCorrect == Spec => []TypeOK
  <1>1. QED
    BY TypeInit, TypeNext, PTL DEF Spec

-----------------------------------------------------------------------------
(* Tag maps grow, and the maps somebody looked at stay a chain below them. *)

(* The empty map is below every map: nothing is in it.                     *)
LEMMA BelowNoTags == \A a : Below(NoTags, a)
  BY DEF Below, NoTags

(* Growing is transitive.                                                  *)
LEMMA BelowTransitive ==
  ASSUME NEW a, NEW b, NEW c, Below(a, b), Below(b, c)
  PROVE  Below(a, c)
  BY DEF Below

(* No step takes a tag away or moves it.                                   *)
LEMMA TagsGrow ==
  ASSUME TypeOK, [Next]_vars
  PROVE  Below(tags, tags')
  <1>1. ASSUME NEW r \in Runs, NEW v \in Versions, NEW s \in Sources,
               PushTag(r, v, s)
        PROVE  Below(tags, tags')
    BY <1>1 DEF PushTag, Below, TypeOK, TagMaps
  <1>2. CASE UNCHANGED tags
    BY <1>2 DEF Below
  <1>3. QED
    BY <1>1, <1>2
       DEF Next, Maintainers, CIWorkflow, RunStep, vars, Rerun, RetagUpstream,
           StartCI, FinishCI, RerunCI, Checkout, CheckMapping,
           ResolveUpstreamTag, CheckArchive, RequireCI, ViewRelease,
           CreateRelease, Abort

(* A step adds at most the current tags and the empty map to Snapshots.    *)
LEMMA SnapshotsGrow ==
  ASSUME TypeOK, [Next]_vars
  PROVE  Snapshots' \subseteq Snapshots \cup {NoTags, tags}
  <1>1. CASE UNCHANGED <<seen, basis>>
    BY <1>1 DEF Snapshots
  <1>2. ASSUME NEW r \in Runs, RunStep(r) \/ Abort(r)
        PROVE  Snapshots' \subseteq Snapshots \cup {NoTags, tags}
    <2>1. \A q \in Runs : seen'[q] \in {seen[q], NoTags, tags}
      BY <1>2
         DEF RunStep, Checkout, CheckMapping, ResolveUpstreamTag, CheckArchive,
             RequireCI, ViewRelease, CreateRelease, Abort, Proceed, End, TypeOK
    <2>2. \A v \in Versions : basis'[v] \in {basis[v], seen[r]}
      BY <1>2
         DEF RunStep, Checkout, CheckMapping, ResolveUpstreamTag, CheckArchive,
             RequireCI, ViewRelease, CreateRelease, Abort, TypeOK, releaseVars
    <2>3. QED
      BY <2>1, <2>2 DEF Snapshots
  <1>3. QED
    BY <1>1, <1>2
       DEF Next, Maintainers, CIWorkflow, vars, runVars, releaseVars, PushTag,
           Rerun, RetagUpstream, StartCI, FinishCI, RerunCI

(* At first nobody looked at any tag.                                      *)
LEMMA ChainInit == Init => SnapshotsAreChain
  BY BelowNoTags DEF Init, SnapshotsAreChain, Snapshots

(* Who looks now sees every tag that anybody saw before.                   *)
LEMMA ChainNext ==
  ASSUME TypeOK, SnapshotsAreChain, [Next]_vars
  PROVE  SnapshotsAreChain'
  <1>1. \A a \in Snapshots' : Below(a, tags)
    BY SnapshotsGrow, BelowNoTags DEF SnapshotsAreChain, Below
  <1>2. \A a \in Snapshots' : Below(a, tags')
    BY <1>1, TagsGrow, BelowTransitive
  <1>3. \A a, b \in Snapshots' : Below(a, b) \/ Below(b, a)
    <2> SUFFICES ASSUME NEW a \in Snapshots', NEW b \in Snapshots'
                 PROVE  Below(a, b) \/ Below(b, a)
      OBVIOUS
    <2>1. CASE a \in Snapshots /\ b \in Snapshots
      BY <2>1 DEF SnapshotsAreChain
    <2>2. CASE a = NoTags \/ b = NoTags
      BY <2>2, BelowNoTags
    <2>3. CASE a = tags \/ b = tags
      BY <2>3, <1>1
    <2>4. QED
      BY <2>1, <2>2, <2>3, SnapshotsGrow
  <1>4. QED
    BY <1>2, <1>3 DEF SnapshotsAreChain, Below

-----------------------------------------------------------------------------
(* The verdicts a run carries stay true while it goes on.                  *)

(* At first no run has come to a verdict.                                  *)
LEMMA SoundInit == Init => RunsAreSound /\ ReleasesAreSound
  BY DEF Init, RunsAreSound, ReleasesAreSound, RunIsSound, Released, CheckedOut,
         Validated, NoTags

(* Green commits stay green, and RequireCI accepts only green ones.        *)
LEMMA GreenGrows ==
  ASSUME TypeOK, [Next]_vars
  PROVE  green \subseteq green'
  BY DEF Next, Maintainers, CIWorkflow, RunStep, vars, ciVars, PushTag, Rerun,
         RetagUpstream, StartCI, FinishCI, RerunCI, SetCI, Checkout,
         CheckMapping, ResolveUpstreamTag, CheckArchive, RequireCI,
         ViewRelease, CreateRelease, Abort

(* At first there is no CI run.                                            *)
LEMMA LatestInit == Init => LatestIsGreen
  BY DEF Init, LatestIsGreen, LatestSuccess, RunsOf

(* A run that became the latest success is recorded as green.              *)
LEMMA LatestNext ==
  ASSUME LatestIsGreen, [Next]_vars
  PROVE  LatestIsGreen'
  <1>1. CASE UNCHANGED ciVars
    BY <1>1 DEF ciVars, LatestIsGreen
  <1>2. ASSUME NEW list, SetCI(list)
        PROVE  LatestIsGreen'
    BY <1>2 DEF SetCI, LatestIsGreen
  <1>3. QED
    BY <1>1, <1>2
       DEF Next, Maintainers, CIWorkflow, RunStep, vars, PushTag, Rerun,
           RetagUpstream, StartCI, FinishCI, RerunCI, Checkout,
           CheckMapping, ResolveUpstreamTag, CheckArchive, RequireCI,
           ViewRelease, CreateRelease, Abort

(* A run no step of which is taken keeps its soundness.                    *)
LEMMA OtherRun ==
  ASSUME TypeOK, [Next]_vars, NEW q \in Runs, RunIsSound(q),
         UNCHANGED <<step[q], ref[q], sha[q], seen[q]>>
  PROVE  RunIsSound(q)'
  <1>1. step[q] # "unused" => tags'[ref[q]] = tags[ref[q]]
    BY TagsGrow, NoneIsNew DEF Below, TypeOK, RunIsSound
  <1>2. QED
    BY <1>1, GreenGrows DEF RunIsSound

(* A release that is left alone stays as sound as it was.                  *)
LEMMA OtherRelease ==
  ASSUME TypeOK, [Next]_vars, NEW v \in Versions, ReleaseIsSound(v),
         UNCHANGED <<releases[v], basis[v]>>
  PROVE  ReleaseIsSound(v)'
  BY GreenGrows DEF ReleaseIsSound

(* The run that takes a step keeps its soundness too.                      *)
LEMMA SteppingRun ==
  ASSUME TypeOK, LatestIsGreen, NEW r \in Runs, RunIsSound(r),
         RunStep(r) \/ Abort(r)
  PROVE  RunIsSound(r)'
  <1> USE DEF RunIsSound, CheckedOut, Validated, TypeOK, ciVars
  <1>1. CASE Checkout(r)
    BY <1>1 DEF Checkout
  <1>2. CASE CheckMapping(r)
    BY <1>2 DEF CheckMapping, Proceed, End
  <1>3. CASE ResolveUpstreamTag(r)
    BY <1>3 DEF ResolveUpstreamTag, Proceed, End
  <1>4. CASE CheckArchive(r)
    BY <1>4 DEF CheckArchive, Proceed, End
  <1>5. CASE RequireCI(r)
    BY <1>5, NoneIsNew DEF RequireCI, Proceed, End, LatestIsGreen
  <1>6. CASE ViewRelease(r)
    BY <1>6 DEF ViewRelease, Proceed, End
  <1>7. CASE CreateRelease(r)
    BY <1>7 DEF CreateRelease, End
  <1>8. CASE Abort(r)
    BY <1>8 DEF Abort, End, Active, Steps
  <1>9. QED
    BY <1>1, <1>2, <1>3, <1>4, <1>5, <1>6, <1>7, <1>8 DEF RunStep

(* Every step carries the verdicts on, or adds one that holds.             *)
LEMMA SoundNext ==
  ASSUME TypeOK, LatestIsGreen, RunsAreSound, ReleasesAreSound, [Next]_vars
  PROVE  RunsAreSound' /\ ReleasesAreSound'
  <1> DEFINE Same(q) == UNCHANGED <<step[q], ref[q], sha[q], seen[q]>>
             Kept(v) == UNCHANGED <<releases[v], basis[v]>>
  <1>0. /\ \A q \in Runs : RunIsSound(q)
        /\ \A v \in Released : ReleaseIsSound(v)
    BY DEF RunsAreSound, ReleasesAreSound
  <1> DEFINE RunsDone == \A q \in Runs : RunIsSound(q)' \/ Same(q)
             ReleasesDone == \A v \in Versions : releases'[v] # None
                                => ReleaseIsSound(v)' \/ Kept(v)
  <1>1. SUFFICES RunsDone /\ ReleasesDone
    <2>1. \A q \in Runs : RunIsSound(q)'
      BY <1>0, <1>1, OtherRun
    <2>2. \A v \in Versions : releases'[v] # None => ReleaseIsSound(v)'
      BY <1>0, <1>1, OtherRelease DEF Released
    <2>3. QED
      BY <2>1, <2>2
         DEF RunsAreSound, ReleasesAreSound, Released
  <1>2. ASSUME NEW r \in Runs, NEW v \in Versions, NEW s \in Sources,
               PushTag(r, v, s)
        PROVE  RunsDone /\ ReleasesDone
    <2>1. RunIsSound(r)'
      BY <1>2 DEF PushTag, RunIsSound, CheckedOut, Validated, TypeOK, TagMaps
    <2>2. \A q \in Runs : q # r => Same(q)
      BY <1>2 DEF PushTag, TypeOK
    <2>3. QED
      BY <1>2, <2>1, <2>2 DEF PushTag, releaseVars
  <1>3. ASSUME NEW r \in Runs, Rerun(r)
        PROVE  RunsDone /\ ReleasesDone
    <2>1. RunIsSound(r)'
      BY <1>0, <1>3 DEF Rerun, RunIsSound, CheckedOut, Validated, TypeOK
    <2>2. \A q \in Runs : q # r => Same(q)
      BY <1>3 DEF Rerun, TypeOK
    <2>3. QED
      BY <1>3, <2>1, <2>2 DEF Rerun, releaseVars
  <1>4. ASSUME NEW r \in Runs, RunStep(r) \/ Abort(r)
        PROVE  RunsDone /\ ReleasesDone
    <2>1. RunIsSound(r)'
      BY <1>0, <1>4, SteppingRun
    <2>2. \A q \in Runs : q # r => Same(q)
      BY <1>4
         DEF RunStep, Checkout, CheckMapping, ResolveUpstreamTag, CheckArchive,
             RequireCI, ViewRelease, CreateRelease, Abort, Proceed, End, TypeOK
    <2>3. ReleasesDone
      <3>1. CASE CreateRelease(r)
        <4>1. PICK v \in Versions : v = ref[r]
          BY <3>1 DEF CreateRelease, TypeOK
        <4>2. CASE UNCHANGED releaseVars
          BY <4>2 DEF releaseVars
        <4>3. CASE /\ releases' = [releases EXCEPT ![v] = sha[r]]
                   /\ basis' = [basis EXCEPT ![v] = seen[r]]
          <5>1. RunIsSound(r) /\ step[r] = "create" /\ green' = green
            BY <1>0, <3>1 DEF CreateRelease, ciVars
          <5>2. releases'[v] = sha[r] /\ basis'[v] = seen[r]
            BY <4>3 DEF TypeOK, TagMaps
          <5>3. ReleaseIsSound(v)'
            BY <4>1, <5>1, <5>2
               DEF RunIsSound, ReleaseIsSound, CheckedOut, Validated
          <5>4. \A w \in Versions : w # v => Kept(w)
            BY <4>3 DEF TypeOK, TagMaps
          <5>5. QED
            BY <5>3, <5>4
        <4>4. QED
          BY <3>1, <4>1, <4>2, <4>3 DEF CreateRelease
      <3>2. CASE UNCHANGED releaseVars
        BY <3>2 DEF releaseVars
      <3>3. QED
        BY <1>4, <3>1, <3>2
           DEF RunStep, Checkout, CheckMapping, ResolveUpstreamTag,
               CheckArchive, RequireCI, ViewRelease, Abort
    <2>4. QED
      BY <2>1, <2>2, <2>3
  <1>5. CASE UNCHANGED <<runVars, releaseVars>>
    BY <1>5 DEF runVars, releaseVars
  <1>6. QED
    BY <1>2, <1>3, <1>4, <1>5
       DEF Next, Maintainers, CIWorkflow, vars, RetagUpstream, StartCI,
           FinishCI, RerunCI

(* The inductive invariant holds in every reachable state.                 *)
THEOREM Invariance == Spec => []IInv
  <1>1. Init => IInv
    BY TypeInit, ChainInit, LatestInit, SoundInit DEF IInv
  <1>2. IInv /\ [Next]_vars => IInv'
    BY TypeNext, ChainNext, LatestNext, SoundNext DEF IInv
  <1>3. QED
    BY <1>1, <1>2, PTL DEF Spec

-----------------------------------------------------------------------------
(* What the invariant says of releases.                                    *)

(* Of two releases the older one was validated when the newer tag was not  *)
(* there, and the newer one against the older one's tag: check_release     *)
(* orders releases although no run of release.yml waits for another.       *)
THEOREM OrderCorrect == Spec => []ValidatedInOrder
  <1>1. IInv => ValidatedInOrder
    <2> SUFFICES ASSUME IInv, NEW v \in Released, NEW w \in Released,
                        Precedes(v, w)
                 PROVE  basis[v][w] = None /\ basis[w][v] = releases[v]
      BY DEF ValidatedInOrder
    <2>1. v \in Versions /\ w \in Versions
      BY DEF Released
    <2>2. ReleaseIsSound(v) /\ ReleaseIsSound(w)
      BY DEF IInv, ReleasesAreSound
    <2>3. basis[v][w] = None
      BY <2>1, <2>2
         DEF ReleaseIsSound, MappingAccepted, PreviousAccepted, Tagged
    <2>4. basis[w][w] # None /\ basis[v][v] # None
      BY <2>2 DEF ReleaseIsSound, Released
    <2>5. Below(basis[v], basis[w]) \/ Below(basis[w], basis[v])
      BY <2>1 DEF IInv, SnapshotsAreChain, Snapshots
    <2>6. Below(basis[v], basis[w])
      BY <2>1, <2>3, <2>4, <2>5 DEF Below
    <2>7. QED
      BY <2>1, <2>2, <2>3, <2>4, <2>6 DEF Below, ReleaseIsSound
  <1>2. QED
    BY <1>1, Invariance, PTL

(* Two releases with no tag between them agree on the upstream commit when *)
(* they agree on the build number, even if upstream moved its tag between  *)
(* the two.                                                                *)
THEOREM NeighboursCorrect == Spec => []NeighboursAgree
  <1>1. IInv /\ ValidatedInOrder => NeighboursAgree
    <2> SUFFICES ASSUME IInv, ValidatedInOrder,
                        NEW v \in Released, NEW w \in Released,
                        IsNearestOlder(tags, v, w), v.build = w.build
                 PROVE  releases[v].commit = releases[w].commit
      BY DEF NeighboursAgree
    <2>1. v \in Versions /\ w \in Versions
      BY DEF Released
    <2>2. ReleaseIsSound(w) /\ Below(basis[w], tags)
      BY <2>1 DEF IInv, ReleasesAreSound, SnapshotsAreChain, Snapshots
    <2>3. basis[w][v] = releases[v] /\ releases[v] # None
      BY DEF ValidatedInOrder, IsNearestOlder, Released
    <2>4. Tagged(basis[w]) \subseteq Tagged(tags)
      BY <2>2 DEF Below, Tagged
    <2>5. IsNearestOlder(basis[w], v, w)
      BY <2>1, <2>3, <2>4 DEF IsNearestOlder, Tagged
    <2>6. /\ ValidIdentity(v, releases[v])
          /\ ValidIdentity(w, releases[w])
          /\ TransitionAllowed(releases[v], releases[w])
      BY <2>1, <2>2, <2>3, <2>5
         DEF ReleaseIsSound, MappingAccepted, PreviousAccepted
    <2>7. ~ (w.build > v.build)
      BY <2>1, VersionsAssumption
    <2>8. QED
      BY <2>6, <2>7 DEF ValidIdentity, TransitionAllowed
  <1>2. QED
    BY <1>1, OrderCorrect, Invariance, PTL

(* Nothing is released whose latest CI run never was a success.            *)
THEOREM GreenCorrect == Spec => []ReleasedWasGreen
  <1>1. IInv => ReleasedWasGreen
    BY DEF IInv, ReleasesAreSound, ReleaseIsSound, ReleasedWasGreen
  <1>2. QED
    BY <1>1, Invariance, PTL

-----------------------------------------------------------------------------
(* What a release says of upstream, while upstream keeps its tags.         *)

RunIsUpstream(r) ==
    /\ step[r] \in {"archive", "ci", "view", "create"}
          => upstream[sha[r].tag] = sha[r].commit
    /\ step[r] \in {"ci", "view", "create"} => ArchiveAccepted(sha[r])

SourceIsUpstream(s) == upstream[s.tag] = s.commit /\ ArchiveAccepted(s)

UpstreamInv ==
    retags = 0 => /\ \A r \in Runs : RunIsUpstream(r)
                  /\ \A v \in Released : SourceIsUpstream(releases[v])

(* Without a retag what upstream answered is what it answers now.          *)
LEMMA UpstreamStep ==
  ASSUME TypeOK, [Next]_vars, retags' = 0,
         \A r \in Runs : RunIsUpstream(r),
         \A v \in Released : SourceIsUpstream(releases[v])
  PROVE  /\ retags = 0 /\ upstream' = upstream
         /\ \A r \in Runs : RunIsUpstream(r)'
         /\ \A v \in Released' : SourceIsUpstream(releases[v])'
  <1> DEFINE Goal == /\ retags = 0 /\ upstream' = upstream
                     /\ \A r \in Runs : RunIsUpstream(r)'
                     /\ \A v \in Released' : SourceIsUpstream(releases[v])'
  <1> USE DEF TypeOK, RunIsUpstream, SourceIsUpstream, ArchiveAccepted,
          Released, upstreamVars, releaseVars
  <1>1. ASSUME NEW r \in Runs, NEW v \in Versions, NEW s \in Sources,
               PushTag(r, v, s)
        PROVE  Goal
    BY <1>1 DEF PushTag
  <1>2. ASSUME NEW r \in Runs, Rerun(r)
        PROVE  Goal
    BY <1>2 DEF Rerun
  <1>3. ASSUME NEW b \in Builds, NEW c \in Checkpoints, RetagUpstream(b, c)
        PROVE  FALSE
    BY <1>3 DEF RetagUpstream
  <1>4. CASE CIWorkflow
    BY <1>4 DEF CIWorkflow, StartCI, FinishCI, RerunCI, runVars
  <1>5. CASE UNCHANGED vars
    BY <1>5 DEF vars, runVars
  <1>6. ASSUME NEW r \in Runs, RunStep(r) \/ Abort(r)
        PROVE  Goal
    <2>1. CASE Checkout(r)
      BY <2>1 DEF Checkout
    <2>2. CASE CheckMapping(r)
      BY <2>2 DEF CheckMapping, Proceed, End
    <2>3. CASE ResolveUpstreamTag(r)
      BY <2>3 DEF ResolveUpstreamTag, Proceed, End
    <2>4. CASE CheckArchive(r)
      BY <2>4 DEF CheckArchive, Proceed, End
    <2>5. CASE RequireCI(r)
      BY <2>5 DEF RequireCI, Proceed, End
    <2>6. CASE ViewRelease(r)
      BY <2>6 DEF ViewRelease, Proceed, End
    <2>7. CASE CreateRelease(r)
      <3>1. PICK v \in Versions : v = ref[r]
        BY <2>7 DEF CreateRelease
      <3>2. SourceIsUpstream(sha[r])
        BY <2>7 DEF CreateRelease
      <3>3. \A w \in Released' : releases'[w] = releases[w] \/ w = v
        BY <2>7, <3>1 DEF CreateRelease, TagMaps
      <3>4. \A w \in Released' : releases'[w] \in {releases[w], sha[r]}
        BY <2>7, <3>1, <3>3 DEF CreateRelease, TagMaps
      <3>5. \A w \in Released' : w \in Released \/ releases'[w] = sha[r]
        BY <3>4
      <3>6. QED
        BY <2>7, <3>2, <3>4, <3>5 DEF CreateRelease, End
    <2>8. CASE Abort(r)
      BY <2>8 DEF Abort, End
    <2>9. QED
      BY <1>6, <2>1, <2>2, <2>3, <2>4, <2>5, <2>6, <2>7, <2>8 DEF RunStep
  <1>7. QED
    BY <1>1, <1>2, <1>3, <1>4, <1>5, <1>6 DEF Next, Maintainers

(* While upstream keeps its tags, every release records the commit that    *)
(* upstream's tag names and vendors that commit's archive unmodified.      *)
THEOREM UpstreamCorrect == Spec => []ReleaseIsUpstream
  <1>1. Init => UpstreamInv
    BY DEF Init, UpstreamInv, RunIsUpstream, Released, NoTags
  <1>2. TypeOK /\ UpstreamInv /\ [Next]_vars => UpstreamInv'
    <2>1. ASSUME TypeOK, [Next]_vars, retags' = 0
          PROVE  retags = 0
      <3>1. ASSUME NEW b \in Builds, NEW c \in Checkpoints, RetagUpstream(b, c)
            PROVE  FALSE
        BY <2>1, <3>1 DEF RetagUpstream, TypeOK
      <3>2. CASE UNCHANGED upstreamVars
        BY <2>1, <3>2 DEF upstreamVars
      <3>3. QED
        BY <2>1, <3>1, <3>2
           DEF Next, Maintainers, CIWorkflow, RunStep, vars, PushTag, Rerun,
               StartCI, FinishCI, RerunCI, Checkout, CheckMapping,
               ResolveUpstreamTag, CheckArchive, RequireCI, ViewRelease,
               CreateRelease, Abort
    <2>2. QED
      BY <2>1, UpstreamStep DEF UpstreamInv
  <1>3. IInv /\ UpstreamInv => ReleaseIsUpstream
    <2> SUFFICES ASSUME IInv, UpstreamInv, retags = 0, NEW v \in Released
                 PROVE  LET s == releases[v]
                        IN  /\ upstream[v.build] = s.commit
                            /\ s.vendored = s.commit
                            /\ s.digest = s.commit
                            /\ s.clean
      BY DEF ReleaseIsUpstream
    <2>1. SourceIsUpstream(releases[v])
      BY DEF UpstreamInv
    <2>2. v.build = releases[v].tag
      BY DEF IInv, ReleasesAreSound, ReleaseIsSound, MappingAccepted,
             ValidIdentity
    <2>3. QED
      BY <2>1, <2>2 DEF SourceIsUpstream, ArchiveAccepted
  <1>4. QED
    BY <1>1, <1>2, <1>3, TypeCorrect, Invariance, PTL DEF Spec

-----------------------------------------------------------------------------
(* Refinement of the ledger.                                               *)

(* Every step of the pipeline is one entry written once into the ledger,   *)
(* under the version the entry carries, or does not show there.            *)
THEOREM ImplementsLedger == Spec => LedgerSpec
  <1>1. Init => Ledger!Init
    BY DEF Init, Ledger!Init, NoTags
  <1> DEFINE Shown == <<releases, uploads>>
  <1>2. IInv /\ [Next]_vars => [Ledger!Next]_Shown
    <2> SUFFICES ASSUME IInv, [Next]_vars
                 PROVE  [Ledger!Next]_Shown
      OBVIOUS
    <2>1. ASSUME NEW r \in Runs, CreateRelease(r)
          PROVE  [Ledger!Next]_Shown
      <3>1. PICK v \in Versions : v = ref[r]
        BY <2>1 DEF CreateRelease, IInv, TypeOK
      <3>2. sha[r] \in Sources
        BY <2>1 DEF CreateRelease, IInv, TypeOK
      <3>3. ValidIdentity(v, sha[r])
        BY <2>1, <3>1
           DEF CreateRelease, IInv, RunsAreSound, RunIsSound, Validated,
               MappingAccepted
      <3>4. CASE UNCHANGED Shown
        BY <3>4
      <3>5. CASE /\ releases[v] = None
                 /\ releases' = [releases EXCEPT ![v] = sha[r]]
                 /\ uploads' = [uploads EXCEPT ![v] = @ + 1]
        BY <3>2, <3>3, <3>5
           DEF Ledger!Next, Ledger!Publish, Ledger!ValidIdentity, ValidIdentity
      <3>6. QED
        BY <2>1, <3>1, <3>4, <3>5 DEF CreateRelease, releaseVars
    <2>2. CASE UNCHANGED Shown
      BY <2>2
    <2>3. QED
      BY <2>1, <2>2
         DEF Next, Maintainers, CIWorkflow, RunStep, vars, releaseVars, PushTag,
             Rerun, RetagUpstream, StartCI, FinishCI, RerunCI, Checkout,
             CheckMapping, ResolveUpstreamTag, CheckArchive, RequireCI,
             ViewRelease, Abort
  <1>3. QED
    BY <1>1, <1>2, Invariance, PTL DEF Spec, LedgerSpec, Ledger!Spec, Ledger!ledgerVars
=============================================================================
