-------------------------- MODULE ReleasePipeline --------------------------
(***************************************************************************)
(* How a tag becomes a release: .github/workflows/release.yml with the     *)
(* checks of tools/check_release.py and tools/check_ci_run.py it runs.     *)
(*                                                                         *)
(* Actors: maintainers who push tags, one release workflow run per push    *)
(* (release.yml has no concurrency group, so runs of different tags        *)
(* interleave, and a run may be re-run), the CI workflow, whose runs start *)
(* and finish at any time, and upstream, whose tags the checks re-resolve  *)
(* because git lets them move.                                             *)
(*                                                                         *)
(* A run works on two things of different age: the tags it fetched at      *)
(* checkout, and what GitHub answers when a later step asks.               *)
(***************************************************************************)
EXTENDS ReleaseIdentity, Sequences

CONSTANTS Sources,      \* the commits of the wrapper repository
          Runs,         \* release workflow runs
          MaxCIRuns,    \* bound: CI workflow runs ever started
          MaxRetags     \* bound: how often upstream moves a tag

ASSUME SourcesAssumption == Sources \subseteq AllSources
ASSUME BoundsAssumption == MaxCIRuns \in Nat /\ MaxRetags \in Nat

Steps == {"unused", "queued", "mapping", "upstream", "archive", "ci",
          "view", "create", "published", "failed"}
Active == Steps \ {"unused", "published", "failed"}
Outcomes == {"success", "failure"}
CIStates == {"running"} \cup Outcomes

TagMaps == [Versions -> Sources \cup {None}]
NoTags == [v \in Versions |-> None]

VARIABLES
    tags,       \* the wrapper repository's tags; published tags are immutable
    upstream,   \* the checkpoint each upstream tag resolves to
    retags,     \* upstream tag moves so far
    ciRuns,     \* CI workflow runs in the order of their ids
    step,       \* per release run: the workflow step it is about to take
    ref,        \* per release run: GITHUB_REF_NAME
    sha,        \* per release run: GITHUB_SHA, the commit checked out
    seen,       \* per release run: the tags its checkout fetched
    releases,   \* GitHub releases: the source of each release's asset
    uploads,    \* how often the asset of each release was uploaded
    basis,      \* history: the tags a release was validated against
    green       \* history: commits whose latest CI run was once a success

upstreamVars == <<upstream, retags>>
runVars == <<step, ref, sha, seen>>
releaseVars == <<releases, uploads, basis>>
ciVars == <<ciRuns, green>>
vars == <<upstreamVars, tags, runVars, releaseVars, ciVars>>

-----------------------------------------------------------------------------
(* require_latest_success: of the runs of exactly this commit, the one     *)
(* with the highest id must be completed with success.                     *)
RunsOf(ci, s) == {i \in 1 .. Len(ci) : ci[i].sha = s}

LatestSuccess(ci, s) ==
    \E i \in RunsOf(ci, s) : /\ \A j \in RunsOf(ci, s) : j <= i
                             /\ ci[i].state = "success"

(* Every change of the CI list goes through here: green records the        *)
(* commits that could pass require_latest_success right after it.          *)
SetCI(list) ==
    /\ ciRuns' = list
    /\ green' = green \cup {s \in Sources : LatestSuccess(list, s)}

-----------------------------------------------------------------------------
Init ==
    /\ tags = NoTags
    /\ upstream \in [Builds -> Checkpoints]
    /\ retags = 0
    /\ ciRuns = <<>>
    /\ step = [r \in Runs |-> "unused"]
    /\ ref = [r \in Runs |-> None]
    /\ sha = [r \in Runs |-> None]
    /\ seen = [r \in Runs |-> NoTags]
    /\ releases = NoTags
    /\ uploads = [v \in Versions |-> 0]
    /\ basis = [v \in Versions |-> NoTags]
    /\ green = {}

-----------------------------------------------------------------------------
(* Maintainers.  Nothing makes the pushed commit carry the tag's version,  *)
(* and a tag once pushed is neither moved nor deleted (policy, line 65).   *)
PushTag(r, v, s) ==
    /\ tags[v] = None
    /\ step[r] = "unused"
    /\ tags' = [tags EXCEPT ![v] = s]
    /\ step' = [step EXCEPT ![r] = "queued"]
    /\ ref' = [ref EXCEPT ![r] = v]
    /\ sha' = [sha EXCEPT ![r] = s]
    /\ UNCHANGED <<upstreamVars, seen, releaseVars, ciVars>>

(* The same run again, on the same commit and ref, with a new checkout.    *)
Rerun(r) ==
    /\ step[r] \in {"published", "failed"}
    /\ step' = [step EXCEPT ![r] = "queued"]
    /\ UNCHANGED <<upstreamVars, tags, ref, sha, seen, releaseVars, ciVars>>

-----------------------------------------------------------------------------
(* Upstream moves a tag to another commit.                                 *)
RetagUpstream(b, c) ==
    /\ retags < MaxRetags
    /\ upstream[b] # c
    /\ upstream' = [upstream EXCEPT ![b] = c]
    /\ retags' = retags + 1
    /\ UNCHANGED <<tags, runVars, releaseVars, ciVars>>

-----------------------------------------------------------------------------
(* The CI workflow: a push, a pull request or a dispatch starts a run; a   *)
(* completed run may be re-run under its own id.                           *)
StartCI(s) ==
    /\ Len(ciRuns) < MaxCIRuns
    /\ SetCI(Append(ciRuns, [sha |-> s, state |-> "running"]))
    /\ UNCHANGED <<upstreamVars, tags, runVars, releaseVars>>

FinishCI(i, outcome) ==
    /\ ciRuns[i].state = "running"
    /\ SetCI([ciRuns EXCEPT ![i].state = outcome])
    /\ UNCHANGED <<upstreamVars, tags, runVars, releaseVars>>

RerunCI(i) ==
    /\ ciRuns[i].state \in Outcomes
    /\ SetCI([ciRuns EXCEPT ![i].state = "running"])
    /\ UNCHANGED <<upstreamVars, tags, runVars, releaseVars>>

-----------------------------------------------------------------------------
(* The steps of the publish job.  A step that refuses ends the run, and    *)
(* the runner with its checkout goes away with the run.                    *)
End(r, how) ==
    /\ step' = [step EXCEPT ![r] = how]
    /\ seen' = [seen EXCEPT ![r] = NoTags]

Proceed(r, at, accepted, next) ==
    /\ step[r] = at
    /\ IF accepted THEN /\ step' = [step EXCEPT ![r] = next]
                        /\ UNCHANGED seen
                   ELSE End(r, "failed")

(* actions/checkout with fetch-depth 0: the commit and every tag there is. *)
Checkout(r) ==
    /\ step[r] = "queued"
    /\ step' = [step EXCEPT ![r] = "mapping"]
    /\ seen' = [seen EXCEPT ![r] = tags]
    /\ UNCHANGED <<upstreamVars, tags, ref, sha, releaseVars, ciVars>>

(* check_mwrap_release --tag, the unit suite, and check_release up to its  *)
(* repository checks: all of it local to the checkout.                     *)
CheckMapping(r) ==
    /\ Proceed(r, "mapping", MappingAccepted(seen[r], ref[r], sha[r]), "upstream")
    /\ UNCHANGED <<upstreamVars, tags, ref, sha, releaseVars, ciVars>>

(* Mutant: the repository checks run without --verify-tag.                 *)
ResolveUpstreamTagSkipped(r) ==
    /\ Proceed(r, "upstream", TRUE, "archive")
    /\ UNCHANGED <<upstreamVars, tags, ref, sha, releaseVars, ciVars>>

(* import_upstream --verify-tag: the first of two requests to upstream.    *)
ResolveUpstreamTag(r) ==
    /\ Proceed(r, "upstream", upstream[sha[r].tag] = sha[r].commit, "archive")
    /\ UNCHANGED <<upstreamVars, tags, ref, sha, releaseVars, ciVars>>

(* import_upstream --check: the tag archive as it is now, its digest, its  *)
(* files against the vendored ones; then the two offline repository checks.*)
ArchiveAccepted(s) == /\ upstream[s.tag] = s.digest
                      /\ s.vendored = s.digest
                      /\ s.clean

CheckArchive(r) ==
    /\ Proceed(r, "archive", ArchiveAccepted(sha[r]), "ci")
    /\ UNCHANGED <<upstreamVars, tags, ref, sha, releaseVars, ciVars>>

(* Mutant: any successful run of the commit is enough.                     *)
RequireCIOnce(r) ==
    /\ Proceed(r, "ci",
               \E i \in RunsOf(ciRuns, sha[r]) : ciRuns[i].state = "success",
               "view")
    /\ UNCHANGED <<upstreamVars, tags, ref, sha, releaseVars, ciVars>>

(* check_ci_run on the list the API returns for GITHUB_SHA.                *)
RequireCI(r) ==
    /\ Proceed(r, "ci", LatestSuccess(ciRuns, sha[r]), "view")
    /\ UNCHANGED <<upstreamVars, tags, ref, sha, releaseVars, ciVars>>

(* gh release view, read by its exit status alone: an existing release is  *)
(* refused, and a request that fails (the network, the token) is taken for *)
(* a release that does not exist.                                          *)
ViewRelease(r) ==
    /\ step[r] = "view"
    /\ \E found \in {FALSE, releases[ref[r]] # None} :
          Proceed(r, "view", ~ found, "create")
    /\ UNCHANGED <<upstreamVars, tags, ref, sha, releaseVars, ciVars>>

(* Mutant: an existing release has its assets uploaded again (--clobber).  *)
CreateReleaseAgain(r) ==
    /\ step[r] = "create"
    /\ LET v == ref[r]
       IN  IF tags[v] # None
           THEN /\ releases' = [releases EXCEPT ![v] = sha[r]]
                /\ uploads' = [uploads EXCEPT ![v] = @ + 1]
                /\ basis' = [basis EXCEPT ![v] = seen[r]]
                /\ End(r, "published")
           ELSE /\ End(r, "failed")
                /\ UNCHANGED releaseVars
    /\ UNCHANGED <<upstreamVars, tags, ref, sha, ciVars>>

(* gh release create --verify-tag with the asset git archive made of       *)
(* GITHUB_SHA.  GitHub keeps one release per tag and refuses a second.     *)
CreateRelease(r) ==
    /\ step[r] = "create"
    /\ LET v == ref[r]
       IN  IF releases[v] = None /\ tags[v] # None
           THEN /\ releases' = [releases EXCEPT ![v] = sha[r]]
                /\ uploads' = [uploads EXCEPT ![v] = @ + 1]
                /\ basis' = [basis EXCEPT ![v] = seen[r]]
                /\ End(r, "published")
           ELSE /\ End(r, "failed")
                /\ UNCHANGED releaseVars
    /\ UNCHANGED <<upstreamVars, tags, ref, sha, ciVars>>

(* The network, the runner or the 30 minute limit ends a run anywhere.     *)
Abort(r) ==
    /\ step[r] \in Active
    /\ End(r, "failed")
    /\ UNCHANGED <<upstreamVars, tags, ref, sha, releaseVars, ciVars>>

-----------------------------------------------------------------------------
RunStep(r) == \/ Checkout(r) \/ CheckMapping(r) \/ ResolveUpstreamTag(r)
              \/ CheckArchive(r) \/ RequireCI(r) \/ ViewRelease(r)
              \/ CreateRelease(r)

Maintainers == \E r \in Runs :
                  \/ \E v \in Versions, s \in Sources : PushTag(r, v, s)
                  \/ Rerun(r)

CIWorkflow == \/ \E s \in Sources : StartCI(s)
              \/ \E i \in 1 .. Len(ciRuns) :
                    \/ \E outcome \in Outcomes : FinishCI(i, outcome)
                    \/ RerunCI(i)

Next == \/ Maintainers
        \/ \E b \in Builds, c \in Checkpoints : RetagUpstream(b, c)
        \/ CIWorkflow
        \/ \E r \in Runs : RunStep(r) \/ Abort(r)

Spec == Init /\ [][Next]_vars

-----------------------------------------------------------------------------
(* Properties                                                              *)

Released == {v \in Versions : releases[v] # None}

(* Every variable has the shape the pipeline gives it; a run past its      *)
(* queue has a ref and a commit, and a checkout once it left the queue.    *)
TypeOK ==
    /\ tags \in TagMaps
    /\ upstream \in [Builds -> Checkpoints]
    /\ retags \in 0 .. MaxRetags
    /\ ciRuns \in Seq([sha : Sources, state : CIStates])
    /\ Len(ciRuns) <= MaxCIRuns
    /\ step \in [Runs -> Steps]
    /\ ref \in [Runs -> Versions \cup {None}]
    /\ sha \in [Runs -> Sources \cup {None}]
    /\ \A r \in Runs : step[r] # "unused" => ref[r] # None /\ sha[r] # None
    /\ seen \in [Runs -> TagMaps]
    /\ releases \in TagMaps
    /\ uploads \in [Versions -> Nat]
    /\ basis \in [Versions -> TagMaps]
    /\ green \subseteq Sources

(* Two releases are validated in the order of their versions, however the  *)
(* runs interleave: the newer one was checked against the older one's tag, *)
(* and the older one when the newer tag was not there yet.                 *)
ValidatedInOrder ==
    \A v, w \in Released :
        Precedes(v, w) => /\ basis[v][w] = None
                          /\ basis[w][v] = releases[v]

(* Two releases with no tag between them that share the build number share *)
(* the upstream commit, although upstream may move its tags meanwhile and  *)
(* each run looks only at tags older than its own checkout.                *)
NeighboursAgree ==
    \A v, w \in Released :
        /\ IsNearestOlder(tags, v, w)
        /\ v.build = w.build
        => releases[v].commit = releases[w].commit

(* A released commit has been one whose latest CI run was a success.       *)
ReleasedWasGreen == \A v \in Released : releases[v] \in green

(* While upstream keeps its tags, a release records the commit upstream's  *)
(* tag names, and what it vendors is that commit's archive, unmodified.    *)
ReleaseIsUpstream ==
    retags = 0 =>
        \A v \in Released :
            LET s == releases[v]
            IN  /\ upstream[v.build] = s.commit
                /\ s.vendored = s.commit
                /\ s.digest = s.commit
                /\ s.clean

(* The pipeline implements the ledger its consumers read: each version is  *)
(* uploaded once, from a source that carries it, although a workflow run   *)
(* may be repeated and may fail to see the release it made before          *)
(* ("refusing to change immutable assets", release.yml).                   *)
Ledger == INSTANCE ReleaseLedger WITH published <- releases
LedgerSpec == Ledger!Spec

-----------------------------------------------------------------------------
(* Statements of the sources that the pipeline does not keep.              *)

(* "releases move forward" (check_release.py): a release is newer than     *)
(* every release that was published before it.                             *)
PublishedInOrder ==
    [][\A v, w \in Versions :
          /\ releases[v] = None /\ releases'[v] # None
          /\ releases[w] # None
          => Precedes(w, v)]_vars

(* "A new checkpoint IS a new build number" (check_release.py): releases   *)
(* of one build number have one upstream commit.                           *)
OneCheckpointPerBuild ==
    \A v, w \in Released :
        v.build = w.build => releases[v].commit = releases[w].commit
=============================================================================
