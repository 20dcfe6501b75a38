------------------------- MODULE MCReleasePipeline -------------------------
(***************************************************************************)
(* Small instances of ReleasePipeline.  Two builds of which the first has  *)
(* a wrapper revision; checkpoint A is what upstream's first tag names     *)
(* before anyone moves it.                                                 *)
(***************************************************************************)
EXTENDS ReleasePipeline, FiniteSets, TLC

CONSTANTS A, B, r1, r2, r3

Version(b, r) == [build |-> b, revision |-> r]
Candidate(v, commit, digest, clean) ==
    [version |-> v, tag |-> v.build, commit |-> commit, digest |-> digest,
     vendored |-> digest, clean |-> clean]

MCCheckpoints == {A, B}
MCSymmetry == Permutations(Runs)

(* Two builds: a first release, a fix made for another checkpoint under    *)
(* the same build number, and a next checkpoint whose lock mixes the       *)
(* commit of one checkpoint with the archive of the other.                 *)
MCVersions == {Version(1, 0), Version(1, 1), Version(2, 0)}
MCSources == {Candidate(Version(1, 0), A, A, TRUE),
              Candidate(Version(1, 1), B, B, TRUE),
              Candidate(Version(2, 0), B, A, TRUE)}

(* The same versions, every source consistent.                             *)
MCPlainSources == {Candidate(v, A, A, TRUE) : v \in MCVersions}

(* One build with two revisions, the second and the third source made for  *)
(* a checkpoint that upstream's tag may come to name.                      *)
MCRevisions == {Version(1, 0), Version(1, 1), Version(1, 2)}
MCRevisedSources == {Candidate(Version(1, 0), A, A, TRUE),
                     Candidate(Version(1, 1), B, B, TRUE),
                     Candidate(Version(1, 2), B, B, TRUE)}

(* A search bound for a counterexample that needs no interleaving: one     *)
(* release run at a time and tags that carry their own version.            *)
OneRunAtATime ==
    /\ Cardinality({r \in Runs : step[r] \in Active}) <= 1
    /\ \A v \in Tagged(tags) : tags[v].version = v
=============================================================================
