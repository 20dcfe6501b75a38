-------------------------- MODULE ReleaseIdentity --------------------------
(***************************************************************************)
(* What a release of the wrapper is called and what it has to agree with:  *)
(* the pure part of tools/check_release.py.                                *)
(*                                                                         *)
(* A version is the upstream build number plus a wrapper revision, 0 when  *)
(* the text has none ("b10069", "b10069.1").  A source is one commit of    *)
(* the wrapper repository, reduced to the fields the checks read:          *)
(*    version   mcpp.toml [package].version                                *)
(*    tag       upstream.lock tag, the build number it names               *)
(*    commit    upstream.lock commit                                       *)
(*    digest    upstream.lock archive_sha256, the checkpoint whose tag     *)
(*              archive has that digest                                    *)
(*    vendored  the checkpoint whose files are in third_party/llama.cpp    *)
(*    clean     TRUE when validate_vendor_boundary, gen_exports --check,   *)
(*              audit_snapshot --check and the unit suite pass on it       *)
(* Repository URL, archive URL and hexadecimal form are the same constant  *)
(* in every source the project can hold and are left out.                  *)
(***************************************************************************)
EXTENDS Integers

CONSTANTS Versions,     \* the versions a tag may name
          Checkpoints,  \* upstream commits (and the archive of each)
          None          \* no such tag, no such release, no workflow run yet

ASSUME VersionsAssumption == Versions \subseteq [build : Nat, revision : Nat]

(* Upstream build numbers: the b<n> of its tags.                           *)
Builds == {v.build : v \in Versions}

AllSources == [version : Versions, tag : Builds, commit : Checkpoints,
               digest : Checkpoints, vendored : Checkpoints,
               clean : BOOLEAN]

ASSUME NoneAssumption == None \notin AllSources \cup Versions

(* Version is a NamedTuple: build first, then revision. *)
Precedes(v, w) == \/ v.build < w.build
                  \/ v.build = w.build /\ v.revision < w.revision

(* _identity_from_text accepts the manifest and lock of s under the tag    *)
(* named v: the tag is the version, and the version names the checkpoint   *)
(* the lock vendors.                                                       *)
ValidIdentity(v, s) == /\ s.version = v
                       /\ s.version.build = s.tag

(* The fields of ReleaseIdentity, which validate_existing_release compares *)
IdentityOf(s) == <<s.version, s.tag, s.commit, s.digest>>

(* Mutant: a same-build release of another checkpoint passes.              *)
TransitionAllowedAnyCheckpoint(previous, current) ==
    Precedes(previous.version, current.version)

(* validate_version_transition: the version increases; on the same         *)
(* checkpoint only the revision moves, on another one the build grows.     *)
TransitionAllowed(previous, current) ==
    /\ Precedes(previous.version, current.version)
    /\ LET sameCheckpoint == /\ current.tag = previous.tag
                             /\ current.commit = previous.commit
       IN  IF sameCheckpoint
           THEN /\ current.version.build = previous.version.build
                /\ current.version.revision > previous.version.revision
           ELSE current.version.build > previous.version.build

Tagged(tags) == {v \in Versions : tags[v] # None}

(* The tag _previous_identity stops at: the newest one older than v.       *)
IsNearestOlder(tags, w, v) ==
    /\ w \in Tagged(tags)
    /\ Precedes(w, v)
    /\ \A u \in Tagged(tags) : Precedes(u, v) => ~ Precedes(w, u)

(* Mutant: a newer tag is no error.                                        *)
PreviousAcceptedBelowNewer(tags, v, s) ==
    \A w \in Versions :
        IsNearestOlder(tags, w, v)
            => /\ ValidIdentity(w, tags[w])
               /\ TransitionAllowed(tags[w], s)

(* A newer tag is an error; the nearest older one must carry a valid       *)
(* identity, because _tag_identity raises on it otherwise, and the step    *)
(* from it must be allowed.                                                *)
PreviousAccepted(tags, v, s) ==
    /\ \A u \in Tagged(tags) : ~ Precedes(v, u)
    /\ \A w \in Versions :
          IsNearestOlder(tags, w, v)
              => /\ ValidIdentity(w, tags[w])
                 /\ TransitionAllowed(tags[w], s)

(* The part of check_release.main that reads only the checkout and its     *)
(* tags: load_identity, the existing tag, the previous tag.                *)
MappingAccepted(tags, v, s) ==
    /\ ValidIdentity(v, s)
    /\ tags[v] # None => /\ ValidIdentity(v, tags[v])
                             /\ IdentityOf(s) = IdentityOf(tags[v])
    /\ PreviousAccepted(tags, v, s)
=============================================================================
