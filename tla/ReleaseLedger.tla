--------------------------- MODULE ReleaseLedger ---------------------------
(***************************************************************************)
(* What the release workflow promises its consumers: a ledger written once *)
(* per version, in which every entry is a source that carries that very    *)
(* version and names the checkpoint it vendors.  A second upload would     *)
(* change the bytes and the digest consumers rely on even if it came from  *)
(* the same source, so uploads are counted.  Nothing else of the pipeline  *)
(* (tags, CI, workflow runs, upstream) shows.                              *)
(***************************************************************************)
EXTENDS ReleaseIdentity

CONSTANT Sources        \* the commits of the wrapper repository

VARIABLES published,    \* published[v]: the source of the asset, or None
          uploads       \* how often each version's assets were uploaded

ledgerVars == <<published, uploads>>

Init == /\ published = [v \in Versions |-> None]
        /\ uploads = [v \in Versions |-> 0]

Publish(v, s) ==
    /\ published[v] = None
    /\ ValidIdentity(v, s)
    /\ published' = [published EXCEPT ![v] = s]
    /\ uploads' = [uploads EXCEPT ![v] = @ + 1]

Next == \E v \in Versions, s \in Sources : Publish(v, s)

Spec == Init /\ [][Next]_ledgerVars
=============================================================================
