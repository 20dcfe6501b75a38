---------------------------- MODULE VendoredTree ----------------------------
(***************************************************************************)
(* What tools/import_upstream.py promises of third_party/llama.cpp to      *)
(* everybody who reads it: the tree is whole or it is not there, and what  *)
(* is there was put there by a pinned import or was there before.          *)
(***************************************************************************)
CONSTANTS Checkpoints,  \* upstream commits, and the tree of each
          None          \* there is no tree

VARIABLES current,      \* the tree at the destination, None while it is away
          known         \* the checkpoints that were there or are pinned

vars == <<current, known>>

Init == /\ current \in Checkpoints \cup {None}
        /\ known = {current} \ {None}

(* A lock file names a checkpoint to import.                               *)
Pin(c) == /\ known' = known \cup {c}
          /\ UNCHANGED current

TakeAway == /\ current # None
            /\ current' = None
            /\ UNCHANGED known

PutInPlace(c) == /\ current = None
                 /\ c \in known
                 /\ current' = c
                 /\ UNCHANGED known

Next == \/ TakeAway
        \/ \E c \in Checkpoints : Pin(c) \/ PutInPlace(c)

Spec == Init /\ [][Next]_vars
=============================================================================
