-------------------------- MODULE MCImportUpstream --------------------------
(***************************************************************************)
(* Small instances of ImportUpstream: two checkpoints with a file that     *)
(* changed and one that did not.                                           *)
(***************************************************************************)
EXTENDS ImportUpstream, TLC

CONSTANTS old, new, same, changed, p1, p2

MCContent == [c \in Checkpoints |-> [f \in Files |-> IF f = same THEN f ELSE c]]
MCSymmetry == Permutations(Processes)
=============================================================================
