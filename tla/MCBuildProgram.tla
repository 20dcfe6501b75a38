--------------------------- MODULE MCBuildProgram ---------------------------
(***************************************************************************)
(* Two shaders and fragments, one extension that one of two compilers has. *)
(* Shaders are alike, and so are fragments and versions.                   *)
(***************************************************************************)
EXTENDS BuildProgram, TLC

CONSTANTS old, new, matrix

MCAccepts == [g \in {old, new} |-> IF g = new THEN {matrix} ELSE {}]
Alike == Permutations(Comps) \cup Permutations(Fragments) \cup Permutations(Versions)
=============================================================================
