------------------------------ MODULE ApiDrift ------------------------------
(***************************************************************************)
(* The drift between two API snapshots and the decision a breaking one     *)
(* needs: classify_api_drift and require_breaking_api_acceptance of        *)
(* tools/audit_snapshot.py.                                                *)
(*                                                                         *)
(* An API is what collect_api_snapshot records: declarations with their    *)
(* fingerprints and typed constants with their values, both keyed by name. *)
(* Macros and manual decisions are reported but never break anything and   *)
(* are left out.                                                           *)
(***************************************************************************)
EXTENDS FiniteSets

CONSTANTS DeclarationNames, Fingerprints,   \* "llama_decode", "FunctionDecl:..."
          ConstantNames, Values,            \* "LLAMA_TOKEN_NULL", "llama_token:-1"
          None                              \* no declaration, no file

PartialMaps(S, T) == UNION {[D -> T] : D \in SUBSET S}

Apis == [declarations : PartialMaps(DeclarationNames, Fingerprints),
         constants : PartialMaps(ConstantNames, Values)]

AddedNames(old, new) == DOMAIN new \ DOMAIN old
RemovedNames(old, new) == DOMAIN old \ DOMAIN new
ChangedNames(old, new) == {n \in DOMAIN old \cap DOMAIN new : old[n] # new[n]}

(* breaking_declarations: both fingerprints of what is removed or changed. *)
BrokenDeclarations(old, new) ==
    [n \in RemovedNames(old, new) \cup ChangedNames(old, new) |->
        [previous |-> old[n],
         current |-> IF n \in DOMAIN new THEN new[n] ELSE None]]

(* Mutant: the report names what breaks, without the fingerprints.         *)
ClassifyDriftByName(previous, current) ==
    LET old == previous.declarations
        new == current.declarations
    IN  [added_declarations |-> AddedNames(old, new),
         removed_declarations |-> RemovedNames(old, new),
         changed_declarations |-> ChangedNames(old, new),
         breaking_declarations |-> <<>>,
         added_constants |-> AddedNames(previous.constants, current.constants),
         removed_constants |-> RemovedNames(previous.constants, current.constants),
         changed_constants |-> ChangedNames(previous.constants, current.constants)]

ClassifyDrift(previous, current) ==
    LET old == previous.declarations
        new == current.declarations
    IN  [added_declarations |-> AddedNames(old, new),
         removed_declarations |-> RemovedNames(old, new),
         changed_declarations |-> ChangedNames(old, new),
         breaking_declarations |-> BrokenDeclarations(old, new),
         added_constants |-> AddedNames(previous.constants, current.constants),
         removed_constants |-> RemovedNames(previous.constants, current.constants),
         changed_constants |-> ChangedNames(previous.constants, current.constants)]

Breaking(report) == \/ report.removed_declarations # {}
                    \/ report.changed_declarations # {}
                    \/ report.removed_constants # {}
                    \/ report.changed_constants # {}

(* A breaking report passes only beside an acceptance file equal to it.    *)
AcceptanceSuffices(report, accepted) ==
    Breaking(report) => accepted # None /\ accepted = report

-----------------------------------------------------------------------------
(* What the gate is for: code written against one API compiles unchanged   *)
(* against another one that keeps every declaration and constant it has.   *)
Keeps(old, new) == /\ DOMAIN old \subseteq DOMAIN new
                   /\ \A n \in DOMAIN old : new[n] = old[n]

Compatible(previous, current) ==
    /\ Keeps(previous.declarations, current.declarations)
    /\ Keeps(previous.constants, current.constants)
=============================================================================
