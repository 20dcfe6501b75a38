----------------------------- MODULE ExportWalk -----------------------------
(***************************************************************************)
(* tools/gen_exports.py reads the headers of a tree twice over with        *)
(* different rules: collect_api_snapshot records what audit_snapshot       *)
(* guards, generate_exports writes what consumers can name.  Each walks    *)
(* the declarations clang dumps in source order.                           *)
(*                                                                         *)
(* A declaration is a record; an enum carries its enumerators, which both  *)
(* walks visit right after it, and what else is inside another node stands *)
(* behind it in the sequence.  A type is what clang prints of it, one or   *)
(* two sequences of words; the snapshot keeps them for one compiler, and   *)
(* nothing is said of what another one would print.                        *)
(***************************************************************************)
EXTENDS MacroExpansion, Integers, FiniteSets

CONSTANTS
    LlamaNames,       \* names that start with llama_
    RequiredTypes,    \* REQUIRED_GGML_TYPES
    RequiredFunctions,\* REQUIRED_GGML_FUNCTIONS
    RequiredMembers,  \* REQUIRED_GGML_ENUM_MEMBERS
    EnumTypes,        \* GGML_ENUM_TYPES
    LlamaMembers,     \* enumerators that start with LLAMA_
    ApiLines,         \* the lines of llama.h with LLAMA_API
    BySize,           \* int8_t to uint64_t, and each named by its size
    Unplaced,         \* an anonymous type with its place, and without
    Implicit,         \* an enumerator without a value of its own
    Inputs            \* the headers: declarations and public macros

ASSUME EnumTypesAssumption == EnumTypes \subseteq RequiredTypes

(* llama.h begins with its include guard, and lines count from 1.          *)
ASSUME ApiLinesAssumption == ApiLines \subseteq Nat \ {0, 1}

(* What clang dumps: the implicit node of a record stands inside its       *)
(* definition, a struct has one definition, which follows the template it  *)
(* is of, the name of a type names nothing else and neither does an        *)
(* enumerator.                                                             *)
Kinds == {"function", "method", "record", "typedef", "template", "enum"}
IsFunction(d) == d.kind \in {"function", "method"}
IsType(d) == d.kind \in {"record", "typedef", "template"}
EnumeratorsOf(d) == {d.members[i] : i \in DOMAIN d.members}

WellFormedEnum(decls, i) ==
    LET enum == decls[i]
    IN  /\ Len(enum.values) \in Nat /\ DOMAIN enum.values = 1..Len(enum.values)
        /\ DOMAIN enum.members = DOMAIN enum.values
        /\ \A k \in DOMAIN enum.values : enum.values[k] \in Int \cup {Implicit}
        /\ \A k \in DOMAIN enum.members, j \in DOMAIN decls :
              /\ enum.members[k] # decls[j].name
              /\ \A l \in DOMAIN decls[j].members :
                    enum.members[k] = decls[j].members[l] => i = j /\ k = l

WellFormed(decls) ==
    /\ Len(decls) \in Nat /\ DOMAIN decls = 1..Len(decls)
    /\ \A i \in DOMAIN decls :
          /\ decls[i].kind \in Kinds
          /\ decls[i].kind = "record" /\ decls[i].implicit =>
                ~decls[i].complete /\
                \E j \in 1..(i - 1) :
                    decls[j].kind = "record" /\ decls[j].name = decls[i].name
                    /\ decls[j].complete
    /\ \A i, j \in DOMAIN decls :
          /\ decls[i].kind = "record" /\ decls[j].kind = "record"
             /\ decls[i].complete /\ decls[j].complete
             /\ decls[i].name = decls[j].name => i = j
          /\ decls[i].kind = "template" /\ decls[j].kind = "record"
             /\ decls[j].complete /\ decls[i].name = decls[j].name => i < j
          /\ IsType(decls[i]) /\ ~IsType(decls[j]) =>
                decls[i].name \notin {decls[j].name} \cup EnumeratorsOf(decls[j])
    /\ \A i \in DOMAIN decls : decls[i].kind = "enum" => WellFormedEnum(decls, i)

ASSUME HeadersAssumption == \A input \in Inputs : WellFormed(input.ast)

ASSUME ImplicitAssumption == Implicit \notin Int

(* The preprocessor knows finitely many names, and what it prints of an    *)
(* object macro are tokens.                                                *)
ASSUME MacrosAssumption ==
    /\ IsFiniteSet(MacroNames) /\ TypedMacros \subseteq MacroNames
    /\ Raises \notin Seq(Tokens)
    /\ \A input \in Inputs :
          /\ DOMAIN input.macros \subseteq MacroNames
          /\ \A m \in DOMAIN input.macros :
                input.macros[m] = FunctionLike \/ input.macros[m] \in Seq(Tokens)

VARIABLES
    ast,            \* the declarations, in source order
    phase,          \* "collect", "export", "written" or "raised"
    at,             \* the declaration the walk is at
    declarations,   \* the snapshot
    complete,       \* complete_records
    members,        \* ggml_enum_members of the walk
    exported,       \* names with a using-declaration
    typed           \* typed constants, once the walks are over

vars == <<ast, macros, phase, at, declarations, complete, members, exported, typed>>

Required == RequiredTypes \cup RequiredFunctions \cup RequiredMembers

Init ==
    /\ \E input \in Inputs : ast = input.ast /\ macros = input.macros
    /\ phase = "collect"
    /\ at = 1
    /\ declarations = <<>>
    /\ complete = {}
    /\ members = {}
    /\ exported = {}
    /\ typed = <<>>

-----------------------------------------------------------------------------
(* Fingerprints.                                                           *)

(* Without the file and line of an anonymous struct, union or class.       *)
Nameless(text) ==
    [i \in DOMAIN text |-> IF text[i] \in DOMAIN Unplaced THEN Unplaced[text[i]]
                           ELSE text[i]]

(* The underlying type of a fixed-width integer differs by platform: where *)
(* clang prints one, the type itself with its integers named by size       *)
(* stands there instead.                                                   *)
TypeFingerprint(type) ==
    LET qual == Nameless(type.qual)
    IN  [key \in DOMAIN type |->
            IF key = "desugared" /\ \E i \in DOMAIN qual : qual[i] \in DOMAIN BySize
            THEN [i \in DOMAIN qual |-> IF qual[i] \in DOMAIN BySize
                                        THEN BySize[qual[i]] ELSE qual[i]]
            ELSE Nameless(type[key])]

RecordFingerprint(d) ==
    [kind |-> "record", complete |-> d.complete,
     fields |-> [i \in DOMAIN d.fields |-> TypeFingerprint(d.fields[i])]]

(* Mutant: counts enumerators and not from the last value.                 *)
EnumValuesByPosition(values) ==
    [i \in DOMAIN values |-> IF values[i] = Implicit THEN i - 1 ELSE values[i]]

(* Mutant: an enumerator without a value of its own has none.              *)
EnumValuesWritten(values) == values

(* _resolved_enum_values                                                   *)
EnumValues(values) ==
    LET value[i \in DOMAIN values] ==
            CASE values[i] # Implicit -> values[i]
              [] values[i] = Implicit /\ i = 1 -> 0
              [] OTHER -> value[i - 1] + 1
    IN  value

-----------------------------------------------------------------------------
(* collect_api_snapshot: what a declaration adds to the snapshot.          *)

Guarded == LlamaNames \cup RequiredTypes

NewMembers(d) == IF d.name \in EnumTypes THEN EnumeratorsOf(d) ELSE {}

(* The declarations with the new entries written over the old.             *)
Over(new, old) ==
    [n \in DOMAIN new \cup DOMAIN old |->
        IF n \in DOMAIN new THEN new[n] ELSE old[n]]

(* An entry for the name, when the condition holds.                        *)
EntryIf(condition, name, fingerprint) ==
    [n \in (IF condition THEN {name} ELSE {}) |-> fingerprint]

(* The line clang gives a declaration, 0 when it leaves it out: then each  *)
(* walk takes a line of its own.                                           *)
LineOf(d, default) == IF d.line = 0 THEN default ELSE d.line

(* A function is recorded with its type as clang prints it.                *)
FunctionEntry(d) ==
    EntryIf(\/ d.name \in LlamaNames /\ LineOf(d, 0) \in ApiLines
            \/ d.name \in RequiredFunctions,
            d.name, [kind |-> d.kind, type |-> d.type])

(* A complete record is recorded always, another while there is none.      *)
RecordEntry(d) ==
    EntryIf(/\ d.name \in Guarded
            /\ d.complete \/ (d.name \notin complete /\ ~d.implicit),
            d.name, RecordFingerprint(d))

(* Mutant: the typedef of a struct replaces its layout.                    *)
TypeEntryAlways(d) ==
    EntryIf(d.name \in Guarded, d.name, [kind |-> d.kind, type |-> d.type])

(* A typedef, the template of a class or an enum by its name.              *)
TypeEntry(d) ==
    EntryIf(d.name \in Guarded /\ (d.kind = "typedef" => d.name \notin complete),
            d.name, [kind |-> d.kind, type |-> d.type])

(* The enumerators that are recorded, and the enum itself.                 *)
EnumEntries(d) ==
    LET guarded == LlamaMembers \cup RequiredMembers \cup members \cup NewMembers(d)
        Place(m) == CHOOSE i \in DOMAIN d.members : d.members[i] = m
    IN  Over([m \in EnumeratorsOf(d) \cap guarded |->
                 [kind |-> "enumerator", value |-> EnumValues(d.values)[Place(m)]]],
             TypeEntry(d))

Entries(d) == CASE IsFunction(d) -> FunctionEntry(d)
                [] d.kind = "record" -> RecordEntry(d)
                [] d.kind \in {"typedef", "template"} -> TypeEntry(d)
                [] d.kind = "enum" -> EnumEntries(d)

(* ggml_enum_members grows by the members of the ggml enums.               *)
NoteMembers(d) ==
    members' = IF d.kind = "enum" THEN members \cup NewMembers(d) ELSE members

Collect ==
    /\ phase = "collect" /\ at <= Len(ast)
    /\ LET d == ast[at]
       IN  /\ declarations' = Over(Entries(d), declarations)
           /\ complete' = IF d.kind = "record" /\ d.complete /\ d.name \in Guarded
                          THEN complete \cup {d.name} ELSE complete
           /\ NoteMembers(d)
    /\ at' = at + 1
    /\ UNCHANGED <<ast, macros, phase, exported, typed>>

(* The snapshot ends with the typed constants; a macro that cannot be      *)
(* expanded raises.                                                        *)
EndCollect ==
    /\ phase = "collect" /\ at > Len(ast)
    /\ typed' = TypedConstants
    /\ phase' = IF AllExpand THEN "export" ELSE "raised"
    /\ at' = 1
    /\ members' = {}
    /\ UNCHANGED <<ast, macros, declarations, complete, exported>>

-----------------------------------------------------------------------------
(* generate_exports: the names a declaration exports.                      *)

(* Mutant: static helpers are exported too.                                *)
ExportsOfWithHelpers(d) ==
    CASE IsFunction(d) -> {d.name} \cap (RequiredFunctions \cup LlamaNames)
      [] IsType(d) -> {d.name} \cap Guarded
      [] d.kind = "enum" ->
            ({d.name} \cap Guarded)
            \cup (EnumeratorsOf(d) \cap (RequiredMembers \cup LlamaMembers))

ExportsOf(d) ==
    CASE IsFunction(d) ->
            {d.name} \cap (RequiredFunctions \cup
                           IF LineOf(d, 1) \in ApiLines THEN LlamaNames ELSE {})
      [] IsType(d) -> {d.name} \cap Guarded
      [] d.kind = "enum" ->
            ({d.name} \cap Guarded)
            \cup (EnumeratorsOf(d) \cap (RequiredMembers \cup LlamaMembers))

Export ==
    /\ phase = "export" /\ at <= Len(ast)
    /\ LET d == ast[at]
       IN  /\ exported' = exported \cup ExportsOf(d)
           /\ NoteMembers(d)
    /\ at' = at + 1
    /\ UNCHANGED <<ast, macros, phase, declarations, complete, typed>>

(* The members of the exported ggml enums are added, and nothing is        *)
(* written when a required name was not found.                             *)
EndExport ==
    /\ phase = "export" /\ at > Len(ast)
    /\ exported' = exported \cup members
    /\ phase' = IF Required \subseteq exported' THEN "written" ELSE "raised"
    /\ UNCHANGED <<ast, macros, at, declarations, complete, members, typed>>

Next == Collect \/ EndCollect \/ Export \/ EndExport

Spec == Init /\ [][Next]_vars

-----------------------------------------------------------------------------
(* Properties.                                                             *)

(* Nothing is recorded that is not guarded by its name, a recorded value   *)
(* is a number, and the walk is at a declaration or past the last.         *)
TypeOK ==
    /\ at \in 1..(Len(ast) + 1)
    /\ complete \subseteq Guarded
    /\ \A n \in DOMAIN declarations :
          LET d == declarations[n]
          IN  /\ n \in LlamaNames \cup LlamaMembers \cup Required \cup
                        UNION {NewMembers(ast[i]) : i \in
                                 {j \in DOMAIN ast : ast[j].kind = "enum"}}
              /\ d.kind = "enumerator" => d.value \in Int

(* The names a consumer can use are exactly the names whose signatures the *)
(* snapshot guards, although two walks with separate rules find them, and  *)
(* generation fails only for a required name that the snapshot misses too  *)
(* (collect_api_snapshot against generate_exports).                        *)
ExportsMatchSnapshot ==
    /\ phase = "written" => exported = DOMAIN declarations
    /\ phase = "raised" /\ (\A m \in TypedMacros : typed[m] # Raises) =>
          ~(Required \subseteq DOMAIN declarations)

Visited == IF phase = "collect" THEN 1..(at - 1) ELSE DOMAIN ast

(* The snapshot guards the complete layout of every record, in whatever    *)
(* order its definition, its forward declarations, its typedef, its        *)
(* template and its implicit node come (complete_records of                *)
(* collect_api_snapshot).                                                  *)
LayoutsAreGuarded ==
    \A i \in Visited :
        ast[i].kind = "record" /\ ast[i].complete /\ ast[i].name \in Guarded =>
            declarations[ast[i].name] = RecordFingerprint(ast[i])

(* The value C gives the i-th enumerator: the last one that was written    *)
(* plus the distance from it.                                              *)
ValueInC(values, i) ==
    LET written == {j \in 1..i : values[j] # Implicit}
        last == CHOOSE j \in written : \A k \in written : k <= j
    IN  IF written = {} THEN i - 1 ELSE values[last] + (i - last)

(* The snapshot records the value C gives each enumerator, across explicit *)
(* values, negative ones and the runs after them (_resolved_enum_values).  *)
EnumeratorsHaveTheirValues ==
    \A i \in Visited :
        ast[i].kind = "enum" =>
            \A j \in DOMAIN ast[i].members :
                ast[i].members[j] \in DOMAIN declarations =>
                    declarations[ast[i].members[j]].value
                        = ValueInC(ast[i].values, j)

(* The snapshot and the generated header give every typed constant the     *)
(* tokens its macro has when no object macro is left to replace; a name    *)
(* inside it that is no object macro stays as it is.  Generation fails     *)
(* exactly when the constant itself is no object macro or its expansion    *)
(* has no end (_expand_macro).                                             *)
ConstantsAreExpanded ==
    phase # "collect" =>
        \A m \in TypedMacros :
            LET all == Replaced(<<m>>, Cardinality(MacroNames))
                finite == /\ m \in ObjectMacros
                          /\ \A i \in DOMAIN all : all[i] \notin ObjectMacros
            IN  typed[m] = IF finite THEN all ELSE Raises
=============================================================================
