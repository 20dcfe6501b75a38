---------------------------- MODULE MCExportWalk ----------------------------
(***************************************************************************)
(* Headers of up to three declarations in any order, with or without the   *)
(* required ggml names after them; one enum with every pattern of values;  *)
(* and every table of three macros with up to two tokens each.             *)
(***************************************************************************)
EXTENDS ExportWalk

CONSTANTS int64, size, long, unsigned,      \* words of types
          struct_at, struct_, enum_at, bits64,
          params, decode,                   \* llama_* names
          tensor, type, level, init,        \* ggml_* names
          x, y, z, f32, cpu,                \* enumerators
          seed, magic, api, literal         \* macros and a token

Decl(kind, name) ==
    [kind |-> kind, name |-> name, complete |-> FALSE, implicit |-> FALSE,
     line |-> 0, type |-> name, fields |-> <<>>,
     members |-> <<>>, values |-> <<>>]

(* Fields of clang with and without desugaredQualType, of an anonymous     *)
(* struct and of an anonymous enum, which keeps its place.                 *)
Fields == <<[qual |-> <<int64>>, desugared |-> <<long>>],
            [qual |-> <<size>>, desugared |-> <<unsigned, long>>],
            [qual |-> <<struct_at>>], [qual |-> <<enum_at>>]>>

Forward(name) == <<Decl("record", name)>>
Define(name) ==
    <<[Decl("record", name) EXCEPT !.complete = TRUE,
                                   !.fields = Fields],
      [Decl("record", name) EXCEPT !.implicit = TRUE]>>
Alias(name) == <<Decl("typedef", name)>>
Template(name) == <<Decl("template", name)>> \o Define(name)
Function(name, line) == <<[Decl("function", name) EXCEPT !.line = line]>>
Method(name, line) == <<[Decl("method", name) EXCEPT !.line = line]>>
Enum(name, names, numbers) ==
    <<[Decl("enum", name) EXCEPT !.members = names, !.values = numbers]>>

Forms == {Forward(params), Define(params), Alias(params),
          Forward(tensor), Define(tensor), Alias(tensor),
          Template(params), Template(tensor),
          Function(decode, 0), Function(decode, 3), Function(decode, 4),
          Method(decode, 3), Method(init, 0),
          Enum(type, <<f32>>, <<Implicit>>), Enum(level, <<cpu, z>>, <<1, Implicit>>)}
Prelude == {<<>>, Define(tensor) \o Function(init, 0)
                  \o Enum(type, <<f32>>, <<Implicit>>)
                  \o Enum(level, <<cpu, z>>, <<1, Implicit>>)}

Headers ==
    {FlattenSeq(forms) \o prelude :
        forms \in UNION {[1..n -> Forms] : n \in 0..3}, prelude \in Prelude}

(* An enum of unsigned and negative, written and implied values.           *)
Enums == {Enum(params, <<x, y, z>>, numbers) :
             numbers \in [1..3 -> {Implicit, -1, 0, 5}]}

MCMacroNames == {seed, magic, api}
Bodies == UNION {[1..n -> MCMacroNames \cup {literal}] : n \in 0..2}
          \cup {FunctionLike}
Tables == UNION {[defined -> Bodies] : defined \in SUBSET MCMacroNames}
Plain == [m \in MCMacroNames |-> <<literal>>]

MCInputs ==
    {[ast |-> decls, macros |-> Plain] : decls \in {h \in Headers : WellFormed(h)} \cup Enums}
    \cup {[ast |-> <<>>, macros |-> table] : table \in Tables}

MCBySize == int64 :> bits64
MCUnplaced == struct_at :> struct_
=============================================================================
