--------------------------- MODULE MacroExpansion ---------------------------
(***************************************************************************)
(* The public macros of llama.h in tools/gen_exports.py: which of them are *)
(* object macros, and what the typed constants expand to.                  *)
(*                                                                         *)
(* A macro is a sequence of tokens, which are names of macros or literals; *)
(* a function-like macro is FunctionLike.                                  *)
(***************************************************************************)
EXTENDS Naturals, SequencesExt

CONSTANTS MacroNames,       \* LLAMA_* names
          Literals,         \* what else a definition is made of
          NonApiMacros,     \* NON_API_LLAMA_MACROS
          TypedMacros,      \* TYPED_LLAMA_CONSTANTS
          FunctionLike,
          Raises            \* expansion raises RuntimeError

VARIABLE macros             \* what clang -dM prints of them

Tokens == MacroNames \cup Literals

(* _object_macros                                                          *)
ObjectMacros == {m \in DOMAIN macros \ NonApiMacros : macros[m] # FunctionLike}

(* Mutant: macros inside a macro keep their definition.                    *)
ExpandOnce(name) ==
    IF name \notin ObjectMacros THEN Raises
    ELSE FlattenSeq([i \in DOMAIN macros[name] |->
            IF macros[name][i] \in ObjectMacros THEN macros[macros[name][i]]
            ELSE <<macros[name][i]>>])

(* _expand_macro: a call has the name and the stack of the names being     *)
(* expanded.                                                               *)
ExpandMacro(name) ==
    LET expand[call \in MacroNames \X SUBSET MacroNames] ==
            LET n == call[1]
                stack == call[2]
                parts == [i \in DOMAIN macros[n] |->
                    IF macros[n][i] \in ObjectMacros
                    THEN expand[<<macros[n][i], stack \cup {n}>>]
                    ELSE <<macros[n][i]>>]
            IN  IF n \in stack \/ n \notin ObjectMacros THEN Raises
                ELSE IF \E i \in DOMAIN parts : parts[i] = Raises THEN Raises
                ELSE FlattenSeq(parts)
    IN  expand[<<name, {}>>]

AllExpand == \A m \in TypedMacros : ExpandMacro(m) # Raises

(* _typed_constant_snapshot; _generate_typed_constants writes the same     *)
(* values.                                                                 *)
TypedConstants == [m \in TypedMacros |-> ExpandMacro(m)]

(* Every object macro of a sequence replaced by its definition, n times.   *)
Replaced(tokens, n) ==
    LET round[k \in 0..n] ==
            IF k = 0 THEN tokens
            ELSE FlattenSeq([i \in DOMAIN round[k - 1] |->
                    IF round[k - 1][i] \in ObjectMacros
                    THEN macros[round[k - 1][i]] ELSE <<round[k - 1][i]>>])
    IN  round[n]
=============================================================================
