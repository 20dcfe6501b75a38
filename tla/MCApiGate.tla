----------------------------- MODULE MCApiGate -----------------------------
(***************************************************************************)
(* Three trees: t1, the tree t2 that replaces it under the same tag after  *)
(* an upstream retag, and t3 of the next tag.  llama_decode changes its    *)
(* signature in each, t3 loses llama_eval, and the seed changes in t2.     *)
(***************************************************************************)
EXTENDS ApiGate, TLC

CONSTANTS t1, t2, t3, decode, eval, seed, v1, v2, v3

MCTrees == {t1, t2, t3}
MCTagOf == (t1 :> 1) @@ (t2 :> 1) @@ (t3 :> 2)
MCApiOf ==
    (t1 :> [declarations |-> (decode :> v1) @@ (eval :> v1),
            constants |-> seed :> v1]) @@
    (t2 :> [declarations |-> (decode :> v2) @@ (eval :> v1),
            constants |-> seed :> v2]) @@
    (t3 :> [declarations |-> decode :> v3, constants |-> seed :> v2])
=============================================================================
