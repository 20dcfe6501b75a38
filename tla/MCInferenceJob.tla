--------------------------- MODULE MCInferenceJob ---------------------------
(***************************************************************************)
(* The job and one more invocation on its path.  Response bodies and the   *)
(* file that may be there: the pinned model, one of its size and one that  *)
(* is cut.                                                                 *)
(***************************************************************************)
EXTENDS InferenceJob
=============================================================================
