-------------------------- MODULE MCUpstreamWatch ---------------------------
(***************************************************************************)
(* Three checkpoints over six ticks of half a day each.                    *)
(***************************************************************************)
EXTENDS UpstreamWatch
=============================================================================
