---------------------------- MODULE InferenceJob ----------------------------
(***************************************************************************)
(* A CI job that fetches the test model and then runs a program on it,     *)
(* while other jobs fetch to the same path (ci.yml: fetch_model.py, then   *)
(* LLAMACPP_TEST_MODEL=... mcpp test).  A step starts only when the step   *)
(* before it succeeded.  The program maps the file, so it keeps the        *)
(* content that was there when it opened it.                               *)
(***************************************************************************)
EXTENDS ModelFetch, DecodeSession

CONSTANT Job            \* the invocation whose job goes on
ASSUME JobAssumption == Job \in Fetchers

VARIABLE mapped         \* the content of the model the program has loaded

vars == <<fetchVars, sessionVars, mapped>>

Init == FetchInit /\ SessionInit /\ mapped = None

Loads == "model" \in live' \ live

(* Mutant: the program is started whatever the fetch returned.             *)
SessionStepAlways ==
    /\ pc[Job] \in Ended
    /\ SessionNext
    /\ mapped' = IF Loads THEN output ELSE mapped
    /\ UNCHANGED fetchVars

SessionStep ==
    /\ pc[Job] = "done"
    /\ SessionNext
    /\ mapped' = IF Loads THEN output ELSE mapped
    /\ UNCHANGED fetchVars

FetchStep(f) ==
    /\ Proceed(f) \/ Interrupt(f) \/ Kill(f)
    /\ UNCHANGED <<sessionVars, mapped>>

Next == SessionStep \/ \E f \in Fetchers : FetchStep(f)

(* A started script and a started program go on: every socket operation    *)
(* has a timeout and the body is read up to the expected size.             *)
Fairness ==
    /\ \A f \in Fetchers : WF_vars(Proceed(f) /\ UNCHANGED <<sessionVars, mapped>>)
    /\ WF_vars(SessionStep)

Spec == Init /\ [][Next]_vars /\ Fairness

TypeOK ==
    /\ FetchTypeOK
    /\ mapped \in Contents \cup {None}
    /\ stage \in 1..(Len(Stages) + 1)
    /\ generated \in 0..MaxGenerated

(* Every load of a program whose job fetched the model reads the pinned    *)
(* content, also the second load of vulkan_decode and whatever the other   *)
(* jobs are doing to the file (ci.yml, fetch).                             *)
LoadsArePinned == mapped \in {None, Pinned}

(* Every invocation ends after its attempts, and a job whose fetch         *)
(* succeeded ends with an exit code and everything freed.                  *)
JobEnds ==
    /\ \A f \in Fetchers : <>(pc[f] \in Ended)
    /\ <>[](pc[Job] = "done" => code # NoExit /\ freeing = <<>>)
=============================================================================
