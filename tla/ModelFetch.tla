----------------------------- MODULE ModelFetch -----------------------------
(***************************************************************************)
(* tests/support/fetch_model.py: the pinned test model is downloaded to a  *)
(* path that other invocations may be filling at the same time.            *)
(*                                                                         *)
(* A file is its content: Pinned has the expected size and digest, the     *)
(* members of SameSize only the size.  A download writes to a temporary    *)
(* file, which is created anew for every attempt and replaces the output   *)
(* once it was verified.  Any step may be interrupted (a Python exception) *)
(* or killed.                                                              *)
(***************************************************************************)
EXTENDS Naturals

CONSTANTS Fetchers,   \* invocations of the script
          Contents,   \* contents a file or a response body may have
          Pinned,     \* the content the script pins
          SameSize,   \* the other contents of the expected size
          Partial,    \* a temporary file that is not completely written
          None,
          Attempts    \* _DOWNLOAD_ATTEMPTS

ASSUME ContentsAssumption ==
    /\ Pinned \in Contents
    /\ SameSize \subseteq Contents \ {Pinned}
    /\ Partial \notin Contents
    /\ None \notin Contents \cup {Partial}
ASSUME AttemptsAssumption == Attempts \in Nat \ {0}

VARIABLES
    output,     \* the content at the output path
    temps,      \* the temporary files, by name
    pc,         \* where an invocation is
    attempt,    \* the attempt it is in
    sized,      \* did the existing output have the expected size
    retryable,  \* is the error being handled a transient one
    littered    \* ended by a kill or inside the handling of its own errors

fetchVars == <<output, temps, pc, attempt, sized, retryable, littered>>

Trying == {"stream", "verify", "replace"}      \* the body of the try statement
Running == {"digest", "create", "created", "clean", "sleep"} \cup Trying
Ended == {"done", "failed", "killed"}

(* Mutant: one temporary name beside the output, as in output + ".tmp".    *)
SharedTemporary(f) == CHOOSE g \in Fetchers : TRUE

(* tempfile.mkstemp: no two invocations have the same temporary file.      *)
Temporary(f) == f

HasSize(content) == content \in SameSize \cup {Pinned}

FetchInit ==
    /\ output \in Contents \cup {None}
    /\ temps = [f \in Fetchers |-> None]
    /\ pc = [f \in Fetchers |-> "idle"]
    /\ attempt = [f \in Fetchers |-> 1]
    /\ sized = [f \in Fetchers |-> FALSE]
    /\ retryable = [f \in Fetchers |-> FALSE]
    /\ littered = [f \in Fetchers |-> FALSE]

Goto(f, place) == pc' = [pc EXCEPT ![f] = place]
Write(f, content) == temps' = [temps EXCEPT ![Temporary(f)] = content]

(* An exception reaches a handler; only transient network errors retry.    *)
Handle(f, transient) ==
    /\ Goto(f, "clean")
    /\ retryable' = [retryable EXCEPT ![f] = transient]

-----------------------------------------------------------------------------
(* The existing output: its size is read and then its digest.              *)

ReadSize(f) ==
    /\ pc[f] = "idle"
    /\ sized' = [sized EXCEPT ![f] = HasSize(output)]
    /\ Goto(f, IF output = None THEN "create" ELSE "digest")
    /\ UNCHANGED <<output, temps, attempt, retryable, littered>>

ReadDigest(f) ==
    /\ pc[f] = "digest"
    /\ Goto(f, IF sized[f] /\ output = Pinned THEN "done" ELSE "create")
    /\ UNCHANGED <<output, temps, attempt, sized, retryable, littered>>

-----------------------------------------------------------------------------
(* One attempt.                                                            *)

(* The temporary exists before the try statement begins.                   *)
CreateTemporary(f) ==
    /\ pc[f] = "create"
    /\ \/ Write(f, Partial) /\ Goto(f, "created")
       \/ UNCHANGED temps /\ Goto(f, "failed")          \* mkstemp fails
    /\ UNCHANGED <<output, attempt, sized, retryable, littered>>

EnterTry(f) ==
    /\ pc[f] = "created"
    /\ Goto(f, "stream")
    /\ UNCHANGED <<output, temps, attempt, sized, retryable, littered>>

(* The response ends, or the connection or the disk fails.                 *)
Download(f) ==
    /\ pc[f] = "stream"
    /\ \/ /\ \E body \in Contents : Write(f, body)
          /\ Goto(f, "verify")
          /\ UNCHANGED retryable
       \/ /\ \E transient \in BOOLEAN : Handle(f, transient)
          /\ UNCHANGED temps
    /\ UNCHANGED <<output, attempt, sized, littered>>

(* Mutant: the digest is not compared.                                     *)
VerifySize(f) ==
    /\ pc[f] = "verify"
    /\ IF HasSize(temps[Temporary(f)])
       THEN Goto(f, "replace") /\ UNCHANGED retryable
       ELSE Handle(f, FALSE)
    /\ UNCHANGED <<output, temps, attempt, sized, littered>>

(* Size and digest of the temporary; a mismatch is not retried.            *)
Verify(f) ==
    /\ pc[f] = "verify"
    /\ IF temps[Temporary(f)] = Pinned
       THEN Goto(f, "replace") /\ UNCHANGED retryable
       ELSE Handle(f, FALSE)
    /\ UNCHANGED <<output, temps, attempt, sized, littered>>

Replace(f) ==
    /\ pc[f] = "replace"
    /\ \/ /\ output' = temps[Temporary(f)]
          /\ Write(f, None)
          /\ Goto(f, "done")
          /\ UNCHANGED retryable
       \/ Handle(f, FALSE) /\ UNCHANGED <<output, temps>>
    /\ UNCHANGED <<attempt, sized, littered>>

(* Mutant: one attempt too many.                                           *)
LastAttemptMissed(f) == attempt[f] > Attempts

LastAttempt(f) == attempt[f] = Attempts

(* The handlers unlink the temporary, then retry or raise.  A failing      *)
(* unlink raises from inside the handler.                                  *)
CleanUp(f) ==
    /\ pc[f] = "clean"
    /\ \/ /\ Write(f, None)
          /\ Goto(f, IF retryable[f] /\ ~LastAttempt(f)
                     THEN "sleep" ELSE "failed")
          /\ UNCHANGED littered
       \/ /\ Goto(f, "failed")
          /\ littered' = [littered EXCEPT ![f] = TRUE]
          /\ UNCHANGED temps
    /\ UNCHANGED <<output, attempt, sized, retryable>>

(* Mutant: the loop counts nothing.                                        *)
RetryForever(f) ==
    /\ pc[f] = "sleep"
    /\ Goto(f, "create")
    /\ UNCHANGED <<output, temps, attempt, sized, retryable, littered>>

Retry(f) ==
    /\ pc[f] = "sleep"
    /\ attempt' = [attempt EXCEPT ![f] = @ + 1]
    /\ Goto(f, "create")
    /\ UNCHANGED <<output, temps, sized, retryable, littered>>

-----------------------------------------------------------------------------
(* Interruptions.                                                          *)

(* Mutant: only OSError is handled.                                        *)
InterruptUnhandled(f) ==
    /\ pc[f] \in Trying \cup {"digest", "create", "sleep"}
    /\ Goto(f, "failed")
    /\ UNCHANGED <<output, temps, attempt, sized, retryable, littered>>

(* KeyboardInterrupt: the handler of BaseException cleans up, unless the   *)
(* try statement has not begun or a handler is running already.            *)
Interrupt(f) ==
    /\ pc[f] \in Running
    /\ IF pc[f] \in Trying
       THEN Handle(f, FALSE) /\ UNCHANGED littered
       ELSE /\ Goto(f, "failed")
            /\ littered' = [littered EXCEPT ![f] = pc[f] \in {"created", "clean"}]
            /\ UNCHANGED retryable
    /\ UNCHANGED <<output, temps, attempt, sized>>

Kill(f) ==
    /\ pc[f] \in Running
    /\ Goto(f, "killed")
    /\ littered' = [littered EXCEPT ![f] = TRUE]
    /\ UNCHANGED <<output, temps, attempt, sized, retryable>>

-----------------------------------------------------------------------------
Proceed(f) == \/ ReadSize(f) \/ ReadDigest(f)
              \/ CreateTemporary(f) \/ EnterTry(f) \/ Download(f)
              \/ Verify(f) \/ Replace(f)
              \/ CleanUp(f) \/ Retry(f)

FetchNext == \E f \in Fetchers : Proceed(f) \/ Interrupt(f) \/ Kill(f)

FetchSpec == FetchInit /\ [][FetchNext]_fetchVars

-----------------------------------------------------------------------------
(* Properties.                                                             *)

FetchTypeOK ==
    /\ output \in Contents \cup {None}
    /\ temps \in [Fetchers -> Contents \cup {Partial, None}]
    /\ pc \in [Fetchers -> Running \cup Ended \cup {"idle"}]
    /\ attempt \in [Fetchers -> 1..Attempts]
    /\ sized \in [Fetchers -> BOOLEAN]
    /\ retryable \in [Fetchers -> BOOLEAN]
    /\ littered \in [Fetchers -> BOOLEAN]

(* Once an invocation has reported success the output is the pinned model, *)
(* whatever other invocations on the same path download, fail or leave     *)
(* behind (fetch, test_invalid_output_is_atomically_replaced).             *)
SuccessMeansPinned ==
    \A f \in Fetchers : pc[f] = "done" => output = Pinned

(* The output is never missing, partial or another content once it was     *)
(* there: it changes only from what it was to the whole pinned model,      *)
(* however invocations interleave (os.replace of a verified temporary,     *)
(* test_invalid_output_is_atomically_replaced).                            *)
OutputReplacedWhole == [][output' = Pinned]_output

(* An invocation that ends leaves no temporary file, whichever step failed *)
(* or was interrupted; only a kill, an unlink that fails, and an interrupt *)
(* before the try statement or inside a handler may leave one (fetch).     *)
NoTemporaryLeft ==
    \A f \in Fetchers :
        pc[f] \in Ended /\ ~littered[f] => temps[Temporary(f)] = None
=============================================================================
