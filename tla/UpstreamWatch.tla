--------------------------- MODULE UpstreamWatch ----------------------------
(***************************************************************************)
(* tools/check_upstream.py: a check reads the lock, asks GitHub for the    *)
(* latest tag and for the commit of the lock, and reports whether the      *)
(* pinned checkpoint is a candidate for an update.  Meanwhile upstream     *)
(* publishes and maintainers gate checkpoints, read reports and move the   *)
(* lock, as docs/upstream-update-policy.md has them do.                    *)
(*                                                                         *)
(* Checkpoints are numbered in the order of their tags; time is counted in *)
(* ticks, so that an age in days loses its fraction.                       *)
(***************************************************************************)
EXTENDS Integers, Sequences, FiniteSetsExt

CONSTANTS TicksPerDay,
          CheckpointAge,   \* 30 days in the code
          Attempts,        \* 3 in github_json
          PolicyTriggers,  \* POLICY_TRIGGERS
          OtherReasons,    \* reasons that the policy does not have
          Skew,            \* ticks that a committer's clock may be ahead
          MaxTick, MaxTags \* bounds

ASSUME WatchAssumption ==
    /\ TicksPerDay \in Nat \ {0} /\ Attempts \in Nat \ {0}
    /\ CheckpointAge \in Nat \ {0} /\ Skew \in Nat
    /\ "checkpoint-age" \notin PolicyTriggers

VARIABLES tick,
          dates,    \* dates[c]: the committer's date of checkpoint c
          gated,    \* checkpoints that passed the release gate
          lock,     \* the checkpoint of upstream.lock
          check,    \* the check under way
          report    \* the report of the last check that came to one

worldVars == <<tick, dates, gated, lock>>
vars == <<worldVars, check, report>>

(* No check runs: there is no process and no option.                       *)
Idle == [phase |-> "idle", attempt |-> 0, lock |-> 1, triggers |-> {},
         passed |-> FALSE, latest |-> 1]

Init ==
    /\ tick = 1
    /\ dates = <<1>>
    /\ gated = {}
    /\ lock = 1
    /\ check = Idle
    /\ report = [lock |-> 1, triggers |-> {}, passed |-> FALSE, latest |-> 1,
                 age |-> 0, reason |-> "none"]

-----------------------------------------------------------------------------
(* What goes on around a check.                                            *)

Tick ==
    /\ tick < MaxTick
    /\ tick' = tick + 1
    /\ UNCHANGED <<dates, gated, lock, check, report>>

Publish ==
    /\ Len(dates) < MaxTags
    /\ \E ahead \in 0..Skew : dates' = Append(dates, tick + ahead)
    /\ UNCHANGED <<tick, gated, lock, check, report>>

PassGate ==
    /\ \E c \in DOMAIN dates \ gated : gated' = gated \cup {c}
    /\ UNCHANGED <<tick, dates, lock, check, report>>

(* The maintainers act on the last report while it is about the lock as it *)
(* is, whatever check runs meanwhile: they import a newer checkpoint that  *)
(* passed the gate, of any age.                                            *)
Adopt ==
    /\ report.reason # "none"
    /\ report.lock = lock
    /\ \E c \in gated : c > lock /\ lock' = c
    /\ UNCHANGED <<tick, dates, gated, check, report>>

-----------------------------------------------------------------------------
(* A check.                                                                *)

Busy == check.phase \in {"tags", "commit"}

(* main: the lock and the options.  --release-gate-passed is the caller's  *)
(* word, which the tool does not verify and which names no checkpoint; a   *)
(* trigger that the policy does not have raises.                           *)
StartCheck ==
    /\ ~Busy
    /\ \E triggers \in {{}} \cup {{t} : t \in PolicyTriggers \cup OtherReasons},
          passed \in BOOLEAN :
          IF triggers \subseteq PolicyTriggers
          THEN check' = [Idle EXCEPT !.phase = "tags", !.lock = lock,
                                     !.triggers = triggers, !.passed = passed]
          ELSE UNCHANGED check
    /\ UNCHANGED <<worldVars, report>>

(* Mutant: a transient error is retried until it goes away.                *)
RetryWithoutEnd ==
    /\ Busy
    /\ check' = [check EXCEPT !.attempt = (check.attempt + 1) % Attempts]
    /\ UNCHANGED report

(* github_json after a transient error, with an attempt left.              *)
Retry ==
    /\ Busy
    /\ check.attempt < Attempts - 1
    /\ check' = [check EXCEPT !.attempt = check.attempt + 1]
    /\ UNCHANGED report

(* An error that is not transient, or the last attempt's, is raised.       *)
Raise ==
    /\ Busy
    /\ check' = Idle
    /\ UNCHANGED report

(* The first tag that GitHub lists: that it is the newest is GitHub's      *)
(* order, which the code relies on.                                        *)
ReadTags ==
    /\ check.phase = "tags"
    /\ check' = [check EXCEPT !.phase = "commit", !.attempt = 0,
                              !.latest = Len(dates)]
    /\ UNCHANGED report

(* Mutant: a committer's clock that is ahead makes the age negative.       *)
AgeUnclamped(c) == (tick - dates[c]) \div TicksPerDay

(* Whole days since the commit, never less than none.                      *)
AgeInDays(c) == Max({0, (tick - dates[c]) \div TicksPerDay})

(* Mutant: any checkpoint that is old enough is a candidate.               *)
ReasonWithoutGate(age) ==
    CASE check.triggers # {} -> CHOOSE t \in check.triggers : TRUE
      [] check.triggers = {} /\ check.latest # check.lock
         /\ age >= CheckpointAge -> "checkpoint-age"
      [] OTHER -> "none"

(* candidate_reason of collect_status                                      *)
CandidateReason(age) ==
    CASE check.triggers # {} -> CHOOSE t \in check.triggers : TRUE
      [] /\ check.triggers = {} /\ check.latest # check.lock
         /\ age >= CheckpointAge /\ check.passed -> "checkpoint-age"
      [] OTHER -> "none"

(* The date of the locked commit, and then the report.                     *)
ReadCommit ==
    /\ check.phase = "commit"
    /\ check' = Idle
    /\ report' = [lock |-> check.lock, triggers |-> check.triggers,
                  passed |-> check.passed, latest |-> check.latest,
                  age |-> AgeInDays(check.lock),
                  reason |-> CandidateReason(AgeInDays(check.lock))]

CheckStep ==
    /\ Retry \/ Raise \/ ReadTags \/ ReadCommit
    /\ UNCHANGED worldVars

Next == Tick \/ Publish \/ PassGate \/ Adopt \/ StartCheck \/ CheckStep

(* A started check keeps running: it is one process with its own timeouts. *)
Spec == Init /\ [][Next]_vars /\ WF_vars(CheckStep)

-----------------------------------------------------------------------------
(* Properties.                                                             *)

(* The lock is a published checkpoint, a check and a report are of one,    *)
(* and a reported age is whole and not negative.                           *)
TypeOK ==
    /\ lock \in DOMAIN dates /\ gated \subseteq DOMAIN dates
    /\ check.lock \in DOMAIN dates /\ check.latest \in DOMAIN dates
    /\ check.attempt \in 0..(Attempts - 1)
    /\ report.age \in Nat
    /\ report.reason \in PolicyTriggers \cup {"checkpoint-age", "none"}

(* The least age of a candidate, in ticks.                                 *)
LeastAge == CheckpointAge * TicksPerDay

(* A check reports a candidate only for a reason of the policy: one that   *)
(* was given, or that the gate is said to have passed, that a newer        *)
(* checkpoint exists and that the one it read from the lock is old enough, *)
(* whatever was published, gated and adopted while the check ran (policy,  *)
(* Cadence And Triggers).                                                  *)
CandidatesAreJustified ==
    report.reason # "none" =>
        \/ report.triggers # {} /\ report.triggers \subseteq PolicyTriggers
        \/ /\ report.passed
           /\ report.latest > report.lock
           /\ tick - dates[report.lock] >= LeastAge

(* Every check comes to a report or a failure.                             *)
CheckEnds == Busy ~> ~Busy
=============================================================================
