------------------------ MODULE UpstreamWatchProofs -------------------------
(***************************************************************************)
(* Every candidate is justified for every checkpoint age, length of day,   *)
(* number of checkpoints and length of history.                            *)
(*                                                                         *)
(* A report keeps what its check read and was told.  WatchInv carries the  *)
(* facts from the steps that read them to the report: the triggers are the *)
(* policy's, the latest tag was read after the lock, and dates, once       *)
(* published, stay while time passes.                                      *)
(***************************************************************************)
EXTENDS UpstreamWatch, TLAPS

IsOld(c) == tick - dates[c] >= LeastAge

WorldInv ==
    /\ tick \in Int
    /\ dates \in Seq(Int)
    /\ lock \in DOMAIN dates /\ gated \subseteq DOMAIN dates

CheckInv ==
    /\ check = [phase |-> check.phase, attempt |-> check.attempt,
                lock |-> check.lock, triggers |-> check.triggers,
                passed |-> check.passed, latest |-> check.latest]
    /\ check.lock \in DOMAIN dates /\ check.latest \in DOMAIN dates
    /\ check.triggers \subseteq PolicyTriggers
    /\ check.phase = "commit" => check.latest >= check.lock

ReportInv ==
    /\ report.lock \in DOMAIN dates
    /\ report.reason = "checkpoint-age" =>
          report.passed /\ report.latest > report.lock /\ IsOld(report.lock)
    /\ report.reason \notin {"checkpoint-age", "none"} =>
          report.triggers # {} /\ report.triggers \subseteq PolicyTriggers

WatchInv == WorldInv /\ CheckInv /\ ReportInv

-----------------------------------------------------------------------------
(* Ages are counted in whole ticks.                                        *)
LEMMA LeastAgeIsInt == LeastAge \in Int
  BY WatchAssumption DEF LeastAge

(* The greater of a number and none is one of them.                        *)
LEMMA NotLessThanNone ==
    ASSUME NEW q \in Int
    PROVE  Max({0, q}) \in {0, q} /\ Max({0, q}) \in Nat
<1>1. \E m \in {0, q} : \A y \in {0, q} : m >= y
  OBVIOUS
<1>2. Max({0, q}) \in {0, q} /\ \A y \in {0, q} : Max({0, q}) >= y
  BY <1>1, Zenon DEF Max
<1> QED
  BY <1>2

(* An age in whole days is at least the limit only when that many days     *)
(* have passed.                                                            *)
LEMMA WholeDays ==
    ASSUME NEW x \in Int, NEW n \in Nat \ {0}, NEW d \in Nat \ {0},
           Max({0, x \div d}) >= n
    PROVE  x >= n * d
<1> DEFINE q == x \div d
<1>1. q \in Int /\ x = d * q + (x % d) /\ x % d \in 0..(d - 1)
  OBVIOUS
<1>2. Max({0, q}) \in {0, q}
  BY <1>1, NotLessThanNone
<1>3. q >= n
  BY <1>1, <1>2
<1>4. d * q >= d * n
  BY <1>1, <1>3
<1> QED
  BY <1>1, <1>4

(* Only an old checkpoint with a newer one is a candidate for its age.     *)
LEMMA CandidatesAreOld ==
    ASSUME WatchInv, ReadCommit, report'.reason = "checkpoint-age"
    PROVE  check.passed /\ check.latest > check.lock /\ IsOld(check.lock)
<1> DEFINE age == AgeInDays(check.lock)
<1>1. /\ check.phase = "commit" /\ check.triggers \subseteq PolicyTriggers
      /\ report'.reason = CandidateReason(age)
  BY DEF WatchInv, CheckInv, ReadCommit
<1>2. check.triggers = {}
  <2> SUFFICES ASSUME check.triggers # {} PROVE FALSE
    OBVIOUS
  <2>1. CandidateReason(age) \in check.triggers
    BY DEF CandidateReason
  <2> QED
    BY <1>1, <2>1, WatchAssumption
<1>3. age >= CheckpointAge /\ check.passed /\ check.latest # check.lock
  BY <1>1, <1>2 DEF CandidateReason
<1>4. /\ check.lock \in Int /\ check.latest \in Int
      /\ check.latest >= check.lock
      /\ tick - dates[check.lock] \in Int
  BY <1>1 DEF WatchInv, WorldInv, CheckInv
<1> QED
  BY <1>3, <1>4, WholeDays, WatchAssumption DEF AgeInDays, IsOld, LeastAge

(* At first there is one checkpoint, and no check was made.                *)
LEMMA WatchInvInit == Init => WatchInv
  BY WatchAssumption DEF Init, Idle, WatchInv, WorldInv, CheckInv, ReportInv

(* What is published stays published, under the same date.                 *)
LEMMA DatesGrow ==
    ASSUME WatchInv, Publish
    PROVE  /\ dates' \in Seq(Int)
           /\ \A c \in DOMAIN dates : c \in DOMAIN dates' /\ dates'[c] = dates[c]
<1>1. PICK ahead \in 0..Skew : dates' = Append(dates, tick + ahead)
  BY DEF Publish
<1>2. dates \in Seq(Int) /\ tick + ahead \in Int
  BY WatchAssumption DEF WatchInv, WorldInv
<1> QED
  BY <1>1, <1>2

(* A check reads, asks and reports without losing what it was told.        *)
LEMMA CheckStepKeepsWatchInv ==
    ASSUME WatchInv, CheckStep
    PROVE  WatchInv'
<1>0. UNCHANGED <<tick, dates, lock, gated>> /\ WorldInv'
  BY DEF CheckStep, worldVars, WatchInv, WorldInv
<1>1. CASE Retry
  BY <1>0, <1>1 DEF Retry, WatchInv, CheckInv, ReportInv, IsOld
<1>2. CASE Raise
  <2>1. 1 \in DOMAIN dates
    BY DEF WatchInv, WorldInv
  <2> QED
    BY <1>0, <1>2, <2>1 DEF Raise, Idle, WatchInv, CheckInv, ReportInv, IsOld
<1>3. CASE ReadTags
  <2>1. Len(dates) \in DOMAIN dates /\ Len(dates) >= check.lock
    BY DEF WatchInv, WorldInv, CheckInv
  <2> QED
    BY <1>0, <1>3, <2>1 DEF ReadTags, WatchInv, CheckInv, ReportInv, IsOld
<1>4. CASE ReadCommit
  <2>1. CheckInv'
    <3>1. 1 \in DOMAIN dates
      BY DEF WatchInv, WorldInv
    <3> QED
      BY <1>0, <1>4, <3>1 DEF ReadCommit, Idle, CheckInv
  <2>2. /\ report'.lock = check.lock /\ report'.triggers = check.triggers
        /\ report'.passed = check.passed /\ report'.latest = check.latest
        /\ report'.reason = CandidateReason(AgeInDays(check.lock))
    BY <1>4 DEF ReadCommit
  <2>3. report'.reason = "checkpoint-age" =>
           check.passed /\ check.latest > check.lock /\ IsOld(check.lock)
    BY <1>4, CandidatesAreOld
  <2>4. report'.reason \notin {"checkpoint-age", "none"} => check.triggers # {}
    BY <2>2 DEF CandidateReason
  <2>5. ReportInv'
    BY <1>0, <2>2, <2>3, <2>4 DEF ReportInv, WatchInv, CheckInv, IsOld
  <2> QED
    BY <1>0, <2>1, <2>5 DEF WatchInv
<1> QED
  BY <1>1, <1>2, <1>3, <1>4 DEF CheckStep

(* Every step of a check and of those around it keeps the invariant.       *)
LEMMA WatchInvKept == WatchInv /\ [Next]_vars => WatchInv'
<1> SUFFICES ASSUME WatchInv, [Next]_vars PROVE WatchInv'
  OBVIOUS
<1>1. CASE Tick
  <2>1. tick' = tick + 1 /\ UNCHANGED <<dates, lock, gated, check, report>>
    BY <1>1 DEF Tick
  <2>2. IsOld(report.lock) => IsOld(report.lock)'
    <3>1. tick \in Int /\ dates[report.lock] \in Int
      BY DEF WatchInv, WorldInv, ReportInv
    <3> QED
      BY <2>1, <3>1, LeastAgeIsInt DEF IsOld
  <2> QED
    BY <2>1, <2>2 DEF WatchInv, WorldInv, CheckInv, ReportInv
<1>2. CASE Publish
  <2>1. UNCHANGED <<tick, lock, gated, check, report>>
    BY <1>2 DEF Publish
  <2>2. IsOld(report.lock) => IsOld(report.lock)'
    BY <1>2, <2>1, DatesGrow DEF WatchInv, ReportInv, IsOld
  <2> QED
    BY <1>2, <2>1, <2>2, DatesGrow DEF WatchInv, WorldInv, CheckInv, ReportInv
<1>3. CASE PassGate
  BY <1>3 DEF PassGate, WatchInv, WorldInv, CheckInv, ReportInv, IsOld
<1>4. CASE Adopt
  <2>1. lock' \in gated /\ UNCHANGED <<tick, dates, gated, check, report>>
    BY <1>4 DEF Adopt
  <2> QED
    BY <2>1 DEF WatchInv, WorldInv, CheckInv, ReportInv, IsOld
<1>5. CASE StartCheck
  <2>1. UNCHANGED <<tick, dates, gated, lock, report>>
    BY <1>5 DEF StartCheck, worldVars
  <2>2. PICK triggers \in {{}} \cup {{t} : t \in PolicyTriggers \cup OtherReasons},
             passed \in BOOLEAN :
          IF triggers \subseteq PolicyTriggers
          THEN check' = [Idle EXCEPT !.phase = "tags", !.lock = lock,
                                     !.triggers = triggers, !.passed = passed]
          ELSE UNCHANGED check
    BY <1>5 DEF StartCheck
  <2>3. WorldInv' /\ ReportInv'
    BY <2>1 DEF WatchInv, WorldInv, ReportInv, IsOld
  <2>4. CASE triggers \subseteq PolicyTriggers
    <3>1. check' = [phase |-> "tags", attempt |-> 0, lock |-> lock,
                    triggers |-> triggers, passed |-> passed, latest |-> 1]
      BY <2>2, <2>4 DEF Idle
    <3>2. 1 \in DOMAIN dates /\ lock \in DOMAIN dates
      BY DEF WatchInv, WorldInv
    <3> QED
      BY <2>1, <2>3, <2>4, <3>1, <3>2 DEF WatchInv, CheckInv
  <2>5. CASE UNCHANGED check
    BY <2>1, <2>3, <2>5 DEF WatchInv, CheckInv
  <2> QED
    BY <2>2, <2>4, <2>5
<1>6. CASE CheckStep
  BY <1>6, CheckStepKeepsWatchInv
<1>7. CASE UNCHANGED vars
  BY <1>7
     DEF vars, worldVars, WatchInv, WorldInv, CheckInv, ReportInv, IsOld
<1> QED
  BY <1>1, <1>2, <1>3, <1>4, <1>5, <1>6, <1>7 DEF Next

-----------------------------------------------------------------------------
(* A step of the check leaves a report of the shape that TypeOK says.      *)
LEMMA CheckStepKeepsType ==
    ASSUME WatchInv, TypeOK, CheckStep
    PROVE  TypeOK'
<1>0. /\ UNCHANGED <<lock, dates, gated>> /\ WatchInv'
      /\ check.attempt \in 0..(Attempts - 1) /\ Attempts \in Nat \ {0}
  BY CheckStepKeepsWatchInv, WatchAssumption
     DEF CheckStep, worldVars, TypeOK
<1> SUFFICES /\ check'.attempt \in 0..(Attempts - 1)
             /\ report'.age \in Nat
             /\ report'.reason \in PolicyTriggers \cup {"checkpoint-age", "none"}
  BY <1>0 DEF TypeOK, WatchInv, WorldInv, CheckInv
<1>1. CASE Retry
  <2>1. check'.attempt = check.attempt + 1 /\ check.attempt < Attempts - 1
    BY <1>1 DEF Retry, WatchInv, CheckInv
  <2> QED
    BY <1>0, <1>1, <2>1 DEF Retry, TypeOK
<1>2. CASE Raise
  BY <1>0, <1>2 DEF Raise, Idle, TypeOK
<1>3. CASE ReadTags
  <2>1. check'.attempt = 0
    BY <1>3 DEF ReadTags, WatchInv, CheckInv
  <2> QED
    BY <1>0, <1>3, <2>1 DEF ReadTags, TypeOK
<1>4. CASE ReadCommit
  <2>1. AgeInDays(check.lock) \in Nat
    <3>1. tick - dates[check.lock] \in Int
      BY DEF WatchInv, WorldInv, CheckInv
    <3>2. (tick - dates[check.lock]) \div TicksPerDay \in Int
      BY <3>1, WatchAssumption
    <3> QED
      BY <3>2, NotLessThanNone DEF AgeInDays
  <2>2. CandidateReason(AgeInDays(check.lock))
          \in PolicyTriggers \cup {"checkpoint-age", "none"}
    <3>1. check.triggers \subseteq PolicyTriggers
      BY DEF WatchInv, CheckInv
    <3> QED
      BY <3>1 DEF CandidateReason
  <2>3. /\ check'.attempt = 0
        /\ report'.age = AgeInDays(check.lock)
        /\ report'.reason = CandidateReason(AgeInDays(check.lock))
    BY <1>4 DEF ReadCommit, Idle
  <2> QED
    BY <1>0, <2>1, <2>2, <2>3
<1> QED
  BY <1>1, <1>2, <1>3, <1>4 DEF CheckStep

(* Checks, updates and releases keep the shape of every variable.          *)
LEMMA TypeKept ==
    ASSUME WatchInv, TypeOK, [Next]_vars
    PROVE  TypeOK'
<1>1. CASE Tick \/ PassGate \/ Adopt
  BY <1>1 DEF TypeOK, Tick, PassGate, Adopt
<1>2. CASE Publish
  BY <1>2, DatesGrow DEF TypeOK, Publish
<1>3. CASE StartCheck
  <2>1. check'.attempt \in {0, check.attempt}
    BY <1>3 DEF StartCheck, Idle
  <2>2. UNCHANGED <<dates, gated, lock, report>> /\ WatchInv'
    BY <1>3, WatchInvKept DEF StartCheck, worldVars
  <2>3. check'.attempt \in 0..(Attempts - 1)
    BY <2>1, WatchAssumption DEF TypeOK
  <2> QED
    BY <2>2, <2>3 DEF TypeOK, WatchInv, CheckInv
<1>4. CASE CheckStep
  BY <1>4, CheckStepKeepsType
<1>5. CASE UNCHANGED vars
  BY <1>5 DEF TypeOK, vars, worldVars
<1> QED
  BY <1>1, <1>2, <1>3, <1>4, <1>5 DEF Next

(* The pinned checkpoint and the one of a check are published ones, and a  *)
(* report has a whole age and a reason of the policy or of its age         *)
(* (collect_status).                                                       *)
THEOREM TypeCorrect == Spec => []TypeOK
<1>1. Init => TypeOK
  BY WatchAssumption DEF Init, Idle, TypeOK
<1> QED
  BY <1>1, WatchInvInit, WatchInvKept, TypeKept, PTL DEF Spec

(* Every candidate of every check has a reason of the policy               *)
(* (candidate_reason).                                                     *)
THEOREM CandidatesHaveReasons == Spec => []CandidatesAreJustified
<1>1. WatchInv => CandidatesAreJustified
  BY DEF WatchInv, ReportInv, CandidatesAreJustified, IsOld
<1> QED
  BY <1>1, WatchInvInit, WatchInvKept, PTL DEF Spec
=============================================================================
