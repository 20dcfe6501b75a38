------------------------ MODULE ImportUpstreamProofs ------------------------
(***************************************************************************)
(* Theorems about ImportUpstream, for every set of processes, checkpoints  *)
(* and files and every bound: importers of one destination, in any number, *)
(* killed, interrupted or failing anywhere, never lose the vendored tree.  *)
(*                                                                         *)
(* The argument: whoever takes the destination away holds a whole copy of  *)
(* it, and keeps it for as long as the destination is away, because a      *)
(* backup is only removed by a process that saw a destination; when that   *)
(* destination is gone again somebody else took it and holds it.           *)
(***************************************************************************)
EXTENDS ImportUpstream, TLAPS

-----------------------------------------------------------------------------
(* The inductive invariant.                                                *)

Early == {"idle", "compare"} \cup Fetching

(* What a process has in hand at each statement.                           *)
ProcessIsSound(p) ==
    /\ pc[p] \in Early => staging[p] = None
    /\ pc[p] \in Early \cup {"stage", "probe", "backup"} => ~ moved[p]
    /\ pc[p] \in {"extract", "compare", "stage"} => archive[p] = job[p].pin
    /\ pc[p] \in {"stage"} \cup Replacing => ~ job[p].check
    /\ pc[p] = "stage" => staging[p] = None \/ staging[p].of = job[p].pin
    /\ pc[p] \in {"probe", "backup", "install"} =>
          Whole(staging[p]) /\ staging[p].of = job[p].pin
    /\ pc[p] = "install" /\ moved[p] => Whole(backup[p])
    /\ pc[p] = "restore" => moved[p] /\ Whole(backup[p])
    /\ pc[p] = "drop" => backup[p] # None

ProcessesAreSound == \A p \in Processes : ProcessIsSound(p)

(* Nobody ever puts a partial tree in place.                               *)
DestIsWhole == dest # None => Whole(dest)

(* Every tree that is or may come back in place is a known one.            *)
TreesAreKnown ==
    /\ dest # None => dest.of \in Known
    /\ \A p \in Processes : backup[p] # None => backup[p].of \in Known

(* The process that took the missing destination away.                     *)
Holds(p) == /\ moved[p]
            /\ Whole(backup[p])
            /\ pc[p] \in {"install", "restore", "sweepStaging"} \cup Ended

SomebodyHolds ==
    dest = None /\ (\E p \in Processes : moved[p]) => \E p \in Processes : Holds(p)

IInv == /\ TypeOK /\ ProcessesAreSound
        /\ DestIsWhole /\ TreesAreKnown /\ SomebodyHolds

-----------------------------------------------------------------------------
(* Directories.                                                            *)

(* None is no directory, and a directory is a copy of one checkpoint.      *)
LEMMA DirFacts ==
    /\ None \notin Trees /\ None \notin Checkpoints /\ None \notin Jobs
    /\ None \in Dirs
    /\ \A d \in Trees : d.of \in Checkpoints /\ d.files \in SUBSET Files
    /\ \A c \in Checkpoints, F \in SUBSET Files :
          /\ Tree(c, F) \in Trees
          /\ Tree(c, F).of = c /\ Tree(c, F).files = F
BY NoneAssumption DEF Trees, Tree, Dirs

(* rmtree leaves less of the same copy, or nothing.                        *)
LEMMA ShrunkFacts ==
    ASSUME NEW d \in Dirs, d # None, NEW f \in Files
    PROVE  /\ Shrunk(d, f) \in Dirs
           /\ Shrunk(d, f) # None => Shrunk(d, f).of = d.of
BY DirFacts DEF Dirs, Shrunk

-----------------------------------------------------------------------------
(* Type correctness.                                                       *)

(* The first state of the tools has every variable in its shape.           *)
LEMMA TypeInit == Init => TypeOK
<1> SUFFICES ASSUME Init PROVE TypeOK OBVIOUS
<1>1. dest \in Dirs BY DirFacts DEF Init, Dirs
<1>2. "idle" \in Labels BY DEF Labels
<1> QED BY <1>1, <1>2, BoundsAssumption, DirFacts DEF Init, TypeOK, Dirs

(* Fetching, checking and the environment leave every directory alone.     *)
LEMMA TypeFetch ==
    ASSUME TypeOK, NEW p \in Processes, ProcessIsSound(p),
           Fetch(p) \/ (\E f \in Files : CompareFile(p, f))
    PROVE  TypeOK'
<1> USE BoundsAssumption DEF TypeOK, Labels, Ended, Fetching, Replacing,
            Sweeping, Goto,
            netVars, envVars, dirVars, flagVars, getVars
<1>1. ASSUME NEW t \in BOOLEAN, RequestFails(p, t) PROVE TypeOK'
  BY <1>1 DEF RequestFails
<1>2. CASE ResolveTag(p)
  BY <1>2 DEF ResolveTag
<1>3. CASE Download(p)
  <2>1. job[p] \in Jobs BY <1>3 DEF Download
  <2>2. served[job[p].pin] \in Checkpoints BY <2>1 DEF Jobs
  <2> QED BY <1>3, <2>2 DEF Download
<1>4. CASE CheckDigest(p) BY <1>4 DEF CheckDigest
<1>5. CASE Extract(p) BY <1>5 DEF Extract, Fault
<1>6. ASSUME NEW f \in Files, CompareFile(p, f) PROVE TypeOK'
  BY <1>6 DEF CompareFile
<1> QED BY <1>1, <1>2, <1>3, <1>4, <1>5, <1>6 DEF Fetch

(* A statement of _replace_tree keeps every variable in its shape.         *)
LEMMA TypeReplace ==
    ASSUME TypeOK, NEW p \in Processes, ProcessIsSound(p), ReplaceTree(p)
    PROVE  TypeOK'
<1> USE BoundsAssumption DEF TypeOK, Labels, Ended, Fetching, Replacing,
            Sweeping, Goto, Raise,
            netVars, envVars, dirVars, flagVars, getVars
<1>1. ASSUME NEW f \in Files, StageFile(p, f) PROVE TypeOK'
  <2>1. archive[p] \in Checkpoints
    BY <1>1, DirFacts DEF StageFile, ProcessIsSound, Jobs
  <2>2. staging[p] = None \/ staging[p].files \in SUBSET Files
    BY DirFacts DEF Dirs
  <2>3. staging' \in [Processes -> Dirs]
    BY <1>1, <2>1, <2>2, DirFacts DEF StageFile, Dirs
  <2> QED BY <1>1, <2>3 DEF StageFile, Fault
<1>2. ASSUME NEW f \in Files, DropBackup(p, f) PROVE TypeOK'
  <2>1. backup[p] # None BY <1>2 DEF DropBackup, ProcessIsSound
  <2>2. backup' \in [Processes -> Dirs]
    BY <1>2, <2>1, ShrunkFacts DEF DropBackup
  <2>3. \/ pc' = [pc EXCEPT ![p] = "drop"]
        \/ pc' = [pc EXCEPT ![p] = "sweepStaging"]
    BY <1>2, Zenon DEF DropBackup
  <2>4. raised' \in [Processes -> BOOLEAN] BY <1>2 DEF DropBackup
  <2>5. faults' \in 0 .. MaxFaults /\ UNCHANGED <<breaks, origin>>
    BY <1>2 DEF DropBackup, Fault
  <2> QED BY <1>2, <2>2, <2>3, <2>4, <2>5 DEF DropBackup
<1>3. CASE ProbeDestination(p) BY <1>3 DEF ProbeDestination
<1>4. CASE BackUp(p)
  <2>1. /\ dest' \in Dirs
        /\ backup' \in [Processes -> Dirs]
    BY <1>4, DirFacts DEF BackUp
  <2>2. /\ moved' \in [Processes -> BOOLEAN]
        /\ raised' \in [Processes -> BOOLEAN]
    BY <1>4 DEF BackUp
  <2>3. \/ pc' = [pc EXCEPT ![p] = "install"]
        \/ pc' = [pc EXCEPT ![p] = "sweepStaging"]
    BY <1>4 DEF BackUp
  <2>4. faults' \in 0 .. MaxFaults /\ UNCHANGED <<breaks, origin>>
    BY <1>4 DEF BackUp, Fault
  <2> QED BY <1>4, <2>1, <2>2, <2>3, <2>4 DEF BackUp
<1>5. CASE Install(p)
  <2>1. /\ dest' \in Dirs
        /\ staging' \in [Processes -> Dirs]
    BY <1>5, DirFacts DEF Install
  <2>2. raised' \in [Processes -> BOOLEAN] BY <1>5 DEF Install
  <2>3. \/ pc' = [pc EXCEPT ![p] = "drop"]
        \/ pc' = [pc EXCEPT ![p] = "restore"]
        \/ pc' = [pc EXCEPT ![p] = "sweepStaging"]
    BY <1>5 DEF Install
  <2>4. faults' \in 0 .. MaxFaults /\ UNCHANGED <<breaks, origin>>
    BY <1>5 DEF Install, Fault
  <2> QED BY <1>5, <2>1, <2>2, <2>3, <2>4 DEF Install
<1>6. CASE Restore(p) BY <1>6 DEF Restore, Fault, Dirs
<1>7. CASE SweepStaging(p)
  <2>1. staging' \in [Processes -> Dirs]
    BY <1>7, ShrunkFacts, DirFacts DEF SweepStaging, Dirs
  <2> QED BY <1>7, <2>1 DEF SweepStaging, Fault, Finish
<1>8. CASE SweepBackup(p)
  <2>1. backup' \in [Processes -> Dirs]
    BY <1>8, ShrunkFacts, DirFacts DEF SweepBackup, Dirs
  <2> QED BY <1>8, <2>1 DEF SweepBackup, Fault, Finish
<1> QED BY <1>1, <1>2, <1>3, <1>4, <1>5, <1>6, <1>7, <1>8 DEF ReplaceTree

(* So does every step of a tool, of its machine or of upstream.            *)
LEMMA TypeNext ==
    ASSUME TypeOK, ProcessesAreSound, [Next]_vars
    PROVE  TypeOK'
<1> USE BoundsAssumption DEF TypeOK, Labels, Ended, Fetching, Replacing,
            Sweeping, Goto,
            netVars, envVars, dirVars, flagVars, getVars
<1>1. ASSUME NEW p \in Processes, NEW j \in Jobs, Start(p, j) PROVE TypeOK'
  BY <1>1, DirFacts DEF Start
<1>2. ASSUME NEW p \in Processes, Step(p) PROVE TypeOK'
  BY <1>2, TypeFetch, TypeReplace DEF Step, ProcessesAreSound
<1>3. ASSUME NEW p \in Processes, Kill(p) PROVE TypeOK'
  BY <1>3 DEF Kill
<1>4. ASSUME NEW p \in Processes, Interrupt(p) PROVE TypeOK'
  BY <1>4 DEF Interrupt
<1>5. ASSUME NEW t \in Checkpoints, NEW c \in Checkpoints, RetagUpstream(t, c)
      PROVE  TypeOK'
  BY <1>5 DEF RetagUpstream
<1>6. CASE UNCHANGED vars BY <1>6 DEF vars
<1> QED BY <1>1, <1>2, <1>3, <1>4, <1>5, <1>6 DEF Next

-----------------------------------------------------------------------------
(* What processes have in hand.                                            *)

Hand(q) == <<pc[q], job[q], archive[q], staging[q], backup[q], moved[q]>>

(* A process that does nothing keeps what it has.                          *)
LEMMA IdleHand ==
    ASSUME NEW q \in Processes, ProcessIsSound(q), UNCHANGED Hand(q)
    PROVE  ProcessIsSound(q)'
BY DEF ProcessIsSound, Hand, Whole

(* Nobody touches what another process has.                                *)
LEMMA OtherHand ==
    ASSUME TypeOK, NEW p \in Processes, NEW q \in Processes, q # p,
           Step(p) \/ Kill(p) \/ Interrupt(p) \/ (\E j \in Jobs : Start(p, j))
    PROVE  UNCHANGED Hand(q)
<1> USE DEF TypeOK, Hand, Goto, Raise, dirVars, flagVars, getVars
<1>1. ASSUME NEW t \in BOOLEAN, RequestFails(p, t) PROVE UNCHANGED Hand(q)
  BY <1>1 DEF RequestFails
<1>2. CASE ResolveTag(p) BY <1>2 DEF ResolveTag
<1>3. CASE Download(p) BY <1>3 DEF Download
<1>4. CASE CheckDigest(p) BY <1>4 DEF CheckDigest
<1>5. CASE Extract(p) BY <1>5 DEF Extract
<1>6. ASSUME NEW f \in Files, CompareFile(p, f) PROVE UNCHANGED Hand(q)
  BY <1>6 DEF CompareFile
<1>7. ASSUME NEW f \in Files, StageFile(p, f) PROVE UNCHANGED Hand(q)
  BY <1>7 DEF StageFile
<1>8. ASSUME NEW f \in Files, DropBackup(p, f) PROVE UNCHANGED Hand(q)
  BY <1>8 DEF DropBackup
<1>9. CASE ProbeDestination(p) BY <1>9 DEF ProbeDestination
<1>10. CASE BackUp(p) BY <1>10 DEF BackUp
<1>11. CASE Install(p) BY <1>11 DEF Install
<1>12. CASE Restore(p) BY <1>12 DEF Restore
<1>13. CASE SweepStaging(p) BY <1>13 DEF SweepStaging
<1>14. CASE SweepBackup(p) BY <1>14 DEF SweepBackup
<1>15. CASE Kill(p) BY <1>15 DEF Kill
<1>16. CASE Interrupt(p) BY <1>16 DEF Interrupt
<1>17. ASSUME NEW j \in Jobs, Start(p, j) PROVE UNCHANGED Hand(q)
  BY <1>17 DEF Start
<1> QED BY <1>1, <1>2, <1>3, <1>4, <1>5, <1>6, <1>7, <1>8, <1>9, <1>10, <1>11,
           <1>12, <1>13, <1>14, <1>15, <1>16, <1>17 DEF Step, Fetch, ReplaceTree

(* What a process has in hand after a statement of main is right for the   *)
(* next one.                                                               *)
LEMMA SoundFetch ==
    ASSUME TypeOK, NEW p \in Processes, ProcessIsSound(p),
           Fetch(p) \/ (\E f \in Files : CompareFile(p, f))
    PROVE  ProcessIsSound(p)'
<1> USE DEF TypeOK, ProcessIsSound, Whole, Early, Fetching, Replacing, Goto,
            dirVars, flagVars, getVars
<1>1. ASSUME NEW t \in BOOLEAN, RequestFails(p, t) PROVE ProcessIsSound(p)'
  BY <1>1 DEF RequestFails
<1>2. CASE ResolveTag(p) BY <1>2 DEF ResolveTag
<1>3. CASE Download(p) BY <1>3 DEF Download
<1>4. CASE CheckDigest(p) BY <1>4 DEF CheckDigest
<1>5. CASE Extract(p) BY <1>5 DEF Extract
<1>6. ASSUME NEW f \in Files, CompareFile(p, f) PROVE ProcessIsSound(p)'
  BY <1>6 DEF CompareFile
<1> QED BY <1>1, <1>2, <1>3, <1>4, <1>5, <1>6 DEF Fetch

(* So is what it has after a statement of _replace_tree, provided a        *)
(* destination that is there is whole: it becomes the backup.              *)
LEMMA SoundReplace ==
    ASSUME TypeOK, DestIsWhole, NEW p \in Processes, ProcessIsSound(p),
           ReplaceTree(p)
    PROVE  ProcessIsSound(p)'
<1> USE DEF TypeOK, ProcessIsSound, Whole, Early, Fetching, Replacing, Goto,
            Raise, dirVars, flagVars, getVars
<1>1. ASSUME NEW f \in Files, StageFile(p, f) PROVE ProcessIsSound(p)'
  <2>1. archive[p] \in Checkpoints /\ archive[p] = job[p].pin
    BY <1>1, DirFacts DEF StageFile, Jobs
  <2>2. staging[p] = None \/ staging[p].files \in SUBSET Files
    BY DirFacts DEF Dirs
  <2>3. \/ /\ staging'[p] \in Trees /\ staging'[p].of = job[p].pin
           /\ pc'[p] = IF Whole(staging'[p]) THEN "probe" ELSE "stage"
        \/ pc'[p] = "failed"
    BY <1>1, <2>1, <2>2, DirFacts DEF StageFile
  <2> QED BY <1>1, <2>3, DirFacts DEF StageFile, Ended
<1>2. ASSUME NEW f \in Files, DropBackup(p, f) PROVE ProcessIsSound(p)'
  <2>1. \/ pc'[p] = "drop" /\ backup'[p] # None
        \/ pc'[p] = "sweepStaging"
    BY <1>2 DEF DropBackup
  <2> QED BY <1>2, <2>1 DEF DropBackup
<1>3. CASE ProbeDestination(p) BY <1>3 DEF ProbeDestination
<1>4. CASE BackUp(p) BY <1>4 DEF BackUp, DestIsWhole
<1>5. CASE Install(p) BY <1>5 DEF Install
<1>6. CASE Restore(p) BY <1>6 DEF Restore
<1>7. CASE SweepStaging(p)
  <2>1. pc'[p] \in {"sweepStaging", "sweepBackup", "done", "failed"}
    BY <1>7 DEF SweepStaging, Finish
  <2> QED BY <2>1
<1>8. CASE SweepBackup(p)
  <2>1. pc'[p] \in {"sweepBackup", "done", "failed"}
    BY <1>8 DEF SweepBackup, Finish
  <2> QED BY <2>1
<1> QED BY <1>1, <1>2, <1>3, <1>4, <1>5, <1>6, <1>7, <1>8 DEF ReplaceTree

(* Every process stays sound, whoever takes the step.                      *)
LEMMA SoundNext ==
    ASSUME TypeOK, ProcessesAreSound, DestIsWhole, [Next]_vars
    PROVE  ProcessesAreSound'
<1> SUFFICES ASSUME NEW q \in Processes PROVE ProcessIsSound(q)'
  BY DEF ProcessesAreSound
<1>1. ProcessIsSound(q) BY DEF ProcessesAreSound
<1>2. ASSUME NEW p \in Processes,
             Step(p) \/ Kill(p) \/ Interrupt(p) \/ (\E j \in Jobs : Start(p, j))
      PROVE  ProcessIsSound(q)'
  <2>1. CASE q # p BY <1>1, <1>2, <2>1, OtherHand, IdleHand
  <2> SUFFICES ASSUME q = p PROVE ProcessIsSound(q)' BY <2>1
  <2>2. CASE Step(p) BY <1>1, <2>2, SoundFetch, SoundReplace DEF Step
  <2>3. CASE Kill(p)
    BY <1>1, <2>3 DEF Kill, Goto, TypeOK, ProcessIsSound, Early, Fetching, Replacing
  <2>4. CASE Interrupt(p)
    BY <1>1, <2>4 DEF Interrupt, Goto, TypeOK, ProcessIsSound, Early, Fetching,
                      Replacing
  <2>5. ASSUME NEW j \in Jobs, Start(p, j) PROVE ProcessIsSound(q)'
    BY <1>1, <2>5 DEF Start, Goto, TypeOK, ProcessIsSound, Early, Fetching,
                      Replacing, dirVars, flagVars
  <2> QED BY <1>2, <2>2, <2>3, <2>4, <2>5
<1>3. ASSUME NEW t \in Checkpoints, NEW c \in Checkpoints, RetagUpstream(t, c)
      PROVE  ProcessIsSound(q)'
  BY <1>1, <1>3, IdleHand DEF RetagUpstream, Hand, dirVars, flagVars, getVars
<1>4. CASE UNCHANGED vars
  BY <1>1, <1>4, IdleHand DEF vars, Hand, dirVars, flagVars, getVars
<1> QED BY <1>2, <1>3, <1>4 DEF Next

-----------------------------------------------------------------------------
(* The destination and the trees that may come back.                       *)

(* Only three statements of the tool touch the destination, and none of    *)
(* them changes anybody's job.                                             *)
LEMMA StepEffects ==
    ASSUME TypeOK, NEW p \in Processes, Step(p)
    PROVE  /\ UNCHANGED <<job, origin>>
           /\ \/ UNCHANGED <<dest, moved>>
              \/ BackUp(p) \/ Install(p) \/ Restore(p)
<1> USE DEF Fault, dirVars, flagVars, envVars
<1>1. ASSUME NEW t \in BOOLEAN, RequestFails(p, t)
      PROVE  UNCHANGED <<job, origin, dest, moved>>
  BY <1>1 DEF RequestFails
<1>2. CASE ResolveTag(p) BY <1>2 DEF ResolveTag
<1>3. CASE Download(p) BY <1>3 DEF Download
<1>4. CASE CheckDigest(p) BY <1>4 DEF CheckDigest
<1>5. CASE Extract(p) BY <1>5 DEF Extract
<1>6. ASSUME NEW f \in Files, CompareFile(p, f)
      PROVE  UNCHANGED <<job, origin, dest, moved>>
  BY <1>6 DEF CompareFile
<1>7. ASSUME NEW f \in Files, StageFile(p, f)
      PROVE  UNCHANGED <<job, origin, dest, moved>>
  BY <1>7 DEF StageFile
<1>8. ASSUME NEW f \in Files, DropBackup(p, f)
      PROVE  UNCHANGED <<job, origin, dest, moved>>
  BY <1>8 DEF DropBackup
<1>9. CASE ProbeDestination(p) BY <1>9 DEF ProbeDestination
<1>10. CASE BackUp(p) BY <1>10 DEF BackUp
<1>11. CASE Install(p) BY <1>11 DEF Install
<1>12. CASE Restore(p) BY <1>12 DEF Restore
<1>13. CASE SweepStaging(p) BY <1>13 DEF SweepStaging
<1>14. CASE SweepBackup(p) BY <1>14 DEF SweepBackup
<1> QED BY <1>1, <1>2, <1>3, <1>4, <1>5, <1>6, <1>7, <1>8, <1>9, <1>10, <1>11,
           <1>12, <1>13, <1>14 DEF Step, Fetch, ReplaceTree

(* A known tree stays known: jobs are given once, to idle processes.       *)
LEMMA KnownGrows ==
    ASSUME TypeOK, [Next]_vars
    PROVE  Known \subseteq Known'
<1>1. CASE UNCHANGED <<job, origin>> BY <1>1 DEF Known, PinsTaken
<1>2. ASSUME NEW p \in Processes, NEW j \in Jobs, Start(p, j)
      PROVE  Known \subseteq Known'
  <2>1. job[p] = None BY <1>2 DEF Start, TypeOK
  <2>2. \A q \in Processes : job[q] # None => job'[q] = job[q]
    BY <1>2, <2>1 DEF Start, TypeOK
  <2>3. PinsTaken \subseteq PinsTaken'
    <3> SUFFICES ASSUME NEW q \in Processes, job[q] # None, ~ job[q].check
                 PROVE  job[q].pin \in PinsTaken'
      BY DEF PinsTaken
    <3> QED BY <2>2 DEF PinsTaken
  <2> QED BY <1>2, <2>3 DEF Start, envVars, Known
<1>3. ASSUME NEW p \in Processes, Step(p) \/ Kill(p) \/ Interrupt(p)
      PROVE  UNCHANGED <<job, origin>>
  BY <1>3, StepEffects DEF Kill, Interrupt
<1>4. ASSUME NEW t \in Checkpoints, NEW c \in Checkpoints, RetagUpstream(t, c)
      PROVE  UNCHANGED <<job, origin>>
  BY <1>4 DEF RetagUpstream, envVars
<1> QED BY <1>1, <1>2, <1>3, <1>4 DEF Next, vars, envVars

(* Whoever does not run a step of the tool leaves dest, moved and every    *)
(* backup alone.                                                           *)
LEMMA OutsideEffects ==
    ASSUME \/ \E p \in Processes :
                 Kill(p) \/ Interrupt(p) \/ (\E j \in Jobs : Start(p, j))
           \/ \E t, c \in Checkpoints : RetagUpstream(t, c)
           \/ UNCHANGED vars
    PROVE  UNCHANGED <<dest, moved, backup>>
BY DEF Kill, Interrupt, Start, RetagUpstream, vars, dirVars, flagVars

(* What Install puts in place is a whole copy of the pinned tree.          *)
LEMMA StagingIsPinned ==
    ASSUME TypeOK, NEW p \in Processes, ProcessIsSound(p), pc[p] = "install"
    PROVE  /\ Whole(staging[p])
           /\ staging[p].of \in PinsTaken
<1>1. /\ Whole(staging[p])
      /\ staging[p].of = job[p].pin
      /\ ~ job[p].check
  BY DEF ProcessIsSound, Replacing
<1>2. job[p] # None BY DEF TypeOK
<1> QED BY <1>1, <1>2 DEF PinsTaken

(* Only whole trees are renamed into place: staging copies that copytree   *)
(* finished and backups that nobody swept.                                 *)
LEMMA WholeNext ==
    ASSUME IInv, [Next]_vars
    PROVE  DestIsWhole'
<1> USE DEF IInv
<1>1. CASE UNCHANGED dest BY <1>1 DEF DestIsWhole, Whole
<1>2. ASSUME NEW p \in Processes, Step(p) PROVE DestIsWhole'
  <2>0. ProcessIsSound(p) BY DEF ProcessesAreSound
  <2>1. CASE BackUp(p) BY <1>1, <2>1 DEF BackUp, DestIsWhole
  <2>2. CASE Install(p)
    BY <1>1, <2>0, <2>2, StagingIsPinned DEF Install, DestIsWhole, Whole
  <2>3. CASE Restore(p)
    BY <1>1, <2>0, <2>3 DEF Restore, ProcessIsSound, DestIsWhole, Whole
  <2> QED BY <1>1, <1>2, <2>1, <2>2, <2>3, StepEffects
<1> QED BY <1>1, <1>2, OutsideEffects DEF Next

(* Every tree in place or in a backup stays one that was there or pinned.  *)
LEMMA TreesNext ==
    ASSUME IInv, [Next]_vars
    PROVE  TreesAreKnown'
<1> USE DEF IInv
<1>0. Known \subseteq Known' BY KnownGrows
<1>1. CASE UNCHANGED <<dest, backup>> BY <1>0, <1>1 DEF TreesAreKnown
<1>2. ASSUME NEW p \in Processes, Step(p) PROVE TreesAreKnown'
  <2>0. ProcessIsSound(p) BY DEF ProcessesAreSound
  <2>1. CASE BackUp(p)
    <3>1. \/ UNCHANGED <<dest, backup>>
          \/ dest' = None /\ backup' = [backup EXCEPT ![p] = dest]
      BY <2>1 DEF BackUp
    <3>2. ASSUME dest' = None, backup' = [backup EXCEPT ![p] = dest],
                 NEW q \in Processes, backup'[q] # None
          PROVE  backup'[q].of \in Known'
      <4>1. backup'[q] = IF q = p THEN dest ELSE backup[q]
        BY <3>2 DEF TypeOK
      <4> QED BY <1>0, <3>2, <4>1 DEF TreesAreKnown
    <3> QED BY <1>1, <3>1, <3>2 DEF TreesAreKnown
  <2>2. CASE Install(p)
    <3>1. staging[p].of \in Known BY <2>0, <2>2, StagingIsPinned DEF Install, Known
    <3> QED BY <1>0, <1>1, <2>2, <3>1 DEF Install, TreesAreKnown
  <2>3. CASE Restore(p)
    <3>1. backup[p] # None /\ backup[p].of \in Known
      BY <2>0, <2>3 DEF Restore, ProcessIsSound, Whole, TreesAreKnown
    <3>2. \/ UNCHANGED <<dest, backup>>
          \/ dest' = backup[p] /\ backup' = [backup EXCEPT ![p] = None]
      BY <2>3 DEF Restore
    <3>3. ASSUME dest' = backup[p], backup' = [backup EXCEPT ![p] = None],
                 NEW q \in Processes, backup'[q] # None
          PROVE  backup'[q].of \in Known'
      <4>1. backup'[q] = IF q = p THEN None ELSE backup[q]
        BY <3>3 DEF TypeOK
      <4> QED BY <1>0, <3>1, <3>3, <4>1 DEF TreesAreKnown
    <3> QED BY <1>0, <1>1, <3>1, <3>2, <3>3 DEF TreesAreKnown
  <2>4. ASSUME NEW f \in Files, UNCHANGED dest, backup[p] # None,
               backup' = [backup EXCEPT ![p] = Shrunk(@, f)]
        PROVE  TreesAreKnown'
    <3>1. Shrunk(backup[p], f) # None => Shrunk(backup[p], f).of = backup[p].of
      BY <2>4, ShrunkFacts DEF TypeOK
    <3>2. ASSUME NEW q \in Processes, backup'[q] # None
          PROVE  backup'[q].of \in Known'
      <4>1. backup'[q] = IF q = p THEN Shrunk(backup[p], f) ELSE backup[q]
        BY <2>4 DEF TypeOK
      <4> QED BY <1>0, <2>4, <3>1, <3>2, <4>1 DEF TreesAreKnown
    <3> QED BY <1>0, <2>4, <3>2 DEF TreesAreKnown
  <2>5. ASSUME NEW f \in Files, DropBackup(p, f) PROVE TreesAreKnown'
    <3>1. backup[p] # None BY <2>0, <2>5 DEF DropBackup, ProcessIsSound
    <3>2. UNCHANGED dest BY <2>5 DEF DropBackup
    <3>3. \/ backup' = [backup EXCEPT ![p] = Shrunk(@, f)]
          \/ UNCHANGED backup
      BY <2>5, Zenon DEF DropBackup
    <3> QED BY <1>1, <2>4, <3>1, <3>2, <3>3
  <2>6. CASE SweepBackup(p)
    <3>1. UNCHANGED dest BY <2>6 DEF SweepBackup
    <3>2. \/ /\ backup[p] # None
             /\ \E f \in Files : backup' = [backup EXCEPT ![p] = Shrunk(@, f)]
          \/ UNCHANGED backup
      <4>1. backup[p] # None => backup[p].files \subseteq Files
        BY DirFacts DEF TypeOK, Dirs
      <4> QED BY <2>6, <4>1 DEF SweepBackup
    <3> QED BY <1>1, <2>4, <3>1, <3>2
  <2>7. CASE SweepStaging(p) BY <1>1, <2>7 DEF SweepStaging
  <2>8. CASE ProbeDestination(p) BY <1>1, <2>8 DEF ProbeDestination, dirVars
  <2>9. ASSUME NEW f \in Files, StageFile(p, f) PROVE TreesAreKnown'
    BY <1>1, <2>9 DEF StageFile
  <2>10. CASE Fetch(p) \/ \E f \in Files : CompareFile(p, f)
    BY <1>1, <2>10 DEF Fetch, RequestFails, ResolveTag, Download, CheckDigest,
                       Extract, CompareFile, dirVars
  <2> QED BY <1>2, <2>1, <2>2, <2>3, <2>5, <2>6, <2>7, <2>8, <2>9, <2>10
          DEF Step, ReplaceTree
<1> QED BY <1>1, <1>2, OutsideEffects DEF Next

(* The holder of the missing tree holds it until the tree is back.         *)
LEMMA HolderKeeps ==
    ASSUME IInv, [Next]_vars, NEW h \in Processes, Holds(h),
           dest = None, dest' = None
    PROVE  Holds(h)'
<1> USE DEF IInv
<1>1. CASE UNCHANGED Hand(h) BY <1>1 DEF Hand, Holds, Whole
<1>2. CASE Step(h)
  <2>0. ProcessIsSound(h) BY DEF ProcessesAreSound
  <2>1. CASE Install(h)
    <3>1. Whole(staging[h]) BY <2>0, <2>1 DEF Install, ProcessIsSound
    <3> QED BY <2>1, <3>1 DEF Install, Raise, Goto, Holds, Whole, TypeOK
  <2>2. CASE Restore(h)
    BY <2>2 DEF Restore, Goto, Holds, Whole, TypeOK, flagVars
  <2>3. CASE SweepStaging(h)
    <3>1. /\ pc'[h] \in {"sweepStaging", "done", "failed"}
          /\ UNCHANGED <<backup, moved>>
      BY <2>3 DEF SweepStaging, Goto, Finish, TypeOK, Holds, Ended, flagVars
    <3> QED BY <3>1 DEF Holds, Whole, Ended
  <2> QED
    BY <1>2, <2>1, <2>2, <2>3 DEF Holds, Ended, Step, Fetch, ReplaceTree,
       RequestFails, ResolveTag, Download, CheckDigest, Extract, CompareFile,
       StageFile, DropBackup, ProbeDestination, BackUp, SweepBackup
<1>3. CASE Kill(h)
  BY <1>3 DEF Kill, Goto, Holds, Whole, Ended, TypeOK, dirVars, flagVars
<1>4. CASE Interrupt(h)
  BY <1>4 DEF Interrupt, Goto, Holds, Whole, Ended, Replacing, TypeOK, dirVars
<1>5. ASSUME NEW j \in Jobs, Start(h, j) PROVE FALSE
  BY <1>5 DEF Start, Holds, Ended
<1>6. ASSUME NEW t \in Checkpoints, NEW c \in Checkpoints, RetagUpstream(t, c)
      PROVE  UNCHANGED Hand(h)
  BY <1>6 DEF RetagUpstream, Hand, dirVars, flagVars, getVars
<1>7. CASE UNCHANGED vars
  BY <1>1, <1>7 DEF vars, Hand, dirVars, flagVars, getVars
<1> QED BY <1>1, <1>2, <1>3, <1>4, <1>5, <1>6, <1>7, OtherHand DEF Next

(* A step that finds a holder leaves one; the step that takes the          *)
(* destination away makes one.                                             *)
LEMMA SomebodyNext ==
    ASSUME IInv, [Next]_vars
    PROVE  SomebodyHolds'
<1> SUFFICES ASSUME dest' = None, \E q \in Processes : moved'[q]
             PROVE  \E h \in Processes : Holds(h)'
  BY DEF SomebodyHolds
<1> USE DEF IInv
<1>1. CASE dest = None /\ \E q \in Processes : moved[q]
  BY <1>1, HolderKeeps DEF SomebodyHolds
<1>2. ASSUME NEW p \in Processes, BackUp(p), dest # None PROVE Holds(p)'
  BY <1>2 DEF BackUp, DestIsWhole, Goto, Holds, Whole, TypeOK
<1>3. ASSUME NEW p \in Processes, Install(p) \/ Restore(p), UNCHANGED dest
      PROVE  UNCHANGED moved
  BY <1>3 DEF Install, Restore, flagVars
<1>4. ASSUME NEW p \in Processes, BackUp(p), dest = None PROVE UNCHANGED moved
  BY <1>4 DEF BackUp
<1>5. ASSUME NEW p \in Processes, Install(p) \/ Restore(p), dest # None
      PROVE  UNCHANGED dest
  BY <1>5 DEF Install, Restore
<1>6. CASE \E p \in Processes : Step(p)
  BY <1>1, <1>2, <1>3, <1>4, <1>5, <1>6, StepEffects
<1> QED BY <1>1, <1>6, OutsideEffects DEF Next

-----------------------------------------------------------------------------
(* The theorems.                                                           *)

(* At first no process has anything, and the destination is whole if it is *)
(* there.                                                                  *)
LEMMA InvInit == Init => IInv
<1> SUFFICES ASSUME Init PROVE IInv OBVIOUS
<1>1. TypeOK BY TypeInit
<1>2. ProcessesAreSound
  BY DEF Init, ProcessesAreSound, ProcessIsSound, Early, Fetching, Replacing
<1>3. DestIsWhole BY DirFacts DEF Init, DestIsWhole, Whole
<1>4. TreesAreKnown BY DEF Init, TreesAreKnown, Known
<1>5. SomebodyHolds BY DEF Init, SomebodyHolds
<1> QED BY <1>1, <1>2, <1>3, <1>4, <1>5 DEF IInv

(* Every step of a tool, of its machine or of upstream keeps the           *)
(* invariant.                                                              *)
LEMMA InvNext ==
    ASSUME IInv, [Next]_vars
    PROVE  IInv'
<1>1. TypeOK' BY TypeNext DEF IInv
<1>2. ProcessesAreSound' BY SoundNext DEF IInv
<1> QED BY <1>1, <1>2, WholeNext, TreesNext, SomebodyNext DEF IInv

(* The invariant holds of every run of any number of importers.            *)
THEOREM Invariance == Spec => []IInv
BY InvInit, InvNext, PTL DEF Spec

(* Every variable of the importer keeps its shape.                         *)
THEOREM TypeCorrect == Spec => []TypeOK
<1>1. IInv => TypeOK BY DEF IInv
<1> QED BY <1>1, Invariance, PTL

(* However importers interleave, fail, or are killed or interrupted: while *)
(* the destination is away, one of those that moved it away still has a    *)
(* whole tree in its backup.                                               *)
THEOREM RecoverableCorrect == Spec => []Recoverable
<1>1. IInv => Recoverable BY DEF IInv, SomebodyHolds, Holds, Recoverable
<1> QED BY <1>1, Invariance, PTL

(* The first state of the importer is one of the vendored tree.            *)
LEMMA RefineInit == Init => Vendored!Init
<1> SUFFICES ASSUME Init PROVE Vendored!Init OBVIOUS
<1>1. PinsTaken = {} BY DEF Init, PinsTaken
<1>2. CASE dest = None
  BY <1>1, <1>2, DirFacts DEF Init, Vendored!Init, Current, Known
<1>3. ASSUME NEW c \in Checkpoints, dest = Tree(c, Files) PROVE Vendored!Init
  <2>1. dest # None /\ dest.of = c /\ dest.files = Files
    BY <1>3, DirFacts DEF Trees
  <2>2. Current = c BY <2>1 DEF Current, Whole
  <2>3. Known = {c} BY <1>1, <2>1 DEF Init, Known
  <2> QED BY <2>2, <2>3, DirFacts DEF Vendored!Init
<1> QED BY <1>2, <1>3 DEF Init

(* Every step of the importers takes the vendored tree away, puts a known  *)
(* one in place, pins one more, or leaves it as it is.                     *)
LEMMA RefineNext ==
    ASSUME IInv, IInv', [Next]_vars
    PROVE  [Vendored!Next]_(Vendored!vars)
<1> USE DEF IInv
<1>1. /\ Current = IF dest = None THEN None ELSE dest.of
      /\ Current' = IF dest' = None THEN None ELSE dest'.of
  BY DEF Current, DestIsWhole
<1>2. CASE UNCHANGED <<dest, job, origin>>
  BY <1>1, <1>2 DEF Known, PinsTaken, Vendored!vars
<1>3. ASSUME NEW p \in Processes, NEW j \in Jobs, Start(p, j)
      PROVE  [Vendored!Next]_(Vendored!vars)
  <2>1. UNCHANGED Current BY <1>1, <1>3 DEF Start, dirVars
  <2>2. Known' = IF j.check THEN Known ELSE Known \cup {j.pin}
    <3>1. /\ job[p] = None /\ j # None
          /\ job' = [job EXCEPT ![p] = j]
          /\ UNCHANGED origin
      BY <1>3, DirFacts DEF Start, TypeOK, envVars
    <3>2. PinsTaken' = IF j.check THEN PinsTaken ELSE PinsTaken \cup {j.pin}
      <4>1. \A q \in Processes : job'[q] = IF q = p THEN j ELSE job[q]
        BY <3>1 DEF TypeOK
      <4> QED BY <3>1, <4>1 DEF PinsTaken
    <3> QED BY <3>1, <3>2 DEF Known
  <2>3. j.pin \in Checkpoints BY DEF Jobs
  <2> QED BY <2>1, <2>2, <2>3 DEF Vendored!Next, Vendored!Pin, Vendored!vars
<1>4. ASSUME NEW p \in Processes, Step(p)
      PROVE  [Vendored!Next]_(Vendored!vars)
  <2>1. UNCHANGED Known BY <1>4, StepEffects DEF Known, PinsTaken
  <2>2. UNCHANGED dest \/ (dest = None <=> dest' # None)
    BY <1>4, StepEffects DEF BackUp, Install, Restore
  <2>3. dest # None => Current \in Checkpoints
    BY <1>1, DirFacts DEF TypeOK, Dirs
  <2>4. CASE UNCHANGED dest BY <1>1, <2>1, <2>4 DEF Vendored!vars
  <2>5. CASE dest # None /\ dest' = None
    BY <1>1, <2>1, <2>3, <2>5, DirFacts DEF Vendored!Next, Vendored!TakeAway
  <2>6. CASE dest = None /\ dest' # None
    <3>1. Current' \in Checkpoints
      BY <1>1, <2>6, DirFacts DEF TypeOK, Dirs
    <3>2. Current' \in Known BY <1>1, <2>1, <2>6 DEF TreesAreKnown
    <3> QED BY <1>1, <2>1, <2>6, <3>1, <3>2
            DEF Vendored!Next, Vendored!PutInPlace
  <2> QED BY <2>2, <2>4, <2>5, <2>6
<1>5. ASSUME NEW p \in Processes, Kill(p) \/ Interrupt(p)
      PROVE  UNCHANGED <<dest, job, origin>>
  BY <1>5 DEF Kill, Interrupt, dirVars
<1>6. ASSUME NEW t \in Checkpoints, NEW c \in Checkpoints, RetagUpstream(t, c)
      PROVE  UNCHANGED <<dest, job, origin>>
  BY <1>6 DEF RetagUpstream, dirVars, envVars
<1>7. CASE UNCHANGED vars
  BY <1>2, <1>7 DEF vars, dirVars, envVars
<1> QED BY <1>2, <1>3, <1>4, <1>5, <1>6, <1>7 DEF Next

(* The importers implement VendoredTree: a reader of the destination sees  *)
(* one whole, known tree or none.                                          *)
THEOREM ImplementsVendoredTree == Spec => VendoredTreeSpec
BY RefineInit, RefineNext, Invariance, PTL
   DEF Spec, VendoredTreeSpec, Vendored!Spec

-----------------------------------------------------------------------------
(* Staging copies.                                                         *)

(* Without faults and breaks, who has ended or only has its backup left to *)
(* remove has no staging copy.                                             *)
StagingIsGone ==
    faults = 0 /\ breaks = 0 =>
        \A p \in Processes :
            pc[p] \in Ended \cup {"sweepBackup"} => staging[p] = None

(* A step of a process leaves its staging copy only behind a fault.        *)
LEMMA StagingStep ==
    ASSUME TypeOK, NEW p \in Processes, ProcessIsSound(p), Step(p), StagingIsGone,
           faults' = 0, breaks' = 0, pc'[p] \in Ended \cup {"sweepBackup"}
    PROVE  staging'[p] = None
<1> USE BoundsAssumption
        DEF TypeOK, ProcessIsSound, Early, Fetching, Ended, Goto, Raise,
            Fault, envVars, dirVars
<1>1. ASSUME NEW t \in BOOLEAN, RequestFails(p, t) PROVE staging'[p] = None
  BY <1>1 DEF RequestFails
<1>2. CASE ResolveTag(p) BY <1>2 DEF ResolveTag
<1>3. CASE Download(p) BY <1>3 DEF Download
<1>4. CASE CheckDigest(p) BY <1>4 DEF CheckDigest
<1>5. CASE Extract(p) BY <1>5 DEF Extract
<1>6. ASSUME NEW f \in Files, CompareFile(p, f) PROVE staging'[p] = None
  BY <1>6 DEF CompareFile
<1>7. ASSUME NEW f \in Files, StageFile(p, f) PROVE staging'[p] = None
  BY <1>7 DEF StageFile
<1>8. ASSUME NEW f \in Files, DropBackup(p, f) PROVE staging'[p] = None
  BY <1>8 DEF DropBackup
<1>9. CASE ProbeDestination(p) BY <1>9 DEF ProbeDestination
<1>10. CASE BackUp(p) BY <1>10 DEF BackUp
<1>11. CASE Install(p) BY <1>11 DEF Install
<1>12. CASE Restore(p) BY <1>12 DEF Restore
<1>13. CASE SweepStaging(p) BY <1>13 DEF SweepStaging
<1>14. CASE SweepBackup(p) BY <1>14 DEF SweepBackup, StagingIsGone
<1> QED BY <1>1, <1>2, <1>3, <1>4, <1>5, <1>6, <1>7, <1>8, <1>9, <1>10, <1>11,
           <1>12, <1>13, <1>14 DEF Step, Fetch, ReplaceTree

(* Faults and breaks are never taken back.                                 *)
LEMMA DisturbancesStay ==
    ASSUME TypeOK, [Next]_vars, faults' = 0, breaks' = 0
    PROVE  /\ faults = 0 /\ breaks = 0
           /\ \A p \in Processes : ~ Kill(p) /\ ~ Interrupt(p)
<1> USE BoundsAssumption DEF TypeOK
<1>1. breaks' >= breaks /\ faults' >= faults
  <2> USE DEF Fault, envVars
  <2>1. ASSUME NEW p \in Processes, Kill(p) \/ Interrupt(p)
        PROVE  breaks' >= breaks /\ faults' >= faults
    BY <2>1 DEF Kill, Interrupt
  <2>2. ASSUME NEW p \in Processes, Fetch(p)
        PROVE  breaks' >= breaks /\ faults' >= faults
    BY <2>2 DEF Fetch, RequestFails, ResolveTag, Download, CheckDigest, Extract
  <2>3. ASSUME NEW p \in Processes, NEW f \in Files,
               CompareFile(p, f) \/ StageFile(p, f) \/ DropBackup(p, f)
        PROVE  breaks' >= breaks /\ faults' >= faults
    BY <2>3 DEF CompareFile, StageFile, DropBackup
  <2>4. ASSUME NEW p \in Processes, ProbeDestination(p) \/ BackUp(p) \/ Install(p)
        PROVE  breaks' >= breaks /\ faults' >= faults
    BY <2>4 DEF ProbeDestination, BackUp, Install
  <2>5. ASSUME NEW p \in Processes, Restore(p) \/ SweepStaging(p) \/ SweepBackup(p)
        PROVE  breaks' >= breaks /\ faults' >= faults
    BY <2>5 DEF Restore, SweepStaging, SweepBackup
  <2>6. ASSUME NEW p \in Processes, NEW j \in Jobs, Start(p, j)
        PROVE  breaks' >= breaks /\ faults' >= faults
    BY <2>6 DEF Start
  <2>7. ASSUME NEW t \in Checkpoints, NEW c \in Checkpoints, RetagUpstream(t, c)
        PROVE  breaks' >= breaks /\ faults' >= faults
    BY <2>7 DEF RetagUpstream
  <2>8. CASE UNCHANGED vars BY <2>8 DEF vars
  <2> QED BY <2>1, <2>2, <2>3, <2>4, <2>5, <2>6, <2>7, <2>8
          DEF Next, Step, ReplaceTree
<1>2. ASSUME NEW p \in Processes, Kill(p) \/ Interrupt(p) PROVE FALSE
  BY <1>2 DEF Kill, Interrupt
<1> QED BY <1>1, <1>2

(* Without faults and breaks a staging copy stays gone.                    *)
LEMMA StagingNext ==
    ASSUME IInv, StagingIsGone, [Next]_vars
    PROVE  StagingIsGone'
<1> SUFFICES ASSUME faults' = 0, breaks' = 0, NEW q \in Processes,
                    pc'[q] \in Ended \cup {"sweepBackup"}
             PROVE  staging'[q] = None
  BY DEF StagingIsGone
<1>1. /\ faults = 0 /\ breaks = 0
      /\ \A p \in Processes : ~ Kill(p) /\ ~ Interrupt(p)
  BY DisturbancesStay DEF IInv
<1>2. UNCHANGED Hand(q) => staging'[q] = None
  BY <1>1 DEF StagingIsGone, Hand
<1>3. ASSUME NEW p \in Processes, Step(p) \/ (\E j \in Jobs : Start(p, j))
      PROVE  staging'[q] = None
  <2>1. CASE q # p BY <1>2, <1>3, <2>1, OtherHand DEF IInv
  <2>2. CASE q = p /\ Step(p)
    BY <2>2, StagingStep DEF IInv, ProcessesAreSound
  <2>3. ASSUME q = p, NEW j \in Jobs, Start(p, j) PROVE staging'[q] = None
    BY <2>3 DEF Start, IInv, TypeOK, Goto, Ended
  <2> QED BY <1>3, <2>1, <2>2, <2>3
<1>4. ASSUME NEW t \in Checkpoints, NEW c \in Checkpoints, RetagUpstream(t, c)
      PROVE  staging'[q] = None
  BY <1>2, <1>4 DEF RetagUpstream, Hand, dirVars, flagVars, getVars
<1>5. CASE UNCHANGED vars
  BY <1>2, <1>5 DEF vars, Hand, dirVars, flagVars, getVars
<1> QED BY <1>1, <1>3, <1>4, <1>5 DEF Next

(* Without failing file operations, kills and interrupts, every importer   *)
(* that ends has removed its staging copy or put it in place.              *)
THEOREM StagingCorrect == Spec => []NoStagingLeft
<1>1. Init => StagingIsGone BY DEF Init, StagingIsGone
<1>2. IInv /\ StagingIsGone /\ [Next]_vars => StagingIsGone' BY StagingNext
<1>3. StagingIsGone => NoStagingLeft BY DEF StagingIsGone, NoStagingLeft
<1> QED BY <1>1, <1>2, <1>3, Invariance, PTL DEF Spec

-----------------------------------------------------------------------------
(* Check mode.                                                             *)

(* File f of the destination is that of the checkpoint p is pinned to.     *)
Equal(p, f) == /\ dest # None
               /\ f \in dest.files
               /\ Content[dest.of][f] = Content[job[p].pin][f]

Checks(p) == pc[p] # "idle" /\ job[p].check

(* Nobody but p does anything other than check.                            *)
OnlyChecks(p) == \A q \in Processes \ {p} : pc[q] = "idle" \/ job[q].check

CheckIsSound(p) ==
    /\ Checks(p) => pc[p] \in Early \cup Ended
    /\ pc[p] \in {"idle"} \cup Fetching => hashed[p] = {}
    /\ Checks(p) /\ pc[p] = "done" => hashed[p] = Files
    /\ Checks(p) /\ OnlyChecks(p) /\ pc[p] \in {"compare", "done"} =>
          \A f \in hashed[p] : Equal(p, f)

ChecksAreSound == \A p \in Processes : CheckIsSound(p)

(* Somebody who checks is in none of the statements of _replace_tree.      *)
LEMMA ChecksDoNotReplace ==
    ASSUME NEW p \in Processes, Checks(p), CheckIsSound(p)
    PROVE  ~ ReplaceTree(p)
BY DEF CheckIsSound, Early, Fetching, Ended, ReplaceTree, StageFile, DropBackup,
       ProbeDestination, BackUp, Install, Restore, SweepStaging, SweepBackup

(* A statement of _replace_tree leads to no request and no start.          *)
LEMMA ReplaceStays ==
    ASSUME TypeOK, NEW p \in Processes, ReplaceTree(p)
    PROVE  pc[p] # "idle" /\ pc'[p] \notin {"idle"} \cup Fetching
<1> USE DEF TypeOK, Goto, Raise, Finish, Fetching
<1>1. ASSUME NEW f \in Files, StageFile(p, f) \/ DropBackup(p, f)
      PROVE  pc[p] # "idle" /\ pc'[p] \notin {"idle"} \cup Fetching
  BY <1>1 DEF StageFile, DropBackup
<1>2. CASE ProbeDestination(p) \/ BackUp(p) \/ Install(p)
  BY <1>2 DEF ProbeDestination, BackUp, Install
<1>3. CASE Restore(p) \/ SweepStaging(p) \/ SweepBackup(p)
  BY <1>3 DEF Restore, SweepStaging, SweepBackup
<1> QED BY <1>1, <1>2, <1>3 DEF ReplaceTree

(* A step of main or of the comparison, with what it leaves alone.         *)
LEMMA CheckStep ==
    ASSUME TypeOK, NEW p \in Processes, Step(p), ~ ReplaceTree(p)
    PROVE  /\ UNCHANGED <<dest, job>>
           /\ \/ /\ pc[p] \in Fetching /\ UNCHANGED hashed
                 /\ pc'[p] \in Fetching \cup {"compare", "stage", "failed"}
                 /\ job[p].check => pc'[p] # "stage"
              \/ \E f \in Files : CompareFile(p, f)
<1> USE DEF TypeOK, Fetching, Goto, dirVars, flagVars
<1>1. ASSUME NEW t \in BOOLEAN, RequestFails(p, t)
      PROVE  /\ UNCHANGED <<dest, job, hashed>> /\ pc[p] \in Fetching
             /\ pc'[p] \in Fetching \cup {"failed"}
  BY <1>1 DEF RequestFails
<1>2. CASE ResolveTag(p) BY <1>2 DEF ResolveTag
<1>3. CASE Download(p) BY <1>3 DEF Download
<1>4. CASE CheckDigest(p) BY <1>4 DEF CheckDigest
<1>5. CASE Extract(p) BY <1>5 DEF Extract
<1>6. ASSUME NEW f \in Files, CompareFile(p, f) PROVE UNCHANGED <<dest, job>>
  BY <1>6 DEF CompareFile
<1> QED BY <1>1, <1>2, <1>3, <1>4, <1>5, <1>6 DEF Step, Fetch

(* A process keeps what it has compared while another takes a step.        *)
LEMMA OtherHashed ==
    ASSUME TypeOK, NEW p \in Processes, NEW q \in Processes, q # p,
           Step(p) \/ Kill(p) \/ Interrupt(p) \/ (\E j \in Jobs : Start(p, j))
    PROVE  hashed'[q] = hashed[q]
<1> USE DEF TypeOK, flagVars
<1>1. CASE Fetch(p)
  BY <1>1 DEF Fetch, RequestFails, ResolveTag, Download, CheckDigest, Extract
<1>2. ASSUME NEW f \in Files, CompareFile(p, f) PROVE hashed'[q] = hashed[q]
  BY <1>2 DEF CompareFile
<1>3. CASE ReplaceTree(p)
  BY <1>3 DEF ReplaceTree, StageFile, DropBackup, ProbeDestination, BackUp,
              Install, Restore, SweepStaging, SweepBackup
<1>4. CASE Kill(p) \/ Interrupt(p) BY <1>4 DEF Kill, Interrupt
<1>5. ASSUME NEW j \in Jobs, Start(p, j) PROVE hashed'[q] = hashed[q]
  BY <1>5 DEF Start
<1> QED BY <1>1, <1>2, <1>3, <1>4, <1>5 DEF Step

(* Nobody is idle once it acted, and who acts keeps the job it has.        *)
LEMMA ActorIsBusy ==
    ASSUME TypeOK, NEW p \in Processes,
           Step(p) \/ Kill(p) \/ Interrupt(p) \/ (\E j \in Jobs : Start(p, j))
    PROVE  /\ pc'[p] # "idle"
           /\ pc[p] # "idle" => job'[p] = job[p]
<1> USE DEF TypeOK, Goto, Raise, Finish, Ended
<1>1. CASE Fetch(p)
  BY <1>1 DEF Fetch, RequestFails, ResolveTag, Download, CheckDigest, Extract
<1>2. ASSUME NEW f \in Files, CompareFile(p, f)
      PROVE  pc'[p] # "idle" /\ job' = job
  BY <1>2 DEF CompareFile
<1>3. ASSUME NEW f \in Files, StageFile(p, f) \/ DropBackup(p, f)
      PROVE  pc'[p] # "idle" /\ job' = job
  BY <1>3 DEF StageFile, DropBackup
<1>4. CASE ProbeDestination(p) \/ BackUp(p) \/ Install(p)
  BY <1>4 DEF ProbeDestination, BackUp, Install
<1>5. CASE Restore(p) \/ SweepStaging(p) \/ SweepBackup(p)
  BY <1>5 DEF Restore, SweepStaging, SweepBackup
<1>6. CASE Kill(p) \/ Interrupt(p) BY <1>6 DEF Kill, Interrupt
<1>7. ASSUME NEW j \in Jobs, Start(p, j)
      PROVE  pc'[p] # "idle" /\ pc[p] = "idle"
  BY <1>7 DEF Start
<1> QED BY <1>1, <1>2, <1>3, <1>4, <1>5, <1>6, <1>7 DEF Step, ReplaceTree

(* What a check has compared, and the destination, outlive the step of     *)
(* another process that does nothing but check.                            *)
LEMMA OtherCheck ==
    ASSUME IInv, ChecksAreSound, NEW p \in Processes, NEW q \in Processes, q # p,
           Step(p) \/ Kill(p) \/ Interrupt(p) \/ (\E j \in Jobs : Start(p, j))
    PROVE  CheckIsSound(q)'
<1>1. CheckIsSound(p) /\ CheckIsSound(q) BY DEF ChecksAreSound
<1>2. UNCHANGED Hand(q) /\ hashed'[q] = hashed[q]
  BY OtherHand, OtherHashed DEF IInv
<1>3. pc'[q] = pc[q] /\ job'[q] = job[q] BY <1>2 DEF Hand
<1>4. \A r \in Processes \ {p} : pc'[r] = pc[r] /\ job'[r] = job[r]
  BY OtherHand DEF IInv, Hand
<1>5. ASSUME OnlyChecks(q)' PROVE OnlyChecks(q) /\ UNCHANGED dest
  <2>1. pc'[p] # "idle" /\ job'[p].check
    BY <1>5, ActorIsBusy DEF OnlyChecks, IInv
  <2>2. pc[p] = "idle" \/ job[p].check BY <2>1, ActorIsBusy DEF IInv
  <2>3. OnlyChecks(q) BY <1>4, <1>5, <2>2 DEF OnlyChecks
  <2>4. ASSUME Step(p) PROVE UNCHANGED dest
    <3>1. pc[p] # "idle"
      BY <2>4 DEF Step, Fetch, RequestFails, ResolveTag, Download, CheckDigest,
                  Extract, CompareFile, ReplaceTree, StageFile, DropBackup,
                  ProbeDestination, BackUp, Install, Restore, SweepStaging,
                  SweepBackup
    <3>2. Checks(p) BY <2>2, <3>1 DEF Checks
    <3> QED BY <1>1, <2>4, <3>2, ChecksDoNotReplace, CheckStep DEF IInv
  <2>5. ASSUME Kill(p) \/ Interrupt(p) \/ (\E j \in Jobs : Start(p, j))
        PROVE  UNCHANGED dest
    BY <2>5 DEF Kill, Interrupt, Start, dirVars
  <2> QED BY <2>3, <2>4, <2>5
<1> QED BY <1>1, <1>2, <1>3, <1>5 DEF CheckIsSound, Checks, Equal

(* A step of the check itself adds a file only when it is equal.           *)
LEMMA OwnCheck ==
    ASSUME IInv, ChecksAreSound, NEW p \in Processes,
           Step(p) \/ Kill(p) \/ Interrupt(p) \/ (\E j \in Jobs : Start(p, j))
    PROVE  CheckIsSound(p)'
<1>1. TypeOK /\ ProcessIsSound(p) /\ CheckIsSound(p)
  BY DEF IInv, ProcessesAreSound, ChecksAreSound
<1>2. OnlyChecks(p)' => OnlyChecks(p)
  BY OtherHand DEF OnlyChecks, Hand, IInv
<1>3. ASSUME ReplaceTree(p) PROVE CheckIsSound(p)'
  <2>1. pc[p] # "idle" /\ pc'[p] \notin {"idle"} \cup Fetching
    BY <1>1, <1>3, ReplaceStays
  <2>2. ~ Checks(p) BY <1>1, <1>3, ChecksDoNotReplace
  <2>3. ~ Checks(p)' BY <1>1, <1>3, <2>1, <2>2, ActorIsBusy DEF Checks, Step
  <2> QED BY <2>1, <2>3 DEF CheckIsSound
<1>4. ASSUME Step(p), ~ ReplaceTree(p), pc[p] \in Fetching, UNCHANGED hashed,
             pc'[p] \in Fetching \cup {"compare", "stage", "failed"},
             job[p].check => pc'[p] # "stage", UNCHANGED job
      PROVE  CheckIsSound(p)'
  <2>1. hashed'[p] = {} BY <1>1, <1>4 DEF CheckIsSound
  <2>2. Checks(p)' => pc'[p] # "stage" BY <1>4 DEF Checks
  <2> QED BY <1>4, <2>1, <2>2 DEF CheckIsSound, Early, Ended, Fetching
<1>5. ASSUME NEW f \in Files, CompareFile(p, f) PROVE CheckIsSound(p)'
  <2>1. /\ pc[p] = "compare" /\ archive[p] = job[p].pin
        /\ UNCHANGED <<dest, job>>
    BY <1>1, <1>5 DEF CompareFile, ProcessIsSound, dirVars
  <2>2. CASE hashed'[p] = hashed[p] /\ pc'[p] = "failed"
    BY <2>2 DEF CheckIsSound, Early, Ended, Fetching
  <2>3. CASE /\ hashed'[p] = hashed[p] \cup {f} /\ Equal(p, f)
             /\ pc'[p] = IF hashed'[p] = Files THEN "done" ELSE "compare"
    <3>1. Checks(p)' => Checks(p) BY <2>1 DEF Checks
    <3>2. \A g \in Files : Equal(p, g)' <=> Equal(p, g) BY <2>1 DEF Equal
    <3> QED BY <1>1, <1>2, <2>1, <2>3, <3>1, <3>2
            DEF CheckIsSound, Early, Ended, Fetching, TypeOK
  <2> QED BY <1>1, <1>5, <2>1, <2>2, <2>3
          DEF CompareFile, TypeOK, Equal, Goto
<1>6. ASSUME Kill(p) \/ Interrupt(p) PROVE CheckIsSound(p)'
  <2>1. CASE pc'[p] \in {"killed", "failed"}
    BY <2>1 DEF CheckIsSound, Ended, Fetching
  <2>2. CASE Interrupt(p) /\ pc[p] \in Replacing /\ pc'[p] = "sweepStaging"
    <3>1. ~ Checks(p)
      BY <1>1, <2>2 DEF CheckIsSound, Early, Ended, Fetching, Replacing
    <3>2. ~ Checks(p)'
      BY <2>2, <3>1 DEF Checks, Interrupt, Replacing
    <3> QED BY <2>2, <3>2 DEF CheckIsSound, Fetching
  <2> QED BY <1>1, <1>6, <2>1, <2>2 DEF Kill, Interrupt, Goto, TypeOK
<1>7. ASSUME NEW j \in Jobs, Start(p, j) PROVE CheckIsSound(p)'
  <2>1. pc'[p] \in Fetching BY <1>1, <1>7 DEF Start, Goto, TypeOK, Fetching
  <2>2. hashed'[p] = {} BY <1>1, <1>7 DEF Start, CheckIsSound, flagVars
  <2> QED BY <2>1, <2>2 DEF CheckIsSound, Early, Ended, Fetching
<1>8. CASE Step(p) /\ ~ ReplaceTree(p) BY <1>1, <1>4, <1>5, <1>8, CheckStep
<1> QED BY <1>3, <1>6, <1>7, <1>8

(* Every step keeps what the checks have found.                            *)
LEMMA ChecksNext ==
    ASSUME IInv, ChecksAreSound, [Next]_vars
    PROVE  ChecksAreSound'
<1> SUFFICES ASSUME NEW q \in Processes PROVE CheckIsSound(q)'
  BY DEF ChecksAreSound
<1>1. CheckIsSound(q) BY DEF ChecksAreSound
<1>2. ASSUME NEW p \in Processes,
             Step(p) \/ Kill(p) \/ Interrupt(p) \/ (\E j \in Jobs : Start(p, j))
      PROVE  CheckIsSound(q)'
  BY <1>2, OtherCheck, OwnCheck
<1>3. ASSUME UNCHANGED <<dest, pc, job, hashed>> PROVE CheckIsSound(q)'
  BY <1>1, <1>3 DEF CheckIsSound, Checks, OnlyChecks, Equal
<1>4. ASSUME NEW t \in Checkpoints, NEW c \in Checkpoints, RetagUpstream(t, c)
      PROVE  UNCHANGED <<dest, pc, job, hashed>>
  BY <1>4 DEF RetagUpstream, dirVars, flagVars
<1>5. CASE UNCHANGED vars BY <1>3, <1>5 DEF vars, dirVars, flagVars
<1> QED BY <1>2, <1>3, <1>4, <1>5 DEF Next

(* A check beside which nobody imported says "Snapshot matches." only of a *)
(* destination that is the pinned tree, however many check at once.        *)
THEOREM MatchCorrect == Spec => []MatchIsReal
<1>1. Init => ChecksAreSound
  BY DEF Init, ChecksAreSound, CheckIsSound, Checks
<1>2. IInv /\ ChecksAreSound /\ [Next]_vars => ChecksAreSound' BY ChecksNext
<1>3. IInv /\ ChecksAreSound => MatchIsReal
  <2> SUFFICES ASSUME IInv, ChecksAreSound, NEW p \in Processes,
                      pc[p] = "done", job[p].check, OnlyChecks(p)
               PROVE  Whole(dest) /\ Content[dest.of] = Content[job[p].pin]
    BY DEF MatchIsReal, OnlyChecks
  <2>1. \A f \in Files : Equal(p, f)
    BY DEF ChecksAreSound, CheckIsSound, Checks
  <2>2. dest # None /\ Whole(dest)
    BY <2>1, FilesAssumption DEF Equal, IInv, DestIsWhole
  <2>3. dest.of \in Checkpoints /\ job[p].pin \in Checkpoints
    BY <2>2, DirFacts DEF IInv, TypeOK, Dirs, Jobs
  <2>4. \A f \in Files : Content[dest.of][f] = Content[job[p].pin][f]
    BY <2>1 DEF Equal
  <2>5. /\ Content[dest.of] = [f \in Files |-> Content[dest.of][f]]
        /\ Content[job[p].pin] = [f \in Files |-> Content[job[p].pin][f]]
    BY <2>3, ContentAssumption
  <2> QED BY <2>2, <2>4, <2>5
<1> QED BY <1>1, <1>2, <1>3, Invariance, PTL DEF Spec
=============================================================================
