--------------------------- MODULE ImportUpstream ---------------------------
(***************************************************************************)
(* tools/import_upstream.py: import the pinned archive of one upstream tag *)
(* into the destination tree, or check the tree against it.                *)
(*                                                                         *)
(* A process is one invocation of the tool; restarting it after a crash is *)
(* another process with new temporary names (uuid4), so what a process     *)
(* leaves behind stays under its own index.  Processes share the           *)
(* destination and nothing else.  The environment answers requests, moves  *)
(* upstream tags, fails file operations, interrupts and kills processes.   *)
(*                                                                         *)
(* A checkpoint stands for an upstream commit, its tag archive and its     *)
(* tree.  The lock of a process pins one checkpoint: its commit and its    *)
(* archive digest.                                                         *)
(***************************************************************************)
EXTENDS Naturals, FiniteSets

CONSTANTS Processes,
          Checkpoints,
          Files,            \* the files of a tree
          Content,          \* Content[c][f]: what file f is at checkpoint c
          None,             \* no directory, no archive, no process job
          Cut,              \* an archive the connection cut short
          MaxAttempts,      \* 3 in download and in _github_json
          MaxRetags,        \* bound: how often upstream moves a tag
          MaxFaults,        \* bound: file operations that fail
          MaxBreaks         \* bound: interrupts and kills

ASSUME FilesAssumption == IsFiniteSet(Files) /\ Files # {}
ASSUME ContentAssumption ==
    \A c \in Checkpoints : Content[c] = [f \in Files |-> Content[c][f]]
ASSUME BoundsAssumption ==
    /\ MaxAttempts \in Nat \ {0}
    /\ MaxRetags \in Nat /\ MaxFaults \in Nat /\ MaxBreaks \in Nat

(* A directory: a copy, perhaps partial, of the tree of one checkpoint.    *)
Trees == [of : Checkpoints, files : SUBSET Files]
Dirs == Trees \cup {None}
Tree(c, files) == [of |-> c, files |-> files]
Whole(d) == d # None /\ d.files = Files

Jobs == [pin : Checkpoints, check : BOOLEAN, verify : BOOLEAN]

ASSUME NoneAssumption == /\ None \notin Checkpoints \cup Trees \cup Jobs
                         /\ Cut \notin Checkpoints

Ended == {"done", "failed", "killed"}
Fetching == {"resolve", "download", "digest", "extract"}
Replacing == {"probe", "backup", "install", "restore", "drop"}
Sweeping == {"sweepStaging", "sweepBackup"}
Labels == {"idle", "compare", "stage"} \cup Fetching \cup Replacing
            \cup Sweeping \cup Ended

VARIABLES
    dest,       \* the destination directory
    served,     \* what upstream serves under the tag of each pin
    retags,     \* upstream tag moves so far
    pc,         \* per process: the statement it is about to run
    job,        \* per process: its arguments and lock file
    attempts,   \* per process: requests of the current retry loop that failed
    archive,    \* per process: the downloaded archive
    staging,    \* per process: .<name>.<uuid>.tmp
    backup,     \* per process: .<name>.<uuid>.backup
    hashed,     \* per process: files compared equal in check mode
    moved,      \* per process: moved_existing
    raised,     \* per process: an exception is on its way out
    faults,     \* failed file operations so far
    breaks,     \* interrupts and kills so far
    origin      \* history: the destination as it was at first

netVars == <<served, retags>>
envVars == <<faults, breaks, origin>>
getVars == <<attempts, archive>>
dirVars == <<dest, staging, backup>>
flagVars == <<hashed, moved, raised>>
vars == <<netVars, envVars, getVars, dirVars, flagVars, pc, job>>

Goto(p, label) == pc' = [pc EXCEPT ![p] = label]

-----------------------------------------------------------------------------
Init ==
    /\ dest \in {None} \cup {Tree(c, Files) : c \in Checkpoints}
    /\ served = [c \in Checkpoints |-> c]
    /\ retags = 0
    /\ pc = [p \in Processes |-> "idle"]
    /\ job = [p \in Processes |-> None]
    /\ attempts = [p \in Processes |-> 0]
    /\ archive = [p \in Processes |-> None]
    /\ staging = [p \in Processes |-> None]
    /\ backup = [p \in Processes |-> None]
    /\ hashed = [p \in Processes |-> {}]
    /\ moved = [p \in Processes |-> FALSE]
    /\ raised = [p \in Processes |-> FALSE]
    /\ faults = 0
    /\ breaks = 0
    /\ origin = dest

-----------------------------------------------------------------------------
(* The environment.                                                        *)

RetagUpstream(t, c) ==
    /\ retags < MaxRetags
    /\ served[t] # c
    /\ served' = [served EXCEPT ![t] = c]
    /\ retags' = retags + 1
    /\ UNCHANGED <<envVars, getVars, dirVars, flagVars, pc, job>>

(* SIGKILL or a lost machine: nothing of the process runs any more.        *)
Kill(p) ==
    /\ pc[p] \notin Ended \cup {"idle"}
    /\ breaks < MaxBreaks
    /\ breaks' = breaks + 1
    /\ Goto(p, "killed")
    /\ UNCHANGED <<netVars, faults, origin, getVars, dirVars, flagVars, job>>

(* KeyboardInterrupt: no "except Exception" sees it, "finally" runs.       *)
Interrupt(p) ==
    /\ pc[p] \notin Ended \cup {"idle"}
    /\ breaks < MaxBreaks
    /\ breaks' = breaks + 1
    /\ Goto(p, IF pc[p] \in Replacing THEN "sweepStaging" ELSE "failed")
    /\ raised' = [raised EXCEPT ![p] = TRUE]
    /\ UNCHANGED <<netVars, faults, origin, getVars, dirVars, hashed, moved, job>>

(* A file operation of p fails for a reason of the machine's own.          *)
Fault == /\ faults < MaxFaults
         /\ faults' = faults + 1
         /\ UNCHANGED <<breaks, origin>>

-----------------------------------------------------------------------------
(* Fetching and verifying the archive.                                     *)

(* main and load_lock: the arguments, and the checkpoint the lock pins.    *)
Start(p, j) ==
    /\ pc[p] = "idle"
    /\ job' = [job EXCEPT ![p] = j]
    /\ Goto(p, IF j.verify THEN "resolve" ELSE "download")
    /\ UNCHANGED <<netVars, envVars, getVars, dirVars, flagVars>>

(* Mutant: a transient failure starts the import over, and its loops.      *)
RequestFailsStartsOver(p, transient) ==
    /\ pc[p] \in {"resolve", "download"}
    /\ Goto(p, IF ~ transient THEN "failed"
               ELSE IF job[p].verify THEN "resolve" ELSE "download")
    /\ attempts' = [attempts EXCEPT ![p] = 0]
    /\ UNCHANGED <<netVars, envVars, archive, dirVars, flagVars, job>>

(* Mutant: one attempt too many, "attempt == 3" for "attempt == 2".        *)
RequestFailsLate(p, transient) ==
    /\ pc[p] \in {"resolve", "download"}
    /\ IF transient /\ attempts[p] < MaxAttempts
       THEN /\ attempts' = [attempts EXCEPT ![p] = @ + 1]
            /\ UNCHANGED pc
       ELSE /\ Goto(p, "failed")
            /\ UNCHANGED attempts
    /\ UNCHANGED <<netVars, envVars, archive, dirVars, flagVars, job>>

(* One request of a retry loop fails.  A transient failure is tried again  *)
(* until the last attempt raises it; every other one, an IncompleteRead or *)
(* a body over the size limit among them, is raised at once.               *)
RequestFails(p, transient) ==
    /\ pc[p] \in {"resolve", "download"}
    /\ IF transient /\ attempts[p] < MaxAttempts - 1
       THEN /\ attempts' = [attempts EXCEPT ![p] = @ + 1]
            /\ UNCHANGED pc
       ELSE /\ Goto(p, "failed")
            /\ UNCHANGED attempts
    /\ UNCHANGED <<netVars, envVars, archive, dirVars, flagVars, job>>

(* resolve_tag_commit answers, and the lock must name that commit.  The    *)
(* tag objects behind an annotated tag are named by their hash and cannot  *)
(* change, so the answer is settled when the ref is read; a later request  *)
(* for one of them can only fail, as the requests here can.                *)
ResolveTag(p) ==
    /\ pc[p] = "resolve"
    /\ Goto(p, IF served[job[p].pin] = job[p].pin THEN "download" ELSE "failed")
    /\ attempts' = [attempts EXCEPT ![p] = 0]
    /\ UNCHANGED <<netVars, envVars, archive, dirVars, flagVars, job>>

(* The body arrives; a length-delimited body whose connection ends early   *)
(* reads as if it were complete, so the short file is kept as the archive. *)
Download(p) ==
    /\ pc[p] = "download"
    /\ \E body \in {served[job[p].pin], Cut} :
          archive' = [archive EXCEPT ![p] = body]
    /\ Goto(p, "digest")
    /\ UNCHANGED <<netVars, envVars, attempts, dirVars, flagVars, job>>

(* Mutant: the archive's digest is not compared with the lock's.           *)
CheckDigestSkipped(p) ==
    /\ pc[p] = "digest"
    /\ Goto(p, IF archive[p] # Cut THEN "extract" ELSE "failed")
    /\ UNCHANGED <<netVars, envVars, getVars, dirVars, flagVars, job>>

CheckDigest(p) ==
    /\ pc[p] = "digest"
    /\ Goto(p, IF archive[p] = job[p].pin THEN "extract" ELSE "failed")
    /\ UNCHANGED <<netVars, envVars, getVars, dirVars, flagVars, job>>

(* safe_extract works inside the private temporary directory.              *)
Extract(p) ==
    /\ pc[p] = "extract"
    /\ \/ /\ Goto(p, IF job[p].check THEN "compare" ELSE "stage")
          /\ UNCHANGED envVars
       \/ Fault /\ Goto(p, "failed")
    /\ UNCHANGED <<netVars, getVars, dirVars, flagVars, job>>

-----------------------------------------------------------------------------
(* Check mode: compare_trees hashes the destination file by file.          *)

(* Mutant: files are compared by name only.                                *)
CompareFileName(p, f) ==
    /\ pc[p] = "compare"
    /\ f \notin hashed[p]
    /\ IF dest # None /\ f \in dest.files
       THEN /\ hashed' = [hashed EXCEPT ![p] = @ \cup {f}]
            /\ Goto(p, IF hashed'[p] = Files THEN "done" ELSE "compare")
       ELSE /\ Goto(p, "failed")
            /\ UNCHANGED hashed
    /\ UNCHANGED <<netVars, envVars, getVars, dirVars, moved, raised, job>>

CompareFile(p, f) ==
    /\ pc[p] = "compare"
    /\ f \notin hashed[p]
    /\ IF /\ dest # None
          /\ f \in dest.files
          /\ Content[dest.of][f] = Content[archive[p]][f]
       THEN /\ hashed' = [hashed EXCEPT ![p] = @ \cup {f}]
            /\ Goto(p, IF hashed'[p] = Files THEN "done" ELSE "compare")
       ELSE /\ Goto(p, "failed")
            /\ UNCHANGED hashed
    /\ UNCHANGED <<netVars, envVars, getVars, dirVars, moved, raised, job>>

-----------------------------------------------------------------------------
(* _replace_tree.                                                          *)

(* shutil.copytree, before the try: a copy that fails leaves its part.     *)
StageFile(p, f) ==
    LET copied == IF staging[p] = None THEN {} ELSE staging[p].files
    IN  /\ pc[p] = "stage"
        /\ f \notin copied
        /\ \/ /\ staging' = [staging EXCEPT ![p] = Tree(archive[p], copied \cup {f})]
              /\ Goto(p, IF Whole(staging'[p]) THEN "probe" ELSE "stage")
              /\ UNCHANGED envVars
           \/ Fault /\ Goto(p, "failed") /\ UNCHANGED staging
        /\ UNCHANGED <<netVars, getVars, dest, backup, flagVars, job>>

(* if destination.exists()                                                 *)
ProbeDestination(p) ==
    /\ pc[p] = "probe"
    /\ Goto(p, IF dest # None THEN "backup" ELSE "install")
    /\ UNCHANGED <<netVars, envVars, getVars, dirVars, flagVars, job>>

Raise(p, label) ==
    /\ Goto(p, label)
    /\ raised' = [raised EXCEPT ![p] = TRUE]

(* os.replace(destination, backup): fails when there is no destination now *)
BackUp(p) ==
    /\ pc[p] = "backup"
    /\ \/ /\ dest # None
          /\ backup' = [backup EXCEPT ![p] = dest]
          /\ dest' = None
          /\ moved' = [moved EXCEPT ![p] = TRUE]
          /\ Goto(p, "install")
          /\ UNCHANGED <<envVars, raised>>
       \/ /\ \/ dest = None /\ UNCHANGED envVars
             \/ dest # None /\ Fault
          /\ Raise(p, "sweepStaging")
          /\ UNCHANGED <<dest, backup, moved>>
    /\ UNCHANGED <<netVars, getVars, staging, hashed, job>>

(* Mutant: a failing rename does not put the backup back.                  *)
InstallWithoutRestore(p) ==
    /\ pc[p] = "install"
    /\ \/ /\ dest = None
          /\ dest' = staging[p]
          /\ staging' = [staging EXCEPT ![p] = None]
          /\ Goto(p, IF moved[p] THEN "drop" ELSE "sweepStaging")
          /\ UNCHANGED <<envVars, raised>>
       \/ /\ \/ dest # None /\ UNCHANGED envVars
             \/ dest = None /\ Fault
          /\ Raise(p, "sweepStaging")
          /\ UNCHANGED <<dest, staging>>
    /\ UNCHANGED <<netVars, getVars, backup, hashed, moved, job>>

(* os.replace(staging, destination): fails when a tree is there already.   *)
Install(p) ==
    /\ pc[p] = "install"
    /\ \/ /\ dest = None
          /\ dest' = staging[p]
          /\ staging' = [staging EXCEPT ![p] = None]
          /\ Goto(p, IF moved[p] THEN "drop" ELSE "sweepStaging")
          /\ UNCHANGED <<envVars, raised>>
       \/ /\ \/ dest # None /\ UNCHANGED envVars
             \/ dest = None /\ Fault
          /\ Raise(p, IF moved[p] THEN "restore" ELSE "sweepStaging")
          /\ UNCHANGED <<dest, staging>>
    /\ UNCHANGED <<netVars, getVars, backup, hashed, moved, job>>

(* except Exception: os.replace(backup, destination); raise                *)
Restore(p) ==
    /\ pc[p] = "restore"
    /\ Goto(p, "sweepStaging")
    /\ \/ /\ dest = None
          /\ dest' = backup[p]
          /\ backup' = [backup EXCEPT ![p] = None]
          /\ UNCHANGED envVars
       \/ /\ \/ dest # None /\ UNCHANGED envVars
             \/ dest = None /\ Fault
          /\ UNCHANGED <<dest, backup>>
    /\ UNCHANGED <<netVars, getVars, staging, flagVars, job>>

(* rmtree takes one file away, and the directory after the last one.       *)
Shrunk(d, f) == IF d.files = {f} THEN None ELSE Tree(d.of, d.files \ {f})

(* shutil.rmtree(backup)                                                   *)
DropBackup(p, f) ==
    /\ pc[p] = "drop"
    /\ f \in backup[p].files
    /\ \/ /\ backup' = [backup EXCEPT ![p] = Shrunk(@, f)]
          /\ Goto(p, IF backup'[p] = None THEN "sweepStaging" ELSE "drop")
          /\ UNCHANGED <<envVars, raised>>
       \/ /\ Fault
          /\ Raise(p, "sweepStaging")
          /\ UNCHANGED backup
    /\ UNCHANGED <<netVars, getVars, dest, staging, hashed, moved, job>>

Finish(p) == IF raised[p] THEN "failed" ELSE "done"

(* Mutant: the staging copy is not removed.                                *)
SweepNothing(p) ==
    /\ pc[p] = "sweepStaging"
    /\ Goto(p, IF backup[p] # None /\ dest # None
               THEN "sweepBackup" ELSE Finish(p))
    /\ UNCHANGED <<netVars, envVars, getVars, dirVars, flagVars, job>>

(* Mutant: the backup is removed without a look at the destination.        *)
SweepStagingAndBackup(p) ==
    LET next == IF backup[p] # None THEN "sweepBackup" ELSE Finish(p)
    IN  /\ pc[p] = "sweepStaging"
        /\ \/ /\ staging[p] # None
              /\ \E f \in staging[p].files :
                    staging' = [staging EXCEPT ![p] = Shrunk(@, f)]
              /\ UNCHANGED <<envVars, pc>>
           \/ /\ \/ staging[p] = None /\ UNCHANGED envVars
                 \/ staging[p] # None /\ Fault
              /\ Goto(p, next)
              /\ UNCHANGED staging
        /\ UNCHANGED <<netVars, getVars, dest, backup, flagVars, job>>

(* finally: rmtree(staging, ignore_errors=True), then the second test of   *)
(* both directories.                                                       *)
SweepStaging(p) ==
    LET next == IF backup[p] # None /\ dest # None
                THEN "sweepBackup" ELSE Finish(p)
    IN  /\ pc[p] = "sweepStaging"
        /\ \/ /\ staging[p] # None
              /\ \E f \in staging[p].files :
                    staging' = [staging EXCEPT ![p] = Shrunk(@, f)]
              /\ UNCHANGED <<envVars, pc>>
           \/ /\ \/ staging[p] = None /\ UNCHANGED envVars
                 \/ staging[p] # None /\ Fault
              /\ Goto(p, next)
              /\ UNCHANGED staging
        /\ UNCHANGED <<netVars, getVars, dest, backup, flagVars, job>>

(* finally: rmtree(backup, ignore_errors=True)                             *)
SweepBackup(p) ==
    /\ pc[p] = "sweepBackup"
    /\ \/ /\ backup[p] # None
          /\ \E f \in backup[p].files :
                backup' = [backup EXCEPT ![p] = Shrunk(@, f)]
          /\ UNCHANGED <<envVars, pc>>
       \/ /\ \/ backup[p] = None /\ UNCHANGED envVars
             \/ backup[p] # None /\ Fault
          /\ Goto(p, Finish(p))
          /\ UNCHANGED backup
    /\ UNCHANGED <<netVars, getVars, dest, staging, flagVars, job>>

-----------------------------------------------------------------------------
Fetch(p) == \/ \E transient \in BOOLEAN : RequestFails(p, transient)
            \/ ResolveTag(p) \/ Download(p)
            \/ CheckDigest(p) \/ Extract(p)

ReplaceTree(p) == \/ \E f \in Files : StageFile(p, f) \/ DropBackup(p, f)
                  \/ ProbeDestination(p) \/ BackUp(p) \/ Install(p)
                  \/ Restore(p) \/ SweepStaging(p) \/ SweepBackup(p)

(* Everything the tool itself does next.                                   *)
Step(p) == \/ Fetch(p)
           \/ \E f \in Files : CompareFile(p, f)
           \/ ReplaceTree(p)

Next == \/ \E p \in Processes : \/ \E j \in Jobs : Start(p, j)
                                \/ Step(p) \/ Kill(p) \/ Interrupt(p)
        \/ \E t, c \in Checkpoints : RetagUpstream(t, c)

(* A started tool is scheduled until it ends.                              *)
Fairness == \A p \in Processes : WF_vars(Step(p))

Spec == Init /\ [][Next]_vars /\ Fairness

-----------------------------------------------------------------------------
(* Properties                                                              *)

(* Every variable has its shape; a process has a job once it started, and  *)
(* an archive once it passed the digest.                                   *)
TypeOK ==
    /\ dest \in Dirs /\ origin \in Dirs
    /\ served \in [Checkpoints -> Checkpoints]
    /\ retags \in 0 .. MaxRetags
    /\ pc \in [Processes -> Labels]
    /\ job \in [Processes -> Jobs \cup {None}]
    /\ \A p \in Processes : job[p] = None <=> pc[p] = "idle"
    /\ attempts \in [Processes -> 0 .. MaxAttempts - 1]
    /\ archive \in [Processes -> Checkpoints \cup {None, Cut}]
    /\ staging \in [Processes -> Dirs]
    /\ backup \in [Processes -> Dirs]
    /\ hashed \in [Processes -> SUBSET Files]
    /\ moved \in [Processes -> BOOLEAN]
    /\ raised \in [Processes -> BOOLEAN]
    /\ faults \in 0 .. MaxFaults
    /\ breaks \in 0 .. MaxBreaks

(* While the destination is away, the process that took it away still has  *)
(* the whole tree in its backup: no kill, interrupt, failing rename or     *)
(* other importer between the two renames loses the vendored source.       *)
Recoverable ==
    dest = None /\ (\E p \in Processes : moved[p])
        => \E p \in Processes : moved[p] /\ Whole(backup[p])

(* What VendoredTree calls current (Files stands for a partial tree) and   *)
(* known: the trees that were there or are pinned.                         *)
Current == IF dest = None THEN None
           ELSE IF Whole(dest) THEN dest.of ELSE Files
PinsTaken == {job[p].pin : p \in {q \in Processes :
                                    job[q] # None /\ ~ job[q].check}}
Known == PinsTaken \cup (IF origin = None THEN {} ELSE {origin.of})

Vendored == INSTANCE VendoredTree WITH
    current <- Current, known <- Known

(* A reader of the destination sees one whole tree or none, and only trees *)
(* that were there before or that a lock file pins.                        *)
VendoredTreeSpec == Vendored!Spec

(* Check mode that ran beside other checks only says "Snapshot matches."   *)
(* of a destination that is the pinned tree, file by file.                 *)
MatchIsReal ==
    \A p \in Processes :
        /\ pc[p] = "done" /\ job[p].check
        /\ \A q \in Processes \ {p} : pc[q] = "idle" \/ job[q].check
        => /\ Whole(dest)
           /\ Content[dest.of] = Content[job[p].pin]

(* Without failing file operations and breaks, no staging copy stays.      *)
NoStagingLeft ==
    faults = 0 /\ breaks = 0 =>
        \A p \in Processes : pc[p] \in Ended => staging[p] = None

(* A tool that is started ends: every retry loop and every cleanup does.   *)
Terminates ==
    \A p \in Processes : pc[p] # "idle" ~> pc[p] \in Ended

(* A tree that was moved away comes back, unless somebody breaks a process *)
(* or the restoring rename fails as well.                                  *)
TreeReturns ==
    dest = None /\ (\E p \in Processes : moved[p])
        ~> dest # None \/ breaks > 0 \/ faults > 1

-----------------------------------------------------------------------------
(* A statement of the sources that the tool does not keep.                 *)

(* "Transient TLS, connection, timeout, rate-limit, and server failures    *)
(* use bounded retries": the tool does not give up on a body the           *)
(* connection cut short while it has attempts left.                        *)
CutIsRetried ==
    \A p \in Processes :
        archive[p] = Cut /\ pc[p] = "failed" => attempts[p] = MaxAttempts - 1
=============================================================================
