----------------------------- MODULE Background -----------------------------
(***************************************************************************)
(* Background crew (background.py, agents.launch_background): one headless  *)
(* turn per assignment, run by a detached owner process.                    *)
(*                                                                          *)
(* A recruiter reserves the assignment, prepares the managed launch, writes *)
(* the run record and last an intent file, and starts the owner.  The owner *)
(* claims the run by renaming the intent; the recruiter withdraws it by     *)
(* renaming it too.  Locks only tell who is alive: the recruiter holds      *)
(* .launch, the owner .lock for the whole run.  wait closes what nobody     *)
(* runs any more, interrupt and dismissal ask through a .cancel file.       *)
(* The native process is Lifetime's; every step that touches it is one of   *)
(* Lifetime's actions.                                                      *)
(***************************************************************************)
EXTENDS Naturals

CONSTANTS
    Self,           \* the owner process that start creates
    Dismisser,      \* the dismissal; crew.lock lets one run at a time
    None

ASSUME BackgroundAssumption == None # Self

VARIABLES
    record, roster, pane, owner, pc, job, guard, lifeline, group, killed, native, reported,
    escaped, closing, verdicts, launches,       \* Lifetime's
    asg,            \* the assignment in protocol.json
    read,           \* whether its task message has a receipt
    run,            \* the run record
    intent,         \* the intent file, under the name it has now
    cancel,         \* whether the .cancel file exists
    recruiter,      \* where the recruiter is
    runner,         \* where the owner is
    ends,           \* why the owner stops the turn, then its outcome
    wait,           \* where a wait is that holds the checkpoint
    dismissal,      \* where a dismissal is
    undelivered,    \* what it found out first: nothing reached the crew
    retrying        \* whether the crew is cleanup_pending

L == INSTANCE Lifetime WITH Owner <- {Self}, Closer <- {Dismisser}, Worktree <- FALSE

lifeVars == <<record, roster, pane, owner, pc, job, guard, lifeline, group, killed, native,
              reported, escaped, closing, verdicts, launches>>
taskVars    == <<asg, read>>
fileVars    == <<run, intent, cancel>>
ownerVars   == <<runner, ends>>
dismissVars == <<dismissal, undelivered, retrying>>
ownVars == <<taskVars, fileVars, recruiter, ownerVars, wait, dismissVars>>
vars == <<lifeVars, ownVars>>

Outcome == {"none", "done", "cancelled", "failed", "lost", "released"}

Recruiting == {"reserved", "prepared", "recorded", "intended", "waiting", "withdrawn",
               "closing"}
Holding == {"locked", "renamed", "withdraw", "accepted", "execute", "claimed", "job", "settle",
            "record"}

TypeOK ==
    /\ asg \in [state: {"none", "working", "done"}, outcome: Outcome]
    /\ run \in [state: {"none", "launching", "running", "finished", "abandoned"},
                outcome: Outcome]
    /\ intent \in {"none", "written", "claimed", "abandoned"}
    /\ read \in BOOLEAN /\ cancel \in BOOLEAN
    /\ recruiter \in Recruiting \cup {"idle", "failed", "retiring", "done", "gone"}
    /\ runner \in Holding \cup {"none", "spawned", "left"}
    /\ ends \in {"none", "exit", "bound", "done", "cancelled", "failed"}
    /\ wait \in {"idle", "unrecorded", "launch", "lock", "probe", "close"}
    /\ dismissal \in {"idle", "cancel", "stop", "stopping", "release", "retire"}
    /\ undelivered \in BOOLEAN /\ retrying \in BOOLEAN

Init ==
    /\ L!Init
    /\ asg = [state |-> "none", outcome |-> "none"]
    /\ run = [state |-> "none", outcome |-> "none"]
    /\ intent = "none"
    /\ read = FALSE /\ cancel = FALSE
    /\ recruiter = "idle"
    /\ runner = "none"
    /\ ends = "none"
    /\ wait = "idle"
    /\ dismissal = "idle"
    /\ undelivered = FALSE /\ retrying = FALSE

-----------------------------------------------------------------------------
(* Locks and liveness.                                                     *)

\* A wait keeps protocol.lock for its whole reconcile; everybody else's checkpoint is one
\* step.
CheckpointFree == wait = "idle"

LaunchHeld == recruiter \in Recruiting

\* Looking whether the lock is free takes it for a moment.
RunLockHeld == runner \in Holding \/ wait = "probe"

alive ==
    \/ run.state \in {"none", "launching"} /\ LaunchHeld
    \/ run.state \in {"launching", "running"} /\ RunLockHeld

Done(outcome) == [state |-> "done", outcome |-> outcome]

\* An assignment that is done keeps its outcome.
Close(outcome) == asg' = IF asg.state = "done" THEN asg ELSE Done(outcome)

-----------------------------------------------------------------------------
(* The recruiter: launch_background, prepare, start, abandon.              *)

RecruiterAt(from, to) == recruiter = from /\ recruiter' = to

NotRecruiter == UNCHANGED <<ownerVars, wait, dismissVars>>

Reserve ==
    /\ RecruiterAt("idle", "reserved")
    /\ CheckpointFree
    /\ asg' = [asg EXCEPT !.state = "working"]
    /\ UNCHANGED <<lifeVars, read, fileVars>> /\ NotRecruiter

PrepareLaunch ==
    /\ RecruiterAt("reserved", "prepared")
    /\ L!Prepare
    /\ UNCHANGED <<taskVars, fileVars>> /\ NotRecruiter

RecordRun ==
    /\ RecruiterAt("prepared", "recorded")
    /\ run' = [run EXCEPT !.state = "launching"]
    /\ UNCHANGED <<lifeVars, taskVars, intent, cancel>> /\ NotRecruiter

WriteIntent ==
    /\ RecruiterAt("recorded", "intended")
    /\ intent' = "written"
    /\ UNCHANGED <<lifeVars, taskVars, run, cancel>> /\ NotRecruiter

StartOwner ==
    /\ RecruiterAt("intended", "waiting")
    /\ runner' = "spawned"
    /\ UNCHANGED <<lifeVars, taskVars, fileVars, ends, wait, dismissVars>>

SeesClaim ==
    /\ RecruiterAt("waiting", "done")
    /\ intent = "claimed"
    /\ UNCHANGED <<lifeVars, taskVars, fileVars>> /\ NotRecruiter

AnyIntent == {"written", "claimed"}         \* mutant: withdrawn over the owner's claim
Unclaimed == {"written"}

\* No owner could be started, it exited, or did not claim in time: of the two renames one
\* finds the file.
Withdraw ==
    /\ recruiter \in {"intended", "waiting"}
    /\ IF intent \in Unclaimed
       THEN intent' = "abandoned" /\ recruiter' = "withdrawn"
       ELSE recruiter' = "done" /\ UNCHANGED intent
    /\ UNCHANGED <<lifeVars, taskVars, run, cancel>> /\ NotRecruiter

WithdrawRecord ==
    /\ RecruiterAt("withdrawn", "closing")
    /\ run' = [run EXCEPT !.state = "abandoned"]
    /\ UNCHANGED <<lifeVars, taskVars, intent, cancel>> /\ NotRecruiter

\* An exception before the owner is started.
RecruitFails ==
    /\ recruiter \in {"reserved", "prepared", "recorded"}
    /\ recruiter' = "failed"
    /\ UNCHANGED <<lifeVars, taskVars, fileVars>> /\ NotRecruiter

\* abandon closes the assignment, and launch_background once more after it gave the launch
\* lock back; neither waits for protocol.lock longer than LOCK_WAIT.
CloseFailed ==
    /\ RecruiterAt("closing", "failed") \/ RecruiterAt("failed", "retiring")
    /\ \/ CheckpointFree /\ Close("failed")
       \/ UNCHANGED asg
    /\ UNCHANGED <<lifeVars, read, fileVars>> /\ NotRecruiter

RetireFailed ==
    /\ RecruiterAt("retiring", "done")
    /\ L!RecruitFails
    /\ UNCHANGED <<taskVars, fileVars>> /\ NotRecruiter

RecruiterDies ==
    /\ recruiter \notin {"done", "gone"}
    /\ recruiter' = "gone"
    /\ UNCHANGED <<lifeVars, taskVars, fileVars>> /\ NotRecruiter

RecruiterStep ==
    \/ PrepareLaunch \/ RecordRun \/ WriteIntent \/ StartOwner \/ SeesClaim \/ Withdraw
    \/ WithdrawRecord \/ CloseFailed \/ RetireFailed

-----------------------------------------------------------------------------
(* The owner: run, _claim, _execute, _settle.                              *)

RunnerAt(from, to) == runner = from /\ runner' = to

NotOwner == UNCHANGED <<recruiter, wait, dismissVars>>

\* held does not wait: an owner that finds its lock taken, also by a look of alive, leaves
\* the run to that other owner.
TakeLock ==
    /\ runner = "spawned"
    /\ runner' = IF RunLockHeld THEN "left" ELSE "locked"
    /\ UNCHANGED <<lifeVars, taskVars, fileVars, ends>> /\ NotOwner

ClaimIntent ==
    /\ runner = "locked"
    /\ IF intent = "written"
       THEN intent' = "claimed" /\ runner' = "renamed"
       ELSE runner' = "left" /\ UNCHANGED intent
    /\ UNCHANGED <<lifeVars, taskVars, run, cancel, ends>> /\ NotOwner

MayRun(late) == ~late /\ asg.state = "working"

\* An intent twice as old as STARTUP is late: its recruiter may have died long ago.
Accept ==
    /\ runner = "renamed"
    /\ CheckpointFree
    /\ \E late \in BOOLEAN :
       IF MayRun(late)
       THEN /\ run' = [run EXCEPT !.state = "running"]
            /\ runner' = "accepted"
            /\ UNCHANGED intent
       ELSE /\ intent' = "abandoned"
            /\ runner' = "withdraw"
            /\ UNCHANGED run
    /\ UNCHANGED <<lifeVars, taskVars, cancel, ends>> /\ NotOwner

WithdrawOwn ==
    /\ RunnerAt("withdraw", "left")
    /\ run' = [run EXCEPT !.state = "abandoned"]
    /\ UNCHANGED <<lifeVars, taskVars, intent, cancel, ends>> /\ NotOwner

Receipt ==
    /\ RunnerAt("accepted", "execute")
    /\ CheckpointFree
    /\ read' = TRUE
    /\ UNCHANGED <<lifeVars, asg, fileVars, ends>> /\ NotOwner

ClaimLaunch ==
    /\ RunnerAt("execute", "claimed")
    /\ L!Claim(Self)
    /\ UNCHANGED <<taskVars, fileVars, ends>> /\ NotOwner

ClaimRefused ==
    /\ RunnerAt("execute", "settle")
    /\ roster = "replaced" \/ ~L!Claimable
    /\ ends' = "failed"
    /\ UNCHANGED <<lifeVars, taskVars, fileVars>> /\ NotOwner

\* A cancel that came before the native process is looked at once.
LookCancel ==
    /\ runner = "claimed"
    /\ IF cancel
       THEN L!CancelClaim(Self) /\ runner' = "settle" /\ ends' = "cancelled"
       ELSE runner' = "job" /\ UNCHANGED <<lifeVars, ends>>
    /\ UNCHANGED <<taskVars, fileVars>> /\ NotOwner

\* ManagedJob.start, its guard's handshake, shutdown.
DriveJob ==
    /\ runner = "job"
    /\ L!Spawn(Self) \/ L!Go(Self) \/ L!Kill(Self) \/ L!Reap(Self) \/ L!Confirm(Self)
    /\ UNCHANGED ownVars

\* No guard; the guard is lost or too slow; the group's end is not confirmed, or an output
\* reader is still busy when it should be done.
JobGoesWrong ==
    /\ runner = "job"
    /\ L!Fails(Self) \/ L!Unconfirmed(Self)
    /\ UNCHANGED ownVars

StartFails ==
    /\ RunnerAt("job", "settle")
    /\ L!StartFails(Self)
    /\ ends' = "failed"
    /\ UNCHANGED <<taskVars, fileVars>> /\ NotOwner

\* The native exit is looked for before the cancel file; the bounds are time, output and
\* reader errors.
LoopEnds ==
    /\ runner = "job"
    /\ \/ reported /\ L!Ends(Self) /\ ends' = "exit"
       \/ cancel /\ L!Signalled(Self) /\ ends' = "cancelled"
       \/ L!Signalled(Self) /\ ends' = "bound"
    /\ UNCHANGED <<taskVars, fileVars, runner>> /\ NotOwner

AssumesStopped == TRUE                      \* mutant: the shutdown's verdict is not asked for
ShutdownKnown == L!Finishable(Self)

\* finish's receipt first; then the outcome, which is done only for a report that parses.
JobEnds ==
    /\ RunnerAt("job", "settle")
    /\ L!Finish(Self)
    /\ ends' \in CASE ShutdownKnown /\ ends = "cancelled" -> {"cancelled"}
                   [] ShutdownKnown /\ ends = "exit" -> {"done", "failed"}
                   [] OTHER -> {"failed"}
    /\ UNCHANGED <<taskVars, fileVars>> /\ NotOwner

Settle ==
    /\ RunnerAt("settle", "record")
    /\ CheckpointFree
    /\ Close(ends)
    /\ UNCHANGED <<lifeVars, read, fileVars, ends>> /\ NotOwner

RecordOutcome ==
    /\ RunnerAt("record", "left")
    /\ run' = [state |-> "finished", outcome |-> ends]
    /\ UNCHANGED <<lifeVars, taskVars, intent, cancel, ends>> /\ NotOwner

\* Also an exception outside _execute, such as a checkpoint that times out.
OwnerDies ==
    /\ runner \in Holding \cup {"spawned"}
    /\ runner' = "left"
    /\ IF pc[Self] \in {"idle", "left"} THEN UNCHANGED lifeVars ELSE L!OwnerDies(Self)
    /\ UNCHANGED <<taskVars, fileVars, ends>> /\ NotOwner

OwnerStep ==
    \/ TakeLock \/ ClaimIntent \/ Accept \/ WithdrawOwn \/ Receipt \/ ClaimLaunch
    \/ ClaimRefused \/ LookCancel \/ StartFails \/ DriveJob \/ JobGoesWrong \/ LoopEnds \/ JobEnds \/ Settle
    \/ RecordOutcome

-----------------------------------------------------------------------------
(* wait: reconcile and alive, step by step under the checkpoint.           *)

NotWait == UNCHANGED <<lifeVars, fileVars, read, recruiter, ownerVars, dismissVars>>

WaitLook ==
    /\ wait = "idle"
    /\ asg.state = "working" /\ roster # "replaced"
    /\ wait' = CASE run.state = "none" -> "unrecorded"
                 [] run.state = "launching" -> "launch"
                 [] run.state = "running" -> "lock"
                 [] OTHER -> "close"
    /\ UNCHANGED asg /\ NotWait

WaitLaunch ==
    /\ wait \in {"unrecorded", "launch"}
    /\ wait' = CASE LaunchHeld -> "idle"
                 [] ~LaunchHeld /\ wait = "launch" -> "lock"
                 [] OTHER -> "close"
    /\ UNCHANGED asg /\ NotWait

WaitLock ==
    /\ wait = "lock"
    /\ wait' = IF RunLockHeld THEN "idle" ELSE "probe"
    /\ UNCHANGED asg /\ NotWait

WaitRelease ==
    /\ wait = "probe"
    /\ wait' = "close"
    /\ UNCHANGED asg /\ NotWait

NeverCloses(outcome) == asg' = asg          \* mutant: nobody closes a lost run
Reconcile(outcome) == Close(outcome)

WaitClose ==
    /\ wait = "close"
    /\ Reconcile(IF intent = "abandoned" THEN "failed" ELSE "lost")
    /\ wait' = "idle"
    /\ NotWait

WaitStep == WaitLook \/ WaitLaunch \/ WaitLock \/ WaitRelease \/ WaitClose

-----------------------------------------------------------------------------
(* interrupt and dismissal.                                                *)

NotDismisser == UNCHANGED <<run, intent, read, recruiter, ownerVars, wait>>

Interrupt ==
    /\ alive /\ ~cancel
    /\ cancel' = TRUE
    /\ UNCHANGED <<lifeVars, asg, dismissVars>> /\ NotDismisser

\* Under crew.lock, which a recruit holds.  Unfinished work is dismissed only before the
\* crew read it, or on a retry.
DismissCheck ==
    /\ dismissal = "idle"
    /\ recruiter \in {"done", "gone"} /\ roster = "current"
    /\ CheckpointFree
    /\ asg.state = "working" => ~read \/ retrying
    /\ undelivered' = (asg.state = "working" /\ ~read)
    /\ dismissal' = IF alive THEN "cancel" ELSE "stop"
    /\ UNCHANGED <<lifeVars, asg, cancel, retrying>> /\ NotDismisser

\* The owner gets CANCEL_WAIT to confirm.
DismissCancel ==
    /\ dismissal = "cancel"
    /\ cancel' = TRUE
    /\ dismissal' = "stop"
    /\ UNCHANGED <<lifeVars, asg, undelivered, retrying>> /\ NotDismisser

\* A recruiter that died early left no launch to stop.
DismissStop ==
    /\ dismissal = "stop"
    /\ IF record.state = "none"
       THEN dismissal' = "release" /\ UNCHANGED lifeVars
       ELSE dismissal' = "stopping" /\ L!Stop(Dismisser)
    /\ UNCHANGED <<asg, cancel, undelivered, retrying>> /\ NotDismisser

DismissRevoke ==
    /\ dismissal = "stopping"
    /\ L!Revoke(Dismisser) \/ L!HistoryFreed(Dismisser)
    /\ UNCHANGED ownVars

DismissStopped ==
    /\ dismissal = "stopping"
    /\ L!Stopped(Dismisser)
    /\ dismissal' = "release"
    /\ UNCHANGED <<asg, cancel, undelivered, retrying>> /\ NotDismisser

\* Shutdown is unconfirmed: cleanup_pending.
DismissUnconfirmed ==
    /\ dismissal = "stopping"
    /\ L!GivesUp(Dismisser)
    /\ dismissal' = "idle"
    /\ retrying' = TRUE
    /\ UNCHANGED <<asg, cancel, undelivered>> /\ NotDismisser

DismissRelease ==
    /\ dismissal = "release"
    /\ CheckpointFree
    /\ IF (undelivered \/ retrying) /\ asg.state = "working"
       THEN asg' = Done("released") ELSE UNCHANGED asg
    /\ dismissal' = "retire"
    /\ UNCHANGED <<lifeVars, cancel, undelivered, retrying>> /\ NotDismisser

DismissRetire ==
    /\ dismissal = "retire"
    /\ IF closing[Dismisser] = "retire" THEN L!Retire(Dismisser) ELSE L!RecruitFails
    /\ dismissal' = "idle"
    /\ UNCHANGED <<asg, cancel, undelivered, retrying>> /\ NotDismisser

DismissDies ==
    /\ dismissal # "idle"
    /\ IF closing[Dismisser] = "idle" THEN UNCHANGED lifeVars ELSE L!GivesUp(Dismisser)
    /\ dismissal' = "idle"
    /\ UNCHANGED <<asg, cancel, undelivered, retrying>> /\ NotDismisser

DismissStep ==
    \/ DismissCheck \/ DismissCancel \/ DismissStop \/ DismissRevoke \/ DismissStopped
    \/ DismissUnconfirmed \/ DismissRelease \/ DismissRetire \/ DismissDies

\* The guard, what the kernel and the native CLI do, and a recruit of the name again.
GroupStep ==
    /\ L!GuardStep \/ (\E m \in L!Member : L!Dies(m)) \/ L!NativeExits \/ L!Forks \/ L!StrayExits
       \/ (\E m \in L!Member : L!Escapes(m)) \/ L!EscapedExits \/ L!GuardKilled \/ L!Replace
    /\ UNCHANGED ownVars

-----------------------------------------------------------------------------

Next ==
    \/ Reserve \/ RecruiterStep \/ RecruitFails \/ RecruiterDies
    \/ OwnerStep \/ OwnerDies
    \/ WaitStep
    \/ Interrupt \/ DismissStep
    \/ GroupStep

Spec == Init /\ [][Next]_vars

\* The processes run on: the recruiter's and the owner's deadlines pass, the guard polls,
\* a killed process dies, and the captain waits for a crew it has not dismissed.
FairSpec ==
    /\ Spec
    /\ WF_vars(RecruiterStep)
    /\ SF_vars(OwnerStep)
    /\ WF_vars(L!GuardStep /\ UNCHANGED ownVars)
    /\ WF_vars((\E m \in L!Member : L!Dies(m)) /\ UNCHANGED ownVars)
    /\ WF_vars(WaitStep /\ roster = "current")

-----------------------------------------------------------------------------
(* Properties.                                                             *)

\* A captain told that the turn is done or cancelled, or that the assignment was released,
\* can rely on it: the native process group is gone, although owner, recruiter, wait and
\* dismissal all write that outcome.
OutcomeIsStopped ==
    asg.outcome \in {"done", "cancelled", "released"} => group = {}

\* Recruiter and owner agree on who got the intent, record and assignment on how it ended:
\* a withdrawn run never starts the CLI, a turn runs for an assignment that is still open,
\* and a finished run's outcome is its assignment's, unless a dismissal released it first.
RecordAgrees ==
    /\ intent = "abandoned" => launches = 0
    /\ runner \in {"accepted", "execute", "claimed", "job", "settle"} =>
          asg.state = "working" \/ asg.outcome = "released"
    /\ run.state = "finished" => asg.outcome \in {run.outcome, "released"}

\* Whoever dies, a reserved assignment is closed, visibly, or its crew retired.
AssignmentEnds ==
    asg.state = "working" ~> (asg.state = "done" \/ roster # "current")
=============================================================================
