-------------------------- MODULE BackgroundProofs --------------------------
(***************************************************************************)
(* Proofs about Background, for any names of the owner and the dismissal:   *)
(* an outcome the captain is told means a process group that is gone, and   *)
(* intent, run record and assignment agree whatever interleaving of          *)
(* recruiter, owner, wait, interrupt and dismissal wrote them.               *)
(* What the native process does is LifetimeProofs'.                          *)
(***************************************************************************)
EXTENDS Background, TLAPS

LP == INSTANCE LifetimeProofs WITH Owner <- {Self}, Closer <- {Dismisser}, Worktree <- FALSE

\* Nothing of the launch runs any more, and nothing of it will.
Over ==
    \/ verdicts # {}
    \/ pc[Self] = "left" /\ group = {}
    \/ record.state = "none" /\ recruiter \in {"done", "gone"}

\* The owner has recorded the start of the run and not yet its end.
Executing == {"accepted", "execute", "claimed", "job", "settle", "record"}

\* An outcome is the close of an assignment, and only a recruit opens one.
ClosedOnce ==
    /\ asg.state = "done" <=> asg.outcome # "none"
    /\ recruiter = "idle" => asg.state = "none" /\ wait = "idle"

\* Whoever is about to write an outcome that promises the end already knows it.
WritersKnow ==
    /\ runner \in {"settle", "record"} =>
          ends = "failed" \/ (ends \in {"done", "cancelled"} /\ Over)
    /\ dismissal \in {"release", "retire"} => Over
    /\ dismissal # "idle" => recruiter \in {"done", "gone"}

\* Who has the intent.
IntentTaken ==
    /\ runner \in Executing \cup {"renamed"} \/ pc[Self] # "idle" => intent = "claimed"
    /\ runner = "withdraw" \/ recruiter \in {"withdrawn", "closing"} => intent = "abandoned"
    /\ recruiter \in {"idle", "reserved", "prepared", "recorded"} =>
          intent = "none" /\ runner = "none"
    /\ recruiter = "intended" => runner = "none"
    /\ recruiter \in {"failed", "retiring"} => intent \in {"none", "abandoned"}

\* The native launch is claimed by a run under way.
ClaimedLate ==
    /\ pc[Self] = "idle" => record.state \in {"none", "prepared"}
    /\ runner \in {"none", "spawned", "locked", "renamed", "withdraw", "accepted", "execute"} =>
          pc[Self] = "idle"

\* While the owner executes, the record says so, and no wait goes on to close the run.
Recorded ==
    /\ runner \in Executing => run.state = "running"
    /\ run.state = "running" => runner \in Executing \cup {"left"} /\ intent = "claimed"
    /\ run.state = "finished" => runner = "left" /\ intent = "claimed"
    /\ wait \in {"unrecorded", "launch", "probe", "close"} => runner \notin Executing

\* The owner closes the assignment before the record.
SettledFirst ==
    /\ runner = "record" => asg.outcome \in {ends, "released"}
    /\ run.state = "finished" => run.outcome # "none"

OutcomeIsOver == asg.outcome \in {"done", "cancelled", "released"} => Over

OwnInv ==
    /\ TypeOK /\ ClosedOnce /\ WritersKnow /\ IntentTaken /\ ClaimedLate /\ Recorded
    /\ SettledFirst /\ OutcomeIsOver /\ RecordAgrees

BackInv == LP!LifeInv /\ OwnInv

-----------------------------------------------------------------------------
(* The steps of Lifetime that Background takes.                            *)

LEMMA InstanceAssumption == None \notin {Self} /\ FALSE \in BOOLEAN
BY BackgroundAssumption

LifeOwner ==
    \/ LP!OwnerStep(Self) \/ LP!Fails(Self) \/ LP!Signalled(Self) \/ LP!Unconfirmed(Self)
    \/ LP!OwnerDies(Self)

LifeOther ==
    \/ LP!RecruitFails \/ LP!Replace \/ LP!GuardStep \/ (\E m \in LP!Member : LP!Dies(m))
    \/ LP!OutsideStep \/ LP!CloserStep(Dismisser)

LEMMA ALife == LifeOwner \/ LifeOther \/ LP!Prepare => LP!LifeStep
BY DEF LifeOwner, LifeOther, LP!LifeStep

LEMMA Recruits ==
    /\ L!Prepare => LP!Prepare
    /\ L!RecruitFails \/ L!Replace => LifeOther
BY DEF LifeOther, L!Prepare, LP!Prepare, L!Preparable, LP!Preparable, L!RecruitFails,
       LP!RecruitFails, L!Replace, LP!Replace, L!recordVars, LP!recordVars, L!ownerVars,
       LP!ownerVars, L!groupVars, LP!groupVars, L!closeVars, LP!closeVars

LEMMA Owns ==
    \/ L!Claim(Self) \/ L!Spawn(Self) \/ L!StartFails(Self) \/ L!CancelClaim(Self) \/ L!Go(Self)
    \/ L!Fails(Self) \/ L!Ends(Self) \/ L!Signalled(Self) \/ L!Kill(Self) \/ L!Reap(Self)
    \/ L!Confirm(Self) \/ L!Unconfirmed(Self) \/ L!Finish(Self) \/ L!OwnerDies(Self)
    => LifeOwner
<1> USE DEF LifeOwner, LP!OwnerStep, L!recordVars, LP!recordVars, L!ownerVars, LP!ownerVars,
            L!groupVars, LP!groupVars, L!closeVars, LP!closeVars, L!Goto, LP!Goto, L!Leave, LP!Leave
<1>1. L!Claim(Self) => LifeOwner
  BY DEF L!Claim, LP!Claim, L!Claimable, LP!Claimable
<1>2. L!Spawn(Self) => LifeOwner
  BY DEF L!Spawn, LP!Spawn
<1>3. L!StartFails(Self) => LifeOwner
  BY DEF L!StartFails, LP!StartFails
<1>4. L!CancelClaim(Self) => LifeOwner
  BY DEF L!CancelClaim, LP!CancelClaim
<1>5. L!Go(Self) => LifeOwner
  BY DEF L!Go, LP!Go
<1>6. L!Fails(Self) => LifeOwner
  BY DEF L!Fails, LP!Fails
<1>7. L!Ends(Self) => LifeOwner
  BY DEF L!Ends, LP!Ends
<1>8. L!Signalled(Self) => LifeOwner
  BY DEF L!Signalled, LP!Signalled
<1>9. L!Kill(Self) => LifeOwner
  BY DEF L!Kill, LP!Kill
<1>10. L!Reap(Self) => LifeOwner
  <2>1. L!Reap(Self) => LP!Reap(Self)
    BY DEF L!Reap, LP!Reap
  <2>2. QED
    BY <2>1
<1>11. L!Confirm(Self) => LifeOwner
  BY DEF L!Confirm, LP!Confirm, L!Survivors, LP!Survivors
<1>12. L!Unconfirmed(Self) => LifeOwner
  BY DEF L!Unconfirmed, LP!Unconfirmed
<1>13. L!Finish(Self) => LifeOwner
  BY DEF L!Finish, LP!Finish, L!Finishable, LP!Finishable
<1>14. L!OwnerDies(Self) => LifeOwner
  BY DEF L!OwnerDies, LP!OwnerDies
<1>15. QED
  BY <1>1, <1>2, <1>3, <1>4, <1>5, <1>6, <1>7, <1>8, <1>9, <1>10, <1>11, <1>12, <1>13, <1>14

LEMMA Closes ==
    \/ L!Stop(Dismisser) \/ L!Revoke(Dismisser) \/ L!Stopped(Dismisser)
    \/ L!HistoryFreed(Dismisser) \/ L!Retire(Dismisser) \/ L!GivesUp(Dismisser)
    => LifeOther
<1> USE DEF LifeOther, LP!CloserStep, L!recordVars, LP!recordVars, L!ownerVars, LP!ownerVars,
            L!groupVars, LP!groupVars, L!MoveTo, LP!MoveTo, L!CloserUnchanged, LP!CloserUnchanged,
            L!GroupStopped, LP!GroupStopped
<1>1. L!Stop(Dismisser) => LifeOther
  BY DEF L!Stop, LP!Stop, L!RosterFree, LP!RosterFree
<1>2. L!Revoke(Dismisser) => LifeOther
  BY DEF L!Revoke, LP!Revoke
<1>3. L!Stopped(Dismisser) => LifeOther
  BY DEF L!Stopped, LP!Stopped, L!ClosureKnown, LP!ClosureKnown
<1>4. L!HistoryFreed(Dismisser) => LifeOther
  BY DEF L!HistoryFreed, LP!HistoryFreed, L!NativeStopped, LP!NativeStopped
<1>5. L!Retire(Dismisser) => LifeOther
  BY DEF L!Retire, LP!Retire
<1>6. L!GivesUp(Dismisser) => LifeOther
  BY DEF L!GivesUp, LP!GivesUp
<1>7. QED
  BY <1>1, <1>2, <1>3, <1>4, <1>5, <1>6

LEMMA Groups == GroupStep => LifeOther
<1> USE DEF LifeOther, LP!OutsideStep, LP!GuardStep, LP!GuardUp, L!GuardUp, L!recordVars,
            LP!recordVars, L!ownerVars, LP!ownerVars, L!closeVars, LP!closeVars, L!Member, LP!Member
<1>1. L!GuardStep => LifeOther
  BY DEF L!GuardStep, L!GuardReady, LP!GuardReady, L!GuardLaunches, LP!GuardLaunches,
         L!GuardReports, LP!GuardReports, L!GuardKills, LP!GuardKills, L!LifelineCut, LP!LifelineCut
<1>2. (\E m \in L!Member : L!Dies(m)) => LifeOther
  BY DEF L!Dies, LP!Dies
<1>3. L!NativeExits \/ L!Forks \/ L!StrayExits \/ L!EscapedExits \/ L!GuardKilled => LifeOther
  BY DEF L!NativeExits, LP!NativeExits, L!Forks, LP!Forks, L!StrayExits, LP!StrayExits,
         L!EscapedExits, LP!EscapedExits, L!GuardKilled, LP!GuardKilled
<1>4. (\E m \in L!Member : L!Escapes(m)) => LifeOther
  BY DEF L!Escapes, LP!Escapes
<1>5. QED
  BY <1>1, <1>2, <1>3, <1>4, Recruits DEF GroupStep

-----------------------------------------------------------------------------
(* What a step of Lifetime leaves of what the invariant says of it.        *)

lifeRead == <<pc, group, verdicts, record.state>>

\* The owner alone moves its pc; its claim takes a prepared record, and no other step of
\* it leaves one that is claimed or written.
OwnerEffect ==
    /\ verdicts' = verdicts
    /\ pc[Self] # "left" /\ (pc[Self] = "idle" => pc'[Self] = "claimed")
    /\ pc'[Self] # "idle"
    /\ record'.state # "none" /\ record.state # "none"

LEMMA OwnerEffects == LP!LifeInv /\ LifeOwner => OwnerEffect
<1> SUFFICES ASSUME LP!LifeInv, LifeOwner PROVE OwnerEffect
  OBVIOUS
<1> USE DEF OwnerEffect, LP!LifeInv, LP!OwnerHolds, LP!TypeOK, LP!Record, LP!Goto, LP!Leave,
            LP!recordVars, LP!ownerVars, LP!groupVars, LP!closeVars
<1>1. pc \in [{Self} -> {"idle", "claimed", "handshake", "running", "stop", "reap", "absent",
                         "finish", "left"}]
  OBVIOUS
<1>2. CASE LP!Claim(Self)
  BY <1>1, <1>2 DEF LP!Claim, LP!Claimable
<1>3. CASE LP!Spawn(Self)
  BY <1>1, <1>3 DEF LP!Spawn
<1>4. CASE LP!StartFails(Self)
  BY <1>1, <1>4 DEF LP!StartFails
<1>5. CASE LP!CancelClaim(Self)
  BY <1>1, <1>5 DEF LP!CancelClaim
<1>6. CASE LP!Go(Self) \/ LP!Ends(Self) \/ LP!Signalled(Self) \/ LP!Fails(Self)
  BY <1>1, <1>6 DEF LP!Go, LP!Ends, LP!Signalled, LP!Fails
<1>7. CASE LP!Kill(Self) \/ LP!Reap(Self) \/ LP!Confirm(Self) \/ LP!Unconfirmed(Self)
  BY <1>1, <1>7 DEF LP!Kill, LP!Reap, LP!Confirm, LP!Unconfirmed
<1>8. CASE LP!Finish(Self)
  BY <1>1, <1>8 DEF LP!Finish
<1>9. CASE LP!OwnerDies(Self)
  BY <1>1, <1>9 DEF LP!OwnerDies
<1>10. QED
  BY <1>2, <1>3, <1>4, <1>5, <1>6, <1>7, <1>8, <1>9 DEF LifeOwner, LP!OwnerStep

\* The recruiter, the guard, the group and the closers leave the owner where it is; a group
\* that is gone stays so, and a verdict that was given is not taken back.
OtherEffect ==
    /\ pc' = pc
    /\ record'.state = record.state
    /\ verdicts \subseteq verdicts'
    /\ group = {} => group' = {}

LEMMA OtherEffects == LP!LifeInv /\ LifeOther => OtherEffect
<1> SUFFICES ASSUME LP!LifeInv, LifeOther PROVE OtherEffect
  OBVIOUS
<1> USE DEF OtherEffect, LP!recordVars, LP!ownerVars, LP!groupVars, LP!closeVars
<1>1. record \in [state: {"none", "prepared", "claimed", "exited"}, revoked: BOOLEAN,
                  bound: BOOLEAN, close: {"not-requested", "pending", "failed", "closed"},
                  exit: BOOLEAN, escape: LP!Escape]
  BY DEF LP!LifeInv, LP!TypeOK, LP!Record
<1>2. CASE LP!RecruitFails \/ LP!Replace
  BY <1>2 DEF LP!RecruitFails, LP!Replace
<1>3. CASE LP!GuardStep
  BY <1>3 DEF LP!GuardStep, LP!GuardReady, LP!GuardLaunches, LP!GuardReports, LP!GuardKills, LP!GuardUp
<1>4. CASE \E m \in LP!Member : LP!Dies(m)
  BY <1>4 DEF LP!Dies
<1>5. CASE LP!OutsideStep
  BY <1>5
  DEF LP!OutsideStep, LP!NativeExits, LP!Forks, LP!StrayExits, LP!EscapedExits, LP!PaneCloses,
      LP!GuardKilled, LP!Escapes
<1>6. CASE LP!CloserStep(Dismisser)
  BY <1>1, <1>6
  DEF LP!CloserStep, LP!Stop, LP!Revoke, LP!CloseLook, LP!CloseMark, LP!CloseAwait, LP!CloseTerminal,
      LP!CloseRecord, LP!Stopped, LP!HistoryFreed, LP!Retire, LP!GivesUp, LP!CloserUnchanged
<1>7. QED
  BY <1>2, <1>3, <1>4, <1>5, <1>6 DEF LifeOther

\* Whoever has the end of the launch confirmed: a verdict, a receipt, or no launch at all.
LEMMA OverIsStopped == LP!LifeInv /\ Over => group = {}
BY DEF Over, LP!LifeInv, LP!VerdictBacked, LP!ReceiptTrue, LP!ClaimFirst, LP!Untouched

LEMMA UnclaimedIsQuiet == LP!LifeInv /\ record.state \in {"none", "prepared"} => launches = 0
BY DEF LP!LifeInv, LP!ClaimFirst, LP!Untouched

\* A launch nobody ever claimed, or whose claim ended well, has no process left.
LEMMA CancelIsOver == LP!LifeInv /\ L!CancelClaim(Self) => Over'
<1> SUFFICES ASSUME LP!LifeInv, L!CancelClaim(Self) PROVE Over'
  OBVIOUS
<1>1. group = {} /\ group' = group
  BY DEF LP!LifeInv, LP!ClaimFirst, LP!Untouched, L!CancelClaim
<1>2. pc'[Self] = "left"
  BY DEF L!CancelClaim, L!Leave, L!Goto, LP!LifeInv, LP!TypeOK
<1>3. QED
  BY <1>1, <1>2 DEF Over

LEMMA FinishIsOver == LP!LifeInv /\ L!Finish(Self) /\ ShutdownKnown => Over'
<1> SUFFICES ASSUME LP!LifeInv, L!Finish(Self), ShutdownKnown PROVE Over'
  OBVIOUS
<1>1. group = {} /\ group' = group
  BY DEF LP!LifeInv, LP!Confirmed, LP!Finishable, ShutdownKnown, L!Finishable, L!Finish
<1>2. pc'[Self] = "left"
  BY DEF L!Finish, L!Leave, L!Goto, LP!LifeInv, LP!TypeOK
<1>3. QED
  BY <1>1, <1>2 DEF Over

-----------------------------------------------------------------------------
(* The native launch across every step.                                    *)

LEMMA Moves == [Next]_vars => UNCHANGED lifeVars \/ LifeOwner \/ LifeOther \/ PrepareLaunch
<1> SUFFICES ASSUME [Next]_vars PROVE UNCHANGED lifeVars \/ LifeOwner \/ LifeOther \/ PrepareLaunch
  OBVIOUS
<1>1. CASE Reserve \/ RecruitFails \/ RecruiterDies \/ Interrupt \/ WaitStep
  BY <1>1
  DEF Reserve, RecruitFails, RecruiterDies, Interrupt, WaitStep, WaitLook, WaitLaunch, WaitLock,
      WaitRelease, WaitClose, NotWait
<1>2. CASE RecruiterStep
  BY <1>2, Recruits
  DEF RecruiterStep, RecordRun, WriteIntent, StartOwner, SeesClaim, Withdraw, WithdrawRecord,
      CloseFailed, RetireFailed
<1>3. CASE OwnerStep
  BY <1>3, Owns
  DEF OwnerStep, TakeLock, ClaimIntent, Accept, WithdrawOwn, Receipt, ClaimLaunch, ClaimRefused,
      LookCancel, StartFails, DriveJob, JobGoesWrong, LoopEnds, JobEnds, Settle, RecordOutcome
<1>4. CASE OwnerDies
  BY <1>4, Owns DEF OwnerDies
<1>5. CASE DismissStep
  BY <1>5, Closes, Recruits
  DEF DismissStep, DismissCheck, DismissCancel, DismissStop, DismissRevoke, DismissStopped,
      DismissUnconfirmed, DismissRelease, DismissRetire, DismissDies
<1>6. CASE GroupStep
  BY <1>6, Groups
<1>7. CASE UNCHANGED vars
  BY <1>7 DEF vars
<1>8. QED
  BY <1>1, <1>2, <1>3, <1>4, <1>5, <1>6, <1>7 DEF Next

LEMMA LifeKept == LP!LifeInv /\ [Next]_vars => LP!LifeInv'
<1> SUFFICES ASSUME LP!LifeInv, [Next]_vars PROVE LP!LifeInv'
  OBVIOUS
<1>1. UNCHANGED lifeVars => UNCHANGED LP!vars
  BY DEF lifeVars, LP!vars, LP!recordVars, LP!ownerVars, LP!groupVars, LP!closeVars
<1>2. PrepareLaunch => LP!Prepare
  BY Recruits DEF PrepareLaunch
<1>3. LP!LifeStep \/ UNCHANGED LP!vars
  BY <1>1, <1>2, Moves, ALife
<1>4. QED
  BY <1>3, LP!StepLife, InstanceAssumption

LEMMA RecruitEnds == [Next]_vars /\ recruiter \in {"done", "gone"} => recruiter' = recruiter
<1> SUFFICES ASSUME [Next]_vars, recruiter \in {"done", "gone"} PROVE recruiter' = recruiter
  OBVIOUS
<1>1. CASE Reserve \/ RecruiterStep \/ RecruitFails \/ RecruiterDies
  BY <1>1
  DEF Reserve, RecruiterStep, RecruiterAt, PrepareLaunch, RecordRun, WriteIntent, StartOwner,
      SeesClaim, Withdraw, WithdrawRecord, CloseFailed, RetireFailed, RecruitFails, RecruiterDies
<1>2. CASE OwnerStep \/ OwnerDies
  BY <1>2
  DEF OwnerStep, TakeLock, ClaimIntent, Accept, WithdrawOwn, Receipt, ClaimLaunch, ClaimRefused,
      LookCancel, StartFails, DriveJob, JobGoesWrong, LoopEnds, JobEnds, Settle, RecordOutcome,
      OwnerDies, NotOwner, ownVars
<1>3. CASE WaitStep \/ Interrupt \/ GroupStep
  BY <1>3
  DEF WaitStep, WaitLook, WaitLaunch, WaitLock, WaitRelease, WaitClose, NotWait, Interrupt,
      NotDismisser, GroupStep, ownVars
<1>4. CASE DismissStep
  BY <1>4
  DEF DismissStep, DismissCheck, DismissCancel, DismissStop, DismissRevoke, DismissStopped,
      DismissUnconfirmed, DismissRelease, DismissRetire, DismissDies, NotDismisser, ownVars
<1>5. CASE UNCHANGED vars
  BY <1>5 DEF vars, ownVars
<1>6. QED
  BY <1>1, <1>2, <1>3, <1>4, <1>5 DEF Next

LEMMA OverKept == LP!LifeInv /\ [Next]_vars /\ Over => Over'
<1> SUFFICES ASSUME LP!LifeInv, [Next]_vars, Over PROVE Over'
  OBVIOUS
<1>1. recruiter \in {"done", "gone"} => recruiter' \in {"done", "gone"}
  BY RecruitEnds
<1>2. CASE UNCHANGED lifeVars
  BY <1>1, <1>2 DEF Over, lifeVars
<1>3. CASE LifeOwner
  BY <1>3, OwnerEffects DEF Over, OwnerEffect
<1>4. CASE LifeOther
  BY <1>1, <1>4, OtherEffects DEF Over, OtherEffect
<1>5. CASE PrepareLaunch
  BY <1>5 DEF Over, PrepareLaunch, RecruiterAt, L!Prepare, L!ownerVars, L!groupVars, L!closeVars
<1>6. QED
  BY <1>2, <1>3, <1>4, <1>5, Moves

-----------------------------------------------------------------------------
(* The inductive invariant.                                                *)

LEMMA InitBack == Init => BackInv
<1> SUFFICES ASSUME Init PROVE BackInv
  OBVIOUS
<1>1. LP!Init
  BY DEF Init, L!Init, LP!Init, L!NoJob, LP!NoJob
<1>2. LP!LifeInv
  BY <1>1, LP!InitLife, InstanceAssumption
<1>3. pc[Self] = "idle" /\ record.state = "none" /\ launches = 0
  BY DEF Init, L!Init
<1>4. OwnInv
  BY <1>3
  DEF Init, OwnInv, TypeOK, Outcome, ClosedOnce, WritersKnow, IntentTaken, ClaimedLate, Recorded,
      SettledFirst, OutcomeIsOver, RecordAgrees, Executing, Holding, Recruiting
<1>5. QED
  BY <1>2, <1>4 DEF BackInv

\* The steps that leave the native launch alone, and those that need not.
Looks ==
    \/ Reserve \/ RecordRun \/ WriteIntent \/ StartOwner \/ SeesClaim \/ Withdraw \/ WithdrawRecord
    \/ CloseFailed \/ RecruitFails \/ RecruiterDies
    \/ TakeLock \/ ClaimIntent \/ Accept \/ WithdrawOwn \/ Receipt \/ ClaimRefused \/ Settle
    \/ RecordOutcome \/ (LookCancel /\ ~cancel) \/ OwnerDies
    \/ WaitStep \/ Interrupt
    \/ DismissCheck \/ DismissCancel \/ DismissRelease
    \/ (DismissStop /\ record.state = "none") \/ DismissDies

LEMMA LooksKeep ==
  ASSUME BackInv, [Next]_vars, UNCHANGED lifeVars, Looks PROVE OwnInv'
<1>1. Over => Over'
  BY OverKept DEF BackInv
<1>2. pc' = pc /\ record' = record /\ launches' = launches
  BY DEF lifeVars
<1>30. pc[Self] = "idle" => launches = 0
  BY UnclaimedIsQuiet DEF BackInv, OwnInv, ClaimedLate
<1> USE <1>1, <1>2, <1>30
    DEF BackInv, OwnInv, TypeOK, Outcome, ClosedOnce, WritersKnow, IntentTaken, ClaimedLate,
        Recorded, SettledFirst, OutcomeIsOver, RecordAgrees, Executing, Holding, Recruiting,
        RecruiterAt, RunnerAt, NotRecruiter, NotOwner, NotWait, NotDismisser, fileVars, taskVars,
        ownerVars, dismissVars, Close, Done, CheckpointFree
<1>3. CASE Reserve
  BY <1>3 DEF Reserve
<1>4. CASE RecordRun
  BY <1>4 DEF RecordRun
<1>5. CASE WriteIntent
  BY <1>5 DEF WriteIntent
<1>6. CASE StartOwner
  BY <1>6 DEF StartOwner
<1>7. CASE SeesClaim
  BY <1>7 DEF SeesClaim
<1>8. CASE Withdraw
  BY <1>8 DEF Withdraw, Unclaimed
<1>9. CASE WithdrawRecord
  BY <1>9 DEF WithdrawRecord
<1>10. CASE RecruitFails \/ RecruiterDies
  BY <1>10 DEF RecruitFails, RecruiterDies
<1>11. CASE CloseFailed
  BY <1>11 DEF CloseFailed
<1>12. CASE TakeLock
  BY <1>12 DEF TakeLock
<1>13. CASE ClaimIntent
  BY <1>13 DEF ClaimIntent
<1>14. CASE Accept
  BY <1>14 DEF Accept, MayRun
<1>15. CASE WithdrawOwn
  BY <1>15 DEF WithdrawOwn
<1>16. CASE Receipt
  BY <1>16 DEF Receipt
<1>17. CASE ClaimRefused
  BY <1>17 DEF ClaimRefused
<1>18. CASE LookCancel /\ ~cancel
  BY <1>18 DEF LookCancel
<1>19. CASE Settle
  BY <1>19 DEF Settle
<1>20. CASE RecordOutcome
  BY <1>20 DEF RecordOutcome
<1>21. CASE OwnerDies
  BY <1>21 DEF OwnerDies
<1>22. CASE WaitLook \/ WaitLaunch \/ WaitLock \/ WaitRelease
  BY <1>22 DEF WaitLook, WaitLaunch, WaitLock, WaitRelease, LaunchHeld, RunLockHeld
<1>23. CASE WaitClose
  <2>1. runner \notin Executing /\ wait' = "idle"
    BY <1>23 DEF WaitClose
  <2>2. \E o \in {"failed", "lost"} : asg' = IF asg.state = "done" THEN asg ELSE Done(o)
    BY <1>23 DEF WaitClose, Reconcile
  <2>3. asg.state # "done" => run.state # "finished" /\ recruiter # "idle"
    BY <1>23 DEF WaitClose
  <2>4. QED
    BY <1>23, <2>1, <2>2, <2>3 DEF WaitClose
<1>24. CASE Interrupt
  BY <1>24 DEF Interrupt
<1>25. CASE DismissCheck
  BY <1>25 DEF DismissCheck
<1>26. CASE DismissCancel
  BY <1>26 DEF DismissCancel
<1>27. CASE DismissRelease
  BY <1>27 DEF DismissRelease
<1>28. CASE DismissStop /\ record.state = "none"
  BY <1>28 DEF DismissStop, Over
<1>29. CASE DismissDies
  BY <1>29 DEF DismissDies
<1>31. QED
  BY <1>3, <1>4, <1>5, <1>6, <1>7, <1>8, <1>9, <1>10, <1>11, <1>12, <1>13, <1>14, <1>15, <1>16,
     <1>17, <1>18, <1>19, <1>20, <1>21, <1>22, <1>23, <1>24, <1>25, <1>26, <1>27, <1>28, <1>29
  DEF Looks, WaitStep

\* The owner's steps on the native launch.
OwnerLooks ==
    \/ ClaimLaunch \/ (LookCancel /\ cancel) \/ StartFails \/ DriveJob \/ JobGoesWrong \/ LoopEnds
    \/ JobEnds \/ (OwnerDies /\ pc[Self] \notin {"idle", "left"})

LEMMA OwnerLooksKeep ==
  ASSUME BackInv, [Next]_vars, OwnerLooks PROVE OwnInv'
<1>1. Over => Over'
  BY OverKept DEF BackInv
<1>2. LifeOwner
  BY Owns
  DEF OwnerLooks, ClaimLaunch, LookCancel, StartFails, DriveJob, JobGoesWrong, LoopEnds, JobEnds,
      OwnerDies
<1>3. /\ pc[Self] # "left" /\ pc'[Self] # "idle"
      /\ pc[Self] = "idle" => pc'[Self] = "claimed"
  BY <1>2, OwnerEffects DEF BackInv, OwnerEffect
<1> USE <1>1, <1>3
    DEF BackInv, OwnInv, TypeOK, Outcome, ClosedOnce, WritersKnow, IntentTaken, ClaimedLate,
        Recorded, SettledFirst, OutcomeIsOver, RecordAgrees, Executing, Holding, Recruiting,
        RunnerAt, NotOwner, fileVars, taskVars, dismissVars
<1>4. CASE ClaimLaunch
  BY <1>4 DEF ClaimLaunch
<1>5. CASE LookCancel /\ cancel
  <2>1. Over'
    BY <1>5, CancelIsOver DEF LookCancel
  <2>2. QED
    BY <1>5, <2>1 DEF LookCancel
<1>6. CASE StartFails
  BY <1>6 DEF StartFails
<1>7. CASE DriveJob \/ JobGoesWrong
  BY <1>7 DEF DriveJob, JobGoesWrong, ownVars, ownerVars
<1>8. CASE LoopEnds
  BY <1>8 DEF LoopEnds
<1>9. CASE JobEnds
  <2>1. ends' = "failed" \/ (ends' \in {"done", "cancelled"} /\ ShutdownKnown)
    BY <1>9 DEF JobEnds
  <2>2. ShutdownKnown => Over'
    BY <1>9, FinishIsOver DEF JobEnds
  <2>3. runner = "job" /\ runner' = "settle"
    BY <1>9 DEF JobEnds
  <2>4. UNCHANGED <<taskVars, fileVars, recruiter, wait, dismissVars>>
    BY <1>9 DEF JobEnds
  <2>5. QED
    BY <2>1, <2>2, <2>3, <2>4
<1>10. CASE OwnerDies /\ pc[Self] \notin {"idle", "left"}
  BY <1>10 DEF OwnerDies
<1>11. QED
  BY <1>4, <1>5, <1>6, <1>7, <1>8, <1>9, <1>10 DEF OwnerLooks

\* The launch's other steps: the recruiter's, the dismissal's, the group's.
OtherLooks ==
    \/ PrepareLaunch \/ RetireFailed \/ GroupStep
    \/ (DismissStop /\ record.state # "none") \/ DismissRevoke \/ DismissStopped
    \/ DismissUnconfirmed \/ DismissRetire \/ (DismissDies /\ closing[Dismisser] # "idle")

LEMMA OtherLooksKeep ==
  ASSUME BackInv, [Next]_vars, OtherLooks PROVE OwnInv'
<1>1. Over => Over'
  BY OverKept DEF BackInv
<1>2. CASE PrepareLaunch
  <2>1. pc' = pc /\ record'.state = "prepared" /\ launches' = launches
    BY <1>2 DEF PrepareLaunch, L!Prepare, L!ownerVars, BackInv, LP!LifeInv, LP!TypeOK, LP!Record
  <2>2. QED
    BY <1>1, <1>2, <2>1
    DEF PrepareLaunch, BackInv, OwnInv, TypeOK, Outcome, ClosedOnce, WritersKnow, IntentTaken,
        ClaimedLate, Recorded, SettledFirst, OutcomeIsOver, RecordAgrees, Executing, Holding,
        Recruiting, RecruiterAt, NotRecruiter, fileVars, taskVars, ownerVars, dismissVars
<1>3. CASE ~PrepareLaunch
  <2>1. LifeOther
    BY <1>3, Closes, Groups, Recruits
    DEF OtherLooks, RetireFailed, DismissStop, DismissRevoke, DismissStopped, DismissUnconfirmed,
        DismissRetire, DismissDies
  <2>2. pc' = pc /\ record'.state = record.state
    BY <2>1, OtherEffects DEF BackInv, OtherEffect
  <2>3. LP!LifeInv'
    BY LifeKept DEF BackInv
  <2>4. intent = "abandoned" => launches' = 0
    BY <2>2, <2>3 DEF BackInv, OwnInv, IntentTaken, ClaimedLate, LP!LifeInv, LP!ClaimFirst, LP!Untouched
  <2> USE <1>1, <2>2, <2>4
      DEF BackInv, OwnInv, TypeOK, Outcome, ClosedOnce, WritersKnow, IntentTaken, ClaimedLate,
          Recorded, SettledFirst, OutcomeIsOver, RecordAgrees, Executing, Holding, Recruiting,
          RecruiterAt, NotRecruiter, NotDismisser, fileVars, taskVars, ownerVars, dismissVars
  <2>5. CASE RetireFailed
    BY <2>5 DEF RetireFailed
  <2>6. CASE GroupStep \/ DismissRevoke
    BY <2>6 DEF GroupStep, DismissRevoke, ownVars
  <2>7. CASE DismissStop /\ record.state # "none"
    BY <2>7 DEF DismissStop
  <2>8. CASE DismissStopped
    <3>1. Over'
      BY <2>8 DEF DismissStopped, L!Stopped, Over
    <3>2. QED
      BY <2>8, <3>1 DEF DismissStopped
  <2>9. CASE DismissUnconfirmed
    BY <2>9 DEF DismissUnconfirmed
  <2>12. CASE DismissRetire
    BY <2>12 DEF DismissRetire
  <2>10. CASE DismissDies /\ closing[Dismisser] # "idle"
    BY <2>10 DEF DismissDies
  <2>11. QED
    BY <1>3, <2>5, <2>6, <2>7, <2>8, <2>9, <2>10, <2>12 DEF OtherLooks
<1>4. QED
  BY <1>2, <1>3

LEMMA NextBack == BackInv /\ [Next]_vars => BackInv'
<1> SUFFICES ASSUME BackInv, [Next]_vars PROVE OwnInv'
  BY LifeKept DEF BackInv
<1>2. OwnerLooks => OwnInv'
  BY OwnerLooksKeep
<1>3. OtherLooks => OwnInv'
  BY OtherLooksKeep
<1>4. Looks /\ UNCHANGED lifeVars => OwnInv'
  BY LooksKeep
<1>5. CASE OwnerStep \/ OwnerDies
  <2>1. OwnerLooks \/ (Looks /\ UNCHANGED lifeVars)
    BY <1>5
    DEF OwnerStep, OwnerLooks, Looks, TakeLock, ClaimIntent, Accept, WithdrawOwn, Receipt,
        ClaimRefused, LookCancel, Settle, RecordOutcome, OwnerDies
  <2>2. QED
    BY <1>2, <1>4, <2>1
<1>6. CASE Reserve \/ RecruiterStep \/ RecruitFails \/ RecruiterDies
  <2>1. OtherLooks \/ (Looks /\ UNCHANGED lifeVars)
    BY <1>6
    DEF RecruiterStep, OtherLooks, Looks, Reserve, RecordRun, WriteIntent, StartOwner, SeesClaim,
        Withdraw, WithdrawRecord, CloseFailed, RecruitFails, RecruiterDies
  <2>2. QED
    BY <1>3, <1>4, <2>1
<1>7. CASE WaitStep \/ Interrupt \/ DismissStep \/ GroupStep
  <2>1. OtherLooks \/ (Looks /\ UNCHANGED lifeVars)
    BY <1>7
    DEF WaitStep, OtherLooks, Looks, WaitLook, WaitLaunch, WaitLock, WaitRelease, WaitClose, NotWait,
        Interrupt, DismissStep, DismissCheck, DismissCancel, DismissRelease, DismissStop, DismissDies
  <2>2. QED
    BY <1>3, <1>4, <2>1
<1>8. CASE UNCHANGED vars
  BY <1>8
  DEF vars, lifeVars, ownVars, taskVars, fileVars, ownerVars, dismissVars, BackInv, OwnInv, TypeOK,
      ClosedOnce, WritersKnow, IntentTaken, ClaimedLate, Recorded, SettledFirst, OutcomeIsOver,
      RecordAgrees, Over
<1>9. QED
  BY <1>5, <1>6, <1>7, <1>8 DEF Next

LEMMA BackInvariant == Spec => []BackInv
<1>1. Init => BackInv
  BY InitBack
<1>2. BackInv /\ [Next]_vars => BackInv'
  BY NextBack
<1>3. QED
  BY <1>1, <1>2, PTL DEF Spec

-----------------------------------------------------------------------------
(* What the captain is told.                                               *)

\* TypeOK (TypeOK's check of every variable), for any owner and dismissal.
THEOREM TypeCorrect == Spec => []TypeOK
<1>1. BackInv => TypeOK
  BY DEF BackInv, OwnInv
<1>2. QED
  BY <1>1, BackInvariant, PTL

\* OutcomeIsStopped: done, cancelled or released, whoever of owner and dismissal wrote it,
\* the native process group is gone.
THEOREM OutcomeMeansStopped == Spec => []OutcomeIsStopped
<1>1. BackInv => OutcomeIsStopped
  BY OverIsStopped DEF BackInv, OwnInv, OutcomeIsOver, OutcomeIsStopped
<1>2. QED
  BY <1>1, BackInvariant, PTL

\* RecordAgrees: of the two renames one wins, a withdrawn run starts no CLI, a turn runs for
\* an open assignment, and the record's outcome is the assignment's.
THEOREM RecordsAgree == Spec => []RecordAgrees
<1>1. BackInv => RecordAgrees
  BY DEF BackInv, OwnInv
<1>2. QED
  BY <1>1, BackInvariant, PTL
=============================================================================
