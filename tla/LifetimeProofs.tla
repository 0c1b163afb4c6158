--------------------------- MODULE LifetimeProofs ---------------------------
(***************************************************************************)
(* Proofs about Lifetime, for any number of owner processes and closers:   *)
(* a verdict that the writer has stopped is true and stays true, and one   *)
(* launch starts one native CLI.                                           *)
(***************************************************************************)
EXTENDS Lifetime, TLAPS

\* Nothing of the launch has ever run.
Untouched ==
    /\ guard = "none" /\ group = {} /\ native = "none"
    /\ ~escaped /\ ~reported /\ launches = 0

\* An owner past its claim holds the lock of a claimed record.
OwnerHolds ==
    \A o \in Owner : pc[o] \notin {"idle", "left"} => owner = o /\ record.state = "claimed"

\* Nothing runs before a claim, nor between the claim and the guard.
ClaimFirst ==
    /\ record.state \in {"none", "prepared"} => Untouched
    /\ \A o \in Owner : pc[o] = "claimed" => Untouched

\* The guard is in its group exactly while it is up, launches once, and reports the truth.
GuardPlace ==
    /\ "guard" \in group <=> guard \in {"fresh", "ready", "armed", "running"}
    /\ guard \in {"none", "fresh", "ready", "armed"} => launches = 0 /\ ~reported
    /\ reported => native = "exited"

\* What shutdown confirmed stays so, first in the owner and then on the record.
Confirmed ==
    \A o \in Owner : pc[o] = "finish" /\ Finishable(o) =>
        group = {} /\ (job[o].escape = "none" => ~escaped)

ReceiptTrue ==
    record.state = "exited" =>
        /\ group = {}
        /\ record.escape = "none" => ~escaped
        /\ record.exit => native # "running"

\* What a closer was told is still on the record.
VerdictBacked ==
    /\ verdicts # {} => record.revoked /\ record.state \in {"prepared", "exited"}
    /\ "native" \in verdicts => (record.state = "exited" => record.exit)
    /\ "worktree" \in verdicts => (record.state = "exited" => record.escape = "none")

LifeInv ==
    /\ TypeOK /\ OwnerHolds /\ ClaimFirst /\ GuardPlace /\ Confirmed /\ ReceiptTrue
    /\ VerdictBacked /\ OneLaunch
-----------------------------------------------------------------------------
(* Types.                                                                  *)

LEMMA InitTyped == Init => TypeOK
<1> SUFFICES ASSUME Init PROVE TypeOK
  OBVIOUS
<1>1. NoJob \in Job
  BY DEF NoJob, Job, Escape
<1>2. job \in [Owner -> Job]
  BY <1>1 DEF Init
<1>3. record \in Record
  BY DEF Init, Record, Escape
<1>4. QED
  BY <1>2, <1>3 DEF Init, TypeOK, Escape, Member


LEMMA FailedJob == ASSUME NEW j \in Job PROVE [j EXCEPT !.failed = TRUE] \in Job
BY DEF Job

LEMMA ConfirmedJob ==
  ASSUME NEW j \in Job, NEW left \in Escape
  PROVE  [j EXCEPT !.ok = ~j.failed, !.escape = left] \in Job
<1>1. [j EXCEPT !.ok = ~j.failed] \in Job
  BY DEF Job
<1>2. [[j EXCEPT !.ok = ~j.failed] EXCEPT !.escape = left] \in Job
  BY <1>1 DEF Job
<1>3. QED
  BY <1>2

\* One process's step, whoever holds crew.lock.
LifeStep ==
    \/ Prepare \/ OpenPane \/ Bind \/ RecruitFails \/ Replace
    \/ \E o \in Owner : OwnerStep(o) \/ Fails(o) \/ Signalled(o) \/ Unconfirmed(o) \/ OwnerDies(o)
    \/ GuardStep \/ (\E m \in Member : Dies(m)) \/ OutsideStep
    \/ \E c \in Closer : CloserStep(c)

LEMMA NextIsLifeStep == [Next]_vars => LifeStep \/ UNCHANGED vars
BY DEF Next, LifeStep, RecruiterStep

LEMMA StepTyped == TypeOK /\ (LifeStep \/ UNCHANGED vars) => TypeOK'
<1> SUFFICES ASSUME TypeOK, LifeStep \/ UNCHANGED vars PROVE TypeOK'
  OBVIOUS
<1> USE DEF TypeOK, Record, Escape, Member, recordVars, ownerVars, groupVars, closeVars
<1>1. CASE Prepare
  BY <1>1 DEF Prepare
<1>2. CASE OpenPane
  BY <1>2 DEF OpenPane
<1>3. CASE Bind
  BY <1>3 DEF Bind
<1>4. CASE RecruitFails
  BY <1>4 DEF RecruitFails
<1>5. CASE Replace
  BY <1>5 DEF Replace
<1>6. ASSUME NEW o \in Owner, Claim(o) PROVE TypeOK'
  BY <1>6 DEF Claim, Goto
<1>7. ASSUME NEW o \in Owner, Spawn(o) PROVE TypeOK'
  BY <1>7 DEF Spawn, Goto
<1>8. ASSUME NEW o \in Owner, StartFails(o) PROVE TypeOK'
  BY <1>8 DEF StartFails, Leave, Goto
<1>9. ASSUME NEW o \in Owner, CancelClaim(o) PROVE TypeOK'
  BY <1>9, ZenonT(30) DEF CancelClaim, Leave, Goto
<1>10. ASSUME NEW o \in Owner, Go(o) PROVE TypeOK'
  BY <1>10 DEF Go, Goto
<1>11. ASSUME NEW o \in Owner, Ends(o) PROVE TypeOK'
  BY <1>11 DEF Ends, Goto
<1>12. ASSUME NEW o \in Owner, Kill(o) PROVE TypeOK'
  BY <1>12 DEF Kill, Goto
<1>13. ASSUME NEW o \in Owner, Reap(o) PROVE TypeOK'
  <2>1. PICK early \in BOOLEAN : job' = [job EXCEPT ![o].failed = @ \/ early]
    BY <1>13 DEF Reap
  <2>2. [job[o] EXCEPT !.failed = @ \/ early] \in Job
    BY DEF Job
  <2>3. job' \in [Owner -> Job]
    BY <2>1, <2>2
  <2>4. QED
    BY <1>13, <2>3 DEF Reap, Goto
<1>14. ASSUME NEW o \in Owner, Confirm(o) PROVE TypeOK'
  <2>1. PICK left \in Survivors :
               job' = [job EXCEPT ![o].ok = ~job[o].failed, ![o].escape = left]
    BY <1>14 DEF Confirm
  <2>2. left \in Escape
    BY DEF Survivors
  <2>3. [job[o] EXCEPT !.ok = ~job[o].failed, !.escape = left] \in Job
    BY <2>2, ConfirmedJob
  <2>4. job' \in [Owner -> Job]
    BY <2>1, <2>3
  <2>5. QED
    BY <1>14, <2>4 DEF Confirm, Goto
<1>15. ASSUME NEW o \in Owner, Finish(o) PROVE TypeOK'
  <2>1. job[o].escape \in Escape
    BY DEF Job
  <2>2. record' \in Record
    BY <1>15, <2>1, ZenonT(30) DEF Finish
  <2>3. QED
    BY <1>15, <2>2 DEF Finish, Leave, Goto
<1>16. ASSUME NEW o \in Owner, Fails(o) PROVE TypeOK'
  <2>1. [job[o] EXCEPT !.failed = TRUE] \in Job
    BY FailedJob
  <2>2. job' \in [Owner -> Job]
    BY <1>16, <2>1 DEF Fails
  <2>3. QED
    BY <1>16, <2>2 DEF Fails, Goto
<1>17. ASSUME NEW o \in Owner, Signalled(o) PROVE TypeOK'
  BY <1>17 DEF Signalled, Goto
<1>18. ASSUME NEW o \in Owner, Unconfirmed(o) PROVE TypeOK'
  <2>1. [job[o] EXCEPT !.failed = TRUE] \in Job
    BY FailedJob
  <2>2. job' \in [Owner -> Job]
    BY <1>18, <2>1 DEF Unconfirmed
  <2>3. QED
    BY <1>18, <2>2 DEF Unconfirmed, Goto
<1>19. ASSUME NEW o \in Owner, OwnerDies(o) PROVE TypeOK'
  BY <1>19 DEF OwnerDies, Leave, Goto
<1>20. CASE GuardReady
  BY <1>20 DEF GuardReady
<1>21. CASE GuardLaunches
  BY <1>21 DEF GuardLaunches
<1>22. CASE GuardReports
  BY <1>22 DEF GuardReports
<1>23. CASE GuardKills
  BY <1>23 DEF GuardKills
<1>24. CASE NativeExits
  BY <1>24 DEF NativeExits
<1>25. CASE Forks
  BY <1>25 DEF Forks
<1>26. CASE StrayExits
  BY <1>26 DEF StrayExits
<1>27. CASE EscapedExits
  <2>1. native' \in {"none", "running", "exited"}
    BY <1>27 DEF EscapedExits
  <2>2. escaped' \in BOOLEAN
    BY <1>27 DEF EscapedExits
  <2>3. UNCHANGED <<recordVars, ownerVars, guard, lifeline, group, killed, reported, closeVars,
                    launches>>
    BY <1>27 DEF EscapedExits
  <2>4. QED
    BY <2>1, <2>2, <2>3
<1>28. CASE PaneCloses
  BY <1>28 DEF PaneCloses
<1>29. CASE GuardKilled
  BY <1>29 DEF GuardKilled
<1>30. ASSUME NEW m \in Member, Dies(m) PROVE TypeOK'
  BY <1>30 DEF Dies
<1>31. ASSUME NEW m \in Member, Escapes(m) PROVE TypeOK'
  BY <1>31 DEF Escapes
<1>32. ASSUME NEW c \in Closer, Stop(c) PROVE TypeOK'
  BY <1>32 DEF Stop, MoveTo, CloserUnchanged
<1>33. ASSUME NEW c \in Closer, Revoke(c) PROVE TypeOK'
  <2>1. record' \in Record
    BY <1>33 DEF Revoke
  <2>2. QED
    BY <1>33, <2>1 DEF Revoke, MoveTo, CloserUnchanged
<1>34. ASSUME NEW c \in Closer, CloseLook(c) PROVE TypeOK'
  BY <1>34 DEF CloseLook, MoveTo, CloserUnchanged
<1>35. ASSUME NEW c \in Closer, CloseMark(c) PROVE TypeOK'
  BY <1>35 DEF CloseMark, MoveTo, CloserUnchanged
<1>36. ASSUME NEW c \in Closer, CloseAwait(c) PROVE TypeOK'
  <2>1. verdicts' \in SUBSET {"group", "native", "worktree"}
    BY <1>36 DEF CloseAwait
  <2>2. closing' \in [Closer -> {"idle", "revoke", "open", "look", "mark", "await", "identify",
                                "closed", "failed", "check", "retire"}]
    BY <1>36 DEF CloseAwait, MoveTo
  <2>3. QED
    BY <1>36, <2>1, <2>2 DEF CloseAwait, CloserUnchanged
<1>37. ASSUME NEW c \in Closer, CloseTerminal(c) PROVE TypeOK'
  BY <1>37 DEF CloseTerminal, MoveTo, CloserUnchanged
<1>38. ASSUME NEW c \in Closer, CloseRecord(c) PROVE TypeOK'
  BY <1>38 DEF CloseRecord, MoveTo, CloserUnchanged
<1>39. ASSUME NEW c \in Closer, Stopped(c) PROVE TypeOK'
  <2>1. verdicts' \in SUBSET {"group", "native", "worktree"}
    BY <1>39 DEF Stopped
  <2>2. closing' \in [Closer -> {"idle", "revoke", "open", "look", "mark", "await", "identify",
                                "closed", "failed", "check", "retire"}]
    BY <1>39 DEF Stopped, MoveTo
  <2>3. QED
    BY <1>39, <2>1, <2>2 DEF Stopped, CloserUnchanged
<1>40. ASSUME NEW c \in Closer, HistoryFreed(c) PROVE TypeOK'
  BY <1>40 DEF HistoryFreed, MoveTo, CloserUnchanged
<1>41. ASSUME NEW c \in Closer, Retire(c) PROVE TypeOK'
  BY <1>41 DEF Retire, MoveTo, CloserUnchanged
<1>42. ASSUME NEW c \in Closer, GivesUp(c) PROVE TypeOK'
  BY <1>42 DEF GivesUp, MoveTo, CloserUnchanged
<1>43. CASE UNCHANGED vars
  BY <1>43 DEF vars
<1>44. QED
  BY <1>1, <1>2, <1>3, <1>4, <1>5, <1>6, <1>7, <1>8, <1>9, <1>10, <1>11, <1>12, <1>13, <1>14, <1>15, <1>16, <1>17, <1>18, <1>19, <1>20, <1>21, <1>22, <1>23, <1>24, <1>25, <1>26, <1>27, <1>28, <1>29, <1>30, <1>31, <1>32, <1>33, <1>34, <1>35, <1>36, <1>37, <1>38, <1>39, <1>40, <1>41, <1>42, <1>43
  DEF LifeStep, OwnerStep, GuardStep, OutsideStep, CloserStep

LEMMA NextTyped == TypeOK /\ [Next]_vars => TypeOK'
BY StepTyped, NextIsLifeStep

\* TypeOK (TypeOK's check of every variable) for any set of owners and closers.
THEOREM TypeCorrect == Spec => []TypeOK
<1>1. Init => TypeOK
  BY InitTyped
<1>2. TypeOK /\ [Next]_vars => TypeOK'
  BY NextTyped
<1>3. QED
  BY <1>1, <1>2, PTL DEF Spec

-----------------------------------------------------------------------------
(* The inductive invariant.                                                *)

LEMMA InitLife == Init => LifeInv
BY InitTyped DEF Init, LifeInv, Untouched, OwnerHolds, ClaimFirst, GuardPlace, Confirmed,
                 ReceiptTrue, VerdictBacked, OneLaunch

LEMMA StepLife == LifeInv /\ (LifeStep \/ UNCHANGED vars) => LifeInv'
<1> SUFFICES ASSUME LifeInv, LifeStep \/ UNCHANGED vars PROVE LifeInv'
  OBVIOUS
<1>1. TypeOK /\ TypeOK'
  BY StepTyped DEF LifeInv
<1> USE <1>1 DEF LifeInv, Untouched, OwnerHolds, ClaimFirst, GuardPlace, Confirmed, ReceiptTrue,
      VerdictBacked, OneLaunch, Finishable, TypeOK, Record, Member, recordVars, ownerVars, groupVars, closeVars
<1>2. CASE Prepare
  BY <1>2 DEF Prepare, Preparable
<1>3. CASE OpenPane
  BY <1>3 DEF OpenPane
<1>4. CASE Bind
  BY <1>4 DEF Bind
<1>5. CASE RecruitFails
  BY <1>5 DEF RecruitFails
<1>6. CASE Replace
  BY <1>6 DEF Replace
<1>7. ASSUME NEW o \in Owner, Claim(o) PROVE LifeInv'
  BY <1>7 DEF Claim, Claimable, Goto
<1>8. ASSUME NEW o \in Owner, Spawn(o) PROVE LifeInv'
  BY <1>8 DEF Spawn, Goto
<1>9. ASSUME NEW o \in Owner, StartFails(o) PROVE LifeInv'
  BY <1>9 DEF StartFails, Leave, Goto
<1>10. ASSUME NEW o \in Owner, CancelClaim(o) PROVE LifeInv'
  BY <1>10 DEF CancelClaim, Leave, Goto
<1>11. ASSUME NEW o \in Owner, Go(o) PROVE LifeInv'
  BY <1>11 DEF Go, Goto
<1>12. ASSUME NEW o \in Owner, Ends(o) PROVE LifeInv'
  BY <1>12 DEF Ends, Goto
<1>13. ASSUME NEW o \in Owner, Kill(o) PROVE LifeInv'
  BY <1>13 DEF Kill, Goto
<1>14. ASSUME NEW o \in Owner, Reap(o) PROVE LifeInv'
  BY <1>14 DEF Reap, Goto
<1>15. ASSUME NEW o \in Owner, Confirm(o) PROVE LifeInv'
  BY <1>15 DEF Confirm, Survivors, Goto
<1>16. ASSUME NEW o \in Owner, Finish(o) PROVE LifeInv'
  <2>1. pc[o] = "finish" /\ owner = o /\ pc' = [pc EXCEPT ![o] = "left"]
    BY <1>16 DEF Finish, Leave, Goto
  <2>2. CASE Finishable(o)
    <3>1. group = {} /\ (job[o].escape = "none" => ~escaped)
      BY <2>1, <2>2
    <3>2. record' = [record EXCEPT !.state = "exited", !.exit = reported, !.escape = job[o].escape]
      BY <1>16, <2>2 DEF Finish
    <3>3. record.state = "claimed"
      BY <2>1
    <3>4. record'.state = "exited" /\ record'.exit = reported /\ record'.escape = job[o].escape
      BY <3>2
    <3>5. UNCHANGED <<job, guard, group, killed, native, reported, escaped, closeVars, launches>>
      BY <1>16 DEF Finish
    <3>6. OwnerHolds'
      BY <2>1, <3>5
    <3>7. Confirmed' /\ ReceiptTrue'
      BY <2>1, <3>1, <3>4, <3>5
    <3>8. VerdictBacked'
      BY <3>3, <3>4, <3>5
    <3>9. QED
      BY <2>1, <3>4, <3>5, <3>6, <3>7, <3>8
  <2>3. CASE ~Finishable(o)
    BY <1>16, <2>3 DEF Finish, Leave, Goto
  <2>4. QED
    BY <2>2, <2>3
<1>17. ASSUME NEW o \in Owner, Fails(o) PROVE LifeInv'
  BY <1>17 DEF Fails, Goto
<1>18. ASSUME NEW o \in Owner, Signalled(o) PROVE LifeInv'
  BY <1>18 DEF Signalled, Goto
<1>19. ASSUME NEW o \in Owner, Unconfirmed(o) PROVE LifeInv'
  BY <1>19 DEF Unconfirmed, Goto
<1>20. ASSUME NEW o \in Owner, OwnerDies(o) PROVE LifeInv'
  BY <1>20 DEF OwnerDies, Leave, Goto
<1>21. CASE GuardReady
  BY <1>21 DEF GuardReady, GuardUp
<1>22. CASE GuardLaunches
  BY <1>22 DEF GuardLaunches, GuardUp
<1>23. CASE GuardReports
  BY <1>23 DEF GuardReports, GuardUp
<1>24. CASE GuardKills
  BY <1>24 DEF GuardKills
<1>25. CASE NativeExits
  BY <1>25 DEF NativeExits
<1>26. CASE Forks
  BY <1>26 DEF Forks
<1>27. CASE StrayExits
  BY <1>27 DEF StrayExits
<1>28. CASE EscapedExits
  BY <1>28 DEF EscapedExits
<1>29. CASE PaneCloses
  BY <1>29 DEF PaneCloses
<1>30. CASE GuardKilled
  <2>1. group' = group \ {"guard"} /\ guard' = "gone"
    BY <1>30 DEF GuardKilled
  <2>2. UNCHANGED <<recordVars, ownerVars, lifeline, killed, native, reported, escaped, closeVars,
                    launches>>
    BY <1>30 DEF GuardKilled
  <2>3. "guard" \in group
    BY <1>30 DEF GuardKilled, GuardUp
  <2>4. QED
    BY <2>1, <2>2, <2>3
<1>31. ASSUME NEW m \in Member, Dies(m) PROVE LifeInv'
  BY <1>31 DEF Dies
<1>32. ASSUME NEW m \in Member, Escapes(m) PROVE LifeInv'
  BY <1>32 DEF Escapes
<1>33. ASSUME NEW c \in Closer, Stop(c) PROVE LifeInv'
  BY <1>33 DEF Stop, MoveTo, CloserUnchanged
<1>34. ASSUME NEW c \in Closer, Revoke(c) PROVE LifeInv'
  BY <1>34 DEF Revoke, MoveTo, CloserUnchanged
<1>35. ASSUME NEW c \in Closer, CloseLook(c) PROVE LifeInv'
  BY <1>35 DEF CloseLook, MoveTo, CloserUnchanged
<1>36. ASSUME NEW c \in Closer, CloseMark(c) PROVE LifeInv'
  BY <1>36 DEF CloseMark, MoveTo, CloserUnchanged
<1>37. ASSUME NEW c \in Closer, CloseAwait(c) PROVE LifeInv'
  BY <1>37 DEF CloseAwait, GroupStopped, MoveTo, CloserUnchanged
<1>38. ASSUME NEW c \in Closer, CloseTerminal(c) PROVE LifeInv'
  BY <1>38 DEF CloseTerminal, MoveTo, CloserUnchanged
<1>39. ASSUME NEW c \in Closer, CloseRecord(c) PROVE LifeInv'
  BY <1>39 DEF CloseRecord, MoveTo, CloserUnchanged
<1>40. ASSUME NEW c \in Closer, Stopped(c) PROVE LifeInv'
  BY <1>40 DEF Stopped, GroupStopped, TreeStopped, MoveTo, CloserUnchanged
<1>41. ASSUME NEW c \in Closer, HistoryFreed(c) PROVE LifeInv'
  BY <1>41 DEF HistoryFreed, NativeStopped, GroupStopped, MoveTo, CloserUnchanged
<1>42. ASSUME NEW c \in Closer, Retire(c) PROVE LifeInv'
  BY <1>42 DEF Retire, MoveTo, CloserUnchanged
<1>43. ASSUME NEW c \in Closer, GivesUp(c) PROVE LifeInv'
  BY <1>43 DEF GivesUp, MoveTo, CloserUnchanged
<1>44. CASE UNCHANGED vars
  BY <1>44 DEF vars
<1>45. ASSUME NEW o \in Owner,
             OwnerStep(o) \/ Fails(o) \/ Signalled(o) \/ Unconfirmed(o) \/ OwnerDies(o)
       PROVE LifeInv'
  BY <1>45, <1>7, <1>8, <1>9, <1>10, <1>11, <1>12, <1>13, <1>14, <1>15, <1>16,
     <1>17, <1>18, <1>19, <1>20 DEF OwnerStep
<1>46. CASE GuardStep \/ OutsideStep
  BY <1>46, <1>21, <1>22, <1>23, <1>24, <1>25, <1>26, <1>27,
     <1>28, <1>29, <1>30, <1>32 DEF GuardStep, OutsideStep
<1>47. ASSUME NEW c \in Closer, CloserStep(c) PROVE LifeInv'
  BY <1>47, <1>33, <1>34, <1>35, <1>36, <1>37, <1>38, <1>39,
     <1>40, <1>41, <1>42, <1>43 DEF CloserStep
<1>48. QED
  BY <1>2, <1>3, <1>4, <1>5, <1>6, <1>31, <1>44, <1>45, <1>46, <1>47 DEF LifeStep

LEMMA NextLife == LifeInv /\ [Next]_vars => LifeInv'
BY StepLife, NextIsLifeStep

LEMMA LifeInvariant == Spec => []LifeInv
<1>1. Init => LifeInv
  BY InitLife
<1>2. LifeInv /\ [Next]_vars => LifeInv'
  BY NextLife
<1>3. QED
  BY <1>1, <1>2, PTL DEF Spec

-----------------------------------------------------------------------------
(* What the record promises.                                               *)

\* VerdictHolds: whoever was told that the writer has stopped (check's scopes of group,
\* native and worktree) was told the truth, and it stays true.
THEOREM VerdictSound == Spec => []VerdictHolds
<1>1. LifeInv => VerdictHolds
  BY DEF LifeInv, VerdictBacked, ReceiptTrue, ClaimFirst, Untouched, VerdictHolds, TypeOK, Record
<1>2. QED
  BY <1>1, LifeInvariant, PTL

\* OneLaunch: claim, start and the guard's own look at the record let one native CLI run.
THEOREM LaunchedOnce == Spec => []OneLaunch
<1>1. LifeInv => OneLaunch
  BY DEF LifeInv
<1>2. QED
  BY <1>1, LifeInvariant, PTL

RecordStep ==
    /\ record.revoked => record'.revoked
    /\ record.state = "claimed" =>
          \/ record'.state \in {"claimed", "exited"}
          \/ record'.state = "prepared" /\ record'.revoked
    /\ record.state = "exited" =>
          /\ record'.state = "exited"
          /\ record'.exit = record.exit /\ record'.escape = record.escape

LEMMA RecordSteps == LifeInv /\ [Next]_vars => RecordStep
<1> SUFFICES ASSUME LifeInv, [Next]_vars PROVE RecordStep
  OBVIOUS
<1>1. record \in Record /\ OwnerHolds
  BY DEF LifeInv, TypeOK
<1> USE <1>1 DEF RecordStep, Record
<1>2. CASE UNCHANGED record
  BY <1>2
<1>3. CASE Prepare
  BY <1>3 DEF Prepare, Preparable
<1>4. CASE Bind
  BY <1>4 DEF Bind
<1>5. ASSUME NEW o \in Owner, Claim(o) PROVE RecordStep
  BY <1>5 DEF Claim, Claimable
<1>6. ASSUME NEW o \in Owner, CancelClaim(o) PROVE RecordStep
  BY <1>6 DEF CancelClaim, OwnerHolds
<1>7. ASSUME NEW o \in Owner, Finish(o) PROVE RecordStep
  BY <1>7 DEF Finish, OwnerHolds
<1>8. ASSUME NEW c \in Closer, Revoke(c) PROVE RecordStep
  BY <1>8 DEF Revoke
<1>9. ASSUME NEW c \in Closer, CloseMark(c) PROVE RecordStep
  BY <1>9 DEF CloseMark
<1>10. ASSUME NEW c \in Closer, CloseRecord(c) PROVE RecordStep
  BY <1>10 DEF CloseRecord
<1>11. CASE RecruiterStep
  BY <1>2, <1>3, <1>4, <1>11 DEF RecruiterStep, OpenPane, RecruitFails, Replace
<1>12. ASSUME NEW o \in Owner,
              OwnerStep(o) \/ Fails(o) \/ Signalled(o) \/ Unconfirmed(o) \/ OwnerDies(o)
       PROVE  RecordStep
  BY <1>2, <1>5, <1>6, <1>7, <1>12
  DEF OwnerStep, Spawn, StartFails, Go, Ends, Kill, Reap, Confirm, Fails, Signalled, Unconfirmed,
      OwnerDies, recordVars
<1>13. ASSUME NEW c \in Closer, CloserStep(c) PROVE RecordStep
  BY <1>2, <1>8, <1>9, <1>10, <1>13
  DEF CloserStep, Stop, CloseLook, CloseAwait, CloseTerminal, Stopped, HistoryFreed, Retire,
      GivesUp, recordVars
<1>14. CASE GuardStep \/ (\E m \in Member : Dies(m)) \/ OutsideStep
  <2>1. UNCHANGED record
    BY <1>14
    DEF GuardStep, GuardReady, GuardLaunches, GuardReports, GuardKills, Dies, OutsideStep,
        NativeExits, Forks, StrayExits, EscapedExits, PaneCloses, GuardKilled, Escapes, recordVars
  <2>2. QED
    BY <1>2, <2>1
<1>15. CASE UNCHANGED vars
  BY <1>2, <1>15 DEF vars, recordVars
<1>16. QED
  BY <1>11, <1>12, <1>13, <1>14, <1>15 DEF Next

\* RecordForward: prepare, bind, claim, cancel, finish, revoke and close rewrite one file,
\* and none of them takes back a revocation, a receipt, or a claim without revoking it.
THEOREM RecordOnlyForward == Spec => RecordForward
<1>1. LifeInv /\ [Next]_vars => [RecordStep]_vars
  BY RecordSteps
<1>2. QED
  BY <1>1, LifeInvariant, PTL DEF Spec, RecordForward, RecordStep
=============================================================================
