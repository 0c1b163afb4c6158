------------------------------ MODULE Lifetime ------------------------------
(***************************************************************************)
(* The managed lifetime of one native launch (lifetime.py, execution.stop): *)
(* who may start it, how its process group is stopped, and when the         *)
(* record may say so.                                                       *)
(*                                                                          *)
(* The owner process holds the .owner lock from claim to exit.  It starts a *)
(* guard, the leader of a process group of its own, and the guard starts    *)
(* the native CLI in that group.  A pipe from owner to guard is the guard's *)
(* lifeline, one back carries "ready" and the native exit.  Other commands  *)
(* revoke the launch, close its terminal and ask for a verdict; dismissal,  *)
(* history cleanup and worktree removal act on that verdict alone.          *)
(* The record is rewritten under its .lock, one step each.                  *)
(***************************************************************************)
EXTENDS Naturals

CONSTANTS
    Owner,          \* processes that try to run the launch
    Closer,         \* commands that stop it: dismiss, captain exit, worktree dispose
    Worktree,       \* whether the crew works in a worktree of its own
    None

ASSUME LifetimeAssumption ==
    /\ None \notin Owner
    /\ Worktree \in BOOLEAN

VARIABLES
    record,         \* lifetimes/<incarnation>.json
    roster,         \* the crew's entry: still this incarnation, dismissed, or recruited anew
    pane,           \* the crew's terminal
    owner,          \* holder of the .owner lock
    pc,             \* where each owner process is
    job,            \* its ManagedJob
    guard,          \* how far the guard has got
    lifeline,       \* whether a live owner holds the guard's control pipe
    group,          \* live members of the guard's process group
    killed,         \* whether SIGKILL was sent to the group
    native,         \* the native CLI
    reported,       \* whether the guard reported its exit
    escaped,        \* whether a live descendant has left the group
    closing,        \* where each closer is
    verdicts,       \* the scopes a closer was told are stopped (history)
    launches        \* native CLIs started (history)

recordVars == <<record, roster, pane>>
ownerVars  == <<owner, pc, job>>
groupVars  == <<guard, lifeline, group, killed, native, reported, escaped>>
closeVars  == <<closing, verdicts>>
vars == <<recordVars, ownerVars, groupVars, closeVars, launches>>

Member == {"guard", "native", "stray"}
Escape == {"unverified", "survived", "none"}

Record == [state: {"none", "prepared", "claimed", "exited"}, revoked: BOOLEAN, bound: BOOLEAN,
           close: {"not-requested", "pending", "failed", "closed"},
           exit: BOOLEAN, escape: Escape]

\* failed is _failure, ok the verdict of shutdown, escape what it counted.
Job == [failed: BOOLEAN, ok: BOOLEAN, escape: Escape]
NoJob == [failed |-> FALSE, ok |-> FALSE, escape |-> "unverified"]

TypeOK ==
    /\ record \in Record
    /\ roster \in {"current", "dismissed", "replaced"}
    /\ pane \in {"none", "open", "gone"}
    /\ owner \in Owner \cup {None}
    /\ pc \in [Owner -> {"idle", "claimed", "handshake", "running", "stop", "reap", "absent",
                         "finish", "left"}]
    /\ job \in [Owner -> Job]
    /\ guard \in {"none", "fresh", "ready", "armed", "running", "gone"}
    /\ lifeline \in BOOLEAN
    /\ group \in SUBSET Member
    /\ killed \in BOOLEAN
    /\ native \in {"none", "running", "exited"}
    /\ reported \in BOOLEAN
    /\ escaped \in BOOLEAN
    /\ closing \in [Closer -> {"idle", "revoke", "open", "look", "mark", "await", "identify",
                               "closed", "failed", "check", "retire"}]
    /\ verdicts \in SUBSET {"group", "native", "worktree"}
    /\ launches \in Nat

Init ==
    /\ record = [state |-> "none", revoked |-> FALSE, bound |-> FALSE,
                 close |-> "not-requested", exit |-> FALSE, escape |-> "unverified"]
    /\ roster = "current"
    /\ pane = "none"
    /\ owner = None
    /\ pc = [o \in Owner |-> "idle"]
    /\ job = [o \in Owner |-> NoJob]
    /\ guard = "none"
    /\ lifeline = FALSE
    /\ group = {}
    /\ killed = FALSE
    /\ native = "none"
    /\ reported = FALSE
    /\ escaped = FALSE
    /\ closing = [c \in Closer |-> "idle"]
    /\ verdicts = {}
    /\ launches = 0

-----------------------------------------------------------------------------
(* The recruiter.                                                          *)

\* A recruit holds crew.lock from end to end, and so does a dismissal; worktree dispose
\* does not take it.
RosterFree == Worktree \/ \A c \in Closer : closing[c] = "idle"

PreparableAgain == record.state # "claimed"         \* mutant: prepared over an old record
Preparable == record.state = "none"

\* prepare reserves one launch.
Prepare ==
    /\ Preparable
    /\ roster = "current"
    /\ record' = [record EXCEPT !.state = "prepared"]
    /\ UNCHANGED <<roster, pane, ownerVars, groupVars, closeVars, launches>>

\* Herdr makes the terminal, and bind records it, unless the launch was revoked meanwhile.
OpenPane ==
    /\ record.state # "none"
    /\ pane = "none"
    /\ pane' = "open"
    /\ UNCHANGED <<record, roster, ownerVars, groupVars, closeVars, launches>>

Bind ==
    /\ pane # "none"
    /\ roster = "current"
    /\ ~record.revoked /\ ~record.bound
    /\ record' = [record EXCEPT !.bound = TRUE]
    /\ UNCHANGED <<roster, pane, ownerVars, groupVars, closeVars, launches>>

\* Herdr makes no terminal, or the recruit fails earlier: it retires the crew and leaves the
\* launch as it is.
RecruitFails ==
    /\ record.state \in {"none", "prepared"} /\ pane = "none"
    /\ roster = "current"
    /\ roster' = "dismissed"
    /\ UNCHANGED <<record, pane, ownerVars, groupVars, closeVars, launches>>

\* The name of a dismissed crew is recruited again, as another incarnation.
Replace ==
    /\ roster = "dismissed"
    /\ roster' = "replaced"
    /\ UNCHANGED <<record, pane, ownerVars, groupVars, closeVars, launches>>

-----------------------------------------------------------------------------
(* The owner: claim, ManagedJob.start, shutdown, finish.                   *)

Goto(o, where) == pc' = [pc EXCEPT ![o] = where]

\* The process ends, or leaves claim's context: its lock and its pipe are gone.
Leave(o) ==
    /\ Goto(o, "left")
    /\ owner' = IF owner = o THEN None ELSE owner
    /\ lifeline' = (lifeline /\ owner # o)

ClaimableAgain == record.state # "exited"           \* mutant: a claim can be taken twice
Claimable == record.state = "prepared" /\ ~record.revoked

\* Only the roster's own incarnation, only once, and never a revoked launch.
Claim(o) ==
    /\ pc[o] = "idle"
    /\ owner = None
    /\ roster # "replaced"
    /\ Claimable
    /\ owner' = o
    /\ record' = [record EXCEPT !.state = "claimed"]
    /\ Goto(o, "claimed")
    /\ UNCHANGED <<roster, pane, job, groupVars, closeVars, launches>>

\* start looks at the record once more; the guard then looks again by itself.
Spawn(o) ==
    /\ pc[o] = "claimed"
    /\ ~record.revoked
    /\ guard' = "fresh"
    /\ group' = {"guard"}
    /\ lifeline' = TRUE
    /\ Goto(o, "handshake")
    /\ UNCHANGED <<recordVars, owner, job, killed, native, reported, escaped, closeVars, launches>>

\* Revoked, no terminal, or no guard: the claim is never given back.
StartFails(o) ==
    /\ pc[o] = "claimed"
    /\ Leave(o)
    /\ UNCHANGED <<recordVars, job, guard, group, killed, native, reported, escaped, closeVars,
                   launches>>

\* cancel_before_start: a cancelled launch is withdrawn while its claim is still held.
CancelClaim(o) ==
    /\ pc[o] = "claimed"
    /\ record' = [record EXCEPT !.state = "prepared", !.revoked = TRUE]
    /\ Leave(o)
    /\ UNCHANGED <<roster, pane, job, guard, group, killed, native, reported, escaped, closeVars,
                   launches>>

Go(o) ==
    /\ pc[o] = "handshake"
    /\ guard = "ready"
    /\ guard' = "armed"
    /\ Goto(o, "running")
    /\ UNCHANGED <<recordVars, owner, job, lifeline, group, killed, native, reported, escaped,
                   closeVars, launches>>

\* No "ready" in time, a lost guard, a malformed message: invalidate, then shut down.
Fails(o) ==
    /\ pc[o] \in {"handshake", "running"}
    /\ job' = [job EXCEPT ![o].failed = TRUE]
    /\ Goto(o, "stop")
    /\ UNCHANGED <<recordVars, owner, groupVars, closeVars, launches>>

\* run's loop ends: the native exit is reported, or the launch revoked.
Ends(o) ==
    /\ pc[o] = "running"
    /\ reported \/ record.revoked
    /\ Goto(o, "stop")
    /\ UNCHANGED <<recordVars, owner, job, groupVars, closeVars, launches>>

\* A signal, such as the one of a closing terminal.
Signalled(o) ==
    /\ pc[o] = "running"
    /\ Goto(o, "stop")
    /\ UNCHANGED <<recordVars, owner, job, groupVars, closeVars, launches>>

\* shutdown: TERM, a while for the guard to report the native exit, then KILL.  The
\* unreaped guard pins the group's number.
Kill(o) ==
    /\ pc[o] = "stop"
    /\ killed' = TRUE
    /\ Goto(o, "reap")
    /\ UNCHANGED <<recordVars, owner, job, guard, lifeline, group, native, reported, escaped,
                   closeVars, launches>>

\* The guard is reaped; one that did not die of our KILL may have left others behind.
Reap(o) ==
    /\ pc[o] = "reap"
    /\ "guard" \notin group
    /\ Goto(o, "absent")
    /\ \E early \in BOOLEAN : job' = [job EXCEPT ![o].failed = @ \/ early]
    /\ UNCHANGED <<recordVars, owner, groupVars, closeVars, launches>>

SurvivorsSeen ==                    \* mutant: the other platform's word in the receipt
    {"unverified", IF escaped THEN "observed" ELSE "none"}

\* Orphans reparent to the owner (a subreaper), so it counts who is left, if it can.
Survivors == {"unverified", IF escaped THEN "survived" ELSE "none"}

\* The group is probed until it is gone or the deadline passes.
Confirm(o) ==
    /\ pc[o] = "absent"
    /\ group = {}
    /\ \E left \in Survivors :
          job' = [job EXCEPT ![o].ok = ~job[o].failed, ![o].escape = left]
    /\ Goto(o, "finish")
    /\ UNCHANGED <<recordVars, owner, groupVars, closeVars, launches>>

\* The deadline passes, or a caller invalidates the job after its shutdown.
Unconfirmed(o) ==
    /\ pc[o] \in {"reap", "absent", "finish"}
    /\ job' = [job EXCEPT ![o].failed = TRUE]
    /\ Goto(o, "finish")
    /\ UNCHANGED <<recordVars, owner, groupVars, closeVars, launches>>

Finishable(o) == job[o].ok /\ ~job[o].failed

\* finish writes the receipt, or leaves the record claimed for ever.
Finish(o) ==
    /\ pc[o] = "finish"
    /\ IF Finishable(o)
       THEN record' = [record EXCEPT !.state = "exited", !.exit = reported,
                                     !.escape = job[o].escape]
       ELSE UNCHANGED record
    /\ Leave(o)
    /\ UNCHANGED <<roster, pane, job, guard, group, killed, native, reported, escaped, closeVars,
                   launches>>

OwnerDies(o) ==
    /\ pc[o] \notin {"idle", "left"}
    /\ Leave(o)
    /\ UNCHANGED <<recordVars, job, guard, group, killed, native, reported, escaped, closeVars,
                   launches>>

OwnerStep(o) ==
    \/ Claim(o) \/ Spawn(o) \/ StartFails(o) \/ CancelClaim(o) \/ Go(o) \/ Ends(o)
    \/ Kill(o) \/ Reap(o) \/ Confirm(o) \/ Finish(o)

-----------------------------------------------------------------------------
(* The guard and what runs in its group.                                   *)

GuardUp == "guard" \in group

\* The guard starts only for an active, unrevoked claim, and then waits for GO.
GuardReady ==
    /\ GuardUp /\ guard = "fresh"
    /\ record.state = "claimed" /\ ~record.revoked
    /\ guard' = "ready"
    /\ UNCHANGED <<recordVars, ownerVars, lifeline, group, killed, native, reported, escaped,
                   closeVars, launches>>

GuardLaunches ==
    /\ GuardUp /\ guard = "armed"
    /\ guard' = "running"
    /\ group' = group \cup {"native"}
    /\ native' = "running"
    /\ launches' = launches + 1
    /\ UNCHANGED <<recordVars, ownerVars, lifeline, killed, reported, escaped, closeVars>>

GuardReports ==
    /\ GuardUp /\ guard = "running"
    /\ native = "exited" /\ ~reported
    /\ reported' = TRUE
    /\ UNCHANGED <<recordVars, ownerVars, guard, lifeline, group, killed, native, escaped,
                   closeVars, launches>>

LifelineIgnored == FALSE            \* mutant: the guard outlives its owner
LifelineCut == ~lifeline

\* No claim, a handshake that expired, an escaped native, or the owner gone: the guard
\* kills its group and itself.
GuardKills ==
    /\ GuardUp
    /\ \/ guard \in {"fresh", "ready", "armed"}
       \/ native = "running" /\ "native" \notin group
       \/ LifelineCut
    /\ killed' = TRUE
    /\ UNCHANGED <<recordVars, ownerVars, guard, lifeline, group, native, reported, escaped,
                   closeVars, launches>>

\* A killed member dies in its own time.
Dies(m) ==
    /\ killed
    /\ m \in group
    /\ group' = group \ {m}
    /\ guard' = IF m = "guard" THEN "gone" ELSE guard
    /\ native' = IF m = "native" THEN "exited" ELSE native
    /\ UNCHANGED <<recordVars, ownerVars, lifeline, killed, reported, escaped, closeVars, launches>>

GuardStep == GuardReady \/ GuardLaunches \/ GuardReports \/ (GuardKills /\ ~killed)

\* What the native CLI and its children do.
NativeExits ==
    /\ native = "running"
    /\ native' = "exited"
    /\ group' = group \ {"native"}
    /\ UNCHANGED <<recordVars, ownerVars, guard, lifeline, killed, reported, escaped, closeVars,
                   launches>>

Forks ==
    /\ native = "running" /\ "native" \in group
    /\ group' = group \cup {"stray"}
    /\ UNCHANGED <<recordVars, ownerVars, guard, lifeline, killed, native, reported, escaped,
                   closeVars, launches>>

StrayExits ==
    /\ group' = group \ {"stray"}
    /\ UNCHANGED <<recordVars, ownerVars, guard, lifeline, killed, native, reported, escaped,
                   closeVars, launches>>

\* setsid, by a child or by the native CLI itself.
Escapes(m) ==
    /\ m \in group \ {"guard"}
    /\ group' = group \ {m}
    /\ escaped' = TRUE
    /\ UNCHANGED <<recordVars, ownerVars, guard, lifeline, killed, native, reported, closeVars,
                   launches>>

EscapedExits ==
    /\ escaped
    /\ escaped' = FALSE
    /\ native' = IF native = "running" /\ "native" \notin group THEN "exited" ELSE native
    /\ UNCHANGED <<recordVars, ownerVars, guard, lifeline, group, killed, reported, closeVars,
                   launches>>

\* The user closes the terminal.
PaneCloses ==
    /\ pane = "open"
    /\ pane' = "gone"
    /\ UNCHANGED <<record, roster, ownerVars, groupVars, closeVars, launches>>

\* Somebody kills the guard alone.
GuardKilled ==
    /\ GuardUp
    /\ group' = group \ {"guard"}
    /\ guard' = "gone"
    /\ UNCHANGED <<recordVars, ownerVars, lifeline, killed, native, reported, escaped, closeVars,
                   launches>>

-----------------------------------------------------------------------------
(* execution.stop, close and check.                                        *)

GroupStoppedClaimed ==              \* mutant: a free owner lock is taken for an exit
    /\ owner = None
    /\ record.revoked
    /\ record.state # "none"

\* check: an owner lock that is held is never evidence, nor is a claim nobody holds any
\* more; a launch that is still prepared can only be revoked, not started.
GroupStopped ==
    /\ owner = None
    /\ record.revoked
    /\ record.state \in {"prepared", "exited"}

NativeStopped == GroupStopped /\ (record.state = "exited" => record.exit)

TreeStopped == GroupStopped /\ (record.state = "exited" => record.escape = "none")

ClosureKnown == record.close \in {"not-requested", "closed"}

MoveTo(c, where) == closing' = [closing EXCEPT ![c] = where]

CloserUnchanged == UNCHANGED <<ownerVars, groupVars, launches>>

\* A dismissal is of a crew on the roster, worktree dispose of any.  stop reads whether
\* there is a terminal to close.
Stop(c) ==
    /\ closing[c] = "idle"
    /\ record.state # "none"
    /\ RosterFree
    /\ Worktree \/ roster = "current"
    /\ MoveTo(c, IF record.bound THEN "open" ELSE "revoke")
    /\ UNCHANGED <<recordVars, verdicts>> /\ CloserUnchanged

Revoke(c) ==
    /\ closing[c] \in {"revoke", "open"}
    /\ record' = [record EXCEPT !.revoked = TRUE]
    /\ MoveTo(c, IF closing[c] = "open" THEN "look" ELSE "check")
    /\ UNCHANGED <<roster, pane, verdicts>> /\ CloserUnchanged

\* A close that was confirmed before is not repeated.
CloseLook(c) ==
    /\ closing[c] = "look"
    /\ MoveTo(c, IF record.close = "closed" THEN "check" ELSE "mark")
    /\ UNCHANGED <<recordVars, verdicts>> /\ CloserUnchanged

CloseMark(c) ==
    /\ closing[c] = "mark"
    /\ record' = [record EXCEPT !.close = "pending"]
    /\ MoveTo(c, "await")
    /\ UNCHANGED <<roster, pane, verdicts>> /\ CloserUnchanged

\* The terminal is closed only after the group has stopped, or not at all.
CloseAwait(c) ==
    /\ closing[c] = "await"
    /\ \/ GroupStopped /\ MoveTo(c, "identify") /\ verdicts' = verdicts \cup {"group"}
       \/ MoveTo(c, "failed") /\ UNCHANGED verdicts
    /\ UNCHANGED recordVars /\ CloserUnchanged

\* Roster and Herdr are asked again whose terminal this is; one that is gone needs no close,
\* and a call that timed out may have closed it.
CloseTerminal(c) ==
    /\ closing[c] = "identify"
    /\ \/ roster # "replaced" /\ pane' = "gone" /\ MoveTo(c, "closed")
       \/ pane' \in {pane, "gone"} /\ MoveTo(c, "failed")
    /\ UNCHANGED <<record, roster, verdicts>> /\ CloserUnchanged

CloseRecord(c) ==
    /\ closing[c] \in {"closed", "failed"}
    /\ record' = [record EXCEPT !.close = closing[c]]
    /\ MoveTo(c, "check")
    /\ UNCHANGED <<roster, pane, verdicts>> /\ CloserUnchanged

\* stop's verdict.
Stopped(c) ==
    /\ closing[c] = "check"
    /\ ClosureKnown
    /\ IF Worktree THEN TreeStopped /\ verdicts' = verdicts \cup {"worktree"}
                   ELSE GroupStopped /\ verdicts' = verdicts \cup {"group"}
    /\ MoveTo(c, "retire")
    /\ UNCHANGED recordVars /\ CloserUnchanged

\* A dismissal that got the verdict writes the roster; worktree dispose just ends.
Retire(c) ==
    /\ closing[c] = "retire"
    /\ roster = "current"
    /\ roster' = "dismissed"
    /\ MoveTo(c, "idle")
    /\ UNCHANGED <<record, pane, verdicts>> /\ CloserUnchanged

\* native_history.cleanup asks for the native process alone, whatever the terminal.
HistoryFreed(c) ==
    /\ closing[c] \in {"check", "retire"}
    /\ NativeStopped
    /\ verdicts' = verdicts \cup {"native"}
    /\ UNCHANGED <<recordVars, closing>> /\ CloserUnchanged

\* No verdict, or the command died: cleanup stays pending and may be tried again.
GivesUp(c) ==
    /\ closing[c] # "idle"
    /\ MoveTo(c, "idle")
    /\ UNCHANGED <<recordVars, verdicts>> /\ CloserUnchanged

CloserStep(c) ==
    \/ Stop(c) \/ Revoke(c) \/ CloseLook(c) \/ CloseMark(c) \/ CloseAwait(c)
    \/ CloseTerminal(c) \/ CloseRecord(c) \/ Stopped(c) \/ HistoryFreed(c) \/ Retire(c)
    \/ GivesUp(c)

-----------------------------------------------------------------------------

RecruiterStep == RosterFree /\ (Prepare \/ OpenPane \/ Bind \/ RecruitFails \/ Replace)

OutsideStep ==
    \/ NativeExits \/ Forks \/ StrayExits \/ EscapedExits \/ PaneCloses \/ GuardKilled
    \/ \E m \in Member : Escapes(m)

Next ==
    \/ RecruiterStep
    \/ \E o \in Owner : OwnerStep(o) \/ Fails(o) \/ Signalled(o) \/ Unconfirmed(o) \/ OwnerDies(o)
    \/ GuardStep
    \/ \E m \in Member : Dies(m)
    \/ OutsideStep
    \/ \E c \in Closer : CloserStep(c)

Spec == Init /\ [][Next]_vars

\* The owner's loop and the guard's poll, and SIGKILL takes effect.
FairSpec ==
    /\ Spec
    /\ \A o \in Owner : WF_vars(OwnerStep(o))
    /\ WF_vars(GuardStep)
    /\ \A m \in Member : WF_vars(Dies(m))

-----------------------------------------------------------------------------
(* Properties.                                                             *)

\* Whoever was told that the writer has stopped was told the truth, and for good: its
\* group is empty and nothing is ever started in it again; with the worktree's verdict no
\* descendant is left anywhere, with the history's the native CLI itself is gone.
VerdictHolds ==
    /\ verdicts \cap {"group", "worktree"} # {} => group = {}
    /\ "native" \in verdicts => native # "running"
    /\ "worktree" \in verdicts => ~escaped

\* One launch starts one native CLI, whoever runs its script again, dies or is revoked.
OneLaunch == launches <= 1

\* The record only moves forward (a claim is given back only with a revocation), a
\* revocation is irreversible and a receipt is final, although five kinds of command rewrite the same file.
RecordForward ==
    [][/\ record.revoked => record'.revoked
       /\ record.state = "claimed" =>
             \/ record'.state \in {"claimed", "exited"}
             \/ record'.state = "prepared" /\ record'.revoked
       /\ record.state = "exited" =>
             /\ record'.state = "exited"
             /\ record'.exit = record.exit /\ record'.escape = record.escape]_vars

\* A revoked launch, or one whose owner is gone, leaves no process of its group behind;
\* only somebody who kills the guard alone can prevent that.
GroupEnds ==
    (group # {} /\ (record.revoked \/ ~lifeline)) ~> (group = {} \/ (~GuardUp /\ ~killed))
=============================================================================
