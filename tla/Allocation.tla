----------------------------- MODULE Allocation -----------------------------
(***************************************************************************)
(* Who owns which paths: how recruit, assign and dismiss reserve and free  *)
(* the owned paths of a project's assignments across its sessions          *)
(* (protocol.py: begin, project_assignments, overlaps; agents.py:          *)
(* create_crew, begin_recruitment, dismiss_crew; sessions.py: crew_meta).  *)
(*                                                                         *)
(* Three locks meet here.  allocation.lock is the project's and is held    *)
(* while begin compares the new paths with every assignment on disk.       *)
(* Each session has a protocol.lock over its assignments and a crew.lock   *)
(* over its roster, which recruit and dismiss hold from end to end and     *)
(* assign does not take.  Every command is a process that may die between  *)
(* two writes; the kernel then frees its locks.                            *)
(***************************************************************************)
EXTENDS FiniteSets

CONSTANTS
    Session,        \* the project's sessions
    Name,           \* crew names
    Proc,           \* captain commands under way
    Inc,            \* crew incarnations, one per recruit (uuid4 never repeats)
    Asg,            \* assignment ids (uuid4)
    Path,           \* what a crew may own
    Outside,        \* the absolute ones, outside the checkout: one file from every root
    Within,         \* <<a, b>>: path a is b or lies below it
    Grant,          \* the sets of paths a captain asks for; {} is a read-only crew
    Answerable,     \* whether crews ask questions the captain answers
    None

ASSUME AllocationAssumption ==
    /\ Outside \subseteq Path
    /\ Within \subseteq Path \X Path
    /\ \A x, y \in Path : <<x, y>> \in Within => (x \in Outside <=> y \in Outside)
    /\ Grant \subseteq SUBSET Path
    /\ Answerable \in BOOLEAN
    /\ None \notin Session \cup Name \cup Proc \cup Inc \cup Asg
    /\ None \notin {"crew", "recruit", "dismissal"}

VARIABLES
    roster,         \* session.json's crew entry of each name
    active,         \* protocol.json's "active": the assignment of each name
    asg,            \* every assignment on disk, in whichever session
    prepared,       \* assignments with an answer between deliver's two checkpoints
    alive,          \* incarnations whose native CLI runs
    open,           \* sessions whose Herdr workspace exists
    crewLock,       \* holder of each session's crew.lock
    protLock,       \* holder of each session's protocol.lock
    allocLock,      \* holder of the project's allocation.lock
    pc,             \* where each command is
    cmd             \* what it holds

lockVars == <<crewLock, protLock, allocLock>>
fileVars == <<roster, active, asg, prepared>>
vars == <<fileVars, lockVars, alive, open, pc, cmd>>

NoEntry == [inc |-> None, status |-> "none", worktree |-> FALSE]
Entry == [inc: Inc, status: {"held", "pending", "dismissed"}, worktree: BOOLEAN]

\* root is None for the shared checkout, else the incarnation whose worktree it is; by is
\* who wrote the report.
Assignment == [state: {"none", "working", "done"}, inc: Inc \cup {None},
               root: Inc \cup {None}, paths: SUBSET Path, read: BOOLEAN, acked: BOOLEAN,
               by: {None, "crew", "recruit", "dismissal"}]
NoAssignment == [state |-> "none", inc |-> None, root |-> None, paths |-> {},
                 read |-> FALSE, acked |-> TRUE, by |-> None]
Reserved(inc, root, paths) ==
    [state |-> "working", inc |-> inc, root |-> root, paths |-> paths,
     read |-> FALSE, acked |-> TRUE, by |-> None]

\* The assignment once who has written its report.
Finished(a, who, acked) ==
    [state |-> "done", inc |-> asg[a].inc, root |-> asg[a].root, paths |-> asg[a].paths,
     read |-> asg[a].read, acked |-> acked, by |-> who]

Command == [s: Session, n: Name, inc: Inc, worktree: BOOLEAN, assign: BOOLEAN,
            handoff: Asg \cup {None}, paths: SUBSET Path, release: BOOLEAN]
NoCommand == [s |-> None, n |-> None, inc |-> None, worktree |-> FALSE, assign |-> FALSE,
              handoff |-> None, paths |-> {}, release |-> FALSE]

Recruit(s, n, inc, worktree, handoff, paths) ==
    [s |-> s, n |-> n, inc |-> inc, worktree |-> worktree, assign |-> FALSE,
     handoff |-> handoff, paths |-> paths, release |-> FALSE]
Assign(s, n, inc, handoff, paths) ==
    [s |-> s, n |-> n, inc |-> inc, worktree |-> FALSE, assign |-> TRUE,
     handoff |-> handoff, paths |-> paths, release |-> FALSE]
Dismissal(s, n, inc, worktree, release) ==
    [s |-> s, n |-> n, inc |-> inc, worktree |-> worktree, assign |-> FALSE,
     handoff |-> None, paths |-> {}, release |-> release]

PC == {"idle", "early", "begin", "write", "roster", "launch", "release", "drop",
       "close", "settle", "retire"}

TypeOK ==
    /\ roster \in [Session -> [Name -> Entry \cup {NoEntry}]]
    /\ active \in [Session -> [Name -> Asg \cup {None}]]
    /\ asg \in [Asg -> Assignment]
    /\ prepared \in SUBSET Asg
    /\ alive \in SUBSET Inc
    /\ open \in SUBSET Session
    /\ crewLock \in [Session -> Proc \cup {None}]
    /\ protLock \in [Session -> Proc \cup {None}]
    /\ allocLock \in Proc \cup {None}
    /\ pc \in [Proc -> PC]
    /\ cmd \in [Proc -> Command \cup {NoCommand}]
    /\ \A p \in Proc : pc[p] # "idle" => cmd[p] \in Command

Init ==
    /\ roster = [s \in Session |-> [n \in Name |-> NoEntry]]
    /\ active = [s \in Session |-> [n \in Name |-> None]]
    /\ asg = [a \in Asg |-> NoAssignment]
    /\ prepared = {}
    /\ alive = {}
    /\ open = Session
    /\ crewLock = [s \in Session |-> None]
    /\ protLock = [s \in Session |-> None]
    /\ allocLock = None
    /\ pc = [p \in Proc |-> "idle"]
    /\ cmd = [p \in Proc |-> NoCommand]

-----------------------------------------------------------------------------
(* Reading the files.                                                      *)

Overlaps(x, y) == <<x, y>> \in Within \/ <<y, x>> \in Within

Unfinished(a) == asg[a].state = "working"

\* begin's test of new paths under a root against an assignment of the project.
Conflicts(paths, root, a) ==
    \E x \in paths, y \in asg[a].paths :
        Overlaps(x, y) /\ (x \in Outside \/ asg[a].root = root)

\* Crew.name_reserved, and what protocol_command lets through.
Listed(s, n) == roster[s][n].status \in {"held", "pending"}

NewInc == Inc \ ({roster[s][n].inc : s \in Session, n \in Name}
                 \cup {asg[a].inc : a \in Asg} \cup {cmd[p].inc : p \in Proc})

Goto(p, where) == pc' = [pc EXCEPT ![p] = where]

CrewFreeAlways(s) == TRUE           \* mutant: recruit reads the roster without crew.lock
CrewFree(s) == crewLock[s] = None

AllocFreeAlways == TRUE             \* mutant: only the session's own lock is taken
AllocFree == allocLock = None

ProtFree(s) == protLock[s] = None

\* The end of a command, or its death: every lock it holds is free again.
End(p) ==
    /\ Goto(p, "idle")
    /\ cmd' = [cmd EXCEPT ![p] = NoCommand]
    /\ crewLock' = [s \in Session |-> IF crewLock[s] = p THEN None ELSE crewLock[s]]
    /\ protLock' = [s \in Session |-> IF protLock[s] = p THEN None ELSE protLock[s]]
    /\ allocLock' = IF allocLock = p THEN None ELSE allocLock

\* A command writes the entry of its own crew.
SetEntry(p, status) ==
    roster' = [roster EXCEPT ![cmd[p].s][cmd[p].n] =
                  [inc |-> cmd[p].inc, status |-> status, worktree |-> cmd[p].worktree]]

-----------------------------------------------------------------------------
(* recruit and assign.                                                     *)

\* create_crew: under crew.lock a name nobody holds.  The checkout is the captain's
\* choice or choose_checkout's, whose look at the other assignments nothing holds still;
\* a worktree cannot isolate paths outside the checkout, nor be handed off to.
RecruitStart(p) ==
    \E s \in open, n \in Name, inc \in NewInc, paths \in Grant,
       worktree, handoff \in BOOLEAN :
        /\ pc[p] = "idle"
        /\ CrewFree(s)
        /\ ~Listed(s, n)
        /\ handoff => active[s][n] # None
        /\ worktree => ~handoff /\ paths \cap Outside = {}
        /\ crewLock' = [crewLock EXCEPT ![s] = p]
        /\ cmd' = [cmd EXCEPT ![p] =
              Recruit(s, n, inc, worktree, IF handoff THEN active[s][n] ELSE None, paths)]
        /\ Goto(p, IF worktree THEN "early" ELSE "begin")
        /\ UNCHANGED <<fileVars, protLock, allocLock, alive, open>>

\* assign reads the roster with no lock; begin refuses a handoff to an isolated crew.
AssignStart(p) ==
    \E s \in open, n \in Name, paths \in Grant :
        /\ pc[p] = "idle"
        /\ Listed(s, n)
        /\ ~roster[s][n].worktree
        /\ active[s][n] # None
        /\ cmd' = [cmd EXCEPT ![p] = Assign(s, n, roster[s][n].inc, active[s][n], paths)]
        /\ Goto(p, "begin")
        /\ UNCHANGED <<fileVars, lockVars, alive, open>>

\* An isolated recruit is on the roster before its worktree exists.
RosterEarly(p) ==
    /\ pc[p] = "early"
    /\ SetEntry(p, "held")
    /\ Goto(p, "begin")
    /\ UNCHANGED <<active, asg, prepared, lockVars, alive, open, cmd>>

\* A handoff that names no paths inherits the old assignment's.
Wanted(p) ==
    IF cmd[p].handoff # None /\ cmd[p].paths = {} THEN asg[cmd[p].handoff].paths
    ELSE cmd[p].paths

RootOf(p) == IF cmd[p].worktree THEN cmd[p].inc ELSE None

\* A handoff needs the crew's current assignment done and acknowledged; a running crew
\* also keeps the outside directories it was launched with.  A plain recruit's new
\* incarnation starts fresh whatever its name did before.
MayHandOff(p) ==
    LET old == cmd[p].handoff
    IN  old # None =>
            /\ active[cmd[p].s][cmd[p].n] = old
            /\ asg[old].state = "done" /\ asg[old].acked
            /\ cmd[p].assign => Wanted(p) \cap Outside = asg[old].paths \cap Outside

MayBegin(p) ==
    /\ MayHandOff(p)
    /\ \A a \in Asg : Unfinished(a) => ~Conflicts(Wanted(p), RootOf(p), a)

\* begin takes both locks, reads every session's assignments and decides.
BeginCheck(p) ==
    /\ pc[p] = "begin"
    /\ AllocFree
    /\ ProtFree(cmd[p].s)
    /\ MayBegin(p)
    /\ allocLock' = p
    /\ protLock' = [protLock EXCEPT ![cmd[p].s] = p]
    /\ cmd' = [cmd EXCEPT ![p].paths = Wanted(p)]
    /\ Goto(p, "write")
    /\ UNCHANGED <<fileVars, crewLock, alive, open>>

\* A refused recruit ends; an isolated one, whose worktree may also fail, retires the
\* name it had taken.
BeginRefused(p) ==
    /\ pc[p] = "begin"
    /\ \/ cmd[p].worktree
       \/ AllocFree /\ ProtFree(cmd[p].s) /\ ~MayBegin(p)
    /\ IF cmd[p].worktree
       THEN SetEntry(p, "dismissed")
       ELSE UNCHANGED roster
    /\ End(p)
    /\ UNCHANGED <<active, asg, prepared, alive, open>>

\* The checkpoint writes the assignment and both locks are freed.
BeginWrite(p) ==
    \E a \in Asg :
        /\ pc[p] = "write"
        /\ asg[a].state = "none"
        /\ asg' = [asg EXCEPT ![a] = Reserved(cmd[p].inc, RootOf(p), cmd[p].paths)]
        /\ active' = [active EXCEPT ![cmd[p].s][cmd[p].n] = a]
        /\ IF cmd[p].assign
           THEN End(p)
           ELSE /\ Goto(p, "roster")
                /\ allocLock' = None
                /\ protLock' = [protLock EXCEPT ![cmd[p].s] = None]
                /\ UNCHANGED <<crewLock, cmd>>
        /\ UNCHANGED <<roster, prepared, alive, open>>

RosterHeld(p) ==
    /\ pc[p] = "roster"
    /\ SetEntry(p, "held")
    /\ Goto(p, "launch")
    /\ UNCHANGED <<active, asg, prepared, lockVars, alive, open, cmd>>

\* Anything on the way to a pane fails: no native task was delivered, so ownership is
\* released and the failure kept on the roster.
LaunchFails(p) ==
    /\ pc[p] = "launch"
    /\ Goto(p, "release")
    /\ UNCHANGED <<fileVars, lockVars, alive, open, cmd>>

ReleaseFailed(p) ==
    /\ pc[p] = "release"
    /\ ProtFree(cmd[p].s)
    /\ LET a == active[cmd[p].s][cmd[p].n]
       IN  asg' = [asg EXCEPT ![a] = Finished(a, "recruit", @.acked)]
    /\ Goto(p, "drop")
    /\ UNCHANGED <<roster, active, prepared, lockVars, alive, open, cmd>>

DropRoster(p) ==
    /\ pc[p] = "drop"
    /\ SetEntry(p, "dismissed")
    /\ End(p)
    /\ UNCHANGED <<active, asg, prepared, alive, open>>

\* Herdr makes the pane, the roster keeps it, and the native CLI starts in it or startup
\* needs the user's attention.
Run(p) ==
    /\ pc[p] = "launch"
    /\ cmd[p].s \in open
    /\ \/ alive' = alive \cup {cmd[p].inc}
       \/ UNCHANGED alive
    /\ End(p)
    /\ UNCHANGED <<fileVars, open>>

-----------------------------------------------------------------------------
(* The crew and its captain, while the assignment stands.                  *)

\* The assignment an incarnation may act on.
Current(a) == \E s \in open, n \in Name : active[s][n] = a /\ roster[s][n].inc = asg[a].inc
ProtFreeOf(a) == \A s \in Session : (\E n \in Name : active[s][n] = a) => ProtFree(s)

\* The crew receipts its mail, and reports: only what it has read, and with no answer to
\* its question under way.
ReadMail(a) ==
    /\ Unfinished(a) /\ ~asg[a].read
    /\ Current(a) /\ asg[a].inc \in alive /\ ProtFreeOf(a)
    /\ asg' = [asg EXCEPT ![a].read = TRUE]
    /\ UNCHANGED <<roster, active, prepared, lockVars, alive, open, pc, cmd>>

Report(a) ==
    /\ Unfinished(a) /\ asg[a].read /\ a \notin prepared
    /\ Current(a) /\ asg[a].inc \in alive /\ ProtFreeOf(a)
    /\ asg' = [asg EXCEPT ![a] = Finished(a, "crew", FALSE)]
    /\ UNCHANGED <<roster, active, prepared, lockVars, alive, open, pc, cmd>>

Acknowledge(a) ==
    /\ ~asg[a].acked
    /\ Current(a) /\ ProtFreeOf(a)
    /\ asg' = [asg EXCEPT ![a].acked = TRUE]
    /\ UNCHANGED <<roster, active, prepared, lockVars, alive, open, pc, cmd>>

\* deliver's two checkpoints for the answer to a question: the second puts the assignment
\* back to "working" without looking at its state.
AnswerPrepare(a) ==
    /\ Answerable
    /\ Unfinished(a) /\ a \notin prepared
    /\ \E s \in open, n \in Name : active[s][n] = a /\ Listed(s, n) /\ ProtFree(s)
    /\ asg[a].inc \in alive
    /\ prepared' = prepared \cup {a}
    /\ UNCHANGED <<roster, active, asg, lockVars, alive, open, pc, cmd>>

AnswerCommit(a) ==
    /\ a \in prepared
    /\ ProtFreeOf(a)
    /\ prepared' = prepared \ {a}
    /\ asg' = IF \E s \in Session, n \in Name : active[s][n] = a
              THEN [asg EXCEPT ![a].state = "working"] ELSE asg
    /\ UNCHANGED <<roster, active, lockVars, alive, open, pc, cmd>>

\* Herdr exits, and with it every native CLI of the session.
WorkspaceDies(s) ==
    /\ s \in open
    /\ open' = open \ {s}
    /\ alive' = alive \ {roster[s][n].inc : n \in Name}
    /\ UNCHANGED <<fileVars, lockVars, pc, cmd>>

-----------------------------------------------------------------------------
(* dismiss_crew, under the session's crew.lock.                            *)

\* dismiss_blocker: an assignment nothing reached, or one done and acknowledged; a dead
\* workspace and a retried shutdown need neither.  A crew whose active assignment is not
\* its own incarnation's is refused.
DismissCheck(p) ==
    \E s \in Session, n \in Name :
        LET a == active[s][n]
            forced == s \notin open \/ roster[s][n].status = "pending"
        IN  /\ pc[p] = "idle"
            /\ CrewFree(s) /\ ProtFree(s)
            /\ Listed(s, n)
            /\ a # None /\ asg[a].inc = roster[s][n].inc
            /\ ~asg[a].read \/ forced \/ (asg[a].state = "done" /\ asg[a].acked)
            /\ crewLock' = [crewLock EXCEPT ![s] = p]
            /\ cmd' = [cmd EXCEPT ![p] =
                  Dismissal(s, n, roster[s][n].inc, roster[s][n].worktree,
                            ~asg[a].read \/ forced)]
            /\ Goto(p, "close")
            /\ UNCHANGED <<fileVars, protLock, allocLock, alive, open>>

\* The pane is closed, or the managed writer's exit is confirmed.
DismissClose(p) ==
    /\ pc[p] = "close"
    /\ alive' = alive \ {cmd[p].inc}
    /\ Goto(p, "settle")
    /\ UNCHANGED <<fileVars, lockVars, open, cmd>>

Misnamed == "cleanup"               \* mutant: a status no other command knows
RetiredUnconfirmed == "dismissed"   \* mutant: a shutdown nobody confirmed counts as one

\* The roster's cleanup_pending.
Unconfirmed == "pending"

\* Herdr refuses to close the pane; or a managed writer's exit stays unconfirmed and the
\* roster keeps the evidence for a retry.
CloseFails(p) ==
    /\ pc[p] = "close"
    /\ \/ UNCHANGED roster
       \/ SetEntry(p, Unconfirmed)
    /\ End(p)
    /\ UNCHANGED <<active, asg, prepared, alive, open>>

SettleFirst(p) ==                   \* mutant: released before the shutdown is confirmed
    /\ pc[p] = "close"
    /\ ProtFree(cmd[p].s)
    /\ LET a == active[cmd[p].s][cmd[p].n]
       IN  IF cmd[p].release /\ Unfinished(a)
           THEN asg' = [asg EXCEPT ![a] = Finished(a, "dismissal", @.acked)]
           ELSE UNCHANGED asg
    /\ UNCHANGED <<roster, active, prepared, lockVars, alive, open, pc, cmd>>

\* The assignment active by now is released unless it is done.
DismissSettle(p) ==
    /\ pc[p] = "settle"
    /\ ProtFree(cmd[p].s)
    /\ LET a == active[cmd[p].s][cmd[p].n]
       IN  IF cmd[p].release /\ Unfinished(a)
           THEN asg' = [asg EXCEPT ![a] = Finished(a, "dismissal", @.acked)]
           ELSE UNCHANGED asg
    /\ Goto(p, "retire")
    /\ UNCHANGED <<roster, active, prepared, lockVars, alive, open, cmd>>

DismissRetire(p) ==
    /\ pc[p] = "retire"
    /\ SetEntry(p, "dismissed")
    /\ End(p)
    /\ UNCHANGED <<active, asg, prepared, alive, open>>

\* A command dies where it stands.
Dies(p) ==
    /\ pc[p] # "idle"
    /\ End(p)
    /\ UNCHANGED <<fileVars, alive, open>>

Step(p) ==
    \/ RecruitStart(p) \/ AssignStart(p) \/ RosterEarly(p)
    \/ BeginCheck(p) \/ BeginRefused(p) \/ BeginWrite(p) \/ RosterHeld(p)
    \/ LaunchFails(p) \/ ReleaseFailed(p) \/ DropRoster(p) \/ Run(p)
    \/ DismissCheck(p) \/ DismissClose(p) \/ CloseFails(p) \/ DismissSettle(p)
    \/ DismissRetire(p)
    \/ Dies(p)

Next ==
    \/ \E p \in Proc : Step(p)
    \/ \E a \in Asg : \/ ReadMail(a) \/ Report(a) \/ Acknowledge(a)
                      \/ AnswerPrepare(a) \/ AnswerCommit(a)
    \/ \E s \in Session : WorkspaceDies(s)

Spec == Init /\ [][Next]_vars

-----------------------------------------------------------------------------
(* Properties.                                                             *)

\* "Overlapping active ownership is refused": no two unfinished assignments of the project
\* own one file under one root, whichever sessions and commands reserved them.  The one
\* way round begin's test is an answer that reopens an assignment already released.
PathsDisjoint ==
    \A a, b \in Asg :
        a # b /\ Unfinished(a) /\ Unfinished(b) /\ Conflicts(asg[a].paths, asg[a].root, b)
            => {asg[a].by, asg[b].by} # {None}

\* Paths freed without the crew's own report have no writer left: the native CLI never
\* started or is confirmed gone, also when the assignment is reopened after that.
FreedIsStopped ==
    \A a \in Asg : asg[a].by \in {"recruit", "dismissal"} => asg[a].inc \notin alive

\* A running native CLI is never lost: its incarnation is on a roster, undismissed, and
\* its unfinished assignment, at most one, is the one its name is active on.
LivingIsListed ==
    \A inc \in alive : \E s \in Session, n \in Name :
        /\ roster[s][n].inc = inc /\ Listed(s, n)
        /\ \A a \in Asg : Unfinished(a) /\ asg[a].inc = inc => active[s][n] = a

\* A name in use keeps its incarnation until it is dismissed, whoever recruits meanwhile.
NameKept ==
    [][\A s \in Session, n \in Name : Listed(s, n) => roster'[s][n].inc = roster[s][n].inc]_vars

(* What the documentation says, and the code does not do.                  *)

\* docs/crew-lifecycle.md, dismissing: "Protocol crew must first finish with a report and
\* have all notifications acknowledged".
DismissedReported ==
    \A s \in Session, n \in Name, a \in Asg :
        roster[s][n].status = "dismissed" /\ active[s][n] = a /\ asg[a].inc = roster[s][n].inc
            => ~(Unfinished(a) /\ asg[a].read)
=============================================================================
