-------------------------- MODULE AllocationProofs --------------------------
(***************************************************************************)
(* Proofs about Allocation, for any number of sessions, names, commands,   *)
(* assignments and paths: its types, and that begin keeps the owned paths  *)
(* of unfinished assignments apart.                                        *)
(***************************************************************************)
EXTENDS Allocation, TLAPS

\* An unfinished assignment nobody has released: what begin's test must see.
Standing(a) == Unfinished(a) /\ asg[a].by = None

\* Only the holder of allocation.lock is between begin's test and its write.
OneWriter == \A p \in Proc : pc[p] = "write" => allocLock = p

\* What begin's test found still holds when it writes.
WriteClear ==
    \A p \in Proc, a \in Asg :
        pc[p] = "write" /\ Standing(a) => ~Conflicts(cmd[p].paths, RootOf(p), a)

\* An answer under way reopens nothing but what a release had closed.
AnswerOpen == \A a \in prepared : asg[a].by = None => Unfinished(a)

DisjointInv == TypeOK /\ OneWriter /\ WriteClear /\ AnswerOpen /\ PathsDisjoint

-----------------------------------------------------------------------------
(* Types.                                                                  *)

\* The records assignments start from are typed.
LEMMA RecordTypes ==
    /\ NoAssignment \in Assignment
    /\ \A inc \in Inc, root \in Inc \cup {None}, paths \in SUBSET Path :
          Reserved(inc, root, paths) \in Assignment
    BY DEF NoAssignment, Assignment, Reserved

LEMMA InitTyped == Init => TypeOK
    BY RecordTypes DEF Init, TypeOK, PC

\* A command that ends leaves every command and lock typed.
LEMMA EndTyped ==
    ASSUME TypeOK, NEW p \in Proc, End(p)
    PROVE  /\ crewLock' \in [Session -> Proc \cup {None}]
           /\ protLock' \in [Session -> Proc \cup {None}]
           /\ allocLock' \in Proc \cup {None}
           /\ pc' \in [Proc -> PC]
           /\ cmd' \in [Proc -> Command \cup {NoCommand}]
           /\ \A q \in Proc : pc'[q] # "idle" => cmd'[q] \in Command
    BY DEF TypeOK, End, Goto, PC

\* What TypeOK says of a command past its first step.
LEMMA CommandTyped ==
    ASSUME TypeOK, NEW p \in Proc, pc[p] # "idle"
    PROVE  /\ cmd[p] \in Command
           /\ cmd[p].s \in Session /\ cmd[p].n \in Name /\ cmd[p].inc \in Inc
           /\ cmd[p].worktree \in BOOLEAN
           /\ cmd[p].handoff \in Asg \cup {None}
           /\ cmd[p].paths \in SUBSET Path
           /\ active[cmd[p].s][cmd[p].n] \in Asg \cup {None}
    BY DEF TypeOK, Command

\* Writing the entry of a command's own crew keeps the roster typed.
LEMMA OwnEntryTyped ==
    ASSUME TypeOK, NEW p \in Proc, pc[p] # "idle",
           NEW status \in {"held", "pending", "dismissed"},
           SetEntry(p, status)
    PROVE  roster' \in [Session -> [Name -> Entry \cup {NoEntry}]]
<1>1. /\ cmd[p].s \in Session /\ cmd[p].n \in Name /\ cmd[p].inc \in Inc
      /\ cmd[p].worktree \in BOOLEAN
    BY CommandTyped
<1> DEFINE entry == [inc |-> cmd[p].inc, status |-> status, worktree |-> cmd[p].worktree]
<1>2. entry \in Entry
    BY <1>1 DEF Entry
<1>3. roster' = [roster EXCEPT ![cmd[p].s][cmd[p].n] = entry]
    BY DEF SetEntry
<1> HIDE DEF entry
<1>4. [roster[cmd[p].s] EXCEPT ![cmd[p].n] = entry] \in [Name -> Entry \cup {NoEntry}]
    BY <1>1, <1>2 DEF TypeOK
<1> QED
    BY <1>1, <1>3, <1>4 DEF TypeOK

\* The first step of a command keeps the types.
LEMMA StartTyped ==
    ASSUME TypeOK, NEW p \in Proc,
           RecruitStart(p) \/ AssignStart(p) \/ DismissCheck(p)
    PROVE  TypeOK'
<1> USE DEF PC, Goto
<1>0. \A s \in Session, n \in Name :
         /\ Listed(s, n) => roster[s][n].inc \in Inc /\ roster[s][n].worktree \in BOOLEAN
         /\ active[s][n] \in Asg \cup {None}
    BY DEF TypeOK, Entry, NoEntry, Listed
<1>1. CASE RecruitStart(p)
    <2>1. PICK s \in open, n \in Name, inc \in NewInc, paths \in Grant,
               worktree, handoff \in BOOLEAN :
            RecruitStart(p)!(s, n, inc, paths, worktree, handoff)
        BY <1>1 DEF RecruitStart
    <2> DEFINE old == IF handoff THEN active[s][n] ELSE None
    <2>2. old \in Asg \cup {None}
        BY <1>0, <2>1 DEF TypeOK
    <2>3. Recruit(s, n, inc, worktree, old, paths) \in Command
        BY <2>1, <2>2, AllocationAssumption DEF Recruit, Command, NewInc, TypeOK
    <2> HIDE DEF old
    <2>4. cmd' = [cmd EXCEPT ![p] = Recruit(s, n, inc, worktree, old, paths)]
        BY <2>1 DEF old
    <2> QED
        BY <2>1, <2>3, <2>4 DEF fileVars, TypeOK
<1>2. CASE AssignStart(p)
    <2>1. PICK s \in open, n \in Name, paths \in Grant :
            /\ Listed(s, n)
            /\ cmd' = [cmd EXCEPT ![p] = Assign(s, n, roster[s][n].inc, active[s][n], paths)]
            /\ Goto(p, "begin")
            /\ UNCHANGED <<fileVars, lockVars, alive, open>>
        BY <1>2 DEF AssignStart
    <2>2. Assign(s, n, roster[s][n].inc, active[s][n], paths) \in Command
        BY <1>0, <2>1, AllocationAssumption DEF Assign, Command, TypeOK
    <2> QED
        BY <2>1, <2>2 DEF fileVars, lockVars, TypeOK
<1>3. CASE DismissCheck(p)
    <2>1. PICK s \in Session, n \in Name, release \in BOOLEAN :
            /\ Listed(s, n)
            /\ crewLock' = [crewLock EXCEPT ![s] = p]
            /\ cmd' = [cmd EXCEPT ![p] =
                 Dismissal(s, n, roster[s][n].inc, roster[s][n].worktree, release)]
            /\ Goto(p, "close")
            /\ UNCHANGED <<fileVars, protLock, allocLock, alive, open>>
        BY <1>3 DEF DismissCheck
    <2>2. Dismissal(s, n, roster[s][n].inc, roster[s][n].worktree, release) \in Command
        BY <1>0, <2>1 DEF Dismissal, Command
    <2> QED
        BY <2>1, <2>2 DEF fileVars, TypeOK
<1> QED
    BY <1>1, <1>2, <1>3

\* What each write to an assignment makes of it, and that it stays one.
LEMMA AssignmentTyped ==
    ASSUME asg \in [Asg -> Assignment], NEW a \in Asg
    PROVE  /\ [asg EXCEPT ![a].read = TRUE] \in [Asg -> Assignment]
           /\ [asg EXCEPT ![a].acked = TRUE] \in [Asg -> Assignment]
           /\ [asg EXCEPT ![a].state = "working"] \in [Asg -> Assignment]
           /\ Finished(a, "crew", FALSE) \in Assignment
           /\ \A who \in {"recruit", "dismissal"} :
                 Finished(a, who, asg[a].acked) \in Assignment
<1>1. [asg EXCEPT ![a].read = TRUE] \in [Asg -> Assignment]
    BY DEF Assignment
<1>2. [asg EXCEPT ![a].acked = TRUE] \in [Asg -> Assignment]
    BY DEF Assignment
<1>3. [asg EXCEPT ![a].state = "working"] \in [Asg -> Assignment]
    BY DEF Assignment
<1>4. Finished(a, "crew", FALSE) \in Assignment
    BY DEF Assignment, Finished
<1>5. ASSUME NEW who \in {"recruit", "dismissal"}
      PROVE  Finished(a, who, asg[a].acked) \in Assignment
    BY DEF Assignment, Finished
<1> QED
    BY <1>1, <1>2, <1>3, <1>4, <1>5

\* A step that writes the roster, or ends or moves a command, keeps the types.
LEMMA RosterStepTyped ==
    ASSUME TypeOK, NEW p \in Proc,
           \/ RosterEarly(p) \/ BeginRefused(p) \/ RosterHeld(p) \/ DropRoster(p)
           \/ CloseFails(p) \/ DismissRetire(p) \/ LaunchFails(p) \/ Dies(p)
    PROVE  TypeOK'
<1>1. CASE RosterEarly(p)
    <2>1. roster' \in [Session -> [Name -> Entry \cup {NoEntry}]]
        BY <1>1, OwnEntryTyped DEF RosterEarly
    <2> QED
        BY <1>1, <2>1 DEF RosterEarly, TypeOK, lockVars, Goto, PC
<1>2. CASE BeginRefused(p)
    <2>1. roster' \in [Session -> [Name -> Entry \cup {NoEntry}]]
        BY <1>2, OwnEntryTyped DEF BeginRefused, TypeOK
    <2> QED
        BY <1>2, <2>1, EndTyped DEF BeginRefused, TypeOK
<1>3. CASE RosterHeld(p)
    <2>1. roster' \in [Session -> [Name -> Entry \cup {NoEntry}]]
        BY <1>3, OwnEntryTyped DEF RosterHeld
    <2> QED
        BY <1>3, <2>1 DEF RosterHeld, TypeOK, lockVars, Goto, PC
<1>4. CASE DropRoster(p)
    <2>1. roster' \in [Session -> [Name -> Entry \cup {NoEntry}]]
        BY <1>4, OwnEntryTyped DEF DropRoster
    <2> QED
        BY <1>4, <2>1, EndTyped DEF DropRoster, TypeOK
<1>5. CASE CloseFails(p)
    <2>1. roster' \in [Session -> [Name -> Entry \cup {NoEntry}]]
        BY <1>5, OwnEntryTyped DEF CloseFails, Unconfirmed, TypeOK
    <2> QED
        BY <1>5, <2>1, EndTyped DEF CloseFails, TypeOK
<1>6. CASE DismissRetire(p)
    <2>1. roster' \in [Session -> [Name -> Entry \cup {NoEntry}]]
        BY <1>6, OwnEntryTyped DEF DismissRetire
    <2> QED
        BY <1>6, <2>1, EndTyped DEF DismissRetire, TypeOK
<1>7. CASE LaunchFails(p)
    BY <1>7 DEF LaunchFails, TypeOK, fileVars, lockVars, Goto, PC
<1>8. CASE Dies(p)
    BY <1>8, EndTyped DEF Dies, TypeOK, fileVars
<1> QED
    BY <1>1, <1>2, <1>3, <1>4, <1>5, <1>6, <1>7, <1>8

\* A step that writes an assignment keeps the types.
LEMMA AssignmentStepTyped ==
    ASSUME TypeOK
    PROVE  /\ \A p \in Proc : ReleaseFailed(p) \/ DismissSettle(p) => TypeOK'
           /\ \A a \in Asg :
                 (\/ ReadMail(a) \/ Report(a) \/ Acknowledge(a)
                  \/ AnswerPrepare(a) \/ AnswerCommit(a)) => TypeOK'
<1>1. ASSUME NEW p \in Proc, ReleaseFailed(p) PROVE TypeOK'
    <2> DEFINE a == active[cmd[p].s][cmd[p].n]
    <2>1. asg' = [asg EXCEPT ![a] = Finished(a, "recruit", asg[a].acked)]
        BY <1>1 DEF ReleaseFailed
    <2>2. a \in Asg => Finished(a, "recruit", asg[a].acked) \in Assignment
        BY AssignmentTyped DEF TypeOK
    <2> HIDE DEF a
    <2>3. asg' \in [Asg -> Assignment]
        BY <2>1, <2>2 DEF TypeOK
    <2> QED
        BY <1>1, <2>3 DEF ReleaseFailed, TypeOK, lockVars, Goto, PC
<1>2. ASSUME NEW p \in Proc, DismissSettle(p) PROVE TypeOK'
    <2> DEFINE a == active[cmd[p].s][cmd[p].n]
    <2>1. \/ asg' = [asg EXCEPT ![a] = Finished(a, "dismissal", asg[a].acked)]
          \/ asg' = asg
        BY <1>2 DEF DismissSettle
    <2>2. a \in Asg => Finished(a, "dismissal", asg[a].acked) \in Assignment
        BY AssignmentTyped DEF TypeOK
    <2> HIDE DEF a
    <2>3. asg' \in [Asg -> Assignment]
        BY <2>1, <2>2 DEF TypeOK
    <2> QED
        BY <1>2, <2>3 DEF DismissSettle, TypeOK, lockVars, Goto, PC
<1>3. ASSUME NEW a \in Asg,
             \/ ReadMail(a) \/ Report(a) \/ Acknowledge(a)
             \/ AnswerPrepare(a) \/ AnswerCommit(a)
      PROVE  TypeOK'
    <2>1. CASE ReadMail(a)
        BY <2>1, AssignmentTyped DEF ReadMail, TypeOK, lockVars
    <2>2. CASE Report(a)
        <3>1. asg' \in [Asg -> Assignment]
            BY <2>2, AssignmentTyped DEF Report, TypeOK
        <3> QED
            BY <2>2, <3>1 DEF Report, TypeOK, lockVars
    <2>3. CASE Acknowledge(a)
        BY <2>3, AssignmentTyped DEF Acknowledge, TypeOK, lockVars
    <2>4. CASE AnswerPrepare(a)
        BY <2>4 DEF AnswerPrepare, TypeOK, lockVars
    <2>5. CASE AnswerCommit(a)
        <3>1. asg' \in [Asg -> Assignment]
            BY <2>5, AssignmentTyped DEF AnswerCommit, TypeOK
        <3> QED
            BY <2>5, <3>1 DEF AnswerCommit, TypeOK, lockVars
    <2> QED
        BY <1>3, <2>1, <2>2, <2>3, <2>4, <2>5
<1> QED
    BY <1>1, <1>2, <1>3

\* The rest of recruit and dismiss, and the workspace's death, keep the types.
LEMMA OtherStepTyped ==
    ASSUME TypeOK
    PROVE  /\ \A p \in Proc : BeginCheck(p) \/ BeginWrite(p) \/ Run(p) \/ DismissClose(p) => TypeOK'
           /\ \A s \in Session : WorkspaceDies(s) => TypeOK'
<1>1. ASSUME NEW p \in Proc, BeginCheck(p) PROVE TypeOK'
    <2>1. cmd[p] \in Command /\ Wanted(p) \in SUBSET Path
        BY <1>1, CommandTyped DEF BeginCheck, Wanted, TypeOK, Command, Assignment
    <2>2. [cmd[p] EXCEPT !.paths = Wanted(p)] \in Command
        BY <2>1 DEF Command
    <2>3. cmd' = [cmd EXCEPT ![p] = [cmd[p] EXCEPT !.paths = Wanted(p)]]
        BY <1>1 DEF BeginCheck
    <2> QED
        BY <1>1, <2>2, <2>3 DEF BeginCheck, TypeOK, fileVars, Goto, PC
<1>2. ASSUME NEW p \in Proc, BeginWrite(p) PROVE TypeOK'
    <2>1. PICK a \in Asg : BeginWrite(p)!(a)
        BY <1>2 DEF BeginWrite
    <2>2. /\ cmd[p].s \in Session /\ cmd[p].n \in Name
          /\ Reserved(cmd[p].inc, RootOf(p), cmd[p].paths) \in Assignment
        BY <2>1, CommandTyped, RecordTypes DEF RootOf
    <2>3. asg' \in [Asg -> Assignment]
        BY <2>1, <2>2 DEF TypeOK
    <2>4. [active[cmd[p].s] EXCEPT ![cmd[p].n] = a] \in [Name -> Asg \cup {None}]
        BY <2>2 DEF TypeOK
    <2>5. active' \in [Session -> [Name -> Asg \cup {None}]]
        BY <2>1, <2>2, <2>4 DEF TypeOK
    <2>6. CASE cmd[p].assign
        BY <2>1, <2>3, <2>5, <2>6, EndTyped DEF TypeOK
    <2>7. CASE ~cmd[p].assign
        BY <2>1, <2>2, <2>3, <2>5, <2>7 DEF TypeOK, Goto, PC
    <2> QED
        BY <2>6, <2>7
<1>3. ASSUME NEW p \in Proc, Run(p) PROVE TypeOK'
    <2>1. cmd[p].inc \in Inc
        BY <1>3, CommandTyped DEF Run
    <2> QED
        BY <1>3, <2>1, EndTyped DEF Run, TypeOK, fileVars
<1>4. ASSUME NEW p \in Proc, DismissClose(p) PROVE TypeOK'
    BY <1>4 DEF DismissClose, TypeOK, fileVars, lockVars, Goto, PC
<1>5. ASSUME NEW s \in Session, WorkspaceDies(s) PROVE TypeOK'
    BY <1>5 DEF WorkspaceDies, TypeOK, fileVars, lockVars
<1> QED
    BY <1>1, <1>2, <1>3, <1>4, <1>5

\* Every value every variable can hold in a reachable state, the entries, commands and
\* assignments on disk among them, is one its type allows.
THEOREM TypeCorrect == Spec => []TypeOK
<1>1. TypeOK /\ [Next]_vars => TypeOK'
    <2> SUFFICES ASSUME TypeOK, [Next]_vars PROVE TypeOK'
        OBVIOUS
    <2>1. ASSUME NEW p \in Proc, Step(p) PROVE TypeOK'
        BY <2>1, StartTyped, RosterStepTyped, AssignmentStepTyped, OtherStepTyped DEF Step
    <2>2. ASSUME NEW a \in Asg,
                 \/ ReadMail(a) \/ Report(a) \/ Acknowledge(a)
                 \/ AnswerPrepare(a) \/ AnswerCommit(a)
          PROVE  TypeOK'
        BY <2>2, AssignmentStepTyped
    <2>3. ASSUME NEW s \in Session, WorkspaceDies(s) PROVE TypeOK'
        BY <2>3, OtherStepTyped
    <2>4. CASE UNCHANGED vars
        BY <2>4 DEF vars, fileVars, lockVars, TypeOK, PC
    <2> QED
        BY <2>1, <2>2, <2>3, <2>4 DEF Next
<1> QED
    BY InitTyped, <1>1, PTL DEF Spec

-----------------------------------------------------------------------------
(* Disjoint paths.  A step other than begin's write only ever takes        *)
(* assignments out of those that stand, and moves no path or root.         *)

Claims ==
    \A a \in Asg :
        /\ asg'[a].paths = asg[a].paths /\ asg'[a].root = asg[a].root
        /\ Standing(a)' => Standing(a)
        /\ asg'[a].by = None => asg[a].by = None /\ (Unfinished(a) => Unfinished(a)')

\* A report, the crew's or a release's, is the end of an assignment's standing.
LEMMA FinishedClaims ==
    ASSUME TypeOK, NEW b, NEW who \in {"crew", "recruit", "dismissal"}, NEW acked,
           asg' = [asg EXCEPT ![b] = Finished(b, who, acked)]
    PROVE  Claims
    BY AllocationAssumption DEF TypeOK, Claims, Standing, Unfinished, Finished

\* Every step but begin's write keeps the claims.
LEMMA StepClaims ==
    ASSUME TypeOK, AnswerOpen, [Next]_vars, \A p \in Proc : ~BeginWrite(p)
    PROVE  Claims
<1>1. CASE asg' = asg
    BY <1>1 DEF Claims, Standing, Unfinished
<1>2. ASSUME NEW p \in Proc, ReleaseFailed(p) PROVE Claims
    <2>1. PICK b : asg' = [asg EXCEPT ![b] = Finished(b, "recruit", asg[b].acked)]
        BY <1>2 DEF ReleaseFailed
    <2> QED
        BY <2>1, FinishedClaims
<1>3. ASSUME NEW p \in Proc, DismissSettle(p), asg' # asg PROVE Claims
    <2>1. PICK b : asg' = [asg EXCEPT ![b] = Finished(b, "dismissal", asg[b].acked)]
        BY <1>3 DEF DismissSettle
    <2> QED
        BY <2>1, FinishedClaims
<1>4. ASSUME NEW a \in Asg, Report(a) PROVE Claims
    BY <1>4, FinishedClaims DEF Report
<1>5. ASSUME NEW a \in Asg, ReadMail(a) \/ Acknowledge(a) PROVE Claims
    <2>1. CASE asg' = [asg EXCEPT ![a].read = TRUE]
        BY <2>1 DEF TypeOK, Assignment, Claims, Standing, Unfinished
    <2>2. CASE asg' = [asg EXCEPT ![a].acked = TRUE]
        BY <2>2 DEF TypeOK, Assignment, Claims, Standing, Unfinished
    <2> QED
        BY <1>5, <2>1, <2>2 DEF ReadMail, Acknowledge
<1>6. ASSUME NEW a \in Asg, AnswerCommit(a), asg' # asg PROVE Claims
    <2>1. asg' = [asg EXCEPT ![a].state = "working"]
        BY <1>6 DEF AnswerCommit
    <2>2. asg[a].by = None => Unfinished(a)
        BY <1>6 DEF AnswerCommit, AnswerOpen
    <2> QED
        BY <2>1, <2>2 DEF TypeOK, Assignment, Claims, Standing, Unfinished
<1>7. ASSUME NEW p \in Proc, Step(p), ~ReleaseFailed(p), ~DismissSettle(p) PROVE asg' = asg
    BY <1>7 DEF Step, RecruitStart, AssignStart, RosterEarly, BeginCheck, BeginRefused,
                RosterHeld, LaunchFails, DropRoster, Run, DismissCheck, DismissClose,
                CloseFails, DismissRetire, Dies, fileVars
<1>8. ASSUME NEW a \in Asg, AnswerPrepare(a) PROVE asg' = asg
    BY <1>8 DEF AnswerPrepare
<1>9. ASSUME NEW s \in Session, WorkspaceDies(s) PROVE asg' = asg
    BY <1>9 DEF WorkspaceDies, fileVars
<1>10. UNCHANGED vars => asg' = asg
    BY DEF vars, fileVars
<1> QED
    BY <1>1, <1>2, <1>3, <1>4, <1>5, <1>6, <1>7, <1>8, <1>9, <1>10 DEF Next

\* PathsDisjoint, said of the assignments that stand.
LEMMA DisjointStanding ==
    PathsDisjoint <=>
        \A a, b \in Asg : a # b /\ Standing(a) /\ Standing(b)
                            => ~Conflicts(asg[a].paths, asg[a].root, b)
    BY DEF PathsDisjoint, Standing

\* allocation.lock has one holder at a time.
LEMMA OneWriterKept ==
    ASSUME TypeOK, OneWriter, [Next]_vars
    PROVE  OneWriter'
<1>1. ASSUME NEW p \in Proc, End(p) PROVE OneWriter'
    BY <1>1 DEF End, Goto, OneWriter, TypeOK
<1>2. ASSUME NEW p \in Proc, BeginCheck(p) PROVE OneWriter'
    BY <1>2, AllocationAssumption DEF BeginCheck, AllocFree, Goto, OneWriter, TypeOK
<1>3. ASSUME NEW p \in Proc, BeginWrite(p) PROVE OneWriter'
    <2>1. \/ End(p)
          \/ pc' = [pc EXCEPT ![p] = "roster"] /\ pc[p] = "write" /\ allocLock' = None
        BY <1>3 DEF BeginWrite, Goto
    <2>2. CASE pc' = [pc EXCEPT ![p] = "roster"] /\ pc[p] = "write" /\ allocLock' = None
        BY <2>2 DEF OneWriter, TypeOK
    <2> QED
        BY <1>1, <2>1, <2>2
<1>4. ASSUME NEW p \in Proc,
             pc' = pc \/ \E where \in PC \ {"write"} : Goto(p, where),
             allocLock' = allocLock
      PROVE  OneWriter'
    BY <1>4 DEF Goto, OneWriter, TypeOK
<1>5. ASSUME NEW p \in Proc, Step(p), ~BeginCheck(p), ~BeginWrite(p), ~End(p)
      PROVE  /\ \E where \in PC \ {"write"} : Goto(p, where)
             /\ allocLock' = allocLock
    BY <1>5 DEF Step, RecruitStart, AssignStart, RosterEarly, BeginRefused,
                RosterHeld, LaunchFails, ReleaseFailed, DropRoster, Run, DismissCheck,
                DismissClose, CloseFails, DismissSettle, DismissRetire, Dies, fileVars,
                lockVars, PC
<1>6. ASSUME NEW p \in Proc, Step(p) PROVE OneWriter'
    BY <1>1, <1>2, <1>3, <1>4, <1>5, <1>6
<1>7. ASSUME ~\E p \in Proc : Step(p) PROVE OneWriter'
    <2>1. pc' = pc /\ allocLock' = allocLock
        BY <1>7 DEF Next, ReadMail, Report, Acknowledge, AnswerPrepare, AnswerCommit,
                    WorkspaceDies, lockVars, vars
    <2> QED
        BY <2>1 DEF OneWriter
<1> QED
    BY <1>6, <1>7

\* A step that keeps the claims keeps the paths disjoint.
LEMMA ClaimsKeepDisjoint ==
    ASSUME PathsDisjoint, Claims
    PROVE  PathsDisjoint'
<1>1. \A a, b \in Asg : Conflicts(asg[a].paths, asg[a].root, b)'
                         => Conflicts(asg[a].paths, asg[a].root, b)
    BY DEF Claims, Conflicts
<1>2. \A a \in Asg : Standing(a)' => Standing(a)
    BY DEF Claims
<1> QED
    BY <1>1, <1>2 DEF PathsDisjoint, Standing

\* Overlap is symmetric and does not mix inside and outside paths.
LEMMA OverlapSymmetric ==
    ASSUME NEW x \in Path, NEW y \in Path, Overlaps(x, y)
    PROVE  Overlaps(y, x) /\ (x \in Outside <=> y \in Outside)
    BY AllocationAssumption DEF Overlaps

\* A command's step moves that command alone, and only begin's test brings it to its write.
LEMMA StepOwn ==
    ASSUME TypeOK, NEW q \in Proc, Step(q)
    PROVE  /\ \A r \in Proc \ {q} : pc'[r] = pc[r] /\ cmd'[r] = cmd[r]
           /\ pc'[q] = "write" => BeginCheck(q)
<1>1. CASE End(q)
    BY <1>1 DEF End, Goto, TypeOK
<1>2. CASE RecruitStart(q)
    BY <1>2 DEF RecruitStart, Goto, TypeOK
<1>3. CASE AssignStart(q)
    BY <1>3 DEF AssignStart, Goto, TypeOK
<1>4. CASE DismissCheck(q)
    BY <1>4 DEF DismissCheck, Goto, TypeOK
<1>5. CASE BeginCheck(q)
    BY <1>5 DEF BeginCheck, Goto, TypeOK
<1>6. ASSUME Step(q), ~End(q), ~RecruitStart(q), ~AssignStart(q), ~DismissCheck(q),
             ~BeginCheck(q)
      PROVE  cmd' = cmd /\ \E where \in PC \ {"write"} : Goto(q, where)
    BY <1>6 DEF Step, RosterEarly, BeginRefused, BeginWrite, RosterHeld, LaunchFails,
                ReleaseFailed, DropRoster, Run, DismissClose, CloseFails, DismissSettle,
                DismissRetire, Dies, PC
<1>7. ASSUME cmd' = cmd, NEW where \in PC \ {"write"}, Goto(q, where)
      PROVE  /\ \A r \in Proc \ {q} : pc'[r] = pc[r] /\ cmd'[r] = cmd[r]
             /\ pc'[q] # "write"
    BY <1>7 DEF Goto, TypeOK
<1> QED
    BY <1>1, <1>2, <1>3, <1>4, <1>5, <1>6, <1>7

\* What begin tested is still clear of every standing assignment when it writes.
LEMMA WriteClearKept ==
    ASSUME TypeOK, OneWriter, WriteClear, AnswerOpen, [Next]_vars
    PROVE  WriteClear'
<1> SUFFICES ASSUME NEW p \in Proc, NEW a \in Asg, pc'[p] = "write", Standing(a)'
             PROVE  ~Conflicts(cmd[p].paths, RootOf(p), a)'
    BY DEF WriteClear
<1>1. CASE BeginCheck(p)
    <2>1. /\ asg' = asg
          /\ cmd' = [cmd EXCEPT ![p] = [cmd[p] EXCEPT !.paths = Wanted(p)]]
          /\ MayBegin(p)
        BY <1>1 DEF BeginCheck, fileVars
    <2>2. cmd[p] \in Command
        BY <1>1 DEF BeginCheck, TypeOK
    <2>3. cmd'[p].paths = Wanted(p) /\ RootOf(p)' = RootOf(p)
        BY <2>1, <2>2 DEF RootOf, TypeOK, Command
    <2>4. ~Conflicts(Wanted(p), RootOf(p), a)
        BY <2>1 DEF MayBegin, Standing, Unfinished
    <2> QED
        BY <2>1, <2>3, <2>4 DEF Conflicts
<1>2. CASE ~BeginCheck(p)
    <2>1. pc[p] = "write" /\ cmd'[p] = cmd[p]
        <3>1. CASE Step(p)
            BY <1>2, <3>1, StepOwn
        <3>2. ASSUME NEW q \in Proc \ {p}, Step(q)
              PROVE  pc[p] = "write" /\ cmd'[p] = cmd[p]
            BY <3>2, StepOwn
        <3>3. CASE \A q \in Proc : ~Step(q)
            BY <3>3 DEF Next, ReadMail, Report, Acknowledge, AnswerPrepare, AnswerCommit,
                        WorkspaceDies, vars
        <3> QED
            BY <3>1, <3>2, <3>3
    <2>2. \A q \in Proc : ~BeginWrite(q)
        <3>1. ASSUME NEW q \in Proc, BeginWrite(q) PROVE FALSE
            <4>1. Step(q) /\ pc[q] = "write"
                BY <3>1 DEF Step, BeginWrite
            <4>2. q = p
                BY <2>1, <4>1 DEF OneWriter
            <4> QED
                BY <1>2, <4>1, <4>2, StepOwn
        <3> QED
            BY <3>1
    <2>3. Claims
        BY <2>2, StepClaims
    <2>4. Standing(a) /\ asg'[a].paths = asg[a].paths /\ asg'[a].root = asg[a].root
        BY <2>3 DEF Claims
    <2>5. ~Conflicts(cmd[p].paths, RootOf(p), a)
        BY <2>1, <2>4 DEF WriteClear
    <2> QED
        BY <2>1, <2>4, <2>5 DEF Conflicts, RootOf
<1> QED
    BY <1>1, <1>2

\* What an answer may reopen was released, or still stands.
LEMMA AnswerOpenKept ==
    ASSUME TypeOK, AnswerOpen, [Next]_vars
    PROVE  AnswerOpen'
<1>1. ASSUME NEW p \in Proc, BeginWrite(p) PROVE AnswerOpen'
    <2>1. PICK b \in Asg : BeginWrite(p)!(b)
        BY <1>1 DEF BeginWrite
    <2>2. Unfinished(b)'
        BY <2>1 DEF TypeOK, Unfinished, Reserved
    <2>3. \A a \in Asg \ {b} : asg'[a] = asg[a]
        BY <2>1 DEF TypeOK
    <2> QED
        BY <2>1, <2>2, <2>3 DEF AnswerOpen, Unfinished, TypeOK
<1>2. CASE \A p \in Proc : ~BeginWrite(p)
    <2>1. Claims
        BY <1>2, StepClaims
    <2>2. CASE prepared' \subseteq prepared
        BY <2>1, <2>2 DEF Claims, AnswerOpen, TypeOK
    <2>3. ASSUME NEW a \in Asg, AnswerPrepare(a) PROVE AnswerOpen'
        BY <2>3 DEF AnswerPrepare, AnswerOpen, Unfinished
    <2>4. ASSUME NEW a \in Asg, AnswerCommit(a) PROVE prepared' \subseteq prepared
        BY <2>4 DEF AnswerCommit
    <2>5. ASSUME NEW p \in Proc, Step(p) PROVE prepared' = prepared
        BY <2>5 DEF Step, RecruitStart, AssignStart, RosterEarly, BeginCheck, BeginRefused,
                    BeginWrite, RosterHeld, LaunchFails, ReleaseFailed, DropRoster, Run,
                    DismissCheck, DismissClose, CloseFails, DismissSettle, DismissRetire,
                    Dies, fileVars
    <2>6. ASSUME NEW a \in Asg, ReadMail(a) \/ Report(a) \/ Acknowledge(a)
          PROVE  prepared' = prepared
        BY <2>6 DEF ReadMail, Report, Acknowledge
    <2>7. ASSUME NEW s \in Session, WorkspaceDies(s) PROVE prepared' = prepared
        BY <2>7 DEF WorkspaceDies, fileVars
    <2>8. UNCHANGED vars => prepared' = prepared
        BY DEF vars, fileVars
    <2> QED
        BY <2>2, <2>3, <2>4, <2>5, <2>6, <2>7, <2>8 DEF Next
<1> QED
    BY <1>1, <1>2

\* begin's write adds one standing assignment, which nothing standing conflicts with.
LEMMA WriteKeepsDisjoint ==
    ASSUME TypeOK, WriteClear, PathsDisjoint, NEW p \in Proc, BeginWrite(p), TypeOK'
    PROVE  PathsDisjoint'
<1>1. PICK n \in Asg : BeginWrite(p)!(n)
    BY DEF BeginWrite
<1>2. asg'[n].paths = cmd[p].paths /\ asg'[n].root = RootOf(p)
    BY <1>1 DEF TypeOK, Reserved
<1>3. \A a \in Asg \ {n} : asg'[a] = asg[a]
    BY <1>1 DEF TypeOK
<1>4. ASSUME NEW a \in Asg \ {n}, Standing(a)'
      PROVE  ~Conflicts(asg[n].paths, asg[n].root, a)'
    <2>1. Standing(a)
        BY <1>3, <1>4 DEF Standing, Unfinished
    <2>2. ~Conflicts(cmd[p].paths, RootOf(p), a)
        BY <1>1, <2>1 DEF WriteClear
    <2> QED
        BY <1>2, <1>3, <2>2 DEF Conflicts
<1>5. ASSUME NEW a \in Asg \ {n}, Standing(a)'
      PROVE  ~Conflicts(asg[a].paths, asg[a].root, n)'
    <2>1. Conflicts(asg[a].paths, asg[a].root, n)' => Conflicts(asg[n].paths, asg[n].root, a)'
        <3>1. ASSUME Conflicts(asg[a].paths, asg[a].root, n)'
              PROVE  Conflicts(asg[n].paths, asg[n].root, a)'
            <4>1. PICK x \in asg'[a].paths, y \in asg'[n].paths :
                    Overlaps(x, y) /\ (x \in Outside \/ asg'[n].root = asg'[a].root)
                BY <3>1 DEF Conflicts
            <4>2. x \in Path /\ y \in Path
                BY <4>1 DEF TypeOK, Assignment
            <4> QED
                BY <4>1, <4>2, OverlapSymmetric DEF Conflicts
        <3> QED
            BY <3>1
    <2> QED
        BY <1>4, <1>5, <2>1
<1>6. ASSUME NEW a \in Asg \ {n}, NEW b \in Asg \ {n}, a # b, Standing(a)', Standing(b)'
      PROVE  ~Conflicts(asg[a].paths, asg[a].root, b)'
    <2>1. Standing(a) /\ Standing(b)
        BY <1>3, <1>6 DEF Standing, Unfinished
    <2>2. ~Conflicts(asg[a].paths, asg[a].root, b)
        BY <1>6, <2>1, DisjointStanding
    <2> QED
        BY <1>3, <2>2 DEF Conflicts
<1>7. \A a, b \in Asg : a # b /\ Standing(a)' /\ Standing(b)'
                        => ~Conflicts(asg[a].paths, asg[a].root, b)'
    BY <1>4, <1>5, <1>6
<1> QED
    BY <1>7 DEF PathsDisjoint, Standing

\* "Overlapping active ownership is refused": allocation.lock keeps what begin tested true
\* until it writes, for any number of sessions, commands and deaths; so no two unfinished
\* assignments own one file under one root, unless an answer reopened one of them.
THEOREM PathsStayDisjoint == Spec => []PathsDisjoint
<1>1. Init => DisjointInv
    BY InitTyped DEF Init, DisjointInv, OneWriter, WriteClear, AnswerOpen, PathsDisjoint,
                     Unfinished, NoAssignment
<1>2. DisjointInv /\ TypeOK' /\ [Next]_vars => DisjointInv'
    <2> SUFFICES ASSUME DisjointInv, TypeOK', [Next]_vars PROVE DisjointInv'
        OBVIOUS
    <2>1. OneWriter' /\ WriteClear' /\ AnswerOpen'
        BY OneWriterKept, WriteClearKept, AnswerOpenKept DEF DisjointInv
    <2>2. CASE \E p \in Proc : BeginWrite(p)
        BY <2>1, <2>2, WriteKeepsDisjoint DEF DisjointInv
    <2>3. CASE \A p \in Proc : ~BeginWrite(p)
        BY <2>1, <2>3, StepClaims, ClaimsKeepDisjoint DEF DisjointInv
    <2> QED
        BY <2>2, <2>3
<1>3. DisjointInv => PathsDisjoint
    BY DEF DisjointInv
<1> QED
    BY <1>1, <1>2, <1>3, TypeCorrect, PTL DEF Spec

-----------------------------------------------------------------------------
(* Names and incarnations: who is listed, who runs, who was freed.         *)

\* A recruit or a dismissal under way, which holds the crew.lock of its session.
Ruling(p) == pc[p] # "idle" /\ ~cmd[p].assign

\* The incarnation whose assignment a name is active on.
ActiveOn(s, n, inc) == active[s][n] # None /\ asg[active[s][n]].inc = inc

\* What each command holds and how far it can be.
Phases ==
    \A p \in Proc :
        /\ Ruling(p) => crewLock[cmd[p].s] = p
        /\ pc[p] = "write" => protLock[cmd[p].s] = p
        /\ pc[p] # "idle" /\ cmd[p].assign => pc[p] \in {"begin", "write"} /\ ~cmd[p].worktree
        /\ pc[p] = "early" => cmd[p].worktree

\* Whoever a name is listed for while a recruit or a dismissal rules it is that command's.
OwnName ==
    \A p \in Proc : Ruling(p) /\ Listed(cmd[p].s, cmd[p].n)
                        => roster[cmd[p].s][cmd[p].n].inc = cmd[p].inc

\* A name, a command and an active assignment that share an incarnation share a name.
Uses(inc, s, n) ==
    \/ roster[s][n].inc = inc
    \/ \E p \in Proc : cmd[p].inc = inc /\ cmd[p].s = s /\ cmd[p].n = n
    \/ ActiveOn(s, n, inc)
OneHome ==
    \A inc \in Inc, s, t \in Session, n, k \in Name :
        Uses(inc, s, n) /\ Uses(inc, t, k) => s = t /\ n = k

\* Every assignment a file or a command refers to has been written.
Written ==
    /\ \A s \in Session, n \in Name : active[s][n] # None => asg[active[s][n]].state # "none"
    /\ \A a \in Asg : asg[a].state = "none" => asg[a].by = None

\* An assign follows on an assignment of its own incarnation.
AssignBase ==
    \A p \in Proc : pc[p] # "idle" /\ cmd[p].assign =>
        /\ cmd[p].handoff # None
        /\ asg[cmd[p].handoff].state # "none"
        /\ asg[cmd[p].handoff].inc = cmd[p].inc

\* What a handoff's test found still holds when it writes.
WriteBase ==
    \A p \in Proc : pc[p] = "write" /\ cmd[p].handoff # None =>
        /\ active[cmd[p].s][cmd[p].n] = cmd[p].handoff
        /\ asg[cmd[p].handoff].state = "done"

\* A recruit's incarnation has no assignment before begin's write, and then only the
\* untouched one the name is active on until its CLI starts.
Fresh ==
    \A p \in Proc, a \in Asg :
        Ruling(p) /\ pc[p] \in {"early", "begin", "write"} => asg[a].inc # cmd[p].inc
Launching ==
    \A p \in Proc, a \in Asg : pc[p] \in {"roster", "launch"} /\ asg[a].inc = cmd[p].inc =>
        active[cmd[p].s][cmd[p].n] = a /\ Standing(a)

\* From its write on, a recruit's name, like a dismissal's, is active on its incarnation.
ActiveOwn ==
    \A p \in Proc : pc[p] \in {"roster", "launch", "release", "close", "settle", "retire"}
                        => ActiveOn(cmd[p].s, cmd[p].n, cmd[p].inc)

\* So is any name listed in the shared checkout.
ListedOwn ==
    \A s \in Session, n \in Name : Listed(s, n) /\ ~roster[s][n].worktree
                                       => ActiveOn(s, n, roster[s][n].inc)

\* A CLI is launched under a name that is listed.
Announced == \A p \in Proc : pc[p] = "launch" => Listed(cmd[p].s, cmd[p].n)

\* No CLI runs for a recruit before its launch, nor for a dismissal past its close.
Dormant ==
    \A p \in Proc : Ruling(p) /\ pc[p] # "close" => cmd[p].inc \notin alive

\* LivingIsListed, and the name is active on the living incarnation.
Living ==
    \A inc \in alive : \E s \in Session, n \in Name :
        /\ roster[s][n].inc = inc /\ Listed(s, n)
        /\ ActiveOn(s, n, inc)
        /\ \A a \in Asg : Unfinished(a) /\ asg[a].inc = inc => active[s][n] = a

NameInv ==
    /\ TypeOK /\ OneWriter /\ Phases /\ OwnName /\ OneHome /\ Written /\ AssignBase
    /\ WriteBase /\ Fresh /\ Launching /\ ActiveOwn /\ ListedOwn /\ Announced /\ Dormant
    /\ Living /\ FreedIsStopped

\* How a command moves: its crew stays, and it goes through the phases in order.
Moved(p) ==
    /\ pc[p] # "idle" /\ pc'[p] # "idle" =>
           /\ cmd'[p].s = cmd[p].s /\ cmd'[p].n = cmd[p].n /\ cmd'[p].inc = cmd[p].inc
           /\ cmd'[p].assign = cmd[p].assign /\ cmd'[p].handoff = cmd[p].handoff
           /\ cmd'[p].worktree = cmd[p].worktree
    /\ pc[p] # "idle" /\ pc'[p] # "idle" /\ pc'[p] # pc[p] =>
           \/ pc[p] = "early" /\ pc'[p] = "begin" /\ RosterEarly(p)
           \/ pc[p] = "begin" /\ pc'[p] = "write" /\ BeginCheck(p)
           \/ pc[p] = "write" /\ pc'[p] = "roster" /\ BeginWrite(p)
           \/ pc[p] = "roster" /\ pc'[p] = "launch" /\ RosterHeld(p)
           \/ pc[p] = "launch" /\ pc'[p] = "release" /\ LaunchFails(p)
           \/ pc[p] = "release" /\ pc'[p] = "drop" /\ ReleaseFailed(p)
           \/ pc[p] = "close" /\ pc'[p] = "settle" /\ DismissClose(p)
           \/ pc[p] = "settle" /\ pc'[p] = "retire" /\ DismissSettle(p)
    /\ pc[p] = "idle" /\ pc'[p] # "idle" =>
           RecruitStart(p) \/ AssignStart(p) \/ DismissCheck(p)
    /\ pc'[p] = "idle" => \/ pc[p] = "idle" /\ cmd'[p] = cmd[p]
                          \/ cmd'[p] = NoCommand

LEMMA CommandMoves == ASSUME TypeOK, [Next]_vars, NEW p \in Proc PROVE Moved(p)
<1>1. CASE pc'[p] = pc[p] /\ cmd'[p] = cmd[p]
    BY <1>1 DEF Moved
<1>2. CASE End(p)
    BY <1>2 DEF End, Goto, TypeOK, Moved
<1>3. CASE RecruitStart(p) \/ AssignStart(p) \/ DismissCheck(p)
    BY <1>3 DEF RecruitStart, AssignStart, DismissCheck, Goto, TypeOK, Moved
<1>4. CASE BeginCheck(p)
    <2>1. cmd' = [cmd EXCEPT ![p] = [cmd[p] EXCEPT !.paths = Wanted(p)]] /\ cmd[p] \in Command
        BY <1>4 DEF BeginCheck, TypeOK
    <2>2. cmd'[p] = [cmd[p] EXCEPT !.paths = Wanted(p)]
        BY <2>1 DEF TypeOK
    <2>3. /\ cmd'[p].s = cmd[p].s /\ cmd'[p].n = cmd[p].n /\ cmd'[p].inc = cmd[p].inc
          /\ cmd'[p].assign = cmd[p].assign /\ cmd'[p].handoff = cmd[p].handoff
          /\ cmd'[p].worktree = cmd[p].worktree
        BY <2>1, <2>2 DEF Command
    <2> QED
        BY <1>4, <2>3 DEF BeginCheck, Goto, TypeOK, Moved
<1>5. CASE BeginWrite(p) /\ ~End(p)
    BY <1>5 DEF BeginWrite, Goto, TypeOK, Moved
<1>6. CASE RosterEarly(p) \/ RosterHeld(p) \/ LaunchFails(p) \/ ReleaseFailed(p)
           \/ DismissClose(p) \/ DismissSettle(p)
    BY <1>6 DEF RosterEarly, RosterHeld, LaunchFails, ReleaseFailed, DismissClose,
                DismissSettle, Goto, TypeOK, Moved
<1>7. CASE Step(p)
    BY <1>2, <1>3, <1>4, <1>5, <1>6, <1>7
       DEF Step, BeginRefused, DropRoster, Run, CloseFails, DismissRetire, Dies
<1>8. ASSUME NEW q \in Proc \ {p}, Step(q) PROVE pc'[p] = pc[p] /\ cmd'[p] = cmd[p]
    BY <1>8, StepOwn
<1>9. ASSUME \A q \in Proc : ~Step(q) PROVE pc' = pc /\ cmd' = cmd
    BY <1>9 DEF Next, ReadMail, Report, Acknowledge, AnswerPrepare, AnswerCommit,
                WorkspaceDies, vars
<1>10. CASE \A q \in Proc : ~Step(q)
    BY <1>1, <1>9, <1>10
<1>11. ASSUME NEW q \in Proc \ {p}, Step(q) PROVE Moved(p)
    BY <1>1, <1>8, <1>11
<1> QED
    BY <1>7, <1>10, <1>11

\* The steps that write the roster.
LEMMA RosterMover ==
    ASSUME [Next]_vars, roster' # roster
    PROVE  \E q \in Proc : \/ RosterEarly(q) \/ BeginRefused(q) \/ RosterHeld(q) \/ DropRoster(q)
                           \/ CloseFails(q) \/ DismissRetire(q)
<1>1. ASSUME NEW q \in Proc, Step(q)
      PROVE  \/ RosterEarly(q) \/ BeginRefused(q) \/ RosterHeld(q) \/ DropRoster(q)
             \/ CloseFails(q) \/ DismissRetire(q)
    BY <1>1 DEF Step, RecruitStart, AssignStart, BeginCheck, BeginWrite, LaunchFails,
                ReleaseFailed, Run, DismissCheck, DismissClose, DismissSettle, Dies, fileVars
<1>2. CASE \A q \in Proc : ~Step(q)
    BY <1>2 DEF Next, ReadMail, Report, Acknowledge, AnswerPrepare, AnswerCommit,
                WorkspaceDies, fileVars, vars
<1> QED
    BY <1>1, <1>2

\* Only a command that rules writes the roster, and only its own crew's entry.
LEMMA RosterWrites ==
    ASSUME TypeOK, Phases, [Next]_vars, roster' # roster
    PROVE  \E q \in Proc, status \in {"held", "pending", "dismissed"} :
              /\ Ruling(q) /\ SetEntry(q, status)
              /\ status = "held" => pc[q] \in {"early", "roster"}
              /\ status = "pending" => pc[q] = "close"
              /\ status = "dismissed" => pc[q] # "close"
              /\ UNCHANGED <<active, asg, alive>>
<1>1. PICK q \in Proc : \/ RosterEarly(q) \/ BeginRefused(q) \/ RosterHeld(q) \/ DropRoster(q)
                        \/ CloseFails(q) \/ DismissRetire(q)
    BY RosterMover
<1>2. CASE RosterEarly(q) \/ RosterHeld(q)
    BY <1>2 DEF RosterEarly, RosterHeld, Ruling, Phases
<1>3. CASE BeginRefused(q)
    BY <1>3 DEF BeginRefused, Ruling, Phases
<1>4. CASE DropRoster(q) \/ CloseFails(q) \/ DismissRetire(q)
    BY <1>4 DEF DropRoster, CloseFails, DismissRetire, Unconfirmed, Ruling, Phases
<1> QED
    BY <1>1, <1>2, <1>3, <1>4

\* What writing an entry does to the roster.
LEMMA EntryWritten ==
    ASSUME TypeOK, NEW q \in Proc, pc[q] # "idle", NEW status, SetEntry(q, status)
    PROVE  /\ roster'[cmd[q].s][cmd[q].n] =
                 [inc |-> cmd[q].inc, status |-> status, worktree |-> cmd[q].worktree]
           /\ \A s \in Session, n \in Name :
                 ~(s = cmd[q].s /\ n = cmd[q].n) => roster'[s][n] = roster[s][n]
    BY CommandTyped DEF SetEntry, TypeOK

\* What begin's write does to the files.
LEMMA WriteEffect ==
    ASSUME TypeOK, NEW q \in Proc, BeginWrite(q)
    PROVE  \E b \in Asg :
              /\ asg[b].state = "none"
              /\ asg'[b] = Reserved(cmd[q].inc, RootOf(q), cmd[q].paths)
              /\ asg'[b].inc = cmd[q].inc /\ asg'[b].state = "working" /\ asg'[b].by = None
              /\ \A a \in Asg \ {b} : asg'[a] = asg[a]
              /\ active'[cmd[q].s][cmd[q].n] = b
              /\ \A s \in Session, n \in Name :
                    ~(s = cmd[q].s /\ n = cmd[q].n) => active'[s][n] = active[s][n]
              /\ UNCHANGED <<roster, alive>>
<1>1. PICK b \in Asg : BeginWrite(q)!(b)
    BY DEF BeginWrite
<1>2. cmd[q].s \in Session /\ cmd[q].n \in Name
    BY <1>1, CommandTyped
<1>3. asg'[b] = Reserved(cmd[q].inc, RootOf(q), cmd[q].paths) /\ \A a \in Asg \ {b} : asg'[a] = asg[a]
    BY <1>1 DEF TypeOK
<1>4. active'[cmd[q].s][cmd[q].n] = b
      /\ \A s \in Session, n \in Name :
            ~(s = cmd[q].s /\ n = cmd[q].n) => active'[s][n] = active[s][n]
    BY <1>1, <1>2 DEF TypeOK
<1> QED
    BY <1>1, <1>3, <1>4 DEF Reserved

\* Every other step leaves active and every assignment's incarnation, and changes who
\* wrote a report, or reopens one, only in these ways.
LEMMA OtherWrites ==
    ASSUME TypeOK, [Next]_vars, \A q \in Proc : ~BeginWrite(q)
    PROVE  /\ active' = active
           /\ \A a \in Asg :
                 /\ asg'[a].inc = asg[a].inc
                 /\ asg[a].state # "none" => asg'[a].state # "none"
                 /\ asg[a].state = "done" /\ asg'[a].state # "done" => AnswerCommit(a)
                 /\ Unfinished(a)' => Unfinished(a) \/ (AnswerCommit(a) /\ asg'[a].by = asg[a].by)
                 /\ asg'[a].by # asg[a].by \/ (Unfinished(a) /\ ~Unfinished(a)') =>
                        \/ Report(a)
                        \/ \E q \in Proc : /\ ReleaseFailed(q) \/ DismissSettle(q)
                                           /\ a = active[cmd[q].s][cmd[q].n]
                 /\ asg'[a].by # asg[a].by => asg'[a].state = "done"
<1> DEFINE P(a) ==
      /\ asg'[a].inc = asg[a].inc
      /\ asg[a].state # "none" => asg'[a].state # "none"
      /\ asg[a].state = "done" /\ asg'[a].state # "done" => AnswerCommit(a)
      /\ Unfinished(a)' => Unfinished(a) \/ (AnswerCommit(a) /\ asg'[a].by = asg[a].by)
      /\ asg'[a].by # asg[a].by \/ (Unfinished(a) /\ ~Unfinished(a)') =>
             \/ Report(a)
             \/ \E q \in Proc : /\ ReleaseFailed(q) \/ DismissSettle(q)
                                /\ a = active[cmd[q].s][cmd[q].n]
      /\ asg'[a].by # asg[a].by => asg'[a].state = "done"
<1>1. active' = active
    <2>1. ASSUME NEW q \in Proc, Step(q) PROVE active' = active
        BY <2>1 DEF Step, RecruitStart, AssignStart, RosterEarly, BeginCheck, BeginRefused,
                    RosterHeld, LaunchFails, ReleaseFailed, DropRoster, Run, DismissCheck,
                    DismissClose, CloseFails, DismissSettle, DismissRetire, Dies, fileVars
    <2>2. CASE \A q \in Proc : ~Step(q)
        BY <2>2 DEF Next, ReadMail, Report, Acknowledge, AnswerPrepare, AnswerCommit,
                    WorkspaceDies, fileVars, vars
    <2> QED
        BY <2>1, <2>2
<1>2. ASSUME asg' = asg, NEW a \in Asg PROVE P(a)
    BY <1>2 DEF Unfinished
<1>3. ASSUME NEW q \in Proc, ReleaseFailed(q), NEW a \in Asg PROVE P(a)
    <2>1. PICK b : b = active[cmd[q].s][cmd[q].n] /\ asg' = [asg EXCEPT ![b] = Finished(b, "recruit", asg[b].acked)]
        BY <1>3 DEF ReleaseFailed
    <2> QED
        BY <1>3, <2>1 DEF Finished, Unfinished, TypeOK
<1>4. ASSUME NEW q \in Proc, DismissSettle(q), asg' # asg, NEW a \in Asg PROVE P(a)
    <2>1. PICK b : b = active[cmd[q].s][cmd[q].n] /\ asg' = [asg EXCEPT ![b] = Finished(b, "dismissal", asg[b].acked)]
        BY <1>4 DEF DismissSettle
    <2> QED
        BY <1>4, <2>1 DEF Finished, Unfinished, TypeOK
<1>5. ASSUME NEW b \in Asg, Report(b), NEW a \in Asg PROVE P(a)
    <2>1. asg' = [asg EXCEPT ![b] = Finished(b, "crew", FALSE)]
        BY <1>5 DEF Report
    <2> QED
        BY <1>5, <2>1 DEF Finished, Unfinished, TypeOK
<1>6. ASSUME NEW b \in Asg, ReadMail(b) \/ Acknowledge(b), NEW a \in Asg PROVE P(a)
    <2>1. CASE asg' = [asg EXCEPT ![b].read = TRUE]
        BY <2>1 DEF TypeOK, Assignment, Unfinished
    <2>2. CASE asg' = [asg EXCEPT ![b].acked = TRUE]
        BY <2>2 DEF TypeOK, Assignment, Unfinished
    <2> QED
        BY <1>6, <2>1, <2>2 DEF ReadMail, Acknowledge
<1>7. ASSUME NEW b \in Asg, AnswerCommit(b), asg' # asg, NEW a \in Asg PROVE P(a)
    <2>1. asg' = [asg EXCEPT ![b].state = "working"]
        BY <1>7 DEF AnswerCommit
    <2> QED
        BY <1>7, <2>1 DEF TypeOK, Assignment, Unfinished
<1>8. ASSUME NEW p \in Proc, Step(p), ~ReleaseFailed(p), ~DismissSettle(p) PROVE asg' = asg
    BY <1>8 DEF Step, RecruitStart, AssignStart, RosterEarly, BeginCheck, BeginRefused,
                RosterHeld, LaunchFails, DropRoster, Run, DismissCheck, DismissClose,
                CloseFails, DismissRetire, Dies, fileVars
<1>9. ASSUME \/ \E b \in Asg : AnswerPrepare(b)
             \/ \E s \in Session : WorkspaceDies(s)
             \/ UNCHANGED vars
      PROVE  asg' = asg
    BY <1>9 DEF AnswerPrepare, WorkspaceDies, fileVars, vars
<1> HIDE DEF P
<1>10. \A a \in Asg : P(a)
    BY <1>2, <1>3, <1>4, <1>5, <1>6, <1>7, <1>8, <1>9 DEF Next
<1> QED
    BY <1>1, <1>10 DEF P

\* Only a launch adds to the native CLIs that run.
LEMMA AliveWrites ==
    ASSUME [Next]_vars
    PROVE  alive' \subseteq alive \/ \E q \in Proc : Run(q)
<1>1. ASSUME NEW q \in Proc, Step(q), ~Run(q) PROVE alive' \subseteq alive
    BY <1>1 DEF Step, RecruitStart, AssignStart, RosterEarly, BeginCheck, BeginRefused,
                BeginWrite, RosterHeld, LaunchFails, ReleaseFailed, DropRoster, DismissCheck,
                DismissClose, CloseFails, DismissSettle, DismissRetire, Dies
<1>2. CASE \A q \in Proc : ~Step(q)
    BY <1>2 DEF Next, ReadMail, Report, Acknowledge, AnswerPrepare, AnswerCommit,
                WorkspaceDies, vars
<1> QED
    BY <1>1, <1>2

\* crew.lock has one holder: two commands that rule one session, or one incarnation, are one.
LEMMA OneRuler ==
    ASSUME TypeOK, Phases, NEW p \in Proc, NEW q \in Proc, Ruling(p), Ruling(q),
           \/ cmd[p].s = cmd[q].s
           \/ OneHome /\ cmd[p].inc = cmd[q].inc
    PROVE  p = q
<1>1. /\ cmd[p].s \in Session /\ cmd[p].n \in Name /\ cmd[p].inc \in Inc
      /\ cmd[q].s \in Session /\ cmd[q].n \in Name
    BY CommandTyped DEF Ruling
<1>2. OneHome /\ cmd[p].inc = cmd[q].inc => cmd[p].s = cmd[q].s
    BY <1>1 DEF OneHome, Uses
<1> QED
    BY <1>2 DEF Phases

\* A command's locks stay with it while it runs, and its phase goes with its kind.
LEMMA PhasesKept ==
    ASSUME TypeOK, TypeOK', OneWriter, Phases, [Next]_vars
    PROVE  Phases'
<1> SUFFICES ASSUME NEW p \in Proc
             PROVE  /\ Ruling(p)' => crewLock'[cmd'[p].s] = p
                    /\ pc'[p] = "write" => protLock'[cmd'[p].s] = p
                    /\ pc'[p] # "idle" /\ cmd'[p].assign =>
                           pc'[p] \in {"begin", "write"} /\ ~cmd'[p].worktree
                    /\ pc'[p] = "early" => cmd'[p].worktree
    BY DEF Phases
<1>1. Moved(p)
    BY CommandMoves
<1>2. CASE pc'[p] = "idle"
    BY <1>2 DEF Ruling
<1>3. CASE pc'[p] # "idle" /\ pc[p] = "idle"
    <2>1. CASE RecruitStart(p)
        <3>1. PICK s \in open, n \in Name, inc \in NewInc, paths \in Grant,
                   worktree, handoff \in BOOLEAN :
                RecruitStart(p)!(s, n, inc, paths, worktree, handoff)
            BY <2>1 DEF RecruitStart
        <3>2. /\ cmd'[p].s = s /\ ~cmd'[p].assign /\ cmd'[p].worktree = worktree
              /\ pc'[p] = (IF worktree THEN "early" ELSE "begin") /\ crewLock'[s] = p
            BY <3>1 DEF TypeOK, Recruit, Goto
        <3> QED
            BY <3>2
    <2>2. CASE AssignStart(p)
        BY <2>2 DEF AssignStart, TypeOK, Assign, Goto, Ruling
    <2>3. CASE DismissCheck(p)
        BY <2>3 DEF DismissCheck, TypeOK, Dismissal, Goto
    <2> QED
        BY <1>1, <1>3, <2>1, <2>2, <2>3 DEF Moved
<1>4. CASE pc'[p] # "idle" /\ pc[p] # "idle"
    <2>1. /\ cmd'[p].s = cmd[p].s /\ cmd'[p].assign = cmd[p].assign
          /\ cmd'[p].worktree = cmd[p].worktree
        BY <1>1, <1>4 DEF Moved
    <2>2. pc'[p] # "idle" /\ cmd'[p].assign =>
              pc'[p] \in {"begin", "write"} /\ ~cmd'[p].worktree
        BY <1>1, <1>4, <2>1, ZenonT(30) DEF Moved, Phases, RosterEarly, BeginWrite, End, Goto, TypeOK
    <2>3. pc'[p] = "early" => cmd'[p].worktree
        BY <1>1, <1>4, <2>1 DEF Moved, Phases
    <2>4. cmd[p].s \in Session
        BY <1>4, CommandTyped
    <2>5. ASSUME NEW q \in Proc, Step(q)
          PROVE  /\ crewLock[cmd[p].s] = p => crewLock'[cmd[p].s] = p
                 /\ protLock[cmd[p].s] = p => protLock'[cmd[p].s] = p \/ pc'[p] # "write"
                 /\ BeginCheck(p) => protLock'[cmd[p].s] = p
        <3>1. CASE End(q)
            BY <1>4, <2>4, <3>1 DEF End, Goto, TypeOK, BeginCheck
        <3>2. CASE RecruitStart(q)
            BY <1>4, <2>4, <3>2, AllocationAssumption DEF RecruitStart, CrewFree, BeginCheck, TypeOK, Goto
        <3>3. CASE DismissCheck(q)
            BY <1>4, <2>4, <3>3, AllocationAssumption DEF DismissCheck, CrewFree, BeginCheck, TypeOK, Goto
        <3>4. CASE BeginCheck(q)
            BY <1>4, <2>4, <3>4, AllocationAssumption DEF ProtFree, BeginCheck, TypeOK, Goto
        <3>5. CASE BeginWrite(q) /\ ~End(q)
            <4>1. /\ pc[q] = "write" /\ pc' = [pc EXCEPT ![q] = "roster"]
                  /\ protLock' = [protLock EXCEPT ![cmd[q].s] = None]
                  /\ crewLock' = crewLock
                BY <3>5 DEF BeginWrite, Goto
            <4>2. pc'[p] = "write" => pc[p] = "write" /\ p # q
                BY <4>1 DEF TypeOK
            <4>3. protLock[cmd[q].s] = q
                BY <4>1 DEF Phases
            <4>4. ~BeginCheck(p)
                BY <4>1 DEF BeginCheck, Goto, OneWriter, AllocFree, TypeOK
            <4> QED
                BY <2>4, <4>1, <4>2, <4>3, <4>4 DEF TypeOK
        <3>6. CASE UNCHANGED <<crewLock, protLock>>
            BY <1>4, <2>4, <3>6 DEF BeginCheck, TypeOK
        <3> QED
            BY <2>5, <3>1, <3>2, <3>3, <3>4, <3>5, <3>6
               DEF Step, AssignStart, RosterEarly, BeginRefused, RosterHeld, LaunchFails,
                   ReleaseFailed, DropRoster, Run, DismissClose, CloseFails, DismissSettle,
                   DismissRetire, Dies, lockVars
    <2>6. CASE \A q \in Proc : ~Step(q)
        <3>1. UNCHANGED <<crewLock, protLock, pc>>
            BY <2>6 DEF Next, ReadMail, Report, Acknowledge, AnswerPrepare, AnswerCommit,
                        WorkspaceDies, vars, lockVars
        <3> QED
            BY <1>4, <2>1, <2>2, <2>3, <3>1 DEF Phases, Ruling
    <2>7. ASSUME NEW q \in Proc, Step(q)
          PROVE  /\ Ruling(p)' => crewLock'[cmd'[p].s] = p
                 /\ pc'[p] = "write" => protLock'[cmd'[p].s] = p
        BY <1>1, <1>4, <2>1, <2>5, <2>7 DEF Phases, Ruling, Moved
    <2> QED
        BY <2>2, <2>3, <2>6, <2>7
<1> QED
    BY <1>2, <1>3, <1>4

\* A name that is listed stays its command's: nobody else writes the session's roster.
LEMMA OwnNameKept ==
    ASSUME TypeOK, TypeOK', Phases, OwnName, [Next]_vars
    PROVE  OwnName'
<1> SUFFICES ASSUME NEW p \in Proc, Ruling(p)', Listed(cmd[p].s, cmd[p].n)'
             PROVE  roster'[cmd'[p].s][cmd'[p].n].inc = cmd'[p].inc
    BY DEF OwnName
<1>1. Moved(p)
    BY CommandMoves
<1>2. CASE pc[p] = "idle"
    <2>1. CASE RecruitStart(p)
        BY <2>1 DEF RecruitStart, TypeOK, Recruit, Goto, Listed, fileVars
    <2>2. CASE AssignStart(p)
        BY <2>2 DEF AssignStart, TypeOK, Assign, Goto, Ruling
    <2>3. CASE DismissCheck(p)
        BY <2>3 DEF DismissCheck, TypeOK, Dismissal, Goto, fileVars
    <2> QED
        BY <1>1, <1>2, <2>1, <2>2, <2>3 DEF Moved, Ruling
<1>3. CASE pc[p] # "idle"
    <2>1. /\ cmd'[p].s = cmd[p].s /\ cmd'[p].n = cmd[p].n /\ cmd'[p].inc = cmd[p].inc
          /\ Ruling(p)
        BY <1>1, <1>3 DEF Moved, Ruling
    <2>2. CASE roster' = roster
        BY <2>1, <2>2 DEF OwnName, Listed
    <2>3. CASE roster' # roster
        <3>1. PICK q \in Proc, status \in {"held", "pending", "dismissed"} :
                Ruling(q) /\ SetEntry(q, status)
            BY <2>3, RosterWrites
        <3>2. cmd[p].s \in Session /\ cmd[p].n \in Name
            BY <1>3, CommandTyped
        <3>3. CASE cmd[q].s = cmd[p].s
            <4>1. p = q
                BY <2>1, <3>1, <3>3, OneRuler
            <4>2. roster'[cmd[q].s][cmd[q].n] =
                      [inc |-> cmd[q].inc, status |-> status, worktree |-> cmd[q].worktree]
                BY <3>1, EntryWritten DEF Ruling
            <4> QED
                BY <2>1, <4>1, <4>2
        <3>4. CASE cmd[q].s # cmd[p].s
            <4>1. roster'[cmd[p].s][cmd[p].n] = roster[cmd[p].s][cmd[p].n]
                BY <3>1, <3>2, <3>4, EntryWritten DEF Ruling
            <4> QED
                BY <2>1, <4>1 DEF OwnName, Listed
        <3> QED
            BY <3>3, <3>4
    <2> QED
        BY <2>2, <2>3
<1> QED
    BY <1>2, <1>3

\* A name in use keeps its incarnation.
LEMMA NameKeptStep ==
    ASSUME TypeOK, Phases, OwnName, [Next]_vars,
           NEW s \in Session, NEW n \in Name, Listed(s, n)
    PROVE  roster'[s][n].inc = roster[s][n].inc
<1>1. CASE roster' = roster
    BY <1>1
<1>2. CASE roster' # roster
    <2>1. PICK q \in Proc, status \in {"held", "pending", "dismissed"} :
            Ruling(q) /\ SetEntry(q, status)
        BY <1>2, RosterWrites
    <2>2. CASE s = cmd[q].s /\ n = cmd[q].n
        <3>1. roster'[cmd[q].s][cmd[q].n] =
                  [inc |-> cmd[q].inc, status |-> status, worktree |-> cmd[q].worktree]
            BY <2>1, EntryWritten DEF Ruling
        <3>2. roster[cmd[q].s][cmd[q].n].inc = cmd[q].inc
            BY <2>1, <2>2 DEF OwnName
        <3> QED
            BY <2>2, <3>1, <3>2
    <2>3. CASE ~(s = cmd[q].s /\ n = cmd[q].n)
        BY <2>1, <2>3, EntryWritten DEF Ruling
    <2> QED
        BY <2>2, <2>3
<1> QED
    BY <1>1, <1>2

\* crew.lock keeps a name for whoever holds it: whatever two recruits, an assign or a
\* dismissal of the same session interleave, and wherever they die, a name that is listed
\* is the same incarnation until it is dismissed.
THEOREM NamesStay == Spec => NameKept
<1> DEFINE I == TypeOK /\ OneWriter /\ Phases /\ OwnName
<1>1. Init => I
    BY InitTyped DEF Init, OneWriter, Phases, OwnName, Ruling
<1>2. I /\ TypeOK' /\ [Next]_vars => I'
    BY OneWriterKept, PhasesKept, OwnNameKept
<1>3. I /\ [Next]_vars =>
          \A s \in Session, n \in Name : Listed(s, n) => roster'[s][n].inc = roster[s][n].inc
    BY NameKeptStep
<1> HIDE DEF I
<1> QED
    BY <1>1, <1>2, <1>3, TypeCorrect, PTL DEF Spec, NameKept

\* An incarnation's users before a step other than its own recruit's start.
LEMMA UsesKept ==
    ASSUME TypeOK, Phases, Written, [Next]_vars,
           NEW inc \in Inc, NEW s \in Session, NEW n \in Name, Uses(inc, s, n)',
           ~\E p \in Proc : RecruitStart(p) /\ cmd'[p].inc = inc
    PROVE  Uses(inc, s, n)
<1>1. CASE roster'[s][n].inc = inc
    <2>1. CASE roster'[s][n] = roster[s][n]
        BY <1>1, <2>1 DEF Uses
    <2>2. CASE roster'[s][n] # roster[s][n]
        <3>1. PICK q \in Proc, status \in {"held", "pending", "dismissed"} :
                Ruling(q) /\ SetEntry(q, status)
            BY <2>2, RosterWrites
        <3>2. s = cmd[q].s /\ n = cmd[q].n
            BY <2>2, <3>1, EntryWritten DEF Ruling
        <3>3. roster'[cmd[q].s][cmd[q].n] =
                  [inc |-> cmd[q].inc, status |-> status, worktree |-> cmd[q].worktree]
            BY <3>1, EntryWritten DEF Ruling
        <3> QED
            BY <1>1, <3>2, <3>3 DEF Uses
    <2> QED
        BY <2>1, <2>2
<1>2. ASSUME NEW p \in Proc, cmd'[p].inc = inc, cmd'[p].s = s, cmd'[p].n = n
      PROVE  Uses(inc, s, n)
    <2>1. Moved(p)
        BY CommandMoves
    <2>2. CASE pc'[p] = "idle"
        BY <1>2, <2>1, <2>2, AllocationAssumption DEF Moved, NoCommand, Uses
    <2>3. CASE pc'[p] # "idle" /\ pc[p] # "idle"
        BY <1>2, <2>1, <2>3 DEF Moved, Uses
    <2>4. CASE AssignStart(p)
        BY <1>2, <2>4 DEF AssignStart, Assign, TypeOK, Uses
    <2>5. CASE DismissCheck(p)
        BY <1>2, <2>5 DEF DismissCheck, Dismissal, TypeOK, Uses
    <2> QED
        BY <1>2, <2>1, <2>2, <2>3, <2>4, <2>5 DEF Moved
<1>3. CASE ActiveOn(s, n, inc)'
    <2>1. ASSUME NEW q \in Proc, BeginWrite(q) PROVE Uses(inc, s, n)
        <3>1. PICK b \in Asg :
              /\ asg[b].state = "none"
              /\ asg'[b].inc = cmd[q].inc
              /\ \A a \in Asg \ {b} : asg'[a] = asg[a]
              /\ active'[cmd[q].s][cmd[q].n] = b
              /\ \A t \in Session, k \in Name :
                    ~(t = cmd[q].s /\ k = cmd[q].n) => active'[t][k] = active[t][k]
            BY <2>1, WriteEffect
        <3>2. CASE s = cmd[q].s /\ n = cmd[q].n
            BY <1>3, <3>1, <3>2 DEF ActiveOn, Uses
        <3>3. CASE ~(s = cmd[q].s /\ n = cmd[q].n)
            <4>1. active'[s][n] = active[s][n] /\ active[s][n] \in Asg \ {b}
                BY <1>3, <3>1, <3>3 DEF ActiveOn, Written, TypeOK
            <4> QED
                BY <1>3, <3>1, <4>1 DEF ActiveOn, Uses
        <3> QED
            BY <3>2, <3>3
    <2>2. CASE \A q \in Proc : ~BeginWrite(q)
        <3>1. active' = active /\ \A a \in Asg : asg'[a].inc = asg[a].inc
            BY <2>2, OtherWrites
        <3> QED
            BY <1>3, <3>1 DEF ActiveOn, Uses, TypeOK
    <2> QED
        BY <2>1, <2>2
<1> QED
    BY <1>1, <1>2, <1>3 DEF Uses

\* A recruit's new incarnation is used nowhere else.
LEMMA OneHomeKept ==
    ASSUME TypeOK, TypeOK', Phases, Written, OneHome, [Next]_vars
    PROVE  OneHome'
<1> SUFFICES ASSUME NEW inc \in Inc, NEW s \in Session, NEW t \in Session,
                    NEW n \in Name, NEW k \in Name, Uses(inc, s, n)', Uses(inc, t, k)'
             PROVE  s = t /\ n = k
    BY DEF OneHome
<1>1. CASE ~\E p \in Proc : RecruitStart(p) /\ cmd'[p].inc = inc
    <2>1. Uses(inc, s, n) /\ Uses(inc, t, k)
        BY <1>1, UsesKept
    <2> QED
        BY <2>1 DEF OneHome
<1>2. ASSUME NEW p \in Proc, RecruitStart(p), cmd'[p].inc = inc
      PROVE  s = t /\ n = k
    <2>1. inc \in NewInc /\ UNCHANGED fileVars
          /\ \A q \in Proc \ {p} : cmd'[q] = cmd[q]
        BY <1>2 DEF RecruitStart, Recruit, TypeOK
    <2>2. ASSUME NEW u \in Session, NEW m \in Name, Uses(inc, u, m)'
          PROVE  u = cmd'[p].s /\ m = cmd'[p].n
        <3>1. roster'[u][m].inc # inc
            BY <2>1 DEF NewInc, fileVars
        <3>2. ~ActiveOn(u, m, inc)'
            BY <2>1 DEF NewInc, fileVars, ActiveOn, TypeOK
        <3>3. \A q \in Proc \ {p} : cmd'[q].inc # inc
            BY <2>1 DEF NewInc
        <3> QED
            BY <2>2, <3>1, <3>2, <3>3 DEF Uses
    <2> QED
        BY <2>2
<1> QED
    BY <1>1, <1>2

\* A written assignment stays written, and its incarnation stays.
LEMMA StaysWritten ==
    ASSUME TypeOK, [Next]_vars, NEW a \in Asg, asg[a].state # "none"
    PROVE  asg'[a].state # "none" /\ asg'[a].inc = asg[a].inc
<1>1. ASSUME NEW q \in Proc, BeginWrite(q) PROVE asg'[a] = asg[a]
    BY <1>1, WriteEffect
<1> QED
    BY <1>1, OtherWrites

\* What a file refers to has been written.
LEMMA WrittenKept ==
    ASSUME TypeOK, TypeOK', Written, [Next]_vars
    PROVE  Written'
<1>1. ASSUME NEW q \in Proc, BeginWrite(q) PROVE Written'
    <2>1. PICK b \in Asg :
          /\ asg'[b].state = "working"
          /\ \A a \in Asg \ {b} : asg'[a] = asg[a]
          /\ active'[cmd[q].s][cmd[q].n] = b
          /\ \A t \in Session, k \in Name :
                ~(t = cmd[q].s /\ k = cmd[q].n) => active'[t][k] = active[t][k]
        BY <1>1, WriteEffect
    <2>2. ASSUME NEW s \in Session, NEW n \in Name, active'[s][n] # None
          PROVE  asg'[active'[s][n]].state # "none"
        <3>1. active'[s][n] \in Asg
            BY <2>2 DEF TypeOK
        <3> QED
            BY <2>1, <2>2, <3>1 DEF Written
    <2>3. ASSUME NEW a \in Asg, asg'[a].state = "none" PROVE asg'[a].by = None
        BY <2>1, <2>3 DEF Written
    <2> QED
        BY <2>2, <2>3 DEF Written
<1>2. CASE \A q \in Proc : ~BeginWrite(q)
    <2>1. active' = active
        BY <1>2, OtherWrites
    <2>2. \A a \in Asg : asg'[a].state = "none" => asg'[a].by = asg[a].by /\ asg[a].state = "none"
        BY <1>2, OtherWrites
    <2>3. ASSUME NEW s \in Session, NEW n \in Name, active'[s][n] # None
          PROVE  asg'[active'[s][n]].state # "none"
        <3>1. active[s][n] \in Asg
            BY <2>1, <2>3 DEF TypeOK
        <3> QED
            BY <2>1, <2>3, <3>1, StaysWritten DEF Written
    <2> QED
        BY <2>2, <2>3 DEF Written
<1> QED
    BY <1>1, <1>2

\* An assign goes on following an assignment of its own incarnation.
LEMMA AssignBaseKept ==
    ASSUME TypeOK, TypeOK', Written, AssignBase, ListedOwn, [Next]_vars
    PROVE  AssignBase'
<1> SUFFICES ASSUME NEW p \in Proc, pc'[p] # "idle", cmd'[p].assign
             PROVE  /\ cmd'[p].handoff # None
                    /\ asg'[cmd'[p].handoff].state # "none"
                    /\ asg'[cmd'[p].handoff].inc = cmd'[p].inc
    BY DEF AssignBase
<1>1. Moved(p)
    BY CommandMoves
<1>2. CASE pc[p] # "idle"
    <2>1. /\ cmd'[p].handoff = cmd[p].handoff /\ cmd'[p].inc = cmd[p].inc
          /\ cmd[p].handoff \in Asg
          /\ asg[cmd[p].handoff].state # "none" /\ asg[cmd[p].handoff].inc = cmd[p].inc
        BY <1>1, <1>2, CommandTyped DEF Moved, AssignBase
    <2> QED
        BY <2>1, StaysWritten, AllocationAssumption
<1>3. CASE AssignStart(p)
    <2>1. PICK s \in open, n \in Name, paths \in Grant :
            /\ Listed(s, n) /\ ~roster[s][n].worktree /\ active[s][n] # None
            /\ cmd' = [cmd EXCEPT ![p] = Assign(s, n, roster[s][n].inc, active[s][n], paths)]
            /\ UNCHANGED fileVars
        BY <1>3 DEF AssignStart
    <2>2. s \in Session /\ ActiveOn(s, n, roster[s][n].inc)
        BY <2>1 DEF ListedOwn, TypeOK
    <2>3. cmd'[p].handoff = active[s][n] /\ cmd'[p].inc = roster[s][n].inc
        BY <2>1 DEF Assign, TypeOK
    <2> QED
        BY <2>1, <2>2, <2>3 DEF ActiveOn, Written, fileVars
<1>4. CASE RecruitStart(p) \/ DismissCheck(p)
    BY <1>4 DEF RecruitStart, DismissCheck, Recruit, Dismissal, TypeOK
<1> QED
    BY <1>1, <1>2, <1>3, <1>4 DEF Moved

\* While it holds protocol.lock nobody reopens or replaces what a handoff tested.
LEMMA WriteBaseKept ==
    ASSUME TypeOK, TypeOK', OneWriter, Phases, WriteBase, [Next]_vars
    PROVE  WriteBase'
<1> SUFFICES ASSUME NEW p \in Proc, pc'[p] = "write", cmd'[p].handoff # None
             PROVE  /\ active'[cmd'[p].s][cmd'[p].n] = cmd'[p].handoff
                    /\ asg'[cmd'[p].handoff].state = "done"
    BY DEF WriteBase
<1>1. Moved(p) /\ pc[p] # "idle"
    BY CommandMoves, SMTT(20) DEF Moved, RecruitStart, AssignStart, DismissCheck, Goto, TypeOK
<1>2. /\ cmd'[p].handoff = cmd[p].handoff /\ cmd'[p].s = cmd[p].s /\ cmd'[p].n = cmd[p].n
      /\ cmd[p].handoff \in Asg /\ cmd[p].s \in Session /\ cmd[p].n \in Name
    BY <1>1, CommandTyped DEF Moved
<1>3. CASE BeginCheck(p)
    BY <1>2, <1>3 DEF BeginCheck, MayBegin, MayHandOff, fileVars
<1>4. CASE pc[p] = "write"
    <2>1. \A q \in Proc : ~BeginWrite(q)
        <3>1. ASSUME NEW q \in Proc, BeginWrite(q) PROVE q = p /\ Step(p)
            BY <1>4, <3>1 DEF BeginWrite, OneWriter, Step
        <3>2. ~BeginWrite(p)
            BY <1>4, StepOwn DEF BeginWrite, BeginCheck, Step
        <3> QED
            BY <3>1, <3>2
    <2>2. active' = active /\ (asg'[cmd[p].handoff].state # "done" => AnswerCommit(cmd[p].handoff))
        BY <1>2, <1>4, <2>1, OtherWrites DEF WriteBase
    <2>3. ~AnswerCommit(cmd[p].handoff)
        BY <1>2, <1>4, AllocationAssumption
           DEF WriteBase, Phases, AnswerCommit, ProtFreeOf, ProtFree
    <2> QED
        BY <1>2, <1>4, <2>2, <2>3 DEF WriteBase
<1> QED
    BY <1>1, <1>3, <1>4 DEF Moved

\* The incarnation a name is active on changes only in a recruit's write.
LEMMA ActiveKept ==
    ASSUME TypeOK, TypeOK', Written, AssignBase, WriteBase, [Next]_vars,
           NEW s \in Session, NEW n \in Name, NEW inc, ActiveOn(s, n, inc),
           ~\E q \in Proc : BeginWrite(q) /\ ~cmd[q].assign /\ cmd[q].s = s /\ cmd[q].n = n
    PROVE  ActiveOn(s, n, inc)'
<1>1. active[s][n] \in Asg /\ asg[active[s][n]].state # "none"
    BY DEF ActiveOn, Written, TypeOK
<1>2. asg'[active[s][n]].inc = inc
    BY <1>1, StaysWritten DEF ActiveOn
<1>3. CASE active'[s][n] = active[s][n]
    BY <1>2, <1>3 DEF ActiveOn
<1>4. ASSUME NEW q \in Proc, BeginWrite(q), cmd[q].s = s, cmd[q].n = n
      PROVE  ActiveOn(s, n, inc)'
    <2>1. pc[q] = "write" /\ cmd[q].assign
        BY <1>4 DEF BeginWrite
    <2>2. active[s][n] = cmd[q].handoff /\ cmd[q].inc = inc
        BY <1>4, <2>1 DEF AssignBase, WriteBase, ActiveOn
    <2>3. asg'[active'[s][n]].inc = cmd[q].inc /\ active'[s][n] \in Asg
        BY <1>4, WriteEffect
    <2> QED
        BY <2>2, <2>3, AllocationAssumption DEF ActiveOn
<1>5. ASSUME NEW q \in Proc, BeginWrite(q), ~(cmd[q].s = s /\ cmd[q].n = n)
      PROVE  active'[s][n] = active[s][n]
    <2>1. \A t \in Session, k \in Name :
              ~(t = cmd[q].s /\ k = cmd[q].n) => active'[t][k] = active[t][k]
        BY <1>5, WriteEffect
    <2> QED
        BY <1>5, <2>1
<1>6. CASE \A q \in Proc : ~BeginWrite(q)
    BY <1>3, <1>6, OtherWrites
<1> QED
    BY <1>3, <1>4, <1>5, <1>6

\* No other command writes an assignment for a recruit's incarnation: an assign of it
\* would follow on an assignment that is done, which a starting recruit has not.
LEMMA WritesOwn ==
    ASSUME TypeOK, Phases, OneHome, AssignBase, WriteBase, Fresh, Launching,
           NEW p \in Proc, Ruling(p), pc[p] \in {"early", "begin", "write", "roster", "launch"},
           NEW q \in Proc, BeginWrite(q), cmd[q].inc = cmd[p].inc
    PROVE  p = q
<1>1. pc[q] = "write"
    BY DEF BeginWrite
<1>2. CASE ~cmd[q].assign
    BY <1>1, <1>2, OneRuler DEF Ruling
<1>3. CASE cmd[q].assign
    <2>1. /\ cmd[q].handoff \in Asg /\ asg[cmd[q].handoff].inc = cmd[p].inc
          /\ asg[cmd[q].handoff].state = "done"
        BY <1>1, <1>3, CommandTyped DEF AssignBase, WriteBase
    <2>2. pc[p] \notin {"early", "begin", "write"}
        BY <2>1 DEF Fresh
    <2>3. Standing(cmd[q].handoff)
        BY <2>1, <2>2 DEF Launching
    <2> QED
        BY <2>1, <2>3 DEF Standing, Unfinished
<1> QED
    BY <1>2, <1>3

\* A recruit's incarnation has no assignment until its own write.
LEMMA FreshKept ==
    ASSUME TypeOK, TypeOK', Phases, OneHome, AssignBase, WriteBase, Fresh, Launching, [Next]_vars
    PROVE  Fresh'
<1> SUFFICES ASSUME NEW p \in Proc, NEW a \in Asg,
                    Ruling(p)', pc'[p] \in {"early", "begin", "write"}
             PROVE  asg'[a].inc # cmd'[p].inc
    BY DEF Fresh
<1>1. Moved(p)
    BY CommandMoves
<1>2. CASE pc[p] # "idle"
    <2>1. /\ Ruling(p) /\ pc[p] \in {"early", "begin", "write"} /\ cmd'[p].inc = cmd[p].inc
          /\ asg[a].inc # cmd[p].inc
        BY <1>1, <1>2 DEF Moved, Ruling, Fresh
    <2>2. ~BeginWrite(p)
        BY <1>2, <2>1 DEF BeginWrite, End, Goto, TypeOK, Ruling
    <2>3. ASSUME NEW q \in Proc, BeginWrite(q) PROVE asg'[a].inc # cmd[p].inc
        <3>1. cmd[q].inc # cmd[p].inc
            BY <2>1, <2>2, <2>3, WritesOwn
        <3> QED
            BY <2>1, <2>3, <3>1, WriteEffect
    <2>4. CASE \A q \in Proc : ~BeginWrite(q)
        BY <2>1, <2>4, OtherWrites
    <2> QED
        BY <2>1, <2>3, <2>4
<1>3. CASE RecruitStart(p)
    BY <1>3 DEF RecruitStart, Recruit, NewInc, TypeOK, fileVars
<1>4. CASE AssignStart(p) \/ DismissCheck(p)
    BY <1>4 DEF AssignStart, DismissCheck, Assign, Goto, Ruling, TypeOK
<1> QED
    BY <1>1, <1>2, <1>3, <1>4 DEF Moved, Ruling

\* Until a recruit's CLI starts its assignment is the one written for it, untouched.
LEMMA LaunchingKept ==
    ASSUME TypeOK, TypeOK', Phases, OneHome, Written, AssignBase, WriteBase, Fresh, Launching,
           ActiveOwn, Dormant, [Next]_vars
    PROVE  Launching'
<1> SUFFICES ASSUME NEW p \in Proc, NEW a \in Asg,
                    pc'[p] \in {"roster", "launch"}, asg'[a].inc = cmd'[p].inc
             PROVE  active'[cmd'[p].s][cmd'[p].n] = a /\ Standing(a)'
    BY DEF Launching
<1>1. Moved(p) /\ pc[p] # "idle"
    BY CommandMoves DEF Moved, RecruitStart, AssignStart, DismissCheck, Goto, TypeOK
<1>2. /\ cmd'[p].inc = cmd[p].inc /\ cmd'[p].s = cmd[p].s /\ cmd'[p].n = cmd[p].n
      /\ cmd[p].s \in Session /\ cmd[p].n \in Name
    BY <1>1, CommandTyped DEF Moved
<1>3. Ruling(p) /\ (pc[p] \in {"roster", "launch"} \/ (pc[p] = "write" /\ BeginWrite(p)))
    <2>1. pc[p] \in {"roster", "launch"} \/ (pc[p] = "write" /\ BeginWrite(p))
        BY <1>1 DEF Moved
    <2>2. pc[p] = "write" /\ BeginWrite(p) => ~cmd[p].assign
        BY DEF BeginWrite, End, Goto, TypeOK
    <2> QED
        BY <1>1, <2>1, <2>2 DEF Ruling, Phases
<1>4. CASE BeginWrite(p) /\ pc[p] = "write"
    <2>1. PICK b \in Asg :
          /\ asg'[b].inc = cmd[p].inc /\ asg'[b].state = "working" /\ asg'[b].by = None
          /\ \A c \in Asg \ {b} : asg'[c] = asg[c]
          /\ active'[cmd[p].s][cmd[p].n] = b
        BY <1>4, WriteEffect
    <2>2. a = b
        BY <1>2, <1>3, <1>4, <2>1 DEF Fresh
    <2> QED
        BY <1>2, <2>1, <2>2 DEF Standing, Unfinished
<1>5. CASE pc[p] \in {"roster", "launch"}
    <2>1. ASSUME NEW q \in Proc, BeginWrite(q)
          PROVE  active'[cmd[p].s][cmd[p].n] = a /\ Standing(a)'
        <3>1. cmd[q].inc # cmd[p].inc /\ pc[q] = "write"
            BY <1>3, <1>5, <2>1, WritesOwn DEF BeginWrite
        <3>2. asg'[a] = asg[a] /\ asg[a].inc = cmd[p].inc
            BY <1>2, <2>1, <3>1, WriteEffect
        <3>3. active[cmd[p].s][cmd[p].n] = a /\ Standing(a)
            BY <1>5, <3>2 DEF Launching
        <3>4. ~(cmd[p].s = cmd[q].s /\ cmd[p].n = cmd[q].n)
            <4>1. CASE cmd[q].assign
                BY <2>1, <3>1, <3>2, <3>3, <4>1 DEF AssignBase, WriteBase
            <4>2. CASE ~cmd[q].assign
                BY <1>3, <1>5, <3>1, <4>2, OneRuler DEF Ruling
            <4> QED
                BY <4>1, <4>2
        <3>5. active'[cmd[p].s][cmd[p].n] = active[cmd[p].s][cmd[p].n]
            BY <1>2, <2>1, <3>4, WriteEffect
        <3> QED
            BY <3>2, <3>3, <3>5 DEF Standing, Unfinished
    <2>2. CASE \A q \in Proc : ~BeginWrite(q)
        <3>1. active' = active /\ asg[a].inc = cmd[p].inc
            BY <1>2, <2>2, OtherWrites
        <3>2. active[cmd[p].s][cmd[p].n] = a /\ Standing(a)
            BY <1>5, <3>1 DEF Launching
        <3>3. ~Report(a)
            BY <1>3, <1>5, <3>1 DEF Report, Dormant
        <3>4. ASSUME NEW q \in Proc, ReleaseFailed(q) \/ DismissSettle(q),
                     a = active[cmd[q].s][cmd[q].n]
              PROVE  FALSE
            <4>1. pc[q] \in {"release", "settle"}
                BY <3>4 DEF ReleaseFailed, DismissSettle
            <4>2. cmd[q].inc = cmd[p].inc /\ Ruling(q)
                BY <3>1, <3>4, <4>1 DEF ActiveOwn, ActiveOn, Ruling, Phases
            <4> QED
                BY <1>3, <1>5, <4>1, <4>2, OneRuler
        <3>5. asg'[a].by = asg[a].by /\ Unfinished(a)'
            BY <2>2, <3>2, <3>3, <3>4, OtherWrites DEF Standing
        <3> QED
            BY <1>2, <3>1, <3>2, <3>5 DEF Standing
    <2> QED
        BY <1>2, <2>1, <2>2
<1> QED
    BY <1>3, <1>4, <1>5

\* A recruit's name from its write on, and a dismissal's, is active on its incarnation.
LEMMA ActiveOwnKept ==
    ASSUME TypeOK, TypeOK', Phases, Written, AssignBase, WriteBase, ActiveOwn, [Next]_vars
    PROVE  ActiveOwn'
<1> DEFINE Owning == {"roster", "launch", "release", "close", "settle", "retire"}
<1> SUFFICES ASSUME NEW p \in Proc, pc'[p] \in Owning
             PROVE  ActiveOn(cmd[p].s, cmd[p].n, cmd[p].inc)'
    BY DEF ActiveOwn
<1>1. Moved(p)
    BY CommandMoves
<1>2. CASE pc[p] # "idle"
    <2>1. /\ cmd'[p].inc = cmd[p].inc /\ cmd'[p].s = cmd[p].s /\ cmd'[p].n = cmd[p].n
          /\ cmd[p].s \in Session /\ cmd[p].n \in Name
        BY <1>1, <1>2, CommandTyped DEF Moved
    <2>2. CASE BeginWrite(p)
        <3>1. asg'[active'[cmd[p].s][cmd[p].n]].inc = cmd[p].inc
              /\ active'[cmd[p].s][cmd[p].n] \in Asg
            BY <2>2, WriteEffect
        <3> QED
            BY <2>1, <3>1, AllocationAssumption DEF ActiveOn
    <2>3. CASE ~BeginWrite(p)
        <3>1. pc[p] \in Owning
            BY <1>1, <1>2, <2>3 DEF Moved
        <3>2. ActiveOn(cmd[p].s, cmd[p].n, cmd[p].inc) /\ Ruling(p)
            BY <3>1 DEF ActiveOwn, Ruling, Phases
        <3>3. ASSUME NEW q \in Proc, BeginWrite(q), ~cmd[q].assign, cmd[q].s = cmd[p].s
              PROVE  FALSE
            BY <2>3, <3>2, <3>3, OneRuler DEF Ruling, BeginWrite
        <3>4. ASSUME NEW s \in Session, NEW n \in Name, s = cmd[p].s, n = cmd[p].n
              PROVE  ActiveOn(s, n, cmd[p].inc)'
            <4>1. CASE UNCHANGED cmd[p].inc
                BY <2>1, <3>2, <3>3, <3>4, <4>1, ActiveKept DEF ActiveOn
            <4> QED
                BY <2>1, <4>1
        <3> QED
            BY <2>1, <3>4 DEF ActiveOn
    <2> QED
        BY <2>2, <2>3
<1>3. CASE DismissCheck(p)
    <2>1. PICK s \in Session, n \in Name, release \in BOOLEAN :
            /\ active[s][n] # None /\ asg[active[s][n]].inc = roster[s][n].inc
            /\ cmd' = [cmd EXCEPT ![p] =
                 Dismissal(s, n, roster[s][n].inc, roster[s][n].worktree, release)]
            /\ UNCHANGED fileVars
        BY <1>3 DEF DismissCheck
    <2>2. cmd'[p].s = s /\ cmd'[p].n = n /\ cmd'[p].inc = roster[s][n].inc
        BY <2>1 DEF Dismissal, TypeOK
    <2> QED
        BY <2>1, <2>2 DEF ActiveOn, fileVars
<1>4. CASE RecruitStart(p) \/ AssignStart(p)
    BY <1>4 DEF RecruitStart, AssignStart, Goto, TypeOK
<1> QED
    BY <1>1, <1>2, <1>3, <1>4 DEF Moved

\* A name listed in the shared checkout is active on its incarnation.
LEMMA ListedOwnKept ==
    ASSUME TypeOK, TypeOK', Phases, OwnName, Written, AssignBase, WriteBase, ActiveOwn,
           ListedOwn, [Next]_vars
    PROVE  ListedOwn'
<1> SUFFICES ASSUME NEW s \in Session, NEW n \in Name,
                    Listed(s, n)', ~roster'[s][n].worktree
             PROVE  ActiveOn(s, n, roster[s][n].inc)'
    BY DEF ListedOwn
<1>1. CASE roster'[s][n] = roster[s][n]
    <2>1. Listed(s, n) /\ ActiveOn(s, n, roster[s][n].inc)
        BY <1>1 DEF Listed, ListedOwn
    <2>2. ASSUME NEW q \in Proc, BeginWrite(q), ~cmd[q].assign, cmd[q].s = s, cmd[q].n = n
          PROVE  ActiveOn(s, n, roster[s][n].inc)'
        <3>1. roster[s][n].inc = cmd[q].inc
            BY <2>1, <2>2 DEF OwnName, Ruling, BeginWrite
        <3>2. asg'[active'[s][n]].inc = cmd[q].inc /\ active'[s][n] \in Asg
            BY <2>2, WriteEffect
        <3> QED
            BY <1>1, <3>1, <3>2, AllocationAssumption DEF ActiveOn
    <2>3. CASE ~\E q \in Proc : BeginWrite(q) /\ ~cmd[q].assign /\ cmd[q].s = s /\ cmd[q].n = n
        <3>1. ASSUME NEW inc, inc = roster[s][n].inc PROVE ActiveOn(s, n, inc)'
            BY <2>1, <2>3, <3>1, ActiveKept
        <3> QED
            BY <1>1, <3>1 DEF ActiveOn
    <2> QED
        BY <2>2, <2>3
<1>2. CASE roster'[s][n] # roster[s][n]
    <2>1. PICK q \in Proc, status \in {"held", "pending", "dismissed"} :
              /\ Ruling(q) /\ SetEntry(q, status)
              /\ status = "held" => pc[q] \in {"early", "roster"}
              /\ status = "pending" => pc[q] = "close"
              /\ UNCHANGED <<active, asg>>
        BY <1>2, RosterWrites
    <2>2. s = cmd[q].s /\ n = cmd[q].n
        BY <1>2, <2>1, EntryWritten DEF Ruling
    <2>3. roster'[cmd[q].s][cmd[q].n] =
              [inc |-> cmd[q].inc, status |-> status, worktree |-> cmd[q].worktree]
        BY <2>1, EntryWritten DEF Ruling
    <2>4. pc[q] \in {"roster", "close"}
        BY <2>1, <2>2, <2>3 DEF Listed, Phases
    <2> QED
        BY <2>1, <2>2, <2>3, <2>4 DEF ActiveOwn, ActiveOn
<1> QED
    BY <1>1, <1>2

\* A recruit's name is listed before its CLI starts, and nobody else unlists it.
LEMMA AnnouncedKept ==
    ASSUME TypeOK, TypeOK', Phases, Announced, [Next]_vars
    PROVE  Announced'
<1> SUFFICES ASSUME NEW p \in Proc, pc'[p] = "launch"
             PROVE  Listed(cmd[p].s, cmd[p].n)'
    BY DEF Announced
<1>1. Moved(p) /\ pc[p] # "idle"
    BY CommandMoves, ZenonT(30) DEF Moved, RecruitStart, AssignStart, DismissCheck, Goto, TypeOK
<1>2. /\ cmd'[p].s = cmd[p].s /\ cmd'[p].n = cmd[p].n /\ cmd[p].s \in Session /\ cmd[p].n \in Name
      /\ Ruling(p)
    BY <1>1, CommandTyped DEF Moved, Ruling, Phases
<1>3. CASE RosterHeld(p)
    <2>0. SetEntry(p, "held")
        BY <1>3 DEF RosterHeld
    <2>1. roster'[cmd[p].s][cmd[p].n] =
              [inc |-> cmd[p].inc, status |-> "held", worktree |-> cmd[p].worktree]
        BY <1>1, <2>0, EntryWritten
    <2> QED
        BY <1>2, <2>1 DEF Listed
<1>4. CASE pc[p] = "launch"
    <2>1. roster'[cmd[p].s][cmd[p].n] = roster[cmd[p].s][cmd[p].n]
        <3>1. ASSUME NEW q \in Proc, NEW status \in {"held", "pending", "dismissed"},
                     Ruling(q), SetEntry(q, status), pc[q] # "launch"
              PROVE  roster'[cmd[p].s][cmd[p].n] = roster[cmd[p].s][cmd[p].n]
            <4>1. cmd[q].s # cmd[p].s
                BY <1>2, <1>4, <3>1, OneRuler
            <4> QED
                BY <1>2, <3>1, <4>1, EntryWritten DEF Ruling
        <3>2. CASE roster' # roster
            <4>1. PICK q \in Proc :
                    \/ RosterEarly(q) \/ BeginRefused(q) \/ RosterHeld(q) \/ DropRoster(q)
                    \/ CloseFails(q) \/ DismissRetire(q)
                BY <3>2, RosterMover
            <4>2. pc[q] # "launch" /\ Ruling(q)
                  /\ \E status \in {"held", "pending", "dismissed"} : SetEntry(q, status)
                BY <3>2, <4>1 DEF RosterEarly, BeginRefused, RosterHeld, DropRoster, CloseFails,
                                  DismissRetire, Unconfirmed, Ruling, Phases
            <4> QED
                BY <3>1, <4>2
        <3> QED
            BY <3>2
    <2> QED
        BY <1>2, <1>4, <2>1 DEF Announced, Listed
<1> QED
    BY <1>1, <1>3, <1>4 DEF Moved

\* No CLI runs for a recruit before its launch, nor for a dismissal past its close.
LEMMA DormantKept ==
    ASSUME TypeOK, TypeOK', Phases, OneHome, Living, Dormant, [Next]_vars
    PROVE  Dormant'
<1> SUFFICES ASSUME NEW p \in Proc, Ruling(p)', pc'[p] # "close"
             PROVE  cmd'[p].inc \notin alive'
    BY DEF Dormant
<1>1. Moved(p)
    BY CommandMoves
<1>2. CASE pc[p] # "idle"
    <2>1. cmd'[p].inc = cmd[p].inc /\ Ruling(p)
        BY <1>1, <1>2 DEF Moved, Ruling
    <2>2. CASE pc[p] = "close"
        BY <1>1, <2>1, <2>2 DEF Moved, Ruling, DismissClose
    <2>3. CASE pc[p] # "close"
        <3>1. cmd[p].inc \notin alive
            BY <2>1, <2>3 DEF Dormant
        <3>2. ASSUME NEW q \in Proc, Run(q) PROVE cmd[p].inc \notin alive'
            <4>1. Ruling(q) /\ pc'[q] = "idle"
                BY <3>2 DEF Run, Ruling, Phases, End, Goto, TypeOK
            <4>2. q # p
                BY <4>1 DEF Ruling
            <4>3. cmd[q].inc # cmd[p].inc
                BY <2>1, <4>1, <4>2, OneRuler
            <4> QED
                BY <3>1, <3>2, <4>3 DEF Run
        <3> QED
            BY <2>1, <3>1, <3>2, AliveWrites
    <2> QED
        BY <2>2, <2>3
<1>3. CASE RecruitStart(p)
    <2>1. cmd'[p].inc \in NewInc /\ alive' = alive
        BY <1>3 DEF RecruitStart, Recruit, TypeOK
    <2> QED
        BY <2>1 DEF Living, NewInc
<1>4. CASE AssignStart(p) \/ DismissCheck(p)
    BY <1>4 DEF AssignStart, DismissCheck, Assign, Goto, Ruling, TypeOK
<1> QED
    BY <1>1, <1>2, <1>3, <1>4 DEF Moved, Ruling

\* Paths freed without the crew's report have no writer left.
LEMMA FreedKept ==
    ASSUME TypeOK, TypeOK', Phases, OneHome, Launching, ActiveOwn, Dormant, FreedIsStopped,
           [Next]_vars
    PROVE  FreedIsStopped'
<1> SUFFICES ASSUME NEW a \in Asg, asg'[a].by \in {"recruit", "dismissal"}
             PROVE  asg'[a].inc \notin alive'
    BY DEF FreedIsStopped
<1>1. ASSUME NEW q \in Proc, Run(q) PROVE asg'[a].inc \notin alive'
    <2>1. asg' = asg /\ pc[q] = "launch"
        BY <1>1 DEF Run, fileVars
    <2>2. asg[a].inc # cmd[q].inc
        BY <2>1, AllocationAssumption DEF Launching, Standing
    <2> QED
        BY <1>1, <2>1, <2>2 DEF Run, FreedIsStopped
<1>2. ASSUME NEW q \in Proc, BeginWrite(q) PROVE asg'[a].inc \notin alive'
    BY <1>2, WriteEffect, AllocationAssumption DEF FreedIsStopped
<1>3. CASE alive' \subseteq alive /\ \A q \in Proc : ~BeginWrite(q)
    <2>1. asg'[a].inc = asg[a].inc
        BY <1>3, OtherWrites
    <2>2. CASE asg'[a].by = asg[a].by
        BY <1>3, <2>1, <2>2 DEF FreedIsStopped
    <2>3. CASE Report(a)
        BY <2>3 DEF Report, Finished, TypeOK
    <2>4. ASSUME NEW q \in Proc, ReleaseFailed(q) \/ DismissSettle(q),
                 a = active[cmd[q].s][cmd[q].n]
          PROVE  asg[a].inc \notin alive
        BY <2>4 DEF ReleaseFailed, DismissSettle, ActiveOwn, ActiveOn, Dormant, Ruling, Phases
    <2> QED
        BY <1>3, <2>1, <2>2, <2>3, <2>4, OtherWrites
<1> QED
    BY <1>1, <1>2, <1>3, AliveWrites

\* A CLI that runs is listed under its name, and the name is active on it: nobody else
\* writes that entry or that name's assignments while it runs.
LEMMA LivingKept ==
    ASSUME NameInv, TypeOK', [Next]_vars
    PROVE  Living'
<1> USE DEF NameInv
<1> SUFFICES ASSUME NEW inc \in alive'
             PROVE  \E s \in Session, n \in Name :
                       /\ roster'[s][n].inc = inc /\ Listed(s, n)'
                       /\ ActiveOn(s, n, inc)'
                       /\ \A a \in Asg : Unfinished(a)' /\ asg'[a].inc = inc => active'[s][n] = a
    BY DEF Living
<1>1. CASE inc \in alive
    <2>1. PICK s \in Session, n \in Name :
              /\ roster[s][n].inc = inc /\ Listed(s, n)
              /\ ActiveOn(s, n, inc)
              /\ \A a \in Asg : Unfinished(a) /\ asg[a].inc = inc => active[s][n] = a
        BY <1>1 DEF Living
    <2>2. inc \in Inc /\ Uses(inc, s, n)
        BY <2>1 DEF TypeOK, Uses
    <2>3. roster'[s][n].inc = inc
        BY <2>1, NameKeptStep
    <2>4. Listed(s, n)'
        <3>1. CASE roster'[s][n] = roster[s][n]
            BY <2>1, <3>1 DEF Listed
        <3>2. CASE roster'[s][n] # roster[s][n]
            <4>1. PICK q \in Proc, status \in {"held", "pending", "dismissed"} :
                      /\ Ruling(q) /\ SetEntry(q, status)
                      /\ status = "dismissed" => pc[q] # "close"
                BY <3>2, RosterWrites
            <4>2. s = cmd[q].s /\ n = cmd[q].n
                BY <3>2, <4>1, EntryWritten DEF Ruling
            <4>3. pc[q] = "close"
                BY <1>1, <2>1, <4>1, <4>2 DEF OwnName, Dormant
            <4>4. roster'[cmd[q].s][cmd[q].n] =
                      [inc |-> cmd[q].inc, status |-> status, worktree |-> cmd[q].worktree]
                BY <4>1, EntryWritten DEF Ruling
            <4> QED
                BY <4>1, <4>2, <4>3, <4>4 DEF Listed
        <3> QED
            BY <3>1, <3>2
    <2>5. ASSUME NEW q \in Proc, BeginWrite(q), cmd[q].s = s, cmd[q].n = n PROVE cmd[q].assign
        BY <1>1, <2>1, <2>5 DEF OwnName, Dormant, Ruling, BeginWrite
    <2>6. ActiveOn(s, n, inc)'
        BY <2>1, <2>5, ActiveKept
    <2>7. ASSUME NEW a \in Asg, Unfinished(a)', asg'[a].inc = inc PROVE active'[s][n] = a
        <3>1. ASSUME NEW q \in Proc, BeginWrite(q) PROVE active'[s][n] = a
            <4>1. PICK b \in Asg :
                  /\ asg'[b].inc = cmd[q].inc
                  /\ \A c \in Asg \ {b} : asg'[c] = asg[c]
                  /\ active'[cmd[q].s][cmd[q].n] = b
                  /\ \A t \in Session, k \in Name :
                        ~(t = cmd[q].s /\ k = cmd[q].n) => active'[t][k] = active[t][k]
                BY <3>1, WriteEffect
            <4>2. pc[q] = "write" /\ cmd[q].s \in Session /\ cmd[q].n \in Name
                BY <3>1, CommandTyped DEF BeginWrite
            <4>3. CASE s = cmd[q].s /\ n = cmd[q].n
                <5>1. active[s][n] = cmd[q].handoff /\ asg[active[s][n]].state = "done"
                    BY <2>5, <3>1, <4>2, <4>3 DEF AssignBase, WriteBase
                <5>2. a = b
                    BY <2>1, <2>7, <4>1, <5>1 DEF Unfinished
                <5> QED
                    BY <4>1, <4>3, <5>2
            <4>4. CASE ~(s = cmd[q].s /\ n = cmd[q].n)
                <5>1. cmd[q].inc # inc
                    BY <2>2, <4>2, <4>4 DEF OneHome, Uses
                <5>2. asg'[a] = asg[a]
                    BY <2>7, <4>1, <5>1
                <5> QED
                    BY <2>1, <2>7, <4>1, <4>4, <5>2 DEF Unfinished
            <4> QED
                BY <4>3, <4>4
        <3>2. CASE \A q \in Proc : ~BeginWrite(q)
            <4>1. /\ active' = active /\ asg[a].inc = inc
                  /\ Unfinished(a) \/ AnswerCommit(a)
                BY <2>7, <3>2, OtherWrites
            <4>2. CASE AnswerCommit(a)
                <5>1. CASE asg' = asg
                    BY <2>1, <2>7, <4>1, <5>1 DEF Unfinished
                <5>2. CASE asg' # asg
                    <6>1. PICK t \in Session, k \in Name : active[t][k] = a
                        BY <4>2, <5>2 DEF AnswerCommit
                    <6>2. Uses(inc, t, k)
                        BY <4>1, <6>1, AllocationAssumption DEF Uses, ActiveOn
                    <6>3. s = t /\ n = k
                        BY <2>2, <6>2 DEF OneHome
                    <6> QED
                        BY <4>1, <6>1, <6>3
                <5> QED
                    BY <5>1, <5>2
            <4> QED
                BY <2>1, <4>1, <4>2
        <3> QED
            BY <3>1, <3>2
    <2> QED
        BY <2>3, <2>4, <2>6, <2>7
<1>2. CASE inc \notin alive
    <2>1. PICK q \in Proc : Run(q) /\ inc = cmd[q].inc
        BY <1>2, AliveWrites DEF Run
    <2>2. pc[q] = "launch" /\ UNCHANGED fileVars
        BY <2>1 DEF Run
    <2>3. cmd[q].s \in Session /\ cmd[q].n \in Name /\ Ruling(q)
        BY <2>2, CommandTyped DEF Ruling, Phases
    <2>4. /\ Listed(cmd[q].s, cmd[q].n) /\ roster[cmd[q].s][cmd[q].n].inc = inc
          /\ ActiveOn(cmd[q].s, cmd[q].n, inc)
          /\ \A a \in Asg : Unfinished(a) /\ asg[a].inc = inc => active[cmd[q].s][cmd[q].n] = a
        BY <2>1, <2>2, <2>3 DEF Announced, OwnName, ActiveOwn, Launching
    <2> QED
        BY <2>2, <2>3, <2>4 DEF fileVars, Listed, ActiveOn, Unfinished
<1> QED
    BY <1>1, <1>2

\* No name, command, CLI or assignment is in use at the start.
LEMMA InitNames == Init => NameInv
<1> SUFFICES ASSUME Init PROVE NameInv
    OBVIOUS
<1>1. TypeOK
    BY InitTyped
<1>2. OneWriter /\ Phases /\ OwnName /\ AssignBase /\ WriteBase /\ Fresh /\ Launching
      /\ ActiveOwn /\ Announced /\ Dormant
    BY DEF Init, OneWriter, Phases, OwnName, AssignBase, WriteBase, Fresh, Launching,
           ActiveOwn, Announced, Dormant, Ruling
<1>3. ASSUME NEW inc \in Inc, NEW s \in Session, NEW n \in Name PROVE ~Uses(inc, s, n)
    BY AllocationAssumption DEF Init, Uses, ActiveOn, NoEntry, NoCommand
<1>4. OneHome
    BY <1>3 DEF OneHome
<1>5. Written /\ ListedOwn /\ Living /\ FreedIsStopped
    BY AllocationAssumption
       DEF Init, Written, ListedOwn, Listed, Living, FreedIsStopped, NoAssignment, NoEntry
<1> QED
    BY <1>1, <1>2, <1>4, <1>5 DEF NameInv

LEMMA NextNames == NameInv /\ TypeOK' /\ [Next]_vars => NameInv'
<1> SUFFICES ASSUME NameInv, TypeOK', [Next]_vars PROVE NameInv'
    OBVIOUS
<1>1. OneWriter' /\ Phases' /\ OwnName' /\ OneHome' /\ Written'
    BY OneWriterKept, PhasesKept, OwnNameKept, OneHomeKept, WrittenKept DEF NameInv
<1>2. AssignBase' /\ WriteBase' /\ Fresh' /\ Launching' /\ ActiveOwn' /\ ListedOwn'
    BY AssignBaseKept, WriteBaseKept, FreshKept, LaunchingKept, ActiveOwnKept, ListedOwnKept
       DEF NameInv
<1>3. Announced' /\ Dormant' /\ Living' /\ FreedIsStopped'
    BY AnnouncedKept, DormantKept, LivingKept, FreedKept DEF NameInv
<1> QED
    BY <1>1, <1>2, <1>3 DEF NameInv

\* Every reachable state satisfies the invariant of names and incarnations.
LEMMA NamesHold == Spec => []NameInv
<1> QED
    BY InitNames, NextNames, TypeCorrect, PTL DEF Spec

\* A native CLI that runs is never lost: its incarnation is listed under one name, and
\* whatever it has unfinished is what that name is active on, also when an assign that
\* read the roster long ago writes, or an answer reopens a released assignment.
THEOREM LivingStaysListed == Spec => []LivingIsListed
<1>1. NameInv => LivingIsListed
    BY DEF NameInv, Living, LivingIsListed
<1> QED
    BY NamesHold, <1>1, PTL

\* A recruit that failed or a dismissal frees paths only once nothing of that incarnation
\* runs, and nothing of it ever runs again.
THEOREM FreedStaysStopped == Spec => []FreedIsStopped
<1>1. NameInv => FreedIsStopped
    BY DEF NameInv
<1> QED
    BY NamesHold, <1>1, PTL
=============================================================================
