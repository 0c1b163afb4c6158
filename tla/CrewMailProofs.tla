--------------------------- MODULE CrewMailProofs ---------------------------
(***************************************************************************)
(* Proofs about crew mail, for any number of messages, questions, captain  *)
(* commands and crew commands.                                             *)
(***************************************************************************)
EXTENDS CrewMail, FiniteSetTheorems, TLAPS

\* The rank Enqueue gives a mail file is a number.
LEMMA RankIsNat ==
    ASSUME TypeOK
    PROVE  1 + Cardinality({n \in Msg : mail[n] # "none"}) \in Nat
<1>1. IsFiniteSet({n \in Msg : mail[n] # "none"})
    BY MailAssumption, FS_Subset
<1> QED
    BY <1>1, FS_CardinalityType

\* The initial state has the declared types.
LEMMA InitTypeOK == Init => TypeOK
<1> SUFFICES ASSUME Init PROVE TypeOK
    OBVIOUS
<1>1. NoStamp \in Stamp /\ NoCommand \in Command /\ NoReading \in Reading
    BY DEF NoStamp, Stamp, NoCommand, Command, NoReading, Reading
<1>2. stamp \in Stamp /\ cmd \in [Captain -> Command] /\ rd \in [Reader -> Reading]
    BY <1>1 DEF Init
<1>3. /\ pc \in [Proc -> CaptainPC \cup ReaderPC]
      /\ \A c \in Captain : pc[c] = "idle"
      /\ \A r \in Reader : pc[r] \in ReaderPC
    BY DEF Init, Proc, CaptainPC, ReaderPC
<1>4. \A c \in Captain : pc[c] \in CaptainPC
    BY <1>3 DEF CaptainPC
<1> QED
    BY <1>2, <1>3, <1>4 DEF Init, TypeOK

\* A captain command that ends leaves every command's place and message typed.
CommandTypes ==
    /\ pc \in [Proc -> CaptainPC \cup ReaderPC]
    /\ \A c \in Captain : pc[c] \in CaptainPC
    /\ \A r \in Reader : pc[r] \in ReaderPC
    /\ cmd \in [Captain -> Command]
    /\ \A c \in Captain : pc[c] # "idle" => cmd[c].msg \in Msg

LEMMA EndCommandTypes ==
    ASSUME TypeOK, NEW c \in Captain, EndCommand(c)
    PROVE  CommandTypes'
<1>1. NoCommand \in Command
    BY DEF NoCommand, Command
<1>2. /\ pc' = [pc EXCEPT ![c] = "idle"]
      /\ cmd' = [cmd EXCEPT ![c] = NoCommand]
    BY DEF EndCommand, Goto
<1>3. "idle" \in CaptainPC
    BY DEF CaptainPC
<1> QED
    BY <1>1, <1>2, <1>3, MailAssumption DEF TypeOK, CommandTypes, Proc

\* A step of a captain command keeps the types.
LEMMA CaptainTypeOK ==
    ASSUME TypeOK, NEW c \in Captain, CaptainStep(c)
    PROVE  TypeOK'
<1> USE MailAssumption
        DEF TypeOK, Proc, Stamp, Command, CaptainPC, ReaderPC, Goto, NoCommand
<1>1. ASSUME NEW m \in Msg, Prepare(c, m)  PROVE TypeOK'
    <2>1. delivery' \in [Msg -> {"none", "prepared", "sent", "read"}]
        BY <1>1 DEF Prepare
    <2>2. cmd' = [cmd EXCEPT ![c].msg = m] /\ pc' = [pc EXCEPT ![c] = "enqueue"]
        BY <1>1 DEF Prepare
    <2>3. /\ cmd' \in [Captain -> Command]
          /\ cmd'[c].msg = m
          /\ \A d \in Captain \ {c} : cmd'[d] = cmd[d]
        BY <1>1, <2>2
    <2>4. CommandTypes'
        BY <1>1, <2>2, <2>3 DEF CommandTypes
    <2> HIDE DEF Proc, Stamp, Command, CaptainPC, ReaderPC
    <2> QED
        BY <1>1, <2>1, <2>4 DEF Prepare, CommandTypes, assignVars, viewVars, endVars
<1>2. CASE AlreadySent(c)
    <2> HIDE DEF Proc, Stamp, Command, CaptainPC, ReaderPC
    <2>1. CommandTypes'
        BY <1>2, EndCommandTypes DEF AlreadySent
    <2> QED
        BY <1>2, <2>1 DEF AlreadySent, CommandTypes, assignVars, fileVars, viewVars, endVars
<1>3. CASE Enqueue(c)
    <2>1. cmd[c].msg \in Msg
        BY <1>3 DEF Enqueue
    <2>2. mail' \in [Msg -> {"none", "queued", "read", "bounced"}]
        BY <1>3, <2>1 DEF Enqueue, Enqueued
    <2>3. queuedAt' \in [Msg -> Nat]
        BY <1>3, <2>1, RankIsNat DEF Enqueue
    <2> QED
        BY <1>3, <2>2, <2>3 DEF Enqueue, assignVars, ringVars, viewVars, endVars
<1>4. CASE Commit(c)
    <2>1. cmd[c].msg \in Msg
        BY <1>4 DEF Commit
    <2>2. delivery' \in [Msg -> {"none", "prepared", "sent", "read"}]
        BY <1>4, <2>1 DEF Commit
    <2>3. state' \in {"working", "asked", "done"} /\ question' \in Question \cup {None}
        BY <1>4 DEF Commit, MarkSent
    <2>4. CASE pc' = [pc EXCEPT ![c] = "ring"] /\ UNCHANGED cmd
        BY <1>4, <2>1, <2>2, <2>3, <2>4 DEF Commit, viewVars, endVars
    <2>5. CASE EndCommand(c)
        BY <1>4, <2>2, <2>3, <2>5, EndCommandTypes DEF CommandTypes, Commit, viewVars, endVars
    <2> QED
        BY <1>4, <2>4, <2>5 DEF Commit
<1>5. CASE Drain(c)
    <2>1. PICK m \in NextRing : cmd' = [cmd EXCEPT ![c].msg = m]
        BY <1>5 DEF Drain
    <2>2. m \in Msg
        BY DEF NextRing, Oldest, Unread
    <2> QED
        BY <1>5, <2>1, <2>2 DEF Drain, assignVars, fileVars, viewVars, endVars
<1>6. CASE RingRead(c)
    <2>1. cmd[c].msg \in Msg /\ stamp.bodies \in SUBSET Msg /\ stamp.landed \in BOOLEAN
        BY <1>6 DEF RingRead
    <2> DEFINE text == /\ ~HookDelivered
                       /\ ~(stamp.id = cmd[c].msg /\ stamp.landed)
                       /\ cmd[c].msg \in Unread
    <2>2. text \in BOOLEAN
        OBVIOUS
    <2>3. [msg |-> cmd[c].msg, bodies |-> stamp.bodies, echo |-> stamp.landed, text |-> text]
              \in Command
        BY <2>1, <2>2
    <2>4. cmd' = [cmd EXCEPT ![c] = [msg |-> cmd[c].msg, bodies |-> stamp.bodies,
                                     echo |-> stamp.landed, text |-> text]]
        BY <1>6 DEF RingRead
    <2> HIDE DEF text
    <2>5. cmd' \in [Captain -> Command] /\ cmd'[c].msg \in Msg
          /\ \A d \in Captain \ {c} : cmd'[d] = cmd[d]
        BY <2>1, <2>3, <2>4
    <2> QED
        BY <1>6, <2>5 DEF RingRead, assignVars, fileVars, viewVars, endVars
<1>7. CASE Nudge(c)
    <2>1. cmd[c].msg \in Msg
        BY <1>7 DEF Nudge
    <2>2. shown' \in SUBSET Msg
        BY <1>7 DEF Nudge, Typed
    <2>3. CASE EndCommand(c)
        BY <1>7, <2>2, <2>3, EndCommandTypes DEF CommandTypes, Nudge, assignVars, fileVars, endVars
    <2>4. CASE /\ \E where \in {"landed", "held", "lost"} : pc' = [pc EXCEPT ![c] = where]
               /\ UNCHANGED cmd
        BY <1>7, <2>1, <2>2, <2>4 DEF Nudge, assignVars, fileVars, endVars
    <2> QED
        BY <1>7, <2>3, <2>4 DEF Nudge
<1>8. CASE StampRing(c)
    <2>1. cmd[c].msg \in Msg /\ cmd[c].bodies \in SUBSET Msg
        BY <1>8 DEF StampRing
    <2>2. stamp' \in Stamp
        BY <1>8, <2>1 DEF StampRing, Typed
    <2>3. CASE pc[c] = "lost"
        <3>1. [NoCommand EXCEPT !.msg = cmd[c].msg] \in Command
              /\ [NoCommand EXCEPT !.msg = cmd[c].msg].msg = cmd[c].msg
            BY <2>1
        <3>2. /\ cmd' = [cmd EXCEPT ![c] = [NoCommand EXCEPT !.msg = cmd[c].msg]]
              /\ pc' = [pc EXCEPT ![c] = "bounce"]
            BY <1>8, <2>3 DEF StampRing
        <3>3. /\ cmd' \in [Captain -> Command] /\ cmd'[c].msg \in Msg
              /\ \A d \in Captain \ {c} : cmd'[d] = cmd[d]
            BY <2>1, <3>1, <3>2
        <3> QED
            BY <1>8, <2>2, <3>2, <3>3 DEF StampRing, assignVars, fileVars, viewVars, endVars
    <2>4. CASE EndCommand(c)
        BY <1>8, <2>2, <2>4, EndCommandTypes DEF CommandTypes, StampRing, assignVars, fileVars, viewVars, endVars
    <2> QED
        BY <1>8, <2>3, <2>4 DEF StampRing
<1>9. CASE Bounce(c)
    BY <1>9 DEF Bounce, assignVars, ringVars, viewVars, endVars
<1>10. CASE BounceNotice(c)
    BY <1>10, EndCommandTypes DEF CommandTypes, BounceNotice, assignVars, fileVars, viewVars, endVars
<1>11. CASE CaptainDies(c)
    BY <1>11, EndCommandTypes DEF CommandTypes, CaptainDies, assignVars, fileVars, viewVars, endVars
<1> QED
    BY <1>1, <1>2, <1>3, <1>4, <1>5, <1>6, <1>7, <1>8, <1>9, <1>10, <1>11 DEF CaptainStep

\* A step of a crew command keeps the types.
LEMMA ReaderTypeOK ==
    ASSUME TypeOK, NEW r \in Reader, ReaderStep(r)
    PROVE  TypeOK'
<1> USE MailAssumption
        DEF TypeOK, Proc, Reading, CaptainPC, ReaderPC, Goto, EndReading, NoReading
<1>1. CASE Render(r)
    BY <1>1 DEF Render, Unread, assignVars, fileVars, ringVars, viewVars, endVars
<1>2. CASE Flush(r)
    BY <1>2 DEF Flush, assignVars, fileVars, ringVars, endVars
<1>3. CASE ReceiptFiles(r)
    BY <1>3 DEF ReceiptFiles, MarkRead, assignVars, ringVars, viewVars, endVars
<1>4. CASE ReceiptMirror(r)
    BY <1>4 DEF ReceiptMirror, assignVars, ringVars, viewVars, endVars
<1>5. CASE DoneStart(r)
    BY <1>5 DEF DoneStart, Unread, assignVars, fileVars, ringVars, viewVars, endVars
<1>6. CASE DoneRefuse(r)
    BY <1>6 DEF DoneRefuse, assignVars, fileVars, ringVars, endVars
<1>7. CASE DoneFile(r)
    BY <1>7 DEF DoneFile, fileVars, ringVars, viewVars, endVars
<1>8. CASE ReaderDies(r)
    <2>1. PICK S \in SUBSET {m \in rd[r].ids : mail[m] = "queued"} :
              /\ MarkRead(S)
              /\ dropped' = dropped \cup
                    CASE pc[r] = "doneMark" -> S \cap rd[r].owed
                      [] pc[r] \in {"doneMirror", "refuse"} -> rd[r].owed
                      [] OTHER -> {}
        BY <1>8 DEF ReaderDies
    <2>2. mail' \in [Msg -> {"none", "queued", "read", "bounced"}]
        BY <2>1 DEF MarkRead
    <2>3. dropped' \in SUBSET Msg
        BY <2>1
    <2> QED
        BY <1>8, <2>2, <2>3 DEF ReaderDies, assignVars, ringVars, endVars
<1> QED
    BY <1>1, <1>2, <1>3, <1>4, <1>5, <1>6, <1>7, <1>8 DEF ReaderStep

\* A step of a dismissal keeps the types.
LEMMA DismissTypeOK ==
    ASSUME TypeOK, DismissStep
    PROVE  TypeOK'
<1> USE DEF TypeOK
<1>1. CASE DismissCheck
    BY <1>1 DEF DismissCheck, NeverRead, assignVars, fileVars, ringVars, viewVars
<1>2. CASE DismissClose
    BY <1>2 DEF DismissClose, assignVars, fileVars, ringVars, viewVars
<1>3. CASE DismissBounce
    BY <1>3 DEF DismissBounce, Unread, assignVars, ringVars, viewVars
<1>4. CASE DismissRelease
    BY <1>4 DEF DismissRelease, fileVars, ringVars, viewVars
<1>5. CASE DismissRetire
    BY <1>5 DEF DismissRetire, assignVars, fileVars, ringVars, viewVars
<1>6. CASE DismissDies
    BY <1>6 DEF DismissDies, assignVars, fileVars, ringVars, viewVars
<1> QED
    BY <1>1, <1>2, <1>3, <1>4, <1>5, <1>6 DEF DismissStep

\* Every step keeps the types.
LEMMA NextTypeOK == TypeOK /\ [Next]_vars => TypeOK'
<1> SUFFICES ASSUME TypeOK, [Next]_vars PROVE TypeOK'
    OBVIOUS
<1>1. ASSUME NEW q \in Question, Ask(q)  PROVE TypeOK'
    BY <1>1 DEF TypeOK, Ask, fileVars, ringVars, viewVars, endVars
<1>2. CASE Turn
    BY <1>2 DEF TypeOK, Turn, assignVars, fileVars, ringVars, endVars
<1>3. CASE UNCHANGED vars
    BY <1>3 DEF TypeOK, vars, assignVars, fileVars, ringVars, viewVars, endVars
<1> QED
    BY <1>1, <1>2, <1>3, CaptainTypeOK, ReaderTypeOK, DismissTypeOK DEF Next

\* Every variable keeps its type, and a captain command past its first step holds a message.
THEOREM TypeCorrect == Spec => []TypeOK
<1> QED
    BY InitTypeOK, NextTypeOK, PTL DEF Spec
-----------------------------------------------------------------------------
(* A filed report leaves nothing behind it.                                *)

\* Between Enqueue and Commit a captain command holds the protocol lock, and nobody else
\* moves its message: done cannot look in between.
CommitHolds == \A c \in Captain : pc[c] = "commit" => lock = c /\ delivery[cmd[c].msg] = "prepared"

\* Once dismissal has closed the pane no command of the crew runs again.
ClosedIsGone == roster \in {"closed", "bounced", "released", "dismissed"} => ~alive

\* A report goes with the state that keeps every later message out.
ReportIsDone == report = "crew" => state = "done"

SettledInv == TypeOK /\ CommitHolds /\ ClosedIsGone /\ ReportIsDone /\ ReportSettled

\* Nothing holds a message, a pane or a report at the start.
LEMMA InitSettled == Init => SettledInv
<1> SUFFICES ASSUME Init PROVE SettledInv
    OBVIOUS
<1>1. \A c \in Captain : pc[c] = "idle"
    BY DEF Init, Proc
<1>2. CommitHolds
    BY <1>1 DEF CommitHolds
<1>3. ClosedIsGone
    BY DEF Init, ClosedIsGone
<1>4. ReportIsDone /\ ReportSettled
    BY MailAssumption DEF Init, ReportIsDone, ReportSettled
<1> QED
    BY <1>2, <1>3, <1>4, InitTypeOK DEF SettledInv

\* After a report no captain command is between Enqueue and Commit.
LEMMA NoCommitAfterReport ==
    ASSUME SettledInv, report = "crew", NEW c \in Captain
    PROVE  pc[c] # "commit"
BY DEF SettledInv, TypeOK, CommitHolds, ReportSettled

\* A step of a captain command keeps the report settled.
LEMMA CaptainSettled ==
    ASSUME SettledInv, NEW c \in Captain, CaptainStep(c)
    PROVE  SettledInv'
<1>0. TypeOK' /\ TypeOK
    BY CaptainTypeOK DEF SettledInv
<1>1. UNCHANGED <<roster, alive, report>>
    BY DEF CaptainStep, Prepare, AlreadySent, Enqueue, Commit, Drain, RingRead, Nudge, StampRing,
           Bounce, BounceNotice, CaptainDies, assignVars, endVars
<1>2. ClosedIsGone'
    BY <1>1 DEF SettledInv, ClosedIsGone
<1>3. CommitHolds' /\ ReportIsDone' /\ ReportSettled'
    <2> USE MailAssumption DEF SettledInv, TypeOK, CommitHolds, ReportIsDone, ReportSettled, Proc
    <2>1. ASSUME NEW m \in Msg, Prepare(c, m)
          PROVE CommitHolds' /\ ReportIsDone' /\ ReportSettled'
        BY <2>1, <1>0 DEF Prepare, Goto, assignVars
    <2>2. CASE AlreadySent(c)
        BY <2>2, <1>0 DEF AlreadySent, EndCommand, Goto, assignVars, fileVars
    <2>3. CASE Enqueue(c)
        BY <2>3, <1>0 DEF Enqueue, Enqueued, Goto, assignVars, ringVars
    <2>4. CASE Commit(c)
        BY <2>4, <1>0, <1>1, NoCommitAfterReport DEF Commit, MarkSent, EndCommand, Goto
    <2>5. CASE Drain(c)
        BY <2>5, <1>0 DEF Drain, Goto, assignVars, fileVars
    <2>6. CASE RingRead(c)
        BY <2>6, <1>0 DEF RingRead, Goto, assignVars, fileVars
    <2>7. CASE Nudge(c)
        BY <2>7, <1>0 DEF Nudge, EndCommand, Goto, assignVars, fileVars
    <2>8. CASE StampRing(c)
        BY <2>8, <1>0 DEF StampRing, EndCommand, Goto, assignVars, fileVars
    <2>9. CASE Bounce(c)
        BY <2>9, <1>0 DEF Bounce, Goto, assignVars, ringVars
    <2>10. CASE BounceNotice(c)
        BY <2>10, <1>0 DEF BounceNotice, EndCommand, Goto, assignVars, fileVars
    <2>11. CASE CaptainDies(c)
        BY <2>11, <1>0 DEF CaptainDies, EndCommand, Goto, assignVars, fileVars
    <2> QED
        BY <2>1, <2>2, <2>3, <2>4, <2>5, <2>6, <2>7, <2>8, <2>9, <2>10, <2>11 DEF CaptainStep
<1> QED
    BY <1>0, <1>2, <1>3 DEF SettledInv

\* A step of a crew command keeps the report settled: DoneFile looks at messages and mail
\* with the lock free, so no captain command is between Enqueue and Commit.
LEMMA ReaderSettled ==
    ASSUME SettledInv, NEW r \in Reader, ReaderStep(r)
    PROVE  SettledInv'
<1>0. TypeOK' /\ TypeOK
    BY ReaderTypeOK DEF SettledInv
<1>1. UNCHANGED <<roster, alive, cmd, lock>> /\ \A c \in Captain : pc'[c] = pc[c]
    BY <1>0, MailAssumption
       DEF ReaderStep, Render, Flush, ReceiptFiles, ReceiptMirror, DoneStart, DoneRefuse,
           DoneFile, ReaderDies, Goto, EndReading, ringVars, endVars, TypeOK, Proc
<1>2. ClosedIsGone'
    BY <1>1 DEF SettledInv, ClosedIsGone
<1>3. CASE DoneFile(r)
    <2>1. UNCHANGED <<delivery, mail>>
        BY <1>3 DEF DoneFile, fileVars
    <2>2. CommitHolds'
        BY <1>0, <1>1, <2>1 DEF SettledInv, CommitHolds
    <2>3. ReportIsDone'
        BY <1>3 DEF DoneFile, SettledInv, ReportIsDone
    <2>4. roster # "dismissed"
        BY <1>3 DEF DoneFile, SettledInv, ClosedIsGone
    <2>5. ReportSettled'
        BY <1>0, <1>3, <2>1, <2>4 DEF DoneFile, MayFile, Unread, SettledInv, ReportSettled
    <2> QED
        BY <1>0, <1>2, <2>2, <2>3, <2>5 DEF SettledInv
<1>4. CASE ~DoneFile(r)
    <2>1. UNCHANGED <<state, report>>
        BY <1>4 DEF ReaderStep, Render, Flush, ReceiptFiles, ReceiptMirror, DoneStart,
                    DoneRefuse, ReaderDies, assignVars
    <2>2. \A m \in Msg :
              /\ delivery[m] = "prepared" <=> delivery'[m] = "prepared"
              /\ mail'[m] = "queued" => mail[m] = "queued"
        BY <1>0, <1>4
           DEF ReaderStep, Render, Flush, ReceiptFiles, ReceiptMirror, DoneStart, DoneRefuse,
               ReaderDies, MarkRead, fileVars, TypeOK
    <2>3. CommitHolds'
        BY <1>0, <1>1, <2>2 DEF SettledInv, CommitHolds, TypeOK, Proc, CaptainPC
    <2>4. ReportIsDone' /\ ReportSettled'
        BY <1>0, <2>1, <2>2 DEF SettledInv, ReportIsDone, ReportSettled
    <2> QED
        BY <1>0, <1>2, <2>3, <2>4 DEF SettledInv
<1> QED
    BY <1>3, <1>4

\* A step of a dismissal keeps the report settled.
LEMMA DismissSettled ==
    ASSUME SettledInv, DismissStep
    PROVE  SettledInv'
<1>0. TypeOK' /\ TypeOK
    BY DismissTypeOK DEF SettledInv
<1>1. UNCHANGED <<pc, cmd, lock, delivery>>
    BY DEF DismissStep, DismissCheck, DismissClose, DismissBounce, DismissRelease, DismissRetire,
           DismissDies, fileVars, ringVars
<1>2. CommitHolds'
    BY <1>0, <1>1 DEF SettledInv, CommitHolds
<1>3. ClosedIsGone'
    BY DEF SettledInv, ClosedIsGone, DismissStep, DismissCheck, DismissClose, DismissBounce,
           DismissRelease, DismissRetire, DismissDies
<1>4. /\ report' = report \/ report' = "dismissal"
      /\ state' = state \/ state' = "done"
      /\ \A m \in Msg : mail'[m] = "queued" => mail[m] = "queued"
    BY <1>0 DEF DismissStep, DismissCheck, DismissClose, DismissBounce, DismissRelease,
                DismissRetire, DismissDies, assignVars, fileVars, TypeOK
<1>5. ReportIsDone' /\ ReportSettled'
    BY <1>0, <1>1, <1>4 DEF SettledInv, ReportIsDone, ReportSettled
<1> QED
    BY <1>0, <1>2, <1>3, <1>5 DEF SettledInv

\* Every step keeps the report settled.
LEMMA NextSettled == SettledInv /\ [Next]_vars => SettledInv'
<1> SUFFICES ASSUME SettledInv, [Next]_vars PROVE SettledInv'
    OBVIOUS
<1>0. TypeOK' /\ TypeOK
    BY NextTypeOK DEF SettledInv
<1> USE DEF SettledInv, CommitHolds, ClosedIsGone, ReportIsDone, ReportSettled
<1>1. ASSUME NEW q \in Question, Ask(q)  PROVE SettledInv'
    BY <1>0, <1>1 DEF Ask, fileVars, ringVars, endVars
<1>2. CASE Turn
    BY <1>0, <1>2 DEF Turn, assignVars, fileVars, ringVars, endVars
<1>3. CASE UNCHANGED vars
    BY <1>0, <1>3 DEF vars, assignVars, fileVars, ringVars, endVars
<1> QED
    BY <1>1, <1>2, <1>3, CaptainSettled, ReaderSettled, DismissSettled DEF Next

\* protocol.change refuses done over a prepared or an unread message, and deliver refuses
\* a new message once done: together they leave nothing behind a crew's report.
THEOREM ReportIsSettled == Spec => []ReportSettled
<1>1. SettledInv => ReportSettled
    BY DEF SettledInv
<1> QED
    BY InitSettled, NextSettled, <1>1, PTL DEF Spec

-----------------------------------------------------------------------------
(* What a step may never do.                                               *)

\* Only the commit that holds the lock changes an open question.
LEMMA QuestionStep ==
    ASSUME SettledInv, [Next]_vars, question # None, question' # question
    PROVE  \E m \in Msg : AnswerTo[m] = question /\ delivery[m] = "prepared" /\ delivery'[m] = "sent"
<1>1. PICK c \in Captain : Commit(c)
    BY DEF Next, CaptainStep, ReaderStep, DismissStep, vars, assignVars,
           Prepare, AlreadySent, Enqueue, Drain, RingRead, Nudge, StampRing, Bounce, BounceNotice,
           CaptainDies, Render, Flush, ReceiptFiles, ReceiptMirror, DoneStart, DoneRefuse, DoneFile,
           ReaderDies, Ask, Turn, DismissCheck, DismissClose, DismissBounce, DismissRelease,
           DismissRetire, DismissDies
<1>2. cmd[c].msg \in Msg /\ delivery[cmd[c].msg] = "prepared"
    BY <1>1 DEF Commit, SettledInv, TypeOK, CommitHolds
<1>3. AnswerTo[cmd[c].msg] = question
    BY <1>1 DEF Commit, MarkSent
<1>4. delivery'[cmd[c].msg] = "sent"
    BY <1>1, <1>2 DEF Commit, SettledInv, TypeOK
<1> QED
    BY <1>2, <1>3, <1>4

\* A question the crew asked is closed by the commit of its own answer and by nothing else.
THEOREM QuestionsAnswered == Spec => OnlyAnswerCloses
<1>1. SettledInv /\ [Next]_vars =>
          (question # None /\ question' # question =>
              \E m \in Msg : /\ AnswerTo[m] = question
                             /\ delivery[m] = "prepared" /\ delivery'[m] = "sent")
    BY QuestionStep
<1> QED
    BY InitSettled, NextSettled, <1>1, PTL DEF Spec, OnlyAnswerCloses

\* A report is final: done is refused twice, a dismissal spares it, no answer reopens it.
LEMMA ReportStep ==
    ASSUME SettledInv, [Next]_vars, report = "crew"
    PROVE  report' = "crew" /\ state' = "done"
<1>1. state = "done"
    BY DEF SettledInv, ReportIsDone
<1>2. SettledInv'
    BY NextSettled
<1>3. report' = "crew"
    BY <1>1 DEF Next, CaptainStep, ReaderStep, DismissStep, vars, assignVars,
           Prepare, AlreadySent, Enqueue, Commit, Drain, RingRead, Nudge, StampRing, Bounce,
           BounceNotice, CaptainDies, Render, Flush, ReceiptFiles, ReceiptMirror, DoneStart,
           DoneRefuse, DoneFile, MayFile, ReaderDies, Ask, Turn, DismissCheck, DismissClose,
           DismissBounce, DismissRelease, MustRelease, DismissRetire, DismissDies
<1> QED
    BY <1>2, <1>3 DEF SettledInv, ReportIsDone

\* Once the crew's own report is filed, no answer, retry, bounce or dismissal replaces it:
\* the assignment stays done with that report.
THEOREM ReportIsFinal == Spec => ReportSurvives
<1>1. SettledInv /\ [Next]_vars => (report = "crew" => report' = "crew" /\ state' = "done")
    BY ReportStep
<1> QED
    BY InitSettled, NextSettled, <1>1, PTL DEF Spec, ReportSurvives

-----------------------------------------------------------------------------
(* Deliveries and mail only move forward.                                  *)

LeftQueue(m) == mail[m] \in {"read", "bounced"}

Forward ==
    /\ \A m \in Msg :
          /\ delivery[m] # "none" => delivery'[m] # "none"
          /\ delivery[m] = "sent" => delivery'[m] \in {"sent", "read"}
          /\ delivery[m] = "read" => delivery'[m] = "read"
          /\ mail[m] # "none" => mail'[m] # "none"
          /\ LeftQueue(m) => LeftQueue(m)'
    /\ shown \subseteq shown'
    /\ alive' => alive

\* A commit finds its message "prepared", enqueue leaves a file that is there, and a
\* receipt and a bounce only take from the queue.
LEMMA ForwardStep ==
    ASSUME SettledInv, [Next]_vars
    PROVE  Forward
<1> USE DEF SettledInv, TypeOK, Forward, LeftQueue
<1>1. ASSUME NEW c \in Captain, CaptainStep(c) PROVE Forward
    <2>1. ASSUME NEW m \in Msg, Prepare(c, m) PROVE Forward
        BY <2>1 DEF Prepare, viewVars, endVars
    <2>2. CASE AlreadySent(c)
        BY <2>2 DEF AlreadySent, fileVars, viewVars, endVars
    <2>3. CASE Enqueue(c)
        BY <2>3 DEF Enqueue, Enqueued, viewVars, endVars
    <2>4. CASE Commit(c)
        <3>1. delivery[cmd[c].msg] = "prepared"
            BY <2>4 DEF Commit, CommitHolds
        <3> QED
            BY <2>4, <3>1 DEF Commit, viewVars, endVars
    <2>5. CASE Drain(c)
        BY <2>5 DEF Drain, fileVars, viewVars, endVars
    <2>6. CASE RingRead(c)
        BY <2>6 DEF RingRead, fileVars, viewVars, endVars
    <2>7. CASE Nudge(c)
        BY <2>7 DEF Nudge, fileVars, endVars
    <2>8. CASE StampRing(c)
        BY <2>8 DEF StampRing, fileVars, viewVars, endVars
    <2>9. CASE Bounce(c)
        BY <2>9 DEF Bounce, viewVars, endVars
    <2>10. CASE BounceNotice(c)
        BY <2>10 DEF BounceNotice, fileVars, viewVars, endVars
    <2>11. CASE CaptainDies(c)
        BY <2>11 DEF CaptainDies, fileVars, viewVars, endVars
    <2> QED
        BY <1>1, <2>1, <2>2, <2>3, <2>4, <2>5, <2>6, <2>7, <2>8, <2>9, <2>10, <2>11 DEF CaptainStep
<1>2. ASSUME NEW r \in Reader, ReaderStep(r) PROVE Forward
    BY <1>2 DEF ReaderStep, Render, Flush, ReceiptFiles, ReceiptMirror, DoneStart, DoneRefuse,
                DoneFile, ReaderDies, MarkRead, fileVars, viewVars, endVars
<1>3. CASE DismissStep
    BY <1>3 DEF DismissStep, DismissCheck, DismissClose, DismissBounce, DismissRelease,
                DismissRetire, DismissDies, Unread, fileVars, viewVars
<1>4. ASSUME NEW q \in Question, Ask(q) PROVE Forward
    BY <1>4 DEF Ask, fileVars, viewVars, endVars
<1>5. CASE Turn \/ UNCHANGED vars
    BY <1>5 DEF Turn, vars, fileVars, viewVars, endVars
<1> QED
    BY <1>1, <1>2, <1>3, <1>4, <1>5 DEF Next

\* A delivery only moves forward and mail that left the queue stays out of it: a retried
\* deliver, a lost race or a crash between the two files serves nothing a second time.
THEOREM DeliveryGoesForward == Spec => DeliveryForward
<1>1. SettledInv /\ [Next]_vars =>
          \A m \in Msg :
              /\ delivery[m] = "sent" => delivery'[m] \in {"sent", "read"}
              /\ delivery[m] = "read" => delivery'[m] = "read"
              /\ mail[m] # "none" => mail'[m] # "none"
              /\ mail[m] \in {"read", "bounced"} => mail'[m] # "queued"
    BY ForwardStep DEF Forward, LeftQueue
<1> QED
    BY InitSettled, NextSettled, <1>1, PTL DEF Spec, DeliveryForward

-----------------------------------------------------------------------------
(* A question and the state.                                               *)

\* Every step keeps an open question and the state "asked" together.
LEMMA AskedStep ==
    ASSUME SettledInv, AskedMeansOpen, [Next]_vars
    PROVE  AskedMeansOpen'
<1> USE DEF AskedMeansOpen
<1>1. ASSUME NEW c \in Captain, CaptainStep(c) PROVE AskedMeansOpen'
    <2>1. CASE Commit(c)
        BY <2>1 DEF Commit, MarkSent
    <2>2. CASE UNCHANGED assignVars
        BY <2>2 DEF assignVars
    <2> QED
        BY <1>1, <2>1, <2>2 DEF CaptainStep, Prepare, AlreadySent, Enqueue, Drain, RingRead,
                                Nudge, StampRing, Bounce, BounceNotice, CaptainDies
<1>2. ASSUME NEW r \in Reader, ReaderStep(r) PROVE AskedMeansOpen'
    <2>1. CASE DoneFile(r)
        BY <2>1 DEF DoneFile, MayFile
    <2>2. CASE UNCHANGED assignVars
        BY <2>2 DEF assignVars
    <2> QED
        BY <1>2, <2>1, <2>2 DEF ReaderStep, Render, Flush, ReceiptFiles, ReceiptMirror,
                                DoneStart, DoneRefuse, ReaderDies
<1>3. CASE DismissStep
    BY <1>3 DEF DismissStep, DismissCheck, DismissClose, DismissBounce, DismissRelease,
                DismissRetire, DismissDies, assignVars
<1>4. ASSUME NEW q \in Question, Ask(q) PROVE AskedMeansOpen'
    BY <1>4, MailAssumption DEF Ask
<1>5. CASE Turn \/ UNCHANGED vars
    BY <1>5 DEF Turn, vars, assignVars
<1> QED
    BY <1>1, <1>2, <1>3, <1>4, <1>5 DEF Next

\* "asked" says that a question waits for its answer, unless a dismissal has released the
\* assignment; no second answer, retry or late commit parts the two.
THEOREM AskedIsOpen == Spec => []AskedMeansOpen
<1>1. Init => AskedMeansOpen
    BY DEF Init, AskedMeansOpen
<1>2. SettledInv /\ AskedMeansOpen /\ [Next]_vars => AskedMeansOpen'
    BY AskedStep
<1> QED
    BY InitSettled, NextSettled, <1>1, <1>2, PTL DEF Spec

-----------------------------------------------------------------------------
(* The two files of a message agree.                                       *)

\* Past its mail file, a captain command's message has one; so has the last ring's.
Underway ==
    /\ \A c \in Captain : pc[c] \notin {"idle", "enqueue"} => mail[cmd[c].msg] # "none"
    /\ stamp.id # None => mail[stamp.id] # "none"

\* What a receipt turned stays turned until it is mirrored.
Mirrored ==
    \A r \in Reader : pc[r] \in {"mirror", "doneMirror"} => \A m \in rd[r].ids : LeftQueue(m)

FilesInv == SettledInv /\ FilesAgree /\ Underway /\ Mirrored

\* A step of a captain command keeps the files in agreement.
LEMMA CaptainFiles ==
    ASSUME FilesInv, TypeOK', NEW c \in Captain, CaptainStep(c), Forward
    PROVE  FilesAgree' /\ Underway' /\ Mirrored'
<1> USE MailAssumption DEF FilesInv, SettledInv, TypeOK, Forward, Proc
<1>1. Mirrored'
    <2>1. rd' = rd /\ \A r \in Reader : pc'[r] = pc[r]
        BY DEF CaptainStep, Prepare, AlreadySent, Enqueue, Commit, Drain, RingRead, Nudge,
               StampRing, Bounce, BounceNotice, CaptainDies, EndCommand, Goto
    <2> QED
        BY <2>1 DEF Mirrored, Reading
<1>2. FilesAgree'
    <2> USE DEF FilesAgree, Underway
    <2>1. ASSUME NEW m \in Msg, Prepare(c, m) PROVE FilesAgree'
        BY <2>1 DEF Prepare
    <2>2. CASE Enqueue(c)
        BY <2>2 DEF Enqueue, Enqueued
    <2>3. CASE Commit(c)
        BY <2>3 DEF Commit, CommitHolds
    <2>4. CASE Bounce(c)
        BY <2>4 DEF Bounce
    <2>5. CASE UNCHANGED <<delivery, mail>>
        BY <2>5
    <2> QED
        BY <2>1, <2>2, <2>3, <2>4, <2>5
           DEF CaptainStep, AlreadySent, Drain, RingRead, Nudge, StampRing, BounceNotice,
               CaptainDies, fileVars
<1>3. Underway'
    <2>1. ASSUME cmd' = cmd, \A d \in Captain : pc'[d] = pc[d] \/ pc[d] \notin {"idle", "enqueue"},
                 stamp' = stamp
          PROVE  Underway'
        BY <2>1 DEF Underway, Stamp
    <2>2. ASSUME EndCommand(c), stamp' = stamp PROVE Underway'
        BY <2>2 DEF Underway, EndCommand, Goto, Stamp
    <2>3. ASSUME NEW m \in Msg, Prepare(c, m) PROVE Underway'
        BY <2>3 DEF Prepare, Goto, Underway, Stamp, Command
    <2>4. CASE Enqueue(c)
        <3>1. mail'[cmd[c].msg] # "none" /\ cmd' = cmd /\ stamp' = stamp
            BY <2>4 DEF Enqueue, Enqueued, ringVars
        <3> QED
            BY <2>4, <3>1 DEF Enqueue, Goto, Underway, Stamp
    <2>5. CASE Commit(c)
        BY <2>1, <2>2, <2>5 DEF Commit, Goto
    <2>6. CASE Drain(c)
        <3>1. PICK m \in NextRing : cmd' = [cmd EXCEPT ![c].msg = m]
            BY <2>6 DEF Drain
        <3>2. m \in Msg /\ mail[m] # "none"
            BY DEF NextRing, Oldest, Unread, Underway, Stamp
        <3>3. /\ cmd'[c].msg = m
              /\ \A d \in Captain \ {c} : cmd'[d] = cmd[d] /\ pc'[d] = pc[d]
            BY <2>6, <3>1 DEF Drain, Goto, Command
        <3> QED
            BY <2>6, <3>2, <3>3 DEF Drain, Underway, Stamp
    <2>7. CASE RingRead(c)
        <3>1. /\ cmd'[c].msg = cmd[c].msg
              /\ \A d \in Captain \ {c} : cmd'[d] = cmd[d] /\ pc'[d] = pc[d]
            BY <2>7 DEF RingRead, Goto
        <3> QED
            BY <2>7, <3>1 DEF RingRead, Underway, Stamp
    <2>8. CASE Nudge(c)
        BY <2>1, <2>2, <2>8 DEF Nudge, Goto
    <2>9. CASE StampRing(c)
        <3>1. /\ stamp'.id = cmd[c].msg
              /\ \A d \in Captain \ {c} : cmd'[d] = cmd[d] /\ pc'[d] = pc[d]
              /\ pc'[c] = "idle" \/ cmd'[c].msg = cmd[c].msg
            BY <2>9 DEF StampRing, EndCommand, Goto, NoCommand
        <3> QED
            BY <2>9, <3>1 DEF StampRing, Underway
    <2>10. CASE Bounce(c)
        BY <2>1, <2>10 DEF Bounce, Goto, ringVars
    <2>11. CASE AlreadySent(c) \/ BounceNotice(c) \/ CaptainDies(c)
        BY <2>2, <2>11 DEF AlreadySent, BounceNotice, CaptainDies
    <2> QED
        BY <2>3, <2>4, <2>5, <2>6, <2>7, <2>8, <2>9, <2>10, <2>11 DEF CaptainStep
<1> QED
    BY <1>1, <1>2, <1>3

\* Only a captain command moves a captain command or the stamp.
LEMMA RingKept ==
    ASSUME TypeOK, [Next]_vars, \A c \in Captain : ~CaptainStep(c)
    PROVE  cmd' = cmd /\ stamp' = stamp /\ \A c \in Captain : pc'[c] = pc[c]
    BY MailAssumption
       DEF TypeOK, Proc, Next, ReaderStep, DismissStep, Render, Flush, ReceiptFiles,
           ReceiptMirror, DoneStart, DoneRefuse, DoneFile, ReaderDies, Ask, Turn, DismissCheck,
           DismissClose, DismissBounce, DismissRelease, DismissRetire, DismissDies, EndReading,
           Goto, ringVars, vars

\* A step of a crew command keeps the files in agreement: only what a receipt has turned
\* is mirrored.
LEMMA ReaderFiles ==
    ASSUME FilesInv, TypeOK', NEW r \in Reader, ReaderStep(r), Forward
    PROVE  FilesAgree' /\ Mirrored'
<1> USE MailAssumption DEF FilesInv, SettledInv, TypeOK, Forward, Proc, Reading
<1>1. CASE ReceiptFiles(r)
    <2>1. FilesAgree'
        BY <1>1 DEF ReceiptFiles, MarkRead, FilesAgree
    <2>2. Mirrored'
        BY <1>1 DEF ReceiptFiles, MarkRead, Goto, Mirrored, LeftQueue
    <2> QED
        BY <2>1, <2>2
<1>2. CASE ReceiptMirror(r)
    <2>1. FilesAgree'
        BY <1>2 DEF ReceiptMirror, FilesAgree, Mirrored, LeftQueue
    <2>2. Mirrored'
        BY <1>2 DEF ReceiptMirror, EndReading, NoReading, Goto, Mirrored
    <2> QED
        BY <2>1, <2>2
<1>3. CASE ReaderDies(r)
    <2>1. FilesAgree'
        BY <1>3 DEF ReaderDies, MarkRead, FilesAgree
    <2>2. Mirrored'
        BY <1>3 DEF ReaderDies, EndReading, NoReading, Goto, Mirrored
    <2> QED
        BY <2>1, <2>2
<1>4. CASE Render(r) \/ Flush(r) \/ DoneStart(r) \/ DoneRefuse(r) \/ DoneFile(r)
    <2>1. FilesAgree'
        BY <1>4 DEF Render, Flush, DoneStart, DoneRefuse, DoneFile, fileVars, FilesAgree
    <2>2. Mirrored'
        BY <1>4 DEF Render, Flush, DoneStart, DoneRefuse, DoneFile, EndReading, NoReading, Goto,
                    Mirrored
    <2> QED
        BY <2>1, <2>2
<1> QED
    BY <1>1, <1>2, <1>3, <1>4 DEF ReaderStep

\* Every step keeps the files in agreement.
LEMMA NextFiles == FilesInv /\ [Next]_vars => FilesInv'
<1> SUFFICES ASSUME FilesInv, [Next]_vars PROVE FilesInv'
    OBVIOUS
<1>1. SettledInv' /\ Forward
    BY NextSettled, ForwardStep DEF FilesInv
<1>2. TypeOK' /\ TypeOK
    BY <1>1 DEF FilesInv, SettledInv
<1>3. ASSUME \A c \in Captain : ~CaptainStep(c) PROVE Underway'
    BY <1>1, <1>2, <1>3, RingKept DEF FilesInv, Underway, Forward, TypeOK, Stamp
<1>4. ASSUME NEW c \in Captain, CaptainStep(c) PROVE FilesInv'
    BY <1>1, <1>2, <1>4, CaptainFiles DEF FilesInv
<1>5. ASSUME NEW r \in Reader, ReaderStep(r) PROVE FilesAgree' /\ Mirrored'
    BY <1>1, <1>2, <1>5, ReaderFiles
<1>6. ASSUME UNCHANGED <<pc, rd>>,
             \A m \in Msg : /\ delivery'[m] = delivery[m]
                            /\ mail'[m] = mail[m] \/ (mail[m] = "queued" /\ mail'[m] = "bounced")
      PROVE  FilesAgree' /\ Mirrored'
    <2>1. FilesAgree'
        BY <1>6 DEF FilesInv, FilesAgree
    <2>2. Mirrored'
        BY <1>1, <1>2, <1>6 DEF FilesInv, Mirrored, Forward, TypeOK, Reading
    <2> QED
        BY <2>1, <2>2
<1>7. ASSUME \/ DismissStep
             \/ \E q \in Question : Ask(q)
             \/ Turn \/ UNCHANGED vars
      PROVE  FilesAgree' /\ Mirrored'
    <2>1. /\ UNCHANGED <<pc, rd, delivery>>
          /\ \A m \in Msg : mail'[m] = mail[m] \/ (mail[m] = "queued" /\ mail'[m] = "bounced")
        BY <1>7, <1>2 DEF DismissStep, DismissCheck, DismissClose, DismissBounce, DismissRelease,
                    DismissRetire, DismissDies, Ask, Turn, Unread, fileVars, vars, TypeOK
    <2> QED
        BY <1>6, <2>1
<1>8. CASE \A c \in Captain : ~CaptainStep(c)
    BY <1>1, <1>3, <1>5, <1>7, <1>8 DEF Next, FilesInv
<1> QED
    BY <1>4, <1>8

\* No file holds a message at the start.
LEMMA InitFiles == Init => FilesInv
<1> SUFFICES ASSUME Init PROVE FilesInv
    OBVIOUS
<1>1. \A p \in Proc : pc[p] = "idle"
    BY DEF Init
<1>2. FilesAgree
    BY DEF Init, FilesAgree
<1>3. Underway /\ Mirrored
    BY <1>1 DEF Init, Underway, Mirrored, NoStamp, Proc
<1> QED
    BY <1>2, <1>3, InitSettled DEF FilesInv

\* deliver, receipt and bounce write the assignment and the mail file one after the other,
\* and any of them may die in between: the two still agree.
THEOREM FilesStayAgreed == Spec => []FilesAgree
<1>1. FilesInv => FilesAgree
    BY DEF FilesInv
<1> QED
    BY InitFiles, NextFiles, <1>1, PTL DEF Spec

-----------------------------------------------------------------------------
(* A receipt without a body.                                               *)

\* A body the model has seen, or that some receipt or bounce took from the queue.
Reached(m) == m \in shown \/ LeftQueue(m)

\* The bodies a ring carries forward were typed, and so was its own when it lands.  Once
\* the pane is closed a ring may be composed without a text, but none lands any more.
Ringing == {"nudge", "landed", "held", "lost"}
RingCarries ==
    ~HookDelivered =>
        \A c \in Captain :
            /\ pc[c] \in Ringing => \A m \in cmd[c].bodies : Reached(m)
            /\ pc[c] = "nudge" /\ ~cmd[c].text => Reached(cmd[c].msg) \/ ~alive
            /\ pc[c] = "landed" => Reached(cmd[c].msg)

\* What a receipt is about to stamp was printed, or a done still owes it.
Stamping ==
    \A r \in Reader :
        /\ pc[r] = "mark" => rd[r].ids \subseteq shown
        /\ pc[r] = "doneMark" => \A m \in rd[r].ids : m \in rd[r].owed \/ Reached(m)

BodyInv == FilesInv /\ LandedWasTyped /\ RingCarries /\ Stamping /\ OnlyRefusalLoses

\* A body once reached stays reached.
LEMMA ReachedKept ==
    ASSUME Forward, NEW m \in Msg, Reached(m)
    PROVE  Reached(m)'
BY DEF Forward, Reached, LeftQueue

\* A step of a captain command keeps what rings and the stamp say of bodies: a ring goes
\* without its text only for a body that landed, left the queue, or whose pane is gone.
LEMMA CaptainRings ==
    ASSUME BodyInv, TypeOK', NEW c \in Captain, CaptainStep(c), Forward, ~HookDelivered
    PROVE  LandedWasTyped' /\ RingCarries'
<1> USE MailAssumption DEF BodyInv, FilesInv, SettledInv, TypeOK, Proc, Ringing
<1>1. /\ \A m \in Msg : Reached(m) => Reached(m)'
      /\ alive' => alive
    BY ReachedKept DEF Forward
<1>2. /\ \A m \in stamp.bodies : Reached(m)
      /\ stamp.landed /\ stamp.id \in Msg => Reached(stamp.id)
    BY DEF LandedWasTyped, LandedBodies, Reached, LeftQueue, Stamp
<1>3. ASSUME stamp' = stamp PROVE LandedWasTyped'
    BY <1>1, <1>3 DEF LandedWasTyped, LandedBodies, Reached, LeftQueue, Stamp
<1>4. ASSUME \A d \in Captain \ {c} : cmd'[d] = cmd[d] /\ pc'[d] = pc[d],
             /\ pc'[c] \in Ringing => \A m \in cmd'[c].bodies : Reached(m)'
             /\ pc'[c] = "nudge" /\ ~cmd'[c].text => Reached(cmd[c].msg)' \/ ~alive'
             /\ pc'[c] = "landed" => Reached(cmd[c].msg)'
      PROVE  RingCarries'
    <2>1. ASSUME NEW d \in Captain \ {c}
          PROVE  /\ pc'[d] \in Ringing => \A m \in cmd'[d].bodies : Reached(m)'
                 /\ pc'[d] = "nudge" /\ ~cmd'[d].text => Reached(cmd[d].msg)' \/ ~alive'
                 /\ pc'[d] = "landed" => Reached(cmd[d].msg)'
        BY <1>1, <1>4, <2>1 DEF RingCarries, Command
    <2> QED
        BY <1>4, <2>1 DEF RingCarries
<1>5. CASE RingRead(c)
    <2>1. /\ pc' = [pc EXCEPT ![c] = "nudge"] /\ stamp' = stamp
          /\ \A d \in Captain \ {c} : cmd'[d] = cmd[d]
          /\ cmd'[c].msg = cmd[c].msg /\ cmd'[c].bodies = stamp.bodies
          /\ cmd'[c].text <=> /\ ~(stamp.id = cmd[c].msg /\ stamp.landed)
                              /\ cmd[c].msg \in Unread
        BY <1>5 DEF RingRead, Goto
    <2>2. cmd[c].msg \in Msg /\ mail[cmd[c].msg] # "none"
        BY <1>5 DEF RingRead, Underway
    <2>3. ~cmd'[c].text => Reached(cmd[c].msg) \/ ~alive
        BY <1>2, <2>1, <2>2 DEF Unread, Reached, LeftQueue, ClosedIsGone
    <2>4. pc'[c] = "nudge" /\ ~cmd'[c].text => Reached(cmd[c].msg)' \/ ~alive'
        BY <1>1, <2>1, <2>2, <2>3
    <2>5. \A m \in cmd'[c].bodies : Reached(m)'
        BY <1>1, <1>2, <2>1 DEF Stamp
    <2> QED
        BY <1>3, <1>4, <2>1, <2>4, <2>5
<1>6. CASE Nudge(c)
    <2>1. stamp' = stamp /\ \A d \in Captain \ {c} : cmd'[d] = cmd[d] /\ pc'[d] = pc[d]
        BY <1>6 DEF Nudge, Goto, EndCommand
    <2>2. CASE EndCommand(c)
        BY <1>3, <1>4, <2>1, <2>2 DEF EndCommand, Goto
    <2>3. CASE pc' = [pc EXCEPT ![c] = "held"] \/ pc' = [pc EXCEPT ![c] = "lost"]
        <3>1. CASE cmd' = cmd
            BY <1>1, <1>3, <1>4, <1>6, <2>1, <2>3, <3>1 DEF Nudge, RingCarries, Command
        <3> QED
            BY <1>6, <2>2, <3>1 DEF Nudge
    <2>4. CASE alive /\ Goto(c, "landed") /\ shown' = shown \cup Typed(c) /\ UNCHANGED cmd
        <3>1. cmd[c].msg \in Msg /\ (cmd[c].text => cmd[c].msg \in Typed(c))
            BY <1>6 DEF Nudge, Typed
        <3>2. Reached(cmd[c].msg)'
            BY <1>1, <1>6, <2>4, <3>1 DEF Nudge, RingCarries, Reached
        <3>3. \A m \in cmd[c].bodies : Reached(m)'
            BY <1>1, <1>6 DEF Nudge, RingCarries, Command
        <3> QED
            BY <1>3, <1>4, <2>1, <2>4, <3>2, <3>3 DEF Goto
    <2> QED
        BY <1>6, <2>2, <2>3, <2>4 DEF Nudge, Goto
<1>7. CASE StampRing(c)
    <2>1. /\ \A d \in Captain \ {c} : cmd'[d] = cmd[d] /\ pc'[d] = pc[d]
          /\ pc'[c] \in {"idle", "bounce"}
        BY <1>7 DEF StampRing, Goto, EndCommand
    <2>2. /\ \A m \in cmd[c].bodies : Reached(m)
          /\ pc[c] = "landed" => Reached(cmd[c].msg)
        BY <1>7 DEF StampRing, RingCarries
    <2>3. /\ stamp'.id = cmd[c].msg /\ stamp'.landed = (pc[c] = "landed")
          /\ stamp'.bodies \subseteq cmd[c].bodies \cup
                 {m \in Msg : pc[c] = "landed" /\ m = cmd[c].msg}
        BY <1>7 DEF StampRing, Typed
    <2>4. \A m \in LandedBodies(stamp)' : Reached(m)
        BY <2>2, <2>3 DEF LandedBodies
    <2>5. LandedWasTyped'
        BY <1>1, <2>4 DEF LandedWasTyped, LandedBodies, Reached, LeftQueue, Stamp
    <2> QED
        BY <1>4, <2>1, <2>5
<1>8. ASSUME stamp' = stamp, pc'[c] \notin Ringing,
             \A d \in Captain \ {c} : cmd'[d] = cmd[d] /\ pc'[d] = pc[d]
      PROVE  LandedWasTyped' /\ RingCarries'
    BY <1>3, <1>4, <1>8
<1>9. ASSUME NEW m \in Msg, Prepare(c, m) PROVE LandedWasTyped' /\ RingCarries'
    BY <1>8, <1>9 DEF Prepare, Goto
<1>10. CASE \/ AlreadySent(c) \/ Enqueue(c) \/ Commit(c) \/ Drain(c) \/ Bounce(c)
            \/ BounceNotice(c) \/ CaptainDies(c)
    BY <1>8, <1>10 DEF AlreadySent, Enqueue, Commit, Drain, Bounce, BounceNotice, CaptainDies,
                       EndCommand, Goto, ringVars
<1> QED
    BY <1>5, <1>6, <1>7, <1>9, <1>10 DEF CaptainStep

\* So does every step: only captain commands ring and stamp.
LEMMA NextRings ==
    ASSUME BodyInv, TypeOK', [Next]_vars, Forward
    PROVE  LandedWasTyped' /\ RingCarries'
<1>1. CASE HookDelivered
    BY <1>1 DEF LandedWasTyped, LandedBodies, RingCarries
<1>2. CASE ~HookDelivered /\ \A c \in Captain : ~CaptainStep(c)
    <2>1. TypeOK /\ cmd' = cmd /\ stamp' = stamp /\ \A c \in Captain : pc'[c] = pc[c]
        BY <1>2, RingKept DEF BodyInv, FilesInv, SettledInv
    <2>2. LandedWasTyped'
        BY <2>1, ReachedKept DEF BodyInv, LandedWasTyped, LandedBodies, Reached, LeftQueue,
                                 TypeOK, Stamp
    <2>3. ASSUME NEW c \in Captain
          PROVE  /\ pc[c] \in Ringing => \A m \in cmd[c].bodies : Reached(m)'
                 /\ pc[c] = "nudge" /\ ~cmd[c].text => Reached(cmd[c].msg)' \/ ~alive'
                 /\ pc[c] = "landed" => Reached(cmd[c].msg)'
        BY <1>2, <2>1, ReachedKept
           DEF BodyInv, RingCarries, Ringing, TypeOK, Command, Forward
    <2> QED
        BY <2>1, <2>2, <2>3 DEF RingCarries
<1> QED
    BY <1>1, <1>2, CaptainRings

\* A step that prints nothing, moves no crew command and receipts nothing owes no body.
LEMMA IdleBodies ==
    ASSUME BodyInv, TypeOK', Forward, rd' = rd, dropped' = dropped,
           \A r \in Reader : pc'[r] = pc[r],
           \A m \in Msg : mail'[m] = "read" => mail[m] = "read"
    PROVE  Stamping' /\ OnlyRefusalLoses'
<1>1. Stamping'
    BY ReachedKept DEF BodyInv, FilesInv, SettledInv, TypeOK, Reading, Stamping, Forward
<1>2. OnlyRefusalLoses'
    BY DEF BodyInv, OnlyRefusalLoses, Forward
<1> QED
    BY <1>1, <1>2

\* A step of a crew command receipts only bodies it printed, owes, or knows to be reached:
\* what done leaves out of its refusal is what the stamp says a ring typed.
LEMMA ReaderBodies ==
    ASSUME BodyInv, TypeOK', NEW r \in Reader, ReaderStep(r), Forward
    PROVE  Stamping' /\ OnlyRefusalLoses'
<1> USE MailAssumption DEF BodyInv, FilesInv, SettledInv, TypeOK, Proc, Reading
<1>1. /\ \A m \in Msg : Reached(m) => Reached(m)'
      /\ shown \subseteq shown'
    BY ReachedKept DEF Forward
<1>2. \A q \in Reader \ {r} : pc'[q] = pc[q] /\ rd'[q] = rd[q]
    BY DEF ReaderStep, Render, Flush, ReceiptFiles, ReceiptMirror, DoneStart, DoneRefuse,
           DoneFile, ReaderDies, Goto, EndReading
<1>3. ASSUME pc'[r] = "mark" => rd'[r].ids \subseteq shown',
             pc'[r] = "doneMark" => \A m \in rd'[r].ids : m \in rd'[r].owed \/ Reached(m)'
      PROVE  Stamping'
    <2>1. ASSUME NEW q \in Reader \ {r}
          PROVE  /\ pc'[q] = "mark" => rd'[q].ids \subseteq shown'
                 /\ pc'[q] = "doneMark" => \A m \in rd'[q].ids : m \in rd'[q].owed \/ Reached(m)'
        BY <1>1, <1>2, <2>1 DEF Stamping
    <2> QED
        BY <1>3, <2>1 DEF Stamping
<1>4. ASSUME dropped \subseteq dropped',
             \A m \in Msg : mail'[m] = "read" /\ mail[m] # "read" =>
                 \/ m \in shown' \cup dropped'
                 \/ pc'[r] \in {"doneMirror", "refuse"} /\ m \in rd'[r].owed,
             pc[r] \in {"doneMirror", "refuse"} => \A m \in rd[r].owed :
                 \/ m \in shown' \cup dropped'
                 \/ pc'[r] \in {"doneMirror", "refuse"} /\ m \in rd'[r].owed
      PROVE  OnlyRefusalLoses'
    <2>1. ASSUME NEW m \in Msg, mail'[m] = "read"
          PROVE  \/ m \in shown' \cup dropped'
                 \/ \E q \in Reader : pc'[q] \in {"doneMirror", "refuse"} /\ m \in rd'[q].owed
        <3>1. CASE mail[m] # "read"
            BY <1>4, <2>1, <3>1
        <3>2. CASE m \in shown \cup dropped
            BY <1>1, <1>4, <3>2
        <3>3. ASSUME NEW q \in Reader, pc[q] \in {"doneMirror", "refuse"}, m \in rd[q].owed
              PROVE  \/ m \in shown' \cup dropped'
                     \/ \E p \in Reader : pc'[p] \in {"doneMirror", "refuse"} /\ m \in rd'[p].owed
            BY <1>2, <1>4, <3>3
        <3> QED
            BY <3>1, <3>2, <3>3 DEF OnlyRefusalLoses
    <2> QED
        BY <2>1 DEF OnlyRefusalLoses
<1>5. CASE Render(r)
    BY <1>3, <1>4, <1>5 DEF Render, Goto, fileVars, viewVars
<1>6. CASE Flush(r)
    <2>1. pc'[r] = "mark" /\ rd'[r].ids \subseteq shown' /\ UNCHANGED <<mail, dropped>>
        BY <1>6 DEF Flush, Goto, fileVars
    <2> QED
        BY <1>3, <1>4, <1>6, <2>1 DEF Flush
<1>7. CASE ReceiptFiles(r)
    <2>1. /\ pc'[r] = IF pc[r] = "mark" THEN "mirror" ELSE "doneMirror"
          /\ rd'[r].owed = rd[r].owed
          /\ UNCHANGED <<shown, dropped>>
          /\ pc[r] \in {"mark", "doneMark"}
        BY <1>7 DEF ReceiptFiles, Goto, viewVars
    <2>2. \A m \in Msg : mail'[m] = "read" /\ mail[m] # "read" =>
              m \in rd[r].ids /\ mail[m] = "queued"
        BY <1>7 DEF ReceiptFiles, MarkRead
    <2>3. \A m \in Msg : mail'[m] = "read" /\ mail[m] # "read" =>
              \/ m \in shown' \cup dropped'
              \/ pc'[r] \in {"doneMirror", "refuse"} /\ m \in rd'[r].owed
        BY <2>1, <2>2 DEF Stamping, Reached, LeftQueue
    <2>4. Stamping'
        BY <1>3, <2>1
    <2> QED
        BY <1>4, <2>1, <2>3, <2>4
<1>8. CASE ReceiptMirror(r)
    <2>1. /\ pc[r] \in {"mirror", "doneMirror"} /\ UNCHANGED <<mail, shown, dropped>>
          /\ pc'[r] \in {"idle", "file", "refuse"}
          /\ pc[r] = "doneMirror" =>
                /\ rd'[r].owed = rd[r].owed
                /\ rd[r].owed # {} => pc'[r] = "refuse"
        BY <1>8 DEF ReceiptMirror, Goto, EndReading, viewVars
    <2> QED
        BY <1>3, <1>4, <2>1
<1>9. CASE DoneStart(r)
    <2>1. /\ UNCHANGED <<mail, shown, dropped>> /\ pc[r] = "idle"
          /\ pc'[r] \in {"file", "doneMark"}
          /\ rd'[r] = [ids |-> Unread, owed |-> Unread \ LandedBodies(stamp)]
        BY <1>9 DEF DoneStart, Goto, fileVars, viewVars
    <2>2. \A m \in rd'[r].ids : m \in rd'[r].owed \/ (m \in Msg /\ Reached(m))
        BY <2>1 DEF Unread, LandedWasTyped, Reached, LeftQueue
    <2>3. \A m \in rd'[r].ids : m \in rd'[r].owed \/ Reached(m)'
        BY <1>1, <2>2
    <2> QED
        BY <1>3, <1>4, <2>1, <2>3
<1>10. CASE DoneRefuse(r)
    <2>1. /\ pc'[r] = "idle" /\ shown' = shown \cup rd[r].owed /\ UNCHANGED <<mail, dropped>>
        BY <1>10 DEF DoneRefuse, Goto, EndReading, fileVars
    <2> QED
        BY <1>3, <1>4, <2>1
<1>11. CASE DoneFile(r)
    <2>1. /\ pc'[r] = "idle" /\ pc[r] = "file" /\ UNCHANGED <<mail, shown, dropped>>
        BY <1>11 DEF DoneFile, Goto, EndReading, fileVars, viewVars
    <2> QED
        BY <1>3, <1>4, <2>1
<1>12. CASE ReaderDies(r)
    <2>1. PICK S \in SUBSET {m \in rd[r].ids : mail[m] = "queued"} :
              /\ S # {} => pc[r] \in {"mark", "doneMark"} /\ lock = None
              /\ MarkRead(S)
              /\ dropped' = dropped \cup
                    CASE pc[r] = "doneMark" -> S \cap rd[r].owed
                      [] pc[r] \in {"doneMirror", "refuse"} -> rd[r].owed
                      [] OTHER -> {}
        BY <1>12 DEF ReaderDies
    <2>2. pc'[r] = "idle" /\ shown' = shown
        BY <1>12 DEF ReaderDies, Goto, EndReading
    <2>3. Stamping'
        BY <1>3, <2>2
    <2>4. /\ dropped \subseteq dropped'
          /\ pc[r] = "doneMark" => S \cap rd[r].owed \subseteq dropped'
          /\ pc[r] \in {"doneMirror", "refuse"} => rd[r].owed \subseteq dropped'
        BY <2>1
    <2>5. \A m \in Msg : mail'[m] = "read" /\ mail[m] # "read" =>
              m \in S /\ m \in rd[r].ids /\ mail[m] = "queued" /\ pc[r] \in {"mark", "doneMark"}
        BY <2>1 DEF MarkRead
    <2>6. \A m \in Msg : mail'[m] = "read" /\ mail[m] # "read" => m \in shown' \cup dropped'
        BY <2>2, <2>4, <2>5 DEF Stamping, Reached, LeftQueue
    <2> QED
        BY <1>4, <2>3, <2>4, <2>6
<1> QED
    BY <1>5, <1>6, <1>7, <1>8, <1>9, <1>10, <1>11, <1>12 DEF ReaderStep

\* Every step keeps the whole invariant.
LEMMA NextBodies == BodyInv /\ [Next]_vars => BodyInv'
<1> SUFFICES ASSUME BodyInv, [Next]_vars PROVE BodyInv'
    OBVIOUS
<1>1. FilesInv' /\ Forward
    BY NextFiles, ForwardStep DEF BodyInv, FilesInv
<1>2. TypeOK' /\ TypeOK
    BY <1>1 DEF BodyInv, FilesInv, SettledInv
<1>3. LandedWasTyped' /\ RingCarries'
    BY <1>1, <1>2, NextRings
<1>4. ASSUME NEW r \in Reader, ReaderStep(r) PROVE Stamping' /\ OnlyRefusalLoses'
    BY <1>1, <1>2, <1>4, ReaderBodies
<1>5. ASSUME NEW c \in Captain, CaptainStep(c) PROVE Stamping' /\ OnlyRefusalLoses'
    <2>1. /\ rd' = rd /\ dropped' = dropped
          /\ \A r \in Reader : pc'[r] = pc[r]
          /\ \A m \in Msg : mail'[m] = "read" => mail[m] = "read"
        BY <1>2, <1>5, MailAssumption
           DEF CaptainStep, Prepare, AlreadySent, Enqueue, Enqueued, Commit, Drain, RingRead,
               Nudge, StampRing, Bounce, BounceNotice, CaptainDies, EndCommand, Goto, fileVars,
               viewVars, TypeOK, Proc
    <2> QED
        BY <1>1, <1>2, <2>1, IdleBodies
<1>6. ASSUME \/ DismissStep
             \/ \E q \in Question : Ask(q)
             \/ Turn \/ UNCHANGED vars
      PROVE  Stamping' /\ OnlyRefusalLoses'
    <2>1. /\ rd' = rd /\ dropped' = dropped /\ pc' = pc
          /\ \A m \in Msg : mail'[m] = "read" => mail[m] = "read"
        BY <1>2, <1>6 DEF DismissStep, DismissCheck, DismissClose, DismissBounce, DismissRelease,
                    DismissRetire, DismissDies, Ask, Turn, fileVars, viewVars, vars, TypeOK
    <2> QED
        BY <1>1, <1>2, <2>1, IdleBodies
<1> QED
    BY <1>1, <1>3, <1>4, <1>5, <1>6 DEF Next, BodyInv

\* Nothing is stamped, typed or owed at the start.
LEMMA InitBodies == Init => BodyInv
<1> SUFFICES ASSUME Init PROVE BodyInv
    OBVIOUS
<1>1. \A p \in Proc : pc[p] = "idle"
    BY DEF Init
<1>2. LandedWasTyped
    BY MailAssumption DEF Init, LandedWasTyped, LandedBodies, NoStamp
<1>3. RingCarries /\ Stamping
    BY <1>1 DEF RingCarries, Ringing, Stamping, Proc
<1>4. OnlyRefusalLoses
    BY DEF Init, OnlyRefusalLoses
<1> QED
    BY <1>2, <1>3, <1>4, InitFiles DEF BodyInv

\* done leaves a body out of its refusal when the stamp says a ring typed it: the stamp,
\* though any ring may write it over any other's without a lock, says so only of a body
\* that was typed or had left the queue.
THEOREM LandedIsTyped == Spec => []LandedWasTyped
<1>1. BodyInv => LandedWasTyped
    BY DEF BodyInv
<1> QED
    BY InitBodies, NextBodies, <1>1, PTL DEF Spec

\* A receipt whose body the model never saw has one cause: a done that stamped it and has
\* yet to print it, or died before it could.
THEOREM LossIsRefusal == Spec => []OnlyRefusalLoses
<1>1. BodyInv => OnlyRefusalLoses
    BY DEF BodyInv
<1> QED
    BY InitBodies, NextBodies, <1>1, PTL DEF Spec

=============================================================================
