------------------------------ MODULE CrewMail ------------------------------
(***************************************************************************)
(* Crew mail: how one assignment's messages travel from the captain to the *)
(* crew (protocol.py: deliver, enqueue, queued, receipt, ring, drain,      *)
(* bounce, change; events.py: deliver_mail; cli.py: print_inbox;           *)
(* agents.py: dismiss_crew).                                               *)
(*                                                                         *)
(* A message lives in two files: the assignment's entry in protocol.json   *)
(* (delivery) and the mail file the crew reads (mail).  The doorbell keeps *)
(* a third, the .drain stamp, written without any lock.  Captain and crew  *)
(* commands are separate processes: each may be interleaved between any    *)
(* two file operations, and each may die there.                            *)
(***************************************************************************)
EXTENDS Integers, FiniteSets

CONSTANTS
    Msg,            \* message ids; an id is a hash of the content, so one id is one content
    Question,       \* the ids of the questions the crew may ask
    AnswerTo,       \* AnswerTo[m]: the question message m answers, or None
    Captain,        \* captain commands: tell, assign, answer, wait, pump_mail, interrupt
    Reader,         \* crew commands: delivery hooks, captain inbox, captain done
    HookDelivered,  \* whether the crew's provider is in models.HOOK_DELIVERED (claude)
    Dismissible,    \* whether the captain ever tries to dismiss the crew
    None            \* no message, no question, no process

ASSUME MailAssumption ==
    /\ IsFiniteSet(Msg)
    /\ AnswerTo \in [Msg -> Question \cup {None}]
    /\ HookDelivered \in BOOLEAN
    /\ Dismissible \in BOOLEAN
    /\ None \notin Msg \cup Question \cup Captain \cup Reader \cup {"crew", "dismissal"}
    /\ Captain \cap Reader = {}

VARIABLES
    state,      \* assignment["state"]
    question,   \* assignment["question"], by id
    asked,      \* question ids already drawn (uuid4 never repeats)
    report,     \* who wrote assignment["report"]: the crew's done or a dismissal
    delivery,   \* assignment["messages"][m]["delivery"]
    mail,       \* the "state" of mail/<crew>/<m>.json
    queuedAt,   \* its "queued_at", as the rank in which the files were written
    stamp,      \* the .drain record of the last ring
    notices,    \* the messages a "bounced" notice names
    lock,       \* holder of protocol.lock
    pc,         \* where each command is
    cmd,        \* what a captain command holds: its message, and what its ring read
    rd,         \* what a reader holds: the ids it rendered, and what its refusal owes
    shown,      \* messages whose body was typed or printed to the model (history)
    dropped,    \* messages a done had receipted when it died before printing them (history)
    turned,     \* whether a native event proves a turn ran
    roster,     \* the roster status: "live" or "dismissed", or how far a dismissal got
    alive,      \* whether the crew's pane is open
    undelivered \* what dismiss_crew saw when it asked never_read

assignVars == <<state, question, asked, report>>
fileVars   == <<delivery, mail, queuedAt>>
ringVars   == <<stamp, cmd>>
viewVars   == <<shown, dropped, turned>>
endVars    == <<roster, alive, undelivered>>
vars == <<assignVars, fileVars, ringVars, viewVars, endVars, rd, notices, lock, pc>>

Proc == Captain \cup Reader

Stamp == [id: Msg \cup {None}, landed: BOOLEAN, bodies: SUBSET Msg]
NoStamp == [id |-> None, landed |-> FALSE, bodies |-> {}]

\* A ring keeps the bodies of the stamp it read, whether that ring had landed (the draft
\* it meets may then be its own echo), and whether it carries the message text.
Command == [msg: Msg \cup {None}, bodies: SUBSET Msg, echo: BOOLEAN, text: BOOLEAN]
NoCommand == [msg |-> None, bodies |-> {}, echo |-> FALSE, text |-> FALSE]

Reading == [ids: SUBSET Msg, owed: SUBSET Msg]
NoReading == [ids |-> {}, owed |-> {}]

CaptainPC == {"idle", "enqueue", "commit", "ring", "nudge",
              "landed", "held", "lost", "bounce", "notify"}
ReaderPC  == {"idle", "flush", "mark", "mirror", "doneMark", "doneMirror", "refuse", "file"}

TypeOK ==
    /\ state \in {"working", "asked", "done"}
    /\ question \in Question \cup {None}
    /\ asked \in SUBSET Question
    /\ report \in {None, "crew", "dismissal"}
    /\ delivery \in [Msg -> {"none", "prepared", "sent", "read"}]
    /\ mail \in [Msg -> {"none", "queued", "read", "bounced"}]
    /\ queuedAt \in [Msg -> Nat]
    /\ stamp \in Stamp
    /\ notices \in SUBSET Msg
    /\ lock \in Proc \cup {None}
    /\ pc \in [Proc -> CaptainPC \cup ReaderPC]
    /\ \A c \in Captain : pc[c] \in CaptainPC
    /\ \A r \in Reader : pc[r] \in ReaderPC
    /\ cmd \in [Captain -> Command]
    /\ \A c \in Captain : pc[c] # "idle" => cmd[c].msg \in Msg
    /\ rd \in [Reader -> Reading]
    /\ shown \in SUBSET Msg
    /\ dropped \in SUBSET Msg
    /\ turned \in BOOLEAN
    /\ roster \in {"live", "checked", "closed", "bounced", "released", "dismissed"}
    /\ alive \in BOOLEAN
    /\ undelivered \in BOOLEAN

Init ==
    /\ state = "working"
    /\ question = None
    /\ asked = {}
    /\ report = None
    /\ delivery = [m \in Msg |-> "none"]
    /\ mail = [m \in Msg |-> "none"]
    /\ queuedAt = [m \in Msg |-> 0]
    /\ stamp = NoStamp
    /\ notices = {}
    /\ lock = None
    /\ pc = [p \in Proc |-> "idle"]
    /\ cmd = [c \in Captain |-> NoCommand]
    /\ rd = [r \in Reader |-> NoReading]
    /\ shown = {}
    /\ dropped = {}
    /\ turned = FALSE
    /\ roster = "live"
    /\ alive = TRUE
    /\ undelivered = FALSE

-----------------------------------------------------------------------------
(* What the files say, as the code reads them.                             *)

\* protocol.queued: a dismissed crew has no unread mail, whatever its files say.
Unread == {m \in Msg : mail[m] = "queued" /\ roster # "dismissed"}

\* messages[0] of a queue sorted by queued_at.
Oldest(S) == {m \in S : \A n \in S : queuedAt[m] <= queuedAt[n]}

LandedBodiesAnyRing(s) ==          \* mutant: a held ring counts as a landed one
    IF HookDelivered THEN {} ELSE s.bodies \cup {m \in Msg : s.id = m}

\* protocol.landed_bodies: the messages a ring is recorded to have typed.
LandedBodies(s) ==
    IF HookDelivered THEN {}
    ELSE s.bodies \cup {m \in Msg : s.landed /\ s.id = m}

\* The assignment's messages.
Sent == {m \in Msg : delivery[m] # "none"}

\* protocol.stalled: every body was handed over and still no turn has run.
Stalled ==
    /\ HookDelivered
    /\ ~turned
    /\ Sent # {}
    /\ \A m \in Sent : delivery[m] = "read"

\* agents.never_read
NeverRead == \A m \in Sent : delivery[m] # "read" /\ m \notin LandedBodies(stamp)

StampedOrFirst ==                  \* mutant: drain never asks whether a stamp exists
    IF Unread # {} THEN Oldest(Unread) ELSE {m \in {stamp.id} : Stalled}

\* What drain would ring: the oldest unread message; with none, a stalled crew is rung
\* again for the message its last ring named.
NextRing ==
    IF Unread # {} THEN Oldest(Unread)
    ELSE {m \in {stamp.id} : stamp.id # None /\ Stalled}

Goto(p, where) == pc' = [pc EXCEPT ![p] = where]

\* A command that ends takes what it held with it.
EndCommand(c) == Goto(c, "idle") /\ cmd' = [cmd EXCEPT ![c] = NoCommand]
EndReading(r) == Goto(r, "idle") /\ rd' = [rd EXCEPT ![r] = NoReading]

-----------------------------------------------------------------------------
(* deliver: persist the intent, write the mail file, commit, ring.         *)

\* First checkpoint of deliver.  A message already on the assignment goes straight on;
\* a new one is refused once the assignment is done, or against the wrong question.
Prepare(c, m) ==
    /\ pc[c] = "idle"
    /\ lock = None
    /\ roster # "dismissed"
    /\ \/ /\ delivery[m] # "none"
          /\ UNCHANGED delivery
       \/ /\ delivery[m] = "none"
          /\ state # "done"
          /\ AnswerTo[m] = question
          /\ delivery' = [delivery EXCEPT ![m] = "prepared"]
    /\ cmd' = [cmd EXCEPT ![c].msg = m]
    /\ Goto(c, "enqueue")
    /\ UNCHANGED <<assignVars, mail, queuedAt, stamp, rd, viewVars, endVars, notices, lock>>

\* Second checkpoint: a message another command committed meanwhile needs no ring.
AlreadySent(c) ==
    /\ pc[c] = "enqueue"
    /\ lock = None
    /\ delivery[cmd[c].msg] # "prepared"
    /\ EndCommand(c)
    /\ UNCHANGED <<assignVars, fileVars, stamp, rd, viewVars, endVars, notices, lock>>

EnqueuedTwice(m) == "queued"        \* mutant: the file is written whether it exists or not
EnqueuedLate(m) == IF mail[m] = "none" THEN "none" ELSE "queued"  \* mutant: test inverted

\* enqueue leaves a mail file that exists alone.
Enqueued(m) == IF mail[m] = "none" THEN "queued" ELSE mail[m]

\* Otherwise enqueue, still inside that checkpoint, writes the mail file unless an
\* interrupted delivery of the same message already did.
Enqueue(c) ==
    LET m == cmd[c].msg
    IN  /\ pc[c] = "enqueue"
        /\ lock = None
        /\ delivery[m] = "prepared"
        /\ lock' = c
        /\ mail' = [mail EXCEPT ![m] = Enqueued(m)]
        /\ queuedAt' = [queuedAt EXCEPT ![m] =
              IF mail[m] = "none" THEN 1 + Cardinality({n \in Msg : mail[n] # "none"}) ELSE @]
        /\ Goto(c, "commit")
        /\ UNCHANGED <<assignVars, delivery, ringVars, rd, viewVars, endVars, notices>>

MarkSentAny(m) ==                  \* mutant: any delivery closes the open question
    IF question # None
    THEN question' = None /\ state' = "working"
    ELSE UNCHANGED <<question, state>>

MarkSentStillAsked(m) ==           \* mutant: the state is not put back to work
    /\ question' = IF question # None /\ AnswerTo[m] = question THEN None ELSE question
    /\ UNCHANGED state

\* mark_sent: an answer clears its question.
MarkSent(m) ==
    IF question # None /\ AnswerTo[m] = question
    THEN question' = None /\ state' = "working"
    ELSE UNCHANGED <<question, state>>

\* Second checkpoint, left: the message is "sent".
Commit(c) ==
    LET m == cmd[c].msg
    IN  /\ pc[c] = "commit"
        /\ delivery' = [delivery EXCEPT ![m] = "sent"]
        /\ MarkSent(m)
        /\ lock' = None
        /\ \/ Goto(c, "ring") /\ UNCHANGED cmd
           \/ EndCommand(c)                         \* queue_only leaves the ring out
        /\ UNCHANGED <<asked, report, mail, queuedAt, stamp, rd, viewVars, endVars, notices>>

-----------------------------------------------------------------------------
(* drain and ring: the doorbell.                                           *)

\* drain (and interrupt_crew) rings again.  The rate limits are left out: any time may
\* have passed.
Drain(c) ==
    /\ pc[c] = "idle"
    /\ roster # "dismissed"
    /\ \E m \in NextRing : cmd' = [cmd EXCEPT ![c].msg = m]
    /\ Goto(c, "ring")
    /\ UNCHANGED <<assignVars, fileVars, stamp, rd, viewVars, endVars, notices, lock>>

\* ring reads the stamp and decides whether the ring carries the body.
RingRead(c) ==
    LET m == cmd[c].msg
    IN  /\ pc[c] = "ring"
        /\ cmd' = [cmd EXCEPT ![c] =
              [msg |-> m, bodies |-> stamp.bodies, echo |-> stamp.landed,
               text |-> /\ ~HookDelivered
                        /\ ~(stamp.id = m /\ stamp.landed)
                        /\ m \in Unread]]
        /\ Goto(c, "nudge")
        /\ UNCHANGED <<assignVars, fileVars, stamp, rd, viewVars, endVars, notices, lock>>

\* The message whose text this ring types, if any.
Typed(c) == {m \in Msg : cmd[c].text /\ m = cmd[c].msg}

\* The pane: the prompt lands, a gate or a broken doorbell holds it, our own echo makes
\* ring return without a stamp, or Herdr fails (a timed-out prompt may still have landed).
Nudge(c) ==
    /\ pc[c] = "nudge"
    /\ \/ alive /\ Goto(c, "landed") /\ shown' = shown \cup Typed(c) /\ UNCHANGED cmd
       \/ Goto(c, "held") /\ UNCHANGED <<shown, cmd>>
       \/ alive /\ cmd[c].echo /\ EndCommand(c) /\ UNCHANGED shown
       \/ /\ Goto(c, "lost")
          /\ \/ UNCHANGED shown
             \/ alive /\ shown' = shown \cup Typed(c)
          /\ UNCHANGED cmd
    /\ UNCHANGED <<assignVars, fileVars, stamp, rd, dropped, turned, endVars, notices, lock>>

\* The one record of a ring: bodies are carried forward from the stamp read before the
\* pane was touched.  No lock is held.
StampRing(c) ==
    LET landed == pc[c] = "landed"
    IN  /\ pc[c] \in {"landed", "held", "lost"}
        /\ stamp' = [id |-> cmd[c].msg, landed |-> landed,
                     bodies |-> cmd[c].bodies \cup (IF landed THEN Typed(c) ELSE {})]
        /\ IF pc[c] = "lost"
           THEN /\ Goto(c, "bounce")
                /\ cmd' = [cmd EXCEPT ![c] = [NoCommand EXCEPT !.msg = cmd[c].msg]]
           ELSE EndCommand(c)
        /\ UNCHANGED <<assignVars, fileVars, rd, viewVars, endVars, notices, lock>>

\* bounce marks the mail file under the lock, then reports under the lock again.
Bounce(c) ==
    /\ pc[c] = "bounce"
    /\ lock = None
    /\ mail' = [mail EXCEPT ![cmd[c].msg] = "bounced"]
    /\ Goto(c, "notify")
    /\ UNCHANGED <<assignVars, delivery, queuedAt, ringVars, rd, viewVars, endVars,
                   notices, lock>>

BounceNotice(c) ==
    /\ pc[c] = "notify"
    /\ lock = None
    /\ notices' = notices \cup {cmd[c].msg}
    /\ EndCommand(c)
    /\ UNCHANGED <<assignVars, fileVars, stamp, rd, viewVars, endVars, lock>>

-----------------------------------------------------------------------------
(* The crew: delivery hooks, captain inbox, ask, done.                     *)

\* A native event that proves a turn ran (turn_event); only stalled asks, of a
\* hook-delivered crew.
Turn ==
    /\ HookDelivered
    /\ alive /\ ~turned
    /\ turned' = TRUE
    /\ UNCHANGED <<assignVars, fileVars, ringVars, rd, shown, dropped, endVars,
                   notices, lock, pc>>

RenderStamped(r) ==                \* mutant: the receipt is stamped before the body is printed
    /\ pc[r] = "idle"
    /\ alive
    /\ Unread # {}
    /\ rd' = [rd EXCEPT ![r].ids = Unread]
    /\ Goto(r, "mark")
    /\ UNCHANGED <<assignVars, fileVars, ringVars, viewVars, endVars, notices, lock>>

\* mail_context: what a delivery hook or captain inbox renders.
Render(r) ==
    /\ pc[r] = "idle"
    /\ alive
    /\ Unread # {}
    /\ rd' = [rd EXCEPT ![r].ids = Unread]
    /\ Goto(r, "flush")
    /\ UNCHANGED <<assignVars, fileVars, ringVars, viewVars, endVars, notices, lock>>

\* deliver_mail and print_inbox flush the body before they stamp the receipt.
Flush(r) ==
    /\ pc[r] = "flush"
    /\ alive
    /\ shown' = shown \cup rd[r].ids
    /\ Goto(r, "mark")
    /\ UNCHANGED <<assignVars, fileVars, ringVars, rd, dropped, turned, endVars,
                   notices, lock>>

\* receipt, first lock: the mail files, and which of them this receipt turned.
MarkRead(S) == mail' = [m \in Msg |-> IF m \in S /\ mail[m] = "queued" THEN "read" ELSE mail[m]]

ReceiptFiles(r) ==
    /\ pc[r] \in {"mark", "doneMark"}
    /\ alive
    /\ lock = None
    /\ MarkRead(rd[r].ids)
    /\ rd' = [rd EXCEPT ![r].ids = {m \in @ : mail[m] = "queued"}]
    /\ Goto(r, IF pc[r] = "mark" THEN "mirror" ELSE "doneMirror")
    /\ UNCHANGED <<assignVars, delivery, queuedAt, ringVars, viewVars, endVars, notices, lock>>

\* receipt, second lock: mirror it on the assignment.
ReceiptMirror(r) ==
    /\ pc[r] \in {"mirror", "doneMirror"}
    /\ alive
    /\ lock = None
    /\ delivery' = [m \in Msg |-> IF m \in rd[r].ids /\ delivery[m] = "sent"
                                  THEN "read" ELSE delivery[m]]
    /\ IF pc[r] = "mirror"
       THEN EndReading(r)
       ELSE /\ rd' = [rd EXCEPT ![r].ids = {}]
            /\ Goto(r, IF rd[r].owed = {} THEN "file" ELSE "refuse")
    /\ UNCHANGED <<assignVars, mail, queuedAt, ringVars, viewVars, endVars, notices, lock>>

\* deliver_before_done: unread mail is receipted first, and whatever no ring typed is
\* then printed as the refusal.
DoneStart(r) ==
    /\ pc[r] = "idle"
    /\ alive
    /\ roster # "dismissed"
    /\ rd' = [rd EXCEPT ![r] = [ids |-> Unread, owed |-> Unread \ LandedBodies(stamp)]]
    /\ Goto(r, IF Unread = {} THEN "file" ELSE "doneMark")
    /\ UNCHANGED <<assignVars, fileVars, ringVars, viewVars, endVars, notices, lock>>

DoneRefuse(r) ==
    /\ pc[r] = "refuse"
    /\ alive
    /\ shown' = shown \cup rd[r].owed
    /\ EndReading(r)
    /\ UNCHANGED <<assignVars, fileVars, ringVars, dropped, turned, endVars, notices, lock>>

MayFileUnsent ==                   \* mutant: done forgets the prepared messages
    /\ state # "done"
    /\ question = None
    /\ Unread = {}

\* change, command done: every refusal leaves the assignment as it was.
MayFile ==
    /\ state # "done"
    /\ question = None
    /\ \A m \in Msg : delivery[m] # "prepared"
    /\ Unread = {}

DoneFile(r) ==
    /\ pc[r] = "file"
    /\ alive
    /\ lock = None
    /\ IF MayFile THEN state' = "done" /\ report' = "crew"
                  ELSE UNCHANGED <<state, report>>
    /\ EndReading(r)
    /\ UNCHANGED <<question, asked, fileVars, ringVars, viewVars, endVars, notices, lock>>

\* change, command ask: one question at a time, with an id never used before.
Ask(q) ==
    /\ alive
    /\ lock = None
    /\ roster # "dismissed"
    /\ state # "done"
    /\ question = None
    /\ q \notin asked
    /\ question' = q
    /\ asked' = asked \cup {q}
    /\ state' = "asked"
    /\ UNCHANGED <<report, fileVars, ringVars, rd, viewVars, endVars, notices, lock, pc>>

-----------------------------------------------------------------------------
(* dismiss_crew, under the roster lock but not the protocol lock.          *)

\* dismiss_blocker: a report, or an assignment nothing reached.
DismissCheck ==
    /\ Dismissible
    /\ roster = "live"
    /\ lock = None
    /\ NeverRead \/ state = "done"
    /\ undelivered' = NeverRead
    /\ roster' = "checked"
    /\ UNCHANGED <<assignVars, fileVars, ringVars, rd, viewVars, alive, notices,
                   lock, pc>>

\* Herdr closes the pane (or reports it gone already), and the crew's processes with it.
DismissClose ==
    /\ roster = "checked"
    /\ roster' = "closed"
    /\ alive' = FALSE
    /\ UNCHANGED <<assignVars, fileVars, ringVars, rd, viewVars, undelivered,
                   notices, lock, pc>>

\* Every message unread now is bounced and reported.  The crew is gone, so nothing can
\* read one of them in the middle of the loop.
DismissBounce ==
    /\ roster = "closed"
    /\ lock = None
    /\ mail' = [m \in Msg |-> IF m \in Unread THEN "bounced" ELSE mail[m]]
    /\ notices' = notices \cup Unread
    /\ roster' = "bounced"
    /\ UNCHANGED <<assignVars, delivery, queuedAt, ringVars, rd, viewVars, alive,
                   undelivered, lock, pc>>

MustReleaseAlways == undelivered    \* mutant: a report filed meanwhile is overwritten

MustRelease == undelivered /\ state # "done"

\* An assignment nothing reached is released; a real report survives.
DismissRelease ==
    /\ roster = "bounced"
    /\ lock = None
    /\ IF MustRelease
       THEN state' = "done" /\ report' = "dismissal"
       ELSE UNCHANGED <<state, report>>
    /\ roster' = "released"
    /\ UNCHANGED <<question, asked, fileVars, ringVars, rd, viewVars, alive,
                   undelivered, notices, lock, pc>>

\* The roster is written last, as crew_meta closes.
DismissRetire ==
    /\ roster = "released"
    /\ roster' = "dismissed"
    /\ undelivered' = FALSE
    /\ UNCHANGED <<assignVars, fileVars, ringVars, rd, viewVars, alive, notices, lock, pc>>

-----------------------------------------------------------------------------
(* Any command may die between two file operations; a dead process holds   *)
(* no lock, and a dismissal that dies leaves the roster as it was.         *)

CaptainDies(c) ==
    /\ pc[c] # "idle"
    /\ lock' = IF lock = c THEN None ELSE lock
    /\ EndCommand(c)
    /\ UNCHANGED <<assignVars, fileVars, stamp, rd, viewVars, endVars, notices>>

\* A receipt may die with only some of its files written.  What a done had receipted
\* and not yet printed is then read by nobody.
ReaderDies(r) ==
    /\ pc[r] # "idle"
    /\ \E S \in SUBSET {m \in rd[r].ids : mail[m] = "queued"} :
          /\ S # {} => pc[r] \in {"mark", "doneMark"} /\ lock = None
          /\ MarkRead(S)
          /\ dropped' = dropped \cup
                CASE pc[r] = "doneMark" -> S \cap rd[r].owed
                  [] pc[r] \in {"doneMirror", "refuse"} -> rd[r].owed
                  [] OTHER -> {}
    /\ EndReading(r)
    /\ UNCHANGED <<assignVars, delivery, queuedAt, ringVars, shown, turned, endVars,
                   notices, lock>>

DismissDies ==
    /\ roster \notin {"live", "dismissed"}
    /\ roster' = "live"
    /\ undelivered' = FALSE
    /\ UNCHANGED <<assignVars, fileVars, ringVars, rd, viewVars, alive, notices, lock, pc>>

CaptainStep(c) ==
    \/ \E m \in Msg : Prepare(c, m)
    \/ AlreadySent(c) \/ Enqueue(c) \/ Commit(c)
    \/ Drain(c) \/ RingRead(c) \/ Nudge(c) \/ StampRing(c)
    \/ Bounce(c) \/ BounceNotice(c)
    \/ CaptainDies(c)

ReaderStep(r) ==
    \/ Render(r) \/ Flush(r) \/ ReceiptFiles(r) \/ ReceiptMirror(r)
    \/ DoneStart(r) \/ DoneRefuse(r) \/ DoneFile(r)
    \/ ReaderDies(r)

DismissStep ==
    \/ DismissCheck \/ DismissClose \/ DismissBounce \/ DismissRelease \/ DismissRetire
    \/ DismissDies

Next ==
    \/ \E c \in Captain : CaptainStep(c)
    \/ \E r \in Reader : ReaderStep(r)
    \/ \E q \in Question : Ask(q)
    \/ Turn
    \/ DismissStep

Spec == Init /\ [][Next]_vars

-----------------------------------------------------------------------------
(* Properties.                                                             *)

\* A report the crew filed leaves nothing behind it: no message is still between intent
\* and mail file, and none waits unread.  change's refusals and deliver's re-check of the
\* state, in two separate locks each, have to cover each other for this.
ReportSettled ==
    report = "crew" =>
        \A m \in Msg : delivery[m] # "prepared" /\ mail[m] # "queued"

\* "sent" and "read" on the assignment are backed by the mail file, a mail file by an
\* entry on the assignment, and only a file that left the queue is mirrored as "read",
\* whatever died between the two writes.
FilesAgree ==
    \A m \in Msg :
        /\ delivery[m] \in {"sent", "read"} => mail[m] # "none"
        /\ mail[m] # "none" => delivery[m] # "none"
        /\ delivery[m] = "read" => mail[m] \in {"read", "bounced"}

\* A receipt without a body on the model's side has one cause: a done that had
\* stamped it and had not printed it, or died before it could (deliver_before_done).
OnlyRefusalLoses ==
    \A m \in Msg : mail[m] = "read" =>
        \/ m \in shown \cup dropped
        \/ \E r \in Reader : pc[r] \in {"doneMirror", "refuse"} /\ m \in rd[r].owed

\* What the stamp says a ring typed was typed, unless the message left the queue before
\* that ring was composed.  done trusts this to receipt a body instead of serving it.
LandedWasTyped ==
    \A m \in LandedBodies(stamp) : m \in shown \/ mail[m] \in {"read", "bounced"}

\* The assignment is "asked" exactly while its question is open; only a dismissal that
\* releases the assignment may leave the question behind.
AskedMeansOpen ==
    /\ state = "asked" => question # None
    /\ question # None => state = "asked" \/ report = "dismissal"

\* A filed report is final: no dismissal, late answer or second done replaces it.
ReportSurvives == [][report = "crew" => report' = "crew" /\ state' = "done"]_vars

\* Delivery only moves forward, and mail that left the queue never returns to it: a
\* retried deliver or a lost race re-serves nothing.
DeliveryForward ==
    [][\A m \in Msg :
          /\ delivery[m] = "sent" => delivery'[m] \in {"sent", "read"}
          /\ delivery[m] = "read" => delivery'[m] = "read"
          /\ mail[m] # "none" => mail'[m] # "none"
          /\ mail[m] \in {"read", "bounced"} => mail'[m] # "queued"]_vars

\* An open question is closed only by the commit of its own answer.
OnlyAnswerCloses ==
    [][question # None /\ question' # question =>
          \E m \in Msg : /\ AnswerTo[m] = question
                         /\ delivery[m] = "prepared" /\ delivery'[m] = "sent"]_vars
=============================================================================
