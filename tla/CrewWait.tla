------------------------------ MODULE CrewWait ------------------------------
(***************************************************************************)
(* captain wait: how an assignment's notices and its crew's native events  *)
(* become deliveries the captain acknowledges (protocol.py: poll, wait,    *)
(* notice, change's ask and done, mark_sent, begin's handoff).             *)
(*                                                                         *)
(* A poll runs in one protocol.json checkpoint: it applies an              *)
(* acknowledgement, repeats the pending delivery if there is one, and      *)
(* otherwise offers the next notice or whatever the events behind          *)
(* scan_offset amount to.  Several waits may run at once, and each may die *)
(* after the checkpoint is written and before its answer is printed.  A    *)
(* poll that raises writes nothing, so it is no step at all.               *)
(***************************************************************************)
EXTENDS Integers, Sequences, FiniteSets, FiniteSetsExt

CONSTANTS
    Claude,         \* a claude crew (events carry approvals, no pane read), or one whose
                    \* pane wait reads for a modal (MODAL_PROVIDERS)
    MaxEvents,      \* bound on native events
    MaxPlain,       \* bound on those that only start a session or show a turn
    MaxApprovals,   \* bound on native approval prompts
    MaxMessages,    \* bound on the messages of one assignment
    MaxQuestions,   \* bound on its questions
    MaxReports,     \* bound on its bounced and held notices
    MaxJobs         \* bound on assignments: 1 is no handoff

ASSUME WaitAssumption ==
    /\ Claude \in BOOLEAN
    /\ {MaxEvents, MaxPlain, MaxApprovals, MaxQuestions, MaxReports} \subseteq Nat
    /\ {MaxMessages, MaxJobs} \subseteq Nat \ {0}

VARIABLES
    job,            \* which assignment is active
    state,          \* assignment["state"]
    question,       \* how far its question has got: "none", "open", "reasked", "escalated"
    sent,           \* its delivered messages
    allRead,        \* whether every one of them is receipted
    notices,        \* assignment["notices"], by kind
    ackSeq,         \* assignment["ack_seq"]
    offset,         \* assignment["offset"]
    scan,           \* assignment["scan_offset"]
    native,         \* assignment["native_status"]
    idleSeen,       \* assignment["idle_seen"]
    turnStarted,    \* assignment["turn_started"]
    pending,        \* assignment["pending"]
    lastAck,        \* assignment["last_ack"]
    generation,     \* assignment["generation"]
    events,         \* the crew's native event file
    base,           \* its length when the assignment began
    open,           \* the approval prompt on the crew's screen, 0 for none
    approvals,      \* prompts raised so far
    known,          \* delivery ids a wait has printed (history)
    told,           \* the highest notice a wait has printed (history)
    idles,          \* idle deliveries made for this assignment (history)
    surfaced        \* how many deliveries each approval prompt has had (history)

jobVars     == <<job, base>>
workVars    == <<state, question, sent, allRead>>
cursorVars  == <<ackSeq, offset, scan, lastAck>>
nativeVars  == <<native, idleSeen, turnStarted>>
offerVars   == <<pending, generation>>
crewVars    == <<events, open, approvals>>
historyVars == <<known, told, idles, surfaced>>
vars == <<jobVars, workVars, notices, cursorVars, nativeVars, offerVars, crewVars, historyVars>>

Approval == 1 .. MaxApprovals

\* delivery_id names the assignment, its incarnation and a generation.
Id == (1 .. MaxJobs) \X Nat
NoId == <<0, 0>>

NoticeKind == {"asked", "reasked", "escalated", "done", "report"}
Status == {"none", "awaiting", "error"}                         \* native_status
Offer == [id: Id, status: NoticeKind \cup {"awaiting", "error", "idle"},
          seq: Nat, offset: Nat, native: Status]
NoOffer == [id |-> NoId, status |-> "none", seq |-> 0, offset |-> 0, native |-> "none"]

\* The events wait tells apart: a SessionStart; an event of a turn that says no more than
\* that (UserPromptSubmit, PostToolUseFailure, codex's title turn); a tool call
\* (TOOL_EVENTS); a PreToolUse the policy escalates; the PermissionRequest or
\* permission_prompt of a prompt; and a turn's end.
Event == [kind: {"start", "turn", "tool", "ask", "prompt", "idle"}, approval: Approval \cup {0}]

\* turn_event: a session that starts proves no turn.
IsTurn(event) == event.kind # "start"

TypeOK ==
    /\ job \in 1 .. MaxJobs
    /\ base \in 0 .. Len(events)
    /\ state \in {"working", "asked", "done"}
    /\ question \in {"none", "open", "reasked", "escalated"}
    /\ sent \in 0 .. MaxMessages
    /\ allRead \in BOOLEAN
    /\ notices \in Seq(NoticeKind)
    /\ ackSeq \in 0 .. Len(notices)
    /\ offset \in base .. Len(events)
    /\ scan \in offset .. Len(events)
    /\ native \in Status
    /\ idleSeen \in BOOLEAN
    /\ turnStarted \in BOOLEAN
    /\ pending \in Offer \cup {NoOffer}
    /\ lastAck \in Id \cup {NoId}
    /\ generation \in Nat
    /\ events \in Seq(Event)
    /\ open \in Approval \cup {0}
    /\ approvals \in 0 .. MaxApprovals
    /\ known \in SUBSET Id
    /\ told \in 0 .. Len(notices)
    /\ idles \in Nat
    /\ surfaced \in [Approval -> Nat]

\* recruit delivers the first message before it launches the native CLI.
Init ==
    /\ job = 1
    /\ base = 0
    /\ state = "working"
    /\ question = "none"
    /\ sent = 1
    /\ allRead = FALSE
    /\ notices = <<>>
    /\ ackSeq = 0
    /\ offset = 0
    /\ scan = 0
    /\ native = "none"
    /\ idleSeen = FALSE
    /\ turnStarted = FALSE
    /\ pending = NoOffer
    /\ lastAck = NoId
    /\ generation = 0
    /\ events = <<>>
    /\ open = 0
    /\ approvals = 0
    /\ known = {}
    /\ told = 0
    /\ idles = 0
    /\ surfaced = [a \in Approval |-> 0]

-----------------------------------------------------------------------------
(* The assignment: messages, questions, reports, handoff.                  *)

\* deliver's commit: mark_sent re-arms the idle notice and lets an answer close its
\* question; with a question open only its answer is accepted.
Deliver ==
    /\ state # "done"
    /\ sent < MaxMessages
    /\ sent' = sent + 1
    /\ allRead' = FALSE
    /\ idleSeen' = FALSE
    /\ question' = "none"
    /\ state' = "working"
    /\ UNCHANGED <<jobVars, notices, cursorVars, native, turnStarted, offerVars, crewVars,
                   historyVars>>

\* The last outstanding receipt; done needs it too.
Receipt ==
    /\ sent > 0 /\ ~allRead
    /\ allRead' = TRUE
    /\ UNCHANGED <<jobVars, state, question, sent, notices, cursorVars, nativeVars, offerVars,
                   crewVars, historyVars>>

Count(kind) == Cardinality({i \in DOMAIN notices : notices[i] = kind})

\* The crew's own commands run while no prompt is open.
Ask ==
    /\ open = 0
    /\ state # "done"
    /\ question = "none"
    /\ Count("asked") < MaxQuestions
    /\ question' = "open"
    /\ state' = "asked"
    /\ notices' = Append(notices, "asked")
    /\ UNCHANGED <<jobVars, sent, allRead, cursorVars, nativeVars, offerVars, crewVars,
                   historyVars>>

\* The crew knows a handed-off assignment's id only from its mail.
Done ==
    /\ open = 0
    /\ state # "done"
    /\ question = "none"
    /\ sent > 0 /\ allRead
    /\ state' = "done"
    /\ notices' = Append(notices, "done")
    /\ UNCHANGED <<jobVars, question, sent, allRead, cursorVars, nativeVars, offerVars, crewVars,
                   historyVars>>

\* bounce and held_notice append to whatever assignment is active, done or not.
Report ==
    /\ Count("report") < MaxReports
    /\ notices' = Append(notices, "report")
    /\ UNCHANGED <<jobVars, workVars, cursorVars, nativeVars, offerVars, crewVars, historyVars>>

\* begin with a handoff: only over a done assignment with nothing left to acknowledge.
MayHandOff == state = "done" /\ pending = NoOffer /\ ackSeq = Len(notices)

Handoff ==
    /\ MayHandOff
    /\ job < MaxJobs
    /\ job' = job + 1
    /\ base' = Len(events)
    /\ state' = "working"
    /\ question' = "none"
    /\ sent' = 0
    /\ allRead' = FALSE
    /\ notices' = <<>>
    /\ ackSeq' = 0
    /\ offset' = Len(events)
    /\ scan' = Len(events)
    /\ native' = "none"
    /\ idleSeen' = FALSE
    /\ turnStarted' = FALSE
    /\ pending' = NoOffer
    /\ lastAck' = NoId
    /\ generation' = 0
    /\ told' = 0
    /\ idles' = 0
    /\ UNCHANGED <<crewVars, known, surfaced>>

-----------------------------------------------------------------------------
(* The crew's native CLI.  It runs one tool at a time and stands still     *)
(* while a prompt is open.                                                 *)

Emit(kind, approval) ==
    /\ Len(events) < MaxEvents
    /\ events' = Append(events, [kind |-> kind, approval |-> approval])

CrewUnchanged ==
    UNCHANGED <<jobVars, workVars, notices, cursorVars, nativeVars, offerVars, historyVars>>

PlainLeft == Cardinality({i \in DOMAIN events : events[i].kind \in {"start", "turn"}}) < MaxPlain

\* The session starts (again on a resume, /clear or a compaction); or a prompt is
\* submitted, a tool fails, codex titles the session.
Plain ==
    /\ open = 0
    /\ PlainLeft
    /\ \E kind \in {"start", "turn"} : Emit(kind, 0)
    /\ UNCHANGED <<open, approvals>>
    /\ CrewUnchanged

Tool == Claude /\ open = 0 /\ Emit("tool", 0) /\ UNCHANGED <<open, approvals>> /\ CrewUnchanged

\* A prompt opens: the policy escalated the PreToolUse; or the native mode asks, after a
\* PreToolUse that was logged as a tool call; or, of any other provider, only the pane shows it.
Prompt ==
    /\ open = 0
    /\ approvals < MaxApprovals
    /\ approvals' = approvals + 1
    /\ open' = approvals'
    /\ \/ Claude /\ Emit("ask", open')
       \/ Claude /\ events # <<>> /\ events[Len(events)].kind = "tool" /\ Emit("prompt", open')
       \/ ~Claude /\ UNCHANGED events
    /\ CrewUnchanged

\* The same prompt is reported again: PermissionRequest, then a Notification.
Remind ==
    /\ Claude
    /\ open # 0
    /\ Emit("prompt", open)
    /\ UNCHANGED <<open, approvals>>
    /\ CrewUnchanged

\* The user answers: an allowed tool runs or fails and says so, a denial says nothing.
Answered ==
    /\ open # 0
    /\ open' = 0
    /\ \/ Claude /\ Emit("tool", 0)
       \/ Claude /\ PlainLeft /\ Emit("turn", 0)
       \/ UNCHANGED events
    /\ UNCHANGED approvals
    /\ CrewUnchanged

TurnEnds == open = 0 /\ Emit("idle", 0) /\ UNCHANGED <<open, approvals>> /\ CrewUnchanged

-----------------------------------------------------------------------------
(* poll.                                                                   *)

\* The answer is printed, or the wait dies first.
Tell(offer, printed) ==
    /\ known' = IF printed THEN known \cup {offer.id} ELSE known
    /\ told' = IF printed THEN Max({told, offer.seq}) ELSE told

AcksAny(ack) == pending # NoOffer /\ ack # NoId        \* mutant: any id will do
AcksLast(ack) ==                   \* mutant: compared with the last id, not the pending one
    pending # NoOffer /\ ack # NoId /\ ack = lastAck

Acks(ack) == pending # NoOffer /\ ack = pending.id

\* An unknown acknowledgement is refused, the last one is accepted again.
Accepted(ack) == ack = NoId \/ Acks(ack) \/ ack = lastAck

CursorsAll(ack) ==                 \* mutant: an acknowledgement covers every notice there is
    IF Acks(ack)
    THEN [seq |-> Len(notices), offset |-> pending.offset, scan |-> pending.offset,
          native |-> pending.native, last |-> ack]
    ELSE [seq |-> ackSeq, offset |-> offset, scan |-> scan, native |-> native, last |-> lastAck]

\* The cursors an acknowledgement leaves.
Cursors(ack) ==
    IF Acks(ack)
    THEN [seq |-> pending.seq, offset |-> pending.offset, scan |-> pending.offset,
          native |-> pending.native, last |-> ack]
    ELSE [seq |-> ackSeq, offset |-> offset, scan |-> scan, native |-> native, last |-> lastAck]

SaveCursors(c) ==
    /\ ackSeq' = c.seq
    /\ offset' = c.offset
    /\ lastAck' = c.last

\* An unanswered question past its interval is asked again once, then escalated once.
Overdue(due) == due /\ question \in {"open", "reasked"}
Reminder == IF question = "open" THEN "reasked" ELSE "escalated"
Notices(due) == IF Overdue(due) THEN Append(notices, Reminder) ELSE notices
Reask(due) ==
    /\ notices' = Notices(due)
    /\ question' = IF Overdue(due) THEN Reminder ELSE question

DeliveriesAhead(status, seq, upto, after) ==            \* mutant: seq counts from one
    [id |-> <<job, generation + 1>>, status |-> status, seq |-> seq + 1, offset |-> upto,
     native |-> after]

DeliveriesAnyJob(status, seq, upto, after) ==           \* mutant: the id names no assignment
    [id |-> <<1, generation + 1>>, status |-> status, seq |-> seq, offset |-> upto,
     native |-> after]

\* A new delivery; nothing behind it advances before its acknowledgement.
Deliveries(status, seq, upto, after) ==
    [id |-> <<job, generation + 1>>, status |-> status, seq |-> seq, offset |-> upto,
     native |-> after]

Hand(offer, printed) ==
    /\ pending' = offer
    /\ generation' = generation + 1
    /\ Tell(offer, printed)

\* The pending delivery repeats until it is acknowledged.
PollPending(ack, due, printed) ==
    /\ pending # NoOffer /\ ~Acks(ack) /\ Accepted(ack)
    /\ Reask(due)
    /\ Tell(pending, printed)
    /\ UNCHANGED <<jobVars, state, sent, allRead, cursorVars, nativeVars, offerVars, crewVars,
                   idles, surfaced>>

Free(ack) == Accepted(ack) /\ (pending = NoOffer \/ Acks(ack))

\* Notices go first, one at a time, and consume no event.
PollNotice(ack, due, printed) ==
    LET c == Cursors(ack)
    IN  /\ Free(ack)
        /\ c.seq < Len(Notices(due))
        /\ Reask(due)
        /\ SaveCursors(c) /\ scan' = c.scan /\ native' = c.native
        /\ Hand(Deliveries(Notices(due)[c.seq + 1], c.seq + 1, c.scan, c.native), printed)
        /\ UNCHANGED <<jobVars, state, sent, allRead, idleSeen, turnStarted, crewVars,
                       idles, surfaced>>

\* Done and acknowledged: the acknowledging wait gets one idle, any other an error.
PollDone(ack) ==
    LET c == Cursors(ack)
    IN  /\ Acks(ack)
        /\ c.seq = Len(notices)
        /\ state = "done"
        /\ SaveCursors(c) /\ scan' = c.scan /\ native' = c.native
        /\ pending' = NoOffer
        /\ UNCHANGED <<jobVars, workVars, notices, idleSeen, turnStarted, generation, crewVars,
                       historyVars>>

(* With no notice left, the events behind the cursor decide.               *)

News(c) == SubSeq(events, c.scan + 1, Len(events))
Notified(new) == {i \in DOMAIN new : new[i].kind \in {"ask", "prompt", "idle"}}
Tools(new) == {i \in DOMAIN new : new[i].kind = "tool"}
Last(new) == IF Notified(new) = {} THEN Len(new) + 1 ELSE Max(Notified(new))

\* A tool call proves an earlier approval answered: before the last notified event it
\* clears the dedupe, after it the approval itself.
Before(new, c) == IF \E i \in Tools(new) : i < Last(new) THEN "none" ELSE c.native
Cleared(new) == \E i \in Tools(new) : i > Last(new)

TurnedAtEnd(new) ==                \* mutant: only a turn's end counts as a turn
    turnStarted \/ \E i \in DOMAIN new : new[i].kind = "idle"

Turned(new) == turnStarted \/ \E i \in DOMAIN new : IsTurn(new[i])

\* stalled: every body was read and no event since the baseline shows a turn.
StalledAt(c, new) ==
    /\ Claude /\ ~Turned(new)
    /\ sent > 0 /\ allRead
    /\ \A i \in c.offset + 1 .. Len(events) : ~IsTurn(events[i])

\* What the crew looks like now, when its events say nothing; only a pane that is not
\* claude's is read, and not at every poll (MODAL_INTERVAL).
Live(c, new, look) ==
    IF ~Claude /\ look /\ open # 0 THEN "awaiting"
    ELSE IF StalledAt(c, new) THEN "error"
    ELSE "none"

LastKind(new) == IF Notified(new) = {} THEN "live"
                 ELSE IF new[Last(new)].kind = "idle" THEN "idle" ELSE "awaiting"

RepeatedPromptAny(new, c) == c.native = "awaiting"      \* mutant: tools and new asks ignored
RepeatedPromptAsked(new, c) ==     \* mutant: the test of a new ask inverted
    Before(new, c) = "awaiting" /\ \E i \in Notified(new) : new[i].kind = "ask"

\* One approval arrives as several events; only a new PreToolUse starts another.
RepeatedPrompt(new, c) ==
    Before(new, c) = "awaiting" /\ \A i \in Notified(new) : new[i].kind # "ask"

QuietButIdle(new, c, look) ==      \* mutant: every turn's end is news
    CASE LastKind(new) = "awaiting" -> Cleared(new) \/ RepeatedPrompt(new, c)
      [] LastKind(new) = "idle" -> FALSE
      [] OTHER -> Live(c, new, look) \in {"none", Before(new, c)}

Quiet(new, c, look) ==
    CASE LastKind(new) = "awaiting" -> Cleared(new) \/ RepeatedPrompt(new, c)
      [] LastKind(new) = "idle" -> idleSeen
      [] OTHER -> Live(c, new, look) \in {"none", Before(new, c)}

QuietNativeUnread(new, c, look) == \* mutant: a poll that read no pane clears the dedupe too
    CASE LastKind(new) = "awaiting" -> IF Cleared(new) THEN "none" ELSE Before(new, c)
      [] LastKind(new) = "idle" -> "none"
      [] OTHER -> IF Live(c, new, look) = "none" THEN "none" ELSE Before(new, c)

\* native_status after a poll that says nothing.
QuietNative(new, c, look) ==
    CASE LastKind(new) = "awaiting" -> IF Cleared(new) THEN "none" ELSE Before(new, c)
      [] LastKind(new) = "idle" -> "none"
      [] OTHER -> IF Live(c, new, look) = "none" /\ look /\ ~Claude THEN "none"
                  ELSE Before(new, c)

Exhausted(c, due) == c.seq = Len(Notices(due)) /\ state # "done"

\* Nothing to report: the scan advances without an acknowledgement.
PollQuiet(ack, due, look) ==
    LET c == Cursors(ack)
        new == News(c)
    IN  /\ Free(ack)
        /\ Exhausted(c, due)
        /\ Quiet(new, c, look)
        /\ Reask(due)
        /\ SaveCursors(c)
        /\ scan' = Len(events)
        /\ native' = QuietNative(new, c, look)
        /\ turnStarted' = Turned(new)
        /\ pending' = NoOffer
        /\ UNCHANGED <<jobVars, state, sent, allRead, idleSeen, generation, crewVars, historyVars>>

\* An approval, an idle, a modal or a stalled crew is offered.
PollNative(ack, due, look, printed) ==
    LET c == Cursors(ack)
        new == News(c)
        status == IF LastKind(new) = "live" THEN Live(c, new, look) ELSE LastKind(new)
        after == IF status = "idle" \/ Cleared(new) THEN "none" ELSE status
    IN  /\ Free(ack)
        /\ Exhausted(c, due)
        /\ ~Quiet(new, c, look)
        /\ Reask(due)
        /\ SaveCursors(c) /\ scan' = c.scan
        /\ native' = Before(new, c)
        /\ idleSeen' = (idleSeen \/ status = "idle")
        /\ turnStarted' = Turned(new)
        /\ Hand(Deliveries(status, c.seq, Len(events), after), printed)
        /\ idles' = IF status = "idle" THEN idles + 1 ELSE idles
        /\ surfaced' = [a \in Approval |->
              IF status = "awaiting" /\ a = (IF LastKind(new) = "live" THEN open
                                             ELSE new[Last(new)].approval)
              THEN surfaced[a] + 1 ELSE surfaced[a]]
        /\ UNCHANGED <<jobVars, state, sent, allRead, crewVars>>

Poll(ack, due, look, printed) ==
    \/ PollPending(ack, due, printed)
    \/ PollNotice(ack, due, printed)
    \/ PollDone(ack)
    \/ PollQuiet(ack, due, look)
    \/ PollNative(ack, due, look, printed)

CrewStep == Plain \/ Tool \/ Prompt \/ Remind \/ Answered \/ TurnEnds

Next ==
    \/ Deliver \/ Receipt \/ Ask \/ Done \/ Report \/ Handoff
    \/ CrewStep
    \/ \E ack \in known \cup {NoId}, due, look, printed \in BOOLEAN :
          Poll(ack, due, look, printed)

Spec == Init /\ [][Next]_vars

\* The captain keeps a wait running, reads what it prints and acknowledges it.
Attend ==
    LET ack == IF pending.id \in known THEN pending.id ELSE NoId
    IN  \E due \in BOOLEAN : Poll(ack, due, TRUE, TRUE)

FairSpec == Spec /\ WF_vars(Attend)

-----------------------------------------------------------------------------
(* Properties.                                                             *)

\* Nothing is acknowledged that no wait printed, though several waits race, repeat and
\* die between the checkpoint and the print; a late or repeated id moves nothing.
AckedWasTold == ackSeq <= told

\* The pending delivery is of the active assignment and its newest, stands at most one
\* notice ahead of the acknowledged ones, and covers events no cursor has passed.
PendingInOrder ==
    pending # NoOffer =>
        /\ pending.id = <<job, generation>> /\ pending.id # lastAck
        /\ pending.seq \in {ackSeq, ackSeq + 1} /\ pending.seq <= Len(notices)
        /\ pending.offset \in scan .. Len(events)

\* poll banks a turn before the cursor passes the events that prove it, whatever else the
\* log holds: stalled reads only the events behind offset, and a turn acknowledged must not
\* look like no turn.
TurnSeen(upto) == \E i \in base + 1 .. upto : IsTurn(events[i])
TurnBanked == TurnSeen(scan) => turnStarted

\* An approval prompt surfaces once, though its events come one by one, in one poll or
\* in several, around acknowledgements.
ApprovalOnce == \A a \in Approval : surfaced[a] <= 1

\* The prompt on the screen is never scanned past without a delivery for it.
ApprovalTold ==
    (\E i \in base + 1 .. scan : events[i].approval = open /\ open # 0) => surfaced[open] > 0

\* "a native idle notifies at most once per message delivered" (docs/crew-lifecycle.md).
IdlePerMessage == idles <= sent

\* The cursors and the proof of a turn only advance within an assignment, one notice at
\* an acknowledgement.
CursorsAdvance ==
    [][job' = job =>
          /\ ackSeq' \in {ackSeq, ackSeq + 1}
          /\ offset' >= offset /\ scan' >= scan
          /\ (turnStarted => turnStarted')]_vars

\* captain wait implements the queue of notices.
Queue == INSTANCE NoticeQueue WITH posted <- Len(notices), acked <- ackSeq
ServesQueue == Queue!Spec

\* A filed report reaches the captain and can be acknowledged, whatever notices are
\* ahead of it: handoff waits for that.
ReportReachesCaptain == [](state = "done" => <>(state # "done" \/ ackSeq = Len(notices)))

\* A prompt that stays open is delivered, whatever is pending or already deduplicated.
PromptReachesCaptain ==
    \A a \in Approval : (open = a /\ state # "done") ~> (open # a \/ state = "done" \/ surfaced[a] > 0)
=============================================================================
