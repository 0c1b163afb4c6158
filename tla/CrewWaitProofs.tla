--------------------------- MODULE CrewWaitProofs ---------------------------
(***************************************************************************)
(* Proofs about CrewWait, for any number of events, prompts, messages,      *)
(* questions and assignments: notices and native events reach the captain   *)
(* in order, nothing is acknowledged that was not shown, an approval prompt *)
(* is delivered once and never scanned past, and captain wait implements    *)
(* the queue of notices.                                                    *)
(***************************************************************************)
EXTENDS CrewWait, WellFoundedInduction, TLAPS

\* Where the next poll that is free to offer something goes on from: the pending delivery
\* must be acknowledged first, so its cursor counts already.
Here == IF pending = NoOffer THEN scan ELSE pending.offset
Now == IF pending = NoOffer THEN native ELSE pending.native

-----------------------------------------------------------------------------
(* Deliveries and acknowledgements.                                        *)

\* Delivery ids are not used twice: those a wait printed, and the last one acknowledged,
\* are of earlier deliveries or of the pending one.
IdsPast ==
    /\ \A id \in known : id[1] < job \/ (id[1] = job /\ id[2] <= generation)
    /\ lastAck = NoId \/ (lastAck[1] = job /\ lastAck[2] <= generation)

\* A printed delivery told its notice.
PrintedIsTold == pending # NoOffer /\ pending.id \in known => pending.seq <= told

\* The turn is banked when its events are offered, before an acknowledgement takes them.
TurnAhead == TurnSeen(Here) => turnStarted

QueueInv ==
    /\ TypeOK /\ PendingInOrder /\ IdsPast /\ PrintedIsTold /\ AckedWasTold
    /\ TurnBanked /\ TurnAhead

-----------------------------------------------------------------------------
(* Approval prompts and their events.                                      *)

\* The events that are of no prompt; and those that are not NOTIFIED.
OfNoPrompt == {"start", "turn", "tool", "idle"}
Unnotified == {"start", "turn", "tool"}

\* Of which prompt an event is, and of which providers there are such events.
EventsFit ==
    \A i \in DOMAIN events :
        /\ events[i].approval <= approvals
        /\ events[i].approval = 0 <=> events[i].kind \in OfNoPrompt
        /\ ~Claude => events[i].kind \in OfNoPrompt

\* The newest prompt is the one on the screen, and the last event is of it.
Newest ==
    /\ open \in {0, approvals}
    /\ Claude /\ open # 0 => events # <<>> /\ events[Len(events)].approval = open

\* The events of one prompt are a block of their own, and a PreToolUse can only be its first.
Block ==
    \A i, k, j \in DOMAIN events :
        i < k /\ k <= j /\ events[i].approval # 0 /\ events[i].approval = events[j].approval
        => events[k].approval = events[i].approval /\ events[k].kind = "prompt"

\* From one prompt's block to another's: a tool call proves the first answered, or the
\* second begins with its PreToolUse.
Switch ==
    \A k, j \in DOMAIN events :
        k < j /\ events[k].approval # 0 /\ events[j].approval \notin {0, events[k].approval}
        => \E f \in k + 1 .. j :
              \/ events[f].kind = "tool"
              \/ events[f].kind = "ask" /\ events[f].approval = events[j].approval

\* The dedupe stands for a prompt in sight, and no tool call since.
DedupeBacked ==
    Claude /\ Now = "awaiting" =>
        \E k \in base + 1 .. Here :
            events[k].approval # 0 /\ \A j \in k + 1 .. Here : events[j].kind # "tool"

\* The prompt on the screen is delivered before its events are passed.
SeenIsTold == \A i \in base + 1 .. Here : open # 0 /\ events[i].approval = open => surfaced[open] > 0

\* A prompt that was delivered and may still be heard of is deduplicated.
StillHeard(a) == open = a \/ \E j \in Here + 1 .. Len(events) : events[j].approval = a

ToldIsDeduped ==
    \A a \in Approval : surfaced[a] > 0 =>
        /\ a <= approvals
        /\ StillHeard(a) =>
              /\ Now = "awaiting"
              /\ Claude => \E i \in base + 1 .. Here : events[i].approval = a
              /\ ~Claude => Here = Len(events)

\* done waits for the screen to clear, and nothing is offered after it.
DoneUnseen == state = "done" /\ open # 0 => surfaced[open] = 0

ApprovalInv ==
    /\ QueueInv /\ EventsFit /\ Newest /\ Block /\ Switch /\ DedupeBacked /\ SeenIsTold
    /\ ToldIsDeduped /\ DoneUnseen /\ ApprovalOnce

-----------------------------------------------------------------------------
(* Lemmas about poll's helpers.                                            *)

LEMMA Constants ==
  /\ Claude \in BOOLEAN /\ MaxEvents \in Nat /\ MaxApprovals \in Nat /\ MaxQuestions \in Nat
  /\ MaxReports \in Nat /\ MaxMessages \in Nat \ {0} /\ MaxJobs \in Nat \ {0}
BY WaitAssumption

LEMMA NoIdIsNone == NoId \notin Id
BY DEF NoId, Id

LEMMA PendingOffer == TypeOK /\ pending # NoOffer => pending \in Offer
BY DEF TypeOK

LEMMA NoOfferFields ==
  /\ NoOffer.id = NoId /\ NoOffer.seq = 0 /\ NoOffer.offset = 0 /\ NoOffer.native = "none"
BY DEF NoOffer

\* A reminder is one more notice.
LEMMA Reminded ==
  ASSUME TypeOK, NEW due \in BOOLEAN
  PROVE  /\ Notices(due) \in Seq(NoticeKind)
         /\ Len(Notices(due)) \in {Len(notices), Len(notices) + 1}
<1>1. notices \in Seq(NoticeKind) /\ Reminder \in NoticeKind
  BY DEF TypeOK, Reminder, NoticeKind
<1>2. QED
  BY <1>1 DEF Notices

LEMMA ReaskTyped ==
  ASSUME TypeOK, NEW due \in BOOLEAN, Reask(due)
  PROVE  /\ notices' \in Seq(NoticeKind)
         /\ Len(notices') >= Len(notices) /\ Len(notices') \in Nat
         /\ question' \in {"none", "open", "reasked", "escalated"}
<1>1. notices' = Notices(due)
  BY DEF Reask
<1>2. notices \in Seq(NoticeKind) /\ Len(notices) \in Nat
  BY DEF TypeOK
<1>3. question' \in {"none", "open", "reasked", "escalated"}
  BY DEF Reask, Reminder, TypeOK
<1>4. QED
  BY <1>1, <1>2, <1>3, Reminded

\* Both cursors a poll starts from are in order, whether or not it acknowledges.
LEMMA CursorsFit ==
  ASSUME QueueInv, NEW ack \in known \cup {NoId}, Free(ack)
  PROVE  LET c == Cursors(ack)
         IN  /\ c.seq \in {ackSeq, ackSeq + 1} /\ c.seq <= told /\ c.seq <= Len(notices)
             /\ c.seq \in Nat /\ c.offset \in Nat /\ c.scan \in Nat
             /\ offset <= c.offset /\ c.offset <= c.scan /\ c.scan <= Len(events)
             /\ scan <= c.scan /\ c.scan = Here /\ c.native = Now
             /\ c.native \in Status
             /\ c.last \in Id \cup {NoId}
             /\ c.last = NoId \/ (c.last[1] = job /\ c.last[2] <= generation)
<1> USE DEF QueueInv, TypeOK, Here, Now, Free, Acks, Cursors
<1>1. CASE pending = NoOffer
  BY <1>1 DEF IdsPast, AckedWasTold
<1>2. CASE pending # NoOffer
  <2>1. pending \in Offer
    BY <1>2
  <2>2. ack = pending.id /\ ack # NoId
    BY <1>2, <2>1, NoIdIsNone DEF Offer
  <2>3. pending.id \in known
    BY <2>2
  <2>4. /\ pending.id = <<job, generation>>
        /\ pending.seq \in {ackSeq, ackSeq + 1} /\ pending.seq <= Len(notices)
        /\ pending.offset \in scan .. Len(events)
    BY <1>2 DEF PendingInOrder
  <2>5. pending.seq <= told
    BY <1>2, <2>3 DEF PrintedIsTold
  <2>6. pending.native \in Status /\ pending.seq \in Nat /\ pending.offset \in Nat /\ pending.id \in Id
    BY <2>1 DEF Offer
  <2>7. Cursors(ack) = [seq |-> pending.seq, offset |-> pending.offset, scan |-> pending.offset,
                        native |-> pending.native, last |-> ack]
    BY <1>2, <2>2
  <2>8. QED
    BY <1>2, <2>2, <2>4, <2>5, <2>6, <2>7
<1>3. QED
  BY <1>1, <1>2

LEMMA DeliveryFields ==
  ASSUME NEW status, NEW seq, NEW upto, NEW after
  PROVE  LET d == Deliveries(status, seq, upto, after)
         IN  /\ d.id = <<job, generation + 1>> /\ d.status = status /\ d.seq = seq
             /\ d.offset = upto /\ d.native = after
BY DEF Deliveries

LEMMA DeliveryTyped ==
  ASSUME TypeOK, NEW status \in NoticeKind \cup {"awaiting", "error", "idle"}, NEW seq \in Nat,
         NEW upto \in Nat, NEW after \in Status
  PROVE  /\ Deliveries(status, seq, upto, after) \in Offer
         /\ Deliveries(status, seq, upto, after) # NoOffer
<1>1. <<job, generation + 1>> \in Id
  BY DEF TypeOK, Id
<1>2. Deliveries(status, seq, upto, after) \in Offer
  BY <1>1 DEF Deliveries, Offer
<1>3. QED
  BY <1>1, <1>2, DeliveryFields, NoOfferFields, NoIdIsNone

LEMMA MaxOfTwo ==
  ASSUME NEW a \in Nat, NEW b \in Nat PROVE Max({a, b}) = IF a >= b THEN a ELSE b
<1>1. \E x \in {a, b} : \A y \in {a, b} : x >= y
  <2>1. CASE a >= b
    BY <2>1
  <2>2. CASE b >= a
    BY <2>2
  <2>3. QED
    BY <2>1, <2>2
<1>2. Max({a, b}) \in {a, b} /\ \A y \in {a, b} : Max({a, b}) >= y
  BY <1>1 DEF Max
<1>3. QED
  BY <1>2

LEMMA Told ==
  ASSUME TypeOK, NEW offer, offer.seq \in Nat, offer.id \in Id, NEW printed \in BOOLEAN,
         Tell(offer, printed)
  PROVE  /\ told' \in Nat /\ told' \in {told, offer.seq} /\ told <= told'
         /\ known \subseteq known' /\ known' \subseteq known \cup {offer.id}
         /\ known' \in SUBSET Id
         /\ offer.id \in known' => offer.seq <= told' \/ offer.id \in known
<1>1. told \in Nat
  BY DEF TypeOK
<1>2. Max({told, offer.seq}) = IF told >= offer.seq THEN told ELSE offer.seq
  BY <1>1, MaxOfTwo
<1>3. QED
  BY <1>1, <1>2 DEF Tell, TypeOK

-----------------------------------------------------------------------------
(* The queue invariant across a poll.                                      *)

LEMMA OfferKeeps ==
  ASSUME QueueInv, NEW ack \in known \cup {NoId}, Free(ack), NEW printed \in BOOLEAN,
         NEW offer \in Offer, offer # NoOffer, offer.id = <<job, generation + 1>>,
         offer.seq \in {Cursors(ack).seq, Cursors(ack).seq + 1},
         offer.seq <= Len(notices'),
         offer.offset \in Cursors(ack).scan .. Len(events),
         TurnSeen(offer.offset) => turnStarted',
         notices' \in Seq(NoticeKind), Len(notices') >= Len(notices),
         question' \in {"none", "open", "reasked", "escalated"},
         SaveCursors(Cursors(ack)), scan' = Cursors(ack).scan, native' \in Status,
         turnStarted => turnStarted', turnStarted' \in BOOLEAN, idleSeen' \in BOOLEAN,
         Hand(offer, printed), idles' \in Nat, surfaced' \in [Approval -> Nat],
         UNCHANGED <<jobVars, state, sent, allRead, crewVars>>
  PROVE  QueueInv'
<1> DEFINE c == Cursors(ack)
<1>1. /\ c.seq \in {ackSeq, ackSeq + 1} /\ c.seq <= told /\ c.seq <= Len(notices)
      /\ c.seq \in Nat /\ c.offset \in Nat /\ c.scan \in Nat
      /\ offset <= c.offset /\ c.offset <= c.scan /\ c.scan <= Len(events)
      /\ scan <= c.scan /\ c.scan = Here
      /\ c.last \in Id \cup {NoId}
      /\ c.last = NoId \/ (c.last[1] = job /\ c.last[2] <= generation)
  BY CursorsFit
<1>2. ackSeq' = c.seq /\ offset' = c.offset /\ lastAck' = c.last /\ scan' = c.scan
  BY DEF SaveCursors
<1>3. pending' = offer /\ generation' = generation + 1 /\ Tell(offer, printed)
  BY DEF Hand
<1>4. offer.seq \in Nat /\ offer.id \in Id /\ offer.offset \in Nat
  BY DEF Offer
<1>5. TypeOK
  BY DEF QueueInv
<1>6. /\ told' \in Nat /\ told' \in {told, offer.seq} /\ told <= told'
      /\ known \subseteq known' /\ known' \subseteq known \cup {offer.id}
      /\ known' \in SUBSET Id
      /\ offer.id \in known' => offer.seq <= told' \/ offer.id \in known
  BY <1>3, <1>4, <1>5, Told
<1>7. job' = job /\ base' = base /\ events' = events /\ generation \in Nat /\ job \in Nat
  BY <1>5 DEF TypeOK, jobVars, crewVars
<1>8. offer.id \notin known
  BY <1>7 DEF QueueInv, IdsPast
<1> HIDE DEF c
<1>9. told' <= Len(notices')
  BY <1>5, <1>6 DEF TypeOK
<1>10. TypeOK'
  <2>1. /\ job' \in 1 .. MaxJobs /\ base' \in 0 .. Len(events')
        /\ state' \in {"working", "asked", "done"} /\ sent' \in 0 .. MaxMessages
        /\ allRead' \in BOOLEAN /\ events' \in Seq(Event) /\ open' \in Approval \cup {0}
        /\ approvals' \in 0 .. MaxApprovals
    BY <1>5 DEF TypeOK, jobVars, crewVars
  <2>2. /\ ackSeq' \in 0 .. Len(notices') /\ offset' \in base' .. Len(events')
        /\ scan' \in offset' .. Len(events') /\ lastAck' \in Id \cup {NoId}
    <3>1. Len(notices') \in Nat /\ Len(notices) \in Nat /\ Len(events) \in Nat
      BY <1>5 DEF TypeOK
    <3>2. offset \in Nat /\ base \in Nat /\ base <= offset
      BY <1>5, <3>1 DEF TypeOK
    <3>3. ackSeq' \in 0 .. Len(notices')
      BY <1>1, <1>2, <3>1
    <3>4. offset' \in base' .. Len(events') /\ scan' \in offset' .. Len(events')
      BY <1>1, <1>2, <1>7, <3>1, <3>2
    <3>5. QED
      BY <1>1, <1>2, <3>3, <3>4
  <2>3. pending' \in Offer \cup {NoOffer} /\ generation' \in Nat
    BY <1>3, <1>7
  <2>4. told' \in 0 .. Len(notices') /\ known' \in SUBSET Id
    BY <1>6, <1>9
  <2>5. QED
    BY <2>1, <2>2, <2>3, <2>4 DEF TypeOK
<1>11. IdsPast'
  <2>1. \A id \in known : id[1] < job \/ (id[1] = job /\ id[2] <= generation)
    BY DEF QueueInv, IdsPast
  <2>2. \A id \in known : id[1] < job \/ (id[1] = job /\ id[2] <= generation + 1)
    <3>1. \A id \in known : id[2] \in Nat
      BY <1>5 DEF TypeOK, Id
    <3>2. QED
      BY <2>1, <3>1, <1>7
  <2>3. offer.id[1] = job /\ offer.id[2] = generation + 1
    OBVIOUS
  <2>4. \A id \in known' : id[1] < job' \/ (id[1] = job' /\ id[2] <= generation')
    BY <1>3, <1>6, <1>7, <2>2, <2>3
  <2>5. lastAck' = NoId \/ (lastAck'[1] = job' /\ lastAck'[2] <= generation')
    <3>1. c.last # NoId => c.last[2] \in Nat
      BY <1>1 DEF Id
    <3>2. QED
      BY <1>1, <1>2, <1>3, <1>7, <3>1
  <2>6. QED
    BY <2>4, <2>5 DEF IdsPast
<1>12. offer.id # c.last
  <2>1. CASE c.last = NoId
    BY <1>4, <2>1, NoIdIsNone
  <2>2. CASE c.last[2] <= generation
    <3>1. offer.id[2] = generation + 1
      OBVIOUS
    <3>2. QED
      BY <1>7, <2>2, <3>1
  <2>3. QED
    BY <1>1, <2>1, <2>2
<1>13. offer.seq \in {c.seq, c.seq + 1} /\ offer.offset \in c.scan .. Len(events)
  BY DEF c
<1>14. PendingInOrder'
  BY <1>1, <1>2, <1>3, <1>7, <1>12, <1>13 DEF PendingInOrder
<1>15. AckedWasTold'
  BY <1>1, <1>2, <1>5, <1>6, SMTT(20) DEF AckedWasTold, TypeOK
<1>16. PrintedIsTold'
  BY <1>3, <1>6, <1>8 DEF PrintedIsTold
<1>17. Here' = offer.offset
  BY <1>3 DEF Here
<1>18. TurnAhead'
  BY <1>7, <1>17 DEF TurnAhead, TurnSeen
<1>19. TurnBanked'
  BY <1>1, <1>2, <1>7 DEF TurnBanked, QueueInv, TurnAhead, TurnSeen
<1>20. QED
  BY <1>10, <1>11, <1>14, <1>15, <1>16, <1>18, <1>19 DEF QueueInv

LEMMA QuietKeeps ==
  ASSUME QueueInv, NEW ack \in known \cup {NoId}, Free(ack),
         notices' \in Seq(NoticeKind), Len(notices') >= Len(notices),
         question' \in {"none", "open", "reasked", "escalated"},
         SaveCursors(Cursors(ack)), scan' \in Cursors(ack).scan .. Len(events),
         native' \in Status, TurnSeen(scan') => turnStarted',
         turnStarted' \in BOOLEAN, pending' = NoOffer,
         UNCHANGED <<jobVars, state, sent, allRead, idleSeen, generation, crewVars, historyVars>>
  PROVE  QueueInv'
<1> DEFINE c == Cursors(ack)
<1>1. /\ c.seq \in {ackSeq, ackSeq + 1} /\ c.seq <= told /\ c.seq <= Len(notices)
      /\ c.seq \in Nat /\ c.offset \in Nat /\ c.scan \in Nat
      /\ offset <= c.offset /\ c.offset <= c.scan /\ c.scan <= Len(events)
      /\ c.last \in Id \cup {NoId}
      /\ c.last = NoId \/ (c.last[1] = job /\ c.last[2] <= generation)
  BY CursorsFit
<1>2. ackSeq' = c.seq /\ offset' = c.offset /\ lastAck' = c.last /\ scan' \in c.scan .. Len(events)
  BY DEF SaveCursors
<1>3. TypeOK
  BY DEF QueueInv
<1> HIDE DEF c
<1>4. TypeOK'
  BY <1>1, <1>2, <1>3, SMTT(20) DEF TypeOK, jobVars, crewVars, historyVars
<1>5. IdsPast' /\ AckedWasTold' /\ PendingInOrder' /\ PrintedIsTold'
  <2>1. job' = job /\ generation' = generation /\ known' = known /\ told' = told
    BY DEF jobVars, historyVars
  <2>2. IdsPast'
    BY <1>1, <1>2, <2>1 DEF QueueInv, IdsPast
  <2>3. AckedWasTold'
    BY <1>1, <1>2, <2>1 DEF AckedWasTold
  <2>4. QED
    BY <2>2, <2>3 DEF PendingInOrder, PrintedIsTold
<1>6. TurnBanked' /\ TurnAhead'
  BY DEF TurnBanked, TurnAhead, TurnSeen, Here, jobVars, crewVars
<1>7. QED
  BY <1>4, <1>5, <1>6 DEF QueueInv

-----------------------------------------------------------------------------
(* The newest notified event.                                              *)

LEMMA LeastNat ==
  ASSUME NEW S \in SUBSET Nat, S # {} PROVE \E m \in S : \A k \in S : m <= k
<1>1. IsWellFoundedOn(OpToRel(<, Nat), Nat)
  BY NatLessThanWellFounded
<1>2. PICK m \in S : \A k \in S : ~ (<<k, m>> \in OpToRel(<, Nat))
  BY <1>1, WFMin
<1>3. \A k \in S : ~(k < m)
  BY <1>2 DEF OpToRel
<1>4. QED
  BY <1>3

LEMMA Highest ==
  ASSUME NEW n \in Nat, NEW S \in SUBSET (1 .. n), S # {}
  PROVE  Max(S) \in S /\ \A y \in S : Max(S) >= y
<1> DEFINE T == {n - y : y \in S}
<1>1. \A y \in S : y \in Nat /\ n - y \in Nat /\ n - y \in T
  OBVIOUS
<1>2. T \in SUBSET Nat
  BY <1>1
<1>3. T # {}
  BY <1>1
<1> HIDE DEF T
<1>4. PICK m \in T : \A k \in T : m <= k
  BY <1>2, <1>3, LeastNat
<1>5. PICK x \in S : m = n - x
  BY <1>4 DEF T
<1>6. \A y \in S : n - x <= n - y
  BY <1>1, <1>4, <1>5
<1>7. \A y \in S : x >= y
  BY <1>1, <1>6
<1>8. QED
  BY <1>7 DEF Max

LEMMA NewsFit ==
  ASSUME events \in Seq(Event), NEW c, c.scan \in 0 .. Len(events)
  PROVE  /\ News(c) \in Seq(Event)
         /\ Len(News(c)) = Len(events) - c.scan
         /\ \A i \in 1 .. Len(News(c)) : News(c)[i] = events[c.scan + i]
BY DEF News

LEMMA LastFit ==
  ASSUME NEW new \in Seq(Event)
  PROVE  /\ Last(new) \in 1 .. Len(new) + 1
         /\ Notified(new) = {} <=> Last(new) = Len(new) + 1
         /\ Notified(new) # {} => Last(new) \in Notified(new)
         /\ \A i \in Notified(new) : i <= Last(new)
<1>1. Notified(new) \in SUBSET (1 .. Len(new)) /\ Len(new) \in Nat
  BY DEF Notified
<1>2. CASE Notified(new) = {}
  BY <1>1, <1>2 DEF Last
<1>3. CASE Notified(new) # {}
  <2>1. Last(new) = Max(Notified(new))
    BY <1>3 DEF Last
  <2>2. Last(new) \in Notified(new) /\ \A y \in Notified(new) : Last(new) >= y
    BY <1>1, <1>3, <2>1, Highest
  <2>3. \A y \in Notified(new) : y \in Nat /\ y <= Len(new)
    BY <1>1
  <2>4. QED
    BY <1>1, <1>3, <2>2, <2>3
<1>4. QED
  BY <1>2, <1>3

LEMMA KindsFit ==
  ASSUME NEW new \in Seq(Event), NEW c, c.native \in Status, NEW look \in BOOLEAN
  PROVE  /\ LastKind(new) \in {"live", "idle", "awaiting"}
         /\ Live(c, new, look) \in {"awaiting", "error", "none"}
         /\ Before(new, c) \in {"none", c.native}
         /\ QuietNative(new, c, look) \in {"none", c.native}
<1>1. LastKind(new) \in {"live", "idle", "awaiting"}
  BY DEF LastKind
<1>2. Live(c, new, look) \in {"awaiting", "error", "none"}
  BY DEF Live
<1>3. Before(new, c) \in {"none", c.native}
  BY DEF Before
<1>4. CASE LastKind(new) = "awaiting"
  BY <1>1, <1>2, <1>3, <1>4 DEF QuietNative
<1>5. CASE LastKind(new) = "idle"
  BY <1>1, <1>2, <1>3, <1>5 DEF QuietNative
<1>6. CASE LastKind(new) = "live"
  BY <1>1, <1>2, <1>3, <1>6 DEF QuietNative
<1>7. QED
  BY <1>1, <1>2, <1>3, <1>4, <1>5, <1>6

\* What PollNative offers, and what it remembers of it.
StatusOf(new, c, look) == IF LastKind(new) = "live" THEN Live(c, new, look) ELSE LastKind(new)
AfterOf(new, c, look) ==
    IF StatusOf(new, c, look) = "idle" \/ Cleared(new) THEN "none" ELSE StatusOf(new, c, look)

LEMMA NotQuiet ==
  ASSUME NEW new \in Seq(Event), NEW c, c.native \in Status, NEW look \in BOOLEAN,
         ~Quiet(new, c, look)
  PROVE  /\ StatusOf(new, c, look) \in {"awaiting", "error", "idle"}
         /\ AfterOf(new, c, look) \in Status
         /\ LastKind(new) = "awaiting" => ~Cleared(new) /\ ~RepeatedPrompt(new, c)
         /\ LastKind(new) = "idle" => ~idleSeen
         /\ LastKind(new) = "live" => Live(c, new, look) \notin {"none", Before(new, c)}
<1>1. LastKind(new) \in {"live", "idle", "awaiting"} /\ Live(c, new, look) \in {"awaiting", "error", "none"}
  BY KindsFit
<1>2. CASE LastKind(new) = "awaiting"
  BY <1>1, <1>2 DEF Quiet, StatusOf, AfterOf, Status
<1>3. CASE LastKind(new) = "idle"
  BY <1>1, <1>3 DEF Quiet, StatusOf, AfterOf, Status
<1>4. CASE LastKind(new) = "live"
  BY <1>1, <1>4 DEF Quiet, StatusOf, AfterOf, Status
<1>5. QED
  BY <1>1, <1>2, <1>3, <1>4

\* The cursor a free poll starts from: everything behind it has banked its turn.
LEMMA TurnedFit ==
  ASSUME QueueInv, NEW ack \in known \cup {NoId}, Free(ack)
  PROVE  LET new == News(Cursors(ack))
         IN  /\ new \in Seq(Event) /\ Len(new) = Len(events) - Here
             /\ \A i \in 1 .. Len(new) : new[i] = events[Here + i]
             /\ Turned(new) \in BOOLEAN /\ (turnStarted => Turned(new))
             /\ TurnSeen(Len(events)) => Turned(new)
<1>1. /\ Cursors(ack).scan \in Nat /\ Cursors(ack).scan <= Len(events)
      /\ Cursors(ack).scan = Here
  BY CursorsFit
<1>2. events \in Seq(Event) /\ base \in Nat /\ turnStarted \in BOOLEAN /\ Len(events) \in Nat
  BY DEF QueueInv, TypeOK
<1> DEFINE new == News(Cursors(ack))
<1>3. /\ new \in Seq(Event) /\ Len(new) = Len(events) - Here
      /\ \A i \in 1 .. Len(new) : new[i] = events[Here + i]
  <2>1. Cursors(ack).scan \in 0 .. Len(events)
    BY <1>1, <1>2
  <2>2. QED
    BY <1>1, <1>2, <2>1, NewsFit
<1>4. TurnSeen(Here) => turnStarted
  BY DEF QueueInv, TurnAhead
<1> HIDE DEF new
<1>5. Turned(new) \in BOOLEAN /\ (turnStarted => Turned(new))
  BY <1>2 DEF Turned
<1>6. ASSUME NEW i \in base + 1 .. Len(events), IsTurn(events[i]), ~turnStarted
      PROVE  Turned(new)
  <2>1. i \notin base + 1 .. Here
    BY <1>4, <1>6 DEF TurnSeen
  <2>2. i - Here \in 1 .. Len(new) /\ events[Here + (i - Here)] = events[i]
    BY <1>1, <1>2, <1>3, <2>1
  <2>3. IsTurn(new[i - Here])
    BY <1>3, <1>6, <2>2
  <2>4. DOMAIN new = 1 .. Len(new)
    BY <1>3
  <2>5. QED
    BY <2>2, <2>3, <2>4 DEF Turned
<1>7. TurnSeen(Len(events)) => Turned(new)
  BY <1>5, <1>6 DEF TurnSeen
<1>8. QED
  BY <1>3, <1>5, <1>7 DEF new

LEMMA QueuePolls ==
  ASSUME QueueInv, NEW ack \in known \cup {NoId}, NEW due \in BOOLEAN, NEW look \in BOOLEAN,
         NEW printed \in BOOLEAN, Poll(ack, due, look, printed)
  PROVE  QueueInv'
<1> DEFINE c == Cursors(ack)
           new == News(c)
<1>1. TypeOK
  BY DEF QueueInv
<1>2. CASE PollPending(ack, due, printed)
  <2>1. /\ notices' \in Seq(NoticeKind) /\ Len(notices') >= Len(notices) /\ Len(notices') \in Nat
        /\ question' \in {"none", "open", "reasked", "escalated"}
    BY <1>1, <1>2, ReaskTyped DEF PollPending
  <2>2. pending # NoOffer /\ pending \in Offer
    BY <1>1, <1>2, PendingOffer DEF PollPending
  <2>3. pending.seq \in Nat /\ pending.id \in Id /\ pending.seq <= Len(notices)
    BY <2>2 DEF Offer, QueueInv, PendingInOrder
  <2>4. Tell(pending, printed)
    BY <1>2 DEF PollPending
  <2>5. /\ told' \in Nat /\ told' \in {told, pending.seq} /\ told <= told'
        /\ known \subseteq known' /\ known' \subseteq known \cup {pending.id}
        /\ known' \in SUBSET Id
        /\ pending.id \in known' => pending.seq <= told' \/ pending.id \in known
    BY <1>1, <2>3, <2>4, Told
  <2>6. UNCHANGED <<jobVars, state, sent, allRead, cursorVars, nativeVars, offerVars, crewVars,
                   idles, surfaced>>
    BY <1>2 DEF PollPending
  <2>7. Len(notices) \in Nat /\ told \in Nat /\ told <= Len(notices) /\ ackSeq \in Nat
    BY <1>1 DEF TypeOK
  <2>8. TypeOK'
    BY <1>1, <2>1, <2>3, <2>5, <2>6, <2>7
    DEF TypeOK, jobVars, cursorVars, nativeVars, offerVars, crewVars
  <2>9. IdsPast'
    <3>1. pending.id = <<job, generation>>
      BY <2>2 DEF QueueInv, PendingInOrder
    <3>2. \A id \in known' : id[1] < job \/ (id[1] = job /\ id[2] <= generation)
      BY <1>1, <2>5, <3>1 DEF QueueInv, IdsPast, TypeOK
    <3>3. QED
      BY <2>6, <3>2 DEF QueueInv, IdsPast, jobVars, offerVars, cursorVars
  <2>10. PendingInOrder' /\ AckedWasTold' /\ PrintedIsTold'
    <3>1. pending.seq <= told => pending.seq <= told'
      BY <2>3, <2>5, <2>7
    <3>2. PrintedIsTold'
      BY <2>5, <2>6, <3>1 DEF QueueInv, PrintedIsTold, offerVars
    <3>3. AckedWasTold'
      BY <2>5, <2>6, <2>7 DEF QueueInv, AckedWasTold, cursorVars
    <3>4. PendingInOrder'
      BY <2>1, <2>3, <2>6, <2>7 DEF QueueInv, PendingInOrder, jobVars, offerVars, cursorVars, crewVars
    <3>5. QED
      BY <3>2, <3>3, <3>4
  <2>11. TurnBanked' /\ TurnAhead'
    BY <2>6
    DEF QueueInv, TurnBanked, TurnAhead, TurnSeen, Here, jobVars, cursorVars, nativeVars, offerVars,
        crewVars
  <2>12. QED
    BY <2>8, <2>9, <2>10, <2>11 DEF QueueInv
<1>3. CASE PollNotice(ack, due, printed)
  <2> DEFINE offer == Deliveries(Notices(due)[c.seq + 1], c.seq + 1, c.scan, c.native)
  <2>1. Free(ack)
    BY <1>3 DEF PollNotice
  <2>2. /\ c.seq \in Nat /\ c.scan \in Nat /\ c.scan <= Len(events) /\ c.scan = Here
        /\ c.native \in Status
    BY <2>1, CursorsFit
  <2>3. /\ notices' \in Seq(NoticeKind) /\ Len(notices') >= Len(notices) /\ Len(notices') \in Nat
        /\ question' \in {"none", "open", "reasked", "escalated"} /\ notices' = Notices(due)
    BY <1>1, <1>3, ReaskTyped DEF PollNotice, Reask
  <2>4. c.seq + 1 <= Len(notices')
    BY <1>3, <2>2, <2>3 DEF PollNotice
  <2>5. Notices(due)[c.seq + 1] \in NoticeKind
    BY <2>2, <2>3, <2>4
  <2>6. offer \in Offer /\ offer # NoOffer
    BY <1>1, <2>2, <2>5, DeliveryTyped
  <2>7. offer.id = <<job, generation + 1>> /\ offer.seq = c.seq + 1 /\ offer.offset = c.scan
    BY DeliveryFields
  <2>8. /\ SaveCursors(c) /\ scan' = c.scan /\ native' = c.native /\ Hand(offer, printed)
        /\ UNCHANGED <<jobVars, state, sent, allRead, idleSeen, turnStarted, crewVars, idles,
                       surfaced>>
    BY <1>3 DEF PollNotice
  <2>9. /\ turnStarted' \in BOOLEAN /\ idleSeen' \in BOOLEAN /\ idles' \in Nat
        /\ surfaced' \in [Approval -> Nat] /\ turnStarted' = turnStarted
    BY <1>1, <2>8 DEF TypeOK
  <2>10. TurnSeen(offer.offset) => turnStarted'
    BY <2>2, <2>7, <2>9 DEF QueueInv, TurnAhead
  <2>11. offer.offset \in c.scan .. Len(events)
    BY <1>1, <2>2, <2>7 DEF TypeOK
  <2> HIDE DEF offer
  <2>12. QED
    BY <2>1, <2>2, <2>3, <2>4, <2>6, <2>7, <2>8, <2>9, <2>10, <2>11, OfferKeeps
<1>4. CASE PollDone(ack)
  <2>1. Acks(ack)
    BY <1>4 DEF PollDone
  <2>2. Free(ack)
    BY <2>1 DEF Free, Accepted
  <2>3. /\ c.seq \in Nat /\ c.scan \in Nat /\ c.scan <= Len(events) /\ c.scan = Here
        /\ c.native \in Status
    BY <2>2, CursorsFit
  <2>4. /\ SaveCursors(c) /\ scan' = c.scan /\ native' = c.native /\ pending' = NoOffer
        /\ UNCHANGED <<jobVars, workVars, notices, idleSeen, turnStarted, generation, crewVars,
                       historyVars>>
    BY <1>4 DEF PollDone
  <2>5. /\ notices' \in Seq(NoticeKind) /\ Len(notices') >= Len(notices)
        /\ question' \in {"none", "open", "reasked", "escalated"} /\ turnStarted' \in BOOLEAN
        /\ turnStarted' = turnStarted
    BY <1>1, <2>4 DEF TypeOK, workVars
  <2>6. TurnSeen(scan') => turnStarted'
    BY <2>3, <2>4, <2>5 DEF QueueInv, TurnAhead
  <2>7. scan' \in c.scan .. Len(events)
    BY <1>1, <2>3, <2>4 DEF TypeOK
  <2>8. UNCHANGED <<jobVars, state, sent, allRead, idleSeen, generation, crewVars, historyVars>>
    BY <2>4 DEF workVars
  <2>9. QED
    BY <2>2, <2>3, <2>4, <2>5, <2>6, <2>7, <2>8, QuietKeeps
<1>5. CASE PollQuiet(ack, due, look)
  <2>1. Free(ack)
    BY <1>5 DEF PollQuiet
  <2>2. c.scan \in Nat /\ c.scan <= Len(events) /\ c.native \in Status
    BY <2>1, CursorsFit
  <2>3. /\ notices' \in Seq(NoticeKind) /\ Len(notices') >= Len(notices)
        /\ question' \in {"none", "open", "reasked", "escalated"}
    BY <1>1, <1>5, ReaskTyped DEF PollQuiet
  <2>4. /\ new \in Seq(Event) /\ Turned(new) \in BOOLEAN
        /\ TurnSeen(Len(events)) => Turned(new)
    BY <2>1, TurnedFit
  <2>5. /\ SaveCursors(c) /\ scan' = Len(events) /\ native' = QuietNative(new, c, look)
        /\ turnStarted' = Turned(new) /\ pending' = NoOffer
        /\ UNCHANGED <<jobVars, state, sent, allRead, idleSeen, generation, crewVars, historyVars>>
    BY <1>5 DEF PollQuiet
  <2>6. native' \in Status
    <3>1. QuietNative(new, c, look) \in {"none", c.native}
      BY <2>2, <2>4, KindsFit
    <3>2. QED
      BY <2>2, <2>5, <3>1 DEF Status
  <2>7. scan' \in c.scan .. Len(events)
    BY <1>1, <2>2, <2>5 DEF TypeOK
  <2> HIDE DEF new
  <2>8. TurnSeen(scan') => turnStarted'
    BY <2>4, <2>5
  <2>9. turnStarted' \in BOOLEAN
    BY <2>4, <2>5
  <2>10. QED
    BY <2>1, <2>3, <2>5, <2>6, <2>7, <2>8, <2>9, QuietKeeps
<1>6. CASE PollNative(ack, due, look, printed)
  <2> DEFINE offer == Deliveries(StatusOf(new, c, look), c.seq, Len(events), AfterOf(new, c, look))
  <2>1. Free(ack)
    BY <1>6 DEF PollNative
  <2>2. /\ c.seq \in Nat /\ c.scan \in Nat /\ c.scan <= Len(events) /\ c.seq <= Len(notices)
        /\ c.native \in Status
    BY <2>1, CursorsFit
  <2>3. /\ notices' \in Seq(NoticeKind) /\ Len(notices') >= Len(notices) /\ Len(notices') \in Nat
        /\ question' \in {"none", "open", "reasked", "escalated"}
    BY <1>1, <1>6, ReaskTyped DEF PollNative
  <2>4. /\ new \in Seq(Event) /\ Turned(new) \in BOOLEAN /\ (turnStarted => Turned(new))
        /\ TurnSeen(Len(events)) => Turned(new)
    BY <2>1, TurnedFit
  <2>5. StatusOf(new, c, look) \in {"awaiting", "error", "idle"} /\ AfterOf(new, c, look) \in Status
    BY <1>6, <2>2, <2>4, NotQuiet DEF PollNative
  <2>6. Len(events) \in Nat /\ Len(notices) \in Nat
    BY <1>1 DEF TypeOK
  <2>7. offer \in Offer /\ offer # NoOffer
    BY <1>1, <2>2, <2>5, <2>6, DeliveryTyped
  <2>8. offer.id = <<job, generation + 1>> /\ offer.seq = c.seq /\ offer.offset = Len(events)
    BY DeliveryFields
  <2>9. /\ SaveCursors(c) /\ scan' = c.scan /\ native' = Before(new, c)
        /\ turnStarted' = Turned(new)
        /\ UNCHANGED <<jobVars, state, sent, allRead, crewVars>>
    BY <1>6 DEF PollNative
  <2>10. Hand(offer, printed)
    BY <1>6 DEF PollNative, StatusOf, AfterOf
  <2>11. native' \in Status
    BY <2>2, <2>4, <2>9, KindsFit DEF Status
  <2>12. idleSeen' \in BOOLEAN /\ idles' \in Nat
    BY <1>1, <1>6 DEF PollNative, TypeOK
  <2>13. surfaced' \in [Approval -> Nat]
    <3>1. \A a \in Approval : surfaced[a] \in Nat /\ surfaced[a] + 1 \in Nat
      BY <1>1 DEF TypeOK
    <3>2. QED
      BY <1>6, <3>1 DEF PollNative
  <2>14. offer.seq <= Len(notices') /\ offer.offset \in c.scan .. Len(events)
    BY <2>2, <2>3, <2>6, <2>8
  <2>15. TurnSeen(offer.offset) => turnStarted'
    BY <2>4, <2>8, <2>9
  <2> HIDE DEF offer
  <2>16. QED
    BY <2>1, <2>2, <2>3, <2>4, <2>7, <2>8, <2>9, <2>10, <2>11, <2>12, <2>13, <2>14, <2>15, OfferKeeps
<1>7. QED
  BY <1>2, <1>3, <1>4, <1>5, <1>6 DEF Poll

-----------------------------------------------------------------------------
(* The queue invariant across the other steps.                             *)

LEMMA InitQueue == Init => QueueInv
<1> SUFFICES ASSUME Init PROVE QueueInv
  OBVIOUS
<1>1. TypeOK
  <2>1. 1 \in 1 .. MaxJobs /\ 1 \in 0 .. MaxMessages /\ 0 \in 0 .. MaxApprovals
    BY Constants
  <2>2. <<>> \in Seq(NoticeKind) /\ <<>> \in Seq(Event) /\ Len(<<>>) = 0
    OBVIOUS
  <2>3. [a \in Approval |-> 0] \in [Approval -> Nat]
    OBVIOUS
  <2>4. /\ job \in 1 .. MaxJobs /\ base \in 0 .. Len(events) /\ sent \in 0 .. MaxMessages
        /\ ackSeq \in 0 .. Len(notices) /\ offset \in base .. Len(events)
        /\ scan \in offset .. Len(events) /\ approvals \in 0 .. MaxApprovals
        /\ told \in 0 .. Len(notices) /\ generation \in Nat /\ idles \in Nat
    BY <2>1, <2>2 DEF Init
  <2>5. /\ state \in {"working", "asked", "done"} /\ notices \in Seq(NoticeKind)
        /\ question \in {"none", "open", "reasked", "escalated"} /\ allRead \in BOOLEAN
        /\ native \in Status /\ idleSeen \in BOOLEAN /\ turnStarted \in BOOLEAN
        /\ pending \in Offer \cup {NoOffer} /\ lastAck \in Id \cup {NoId}
        /\ events \in Seq(Event) /\ open \in Approval \cup {0} /\ known \in SUBSET Id
        /\ surfaced \in [Approval -> Nat]
    BY <2>2, <2>3 DEF Init, Status
  <2>6. QED
    BY <2>4, <2>5 DEF TypeOK
<1>2. QED
  BY <1>1 DEF Init, QueueInv, PendingInOrder, IdsPast, PrintedIsTold, AckedWasTold, TurnBanked,
              TurnAhead, TurnSeen, Here

\* What the captain's deliveries, the crew's commands and reports leave of it.
LEMMA WorkKeeps ==
  ASSUME QueueInv, notices' \in Seq(NoticeKind), Len(notices') >= Len(notices),
         state' \in {"working", "asked", "done"}, sent' \in 0 .. MaxMessages, allRead' \in BOOLEAN,
         question' \in {"none", "open", "reasked", "escalated"}, idleSeen' \in BOOLEAN,
         UNCHANGED <<jobVars, cursorVars, native, turnStarted, offerVars, crewVars, historyVars>>
  PROVE  QueueInv'
<1>1. TypeOK /\ Len(notices) \in Nat /\ Len(notices') \in Nat
  BY DEF QueueInv, TypeOK
<1>2. ackSeq' \in 0 .. Len(notices') /\ told' \in 0 .. Len(notices')
  BY <1>1 DEF TypeOK, cursorVars, historyVars
<1>3. TypeOK'
  BY <1>1, <1>2 DEF TypeOK, jobVars, cursorVars, offerVars, crewVars, historyVars
<1>4. PendingInOrder'
  <2>1. pending # NoOffer => pending.seq \in Nat
    BY <1>1, PendingOffer DEF Offer
  <2>2. QED
    BY <1>1, <2>1 DEF QueueInv, PendingInOrder, jobVars, cursorVars, offerVars, crewVars
<1>5. IdsPast' /\ PrintedIsTold' /\ AckedWasTold' /\ TurnBanked' /\ TurnAhead'
  BY DEF QueueInv, IdsPast, PrintedIsTold, AckedWasTold, TurnBanked, TurnAhead, TurnSeen, Here,
         jobVars, cursorVars, offerVars, crewVars, historyVars
<1>6. QED
  BY <1>3, <1>4, <1>5 DEF QueueInv

LEMMA QueueWork ==
  ASSUME QueueInv, Deliver \/ Receipt \/ Ask \/ Done \/ Report PROVE QueueInv'
<1>1. TypeOK /\ notices \in Seq(NoticeKind) /\ Len(notices) \in Nat /\ sent \in Nat
  BY DEF QueueInv, TypeOK
<1>2. \A k \in NoticeKind : Append(notices, k) \in Seq(NoticeKind)
                            /\ Len(Append(notices, k)) >= Len(notices)
  BY <1>1
<1>3. CASE Deliver
  <2>1. sent' \in 0 .. MaxMessages
    BY <1>1, <1>3, Constants DEF Deliver, TypeOK
  <2>2. notices' = notices /\ idleSeen' \in BOOLEAN /\ allRead' \in BOOLEAN
    BY <1>3 DEF Deliver
  <2>3. Len(notices') >= Len(notices)
    BY <1>1, <2>2
  <2>4. QED
    BY <1>1, <1>3, <2>1, <2>2, <2>3, WorkKeeps DEF Deliver
<1>4. CASE Receipt
  BY <1>1, <1>4, WorkKeeps DEF Receipt, TypeOK, nativeVars
<1>5. CASE Ask
  <2>1. notices' \in Seq(NoticeKind) /\ Len(notices') >= Len(notices)
    BY <1>2, <1>5 DEF Ask, NoticeKind
  <2>2. QED
    BY <1>1, <1>5, <2>1, WorkKeeps DEF Ask, TypeOK, nativeVars
<1>6. CASE Done
  <2>1. notices' \in Seq(NoticeKind) /\ Len(notices') >= Len(notices)
    BY <1>2, <1>6 DEF Done, NoticeKind
  <2>2. QED
    BY <1>1, <1>6, <2>1, WorkKeeps DEF Done, TypeOK, nativeVars
<1>7. CASE Report
  <2>1. notices' \in Seq(NoticeKind) /\ Len(notices') >= Len(notices)
    BY <1>2, <1>7 DEF Report, NoticeKind
  <2>2. QED
    BY <1>1, <1>7, <2>1, WorkKeeps DEF Report, TypeOK, workVars, nativeVars
<1>8. QED
  BY <1>3, <1>4, <1>5, <1>6, <1>7

LEMMA CrewAppends ==
  ASSUME TypeOK, CrewStep
  PROVE  /\ events' \in Seq(Event) /\ Len(events') >= Len(events)
         /\ \A i \in 1 .. Len(events) : events'[i] = events[i]
         /\ open' \in Approval \cup {0} /\ approvals' \in 0 .. MaxApprovals
         /\ CrewUnchanged
<1> DEFINE Appended(e) == events' = Append(events, e)
           Grown == /\ events' \in Seq(Event) /\ Len(events') >= Len(events)
                    /\ \A i \in 1 .. Len(events) : events'[i] = events[i]
<1>1. events \in Seq(Event) /\ Len(events) \in Nat /\ open \in Approval \cup {0}
      /\ approvals \in 0 .. MaxApprovals
  BY DEF TypeOK
<1>2. \A e \in Event : Appended(e) => Grown
  BY <1>1
<1>3. \A k \in {"start", "turn", "tool", "ask", "prompt", "idle"} : \A a \in Approval \cup {0} :
         Emit(k, a) => Grown
  BY <1>2 DEF Emit, Event
<1>4. events' = events => Grown
  BY <1>1
<1> HIDE DEF Appended, Grown
<1>5. CASE Plain
  BY <1>1, <1>3, <1>5 DEF Plain, Grown
<1>6. CASE Tool
  BY <1>1, <1>3, <1>6 DEF Tool, Grown
<1>7. CASE Prompt
  <2>1. open' \in Approval /\ approvals' \in 0 .. MaxApprovals
    BY <1>1, <1>7, Constants DEF Prompt, Approval
  <2>2. QED
    BY <1>1, <1>3, <1>7, <1>4, <2>1 DEF Prompt, Grown
<1>8. CASE Remind
  BY <1>1, <1>3, <1>8 DEF Remind, Grown
<1>9. CASE Answered
  BY <1>1, <1>3, <1>9, <1>4 DEF Answered, Grown
<1>10. CASE TurnEnds
  BY <1>1, <1>3, <1>10 DEF TurnEnds, Grown
<1>11. QED
  BY <1>6, <1>7, <1>8, <1>9, <1>10, <1>5 DEF CrewStep

LEMMA QueueCrew == ASSUME QueueInv, CrewStep PROVE QueueInv'
<1>1. TypeOK
  BY DEF QueueInv
<1>2. /\ events' \in Seq(Event) /\ Len(events') >= Len(events)
      /\ \A i \in 1 .. Len(events) : events'[i] = events[i]
      /\ open' \in Approval \cup {0} /\ approvals' \in 0 .. MaxApprovals
      /\ CrewUnchanged
  BY <1>1, CrewAppends
<1>3. Len(events) \in Nat /\ Len(events') \in Nat
  BY <1>1, <1>2 DEF TypeOK
<1>4. base' \in 0 .. Len(events') /\ offset' \in base' .. Len(events')
      /\ scan' \in offset' .. Len(events')
  BY <1>1, <1>2, <1>3 DEF TypeOK, CrewUnchanged, jobVars, cursorVars
<1>5. TypeOK'
  BY <1>1, <1>2, <1>4
  DEF TypeOK, CrewUnchanged, jobVars, workVars, cursorVars, nativeVars, offerVars, historyVars
<1>6. PendingInOrder'
  BY <1>2, <1>3 DEF QueueInv, PendingInOrder, CrewUnchanged, jobVars, cursorVars, offerVars
<1>7. IdsPast' /\ PrintedIsTold' /\ AckedWasTold'
  BY <1>2
  DEF QueueInv, IdsPast, PrintedIsTold, AckedWasTold, CrewUnchanged, jobVars, cursorVars, offerVars,
      historyVars
<1>8. \A n \in 0 .. Len(events) : TurnSeen(n)' => TurnSeen(n)
  <2>1. base' = base /\ base \in Nat
    BY <1>1, <1>2, <1>3 DEF TypeOK, CrewUnchanged, jobVars
  <2>2. QED
    BY <1>2, <1>3, <2>1 DEF TurnSeen
<1>9. TurnBanked' /\ TurnAhead'
  <2>1. /\ scan' = scan /\ pending' = pending /\ turnStarted' = turnStarted /\ Here' = Here
        /\ scan \in 0 .. Len(events)
    BY <1>1, <1>2, <1>3 DEF TypeOK, CrewUnchanged, cursorVars, offerVars, nativeVars, Here
  <2>2. Here \in 0 .. Len(events)
    BY <1>3, <2>1 DEF QueueInv, PendingInOrder, Here
  <2>3. QED
    BY <1>8, <2>1, <2>2 DEF QueueInv, TurnBanked, TurnAhead, TurnSeen
<1>10. QED
  BY <1>5, <1>6, <1>7, <1>9 DEF QueueInv

LEMMA QueueHandoff == ASSUME QueueInv, Handoff PROVE QueueInv'
<1>1. TypeOK /\ Len(events) \in Nat /\ job \in Nat /\ job' = job + 1 /\ job' \in 1 .. MaxJobs
  BY Constants DEF QueueInv, TypeOK, Handoff
<1>2. <<>> \in Seq(NoticeKind) /\ Len(<<>>) = 0
  OBVIOUS
<1>3. TypeOK'
  <2>1. /\ base' \in 0 .. Len(events') /\ sent' \in 0 .. MaxMessages
        /\ ackSeq' \in 0 .. Len(notices') /\ offset' \in base' .. Len(events')
        /\ scan' \in offset' .. Len(events') /\ approvals' \in 0 .. MaxApprovals
        /\ told' \in 0 .. Len(notices') /\ generation' \in Nat /\ idles' \in Nat
    BY <1>1, <1>2, Constants DEF Handoff, TypeOK, crewVars
  <2>2. /\ state' \in {"working", "asked", "done"} /\ notices' \in Seq(NoticeKind)
        /\ question' \in {"none", "open", "reasked", "escalated"} /\ allRead' \in BOOLEAN
        /\ native' \in Status /\ idleSeen' \in BOOLEAN /\ turnStarted' \in BOOLEAN
        /\ pending' \in Offer \cup {NoOffer} /\ lastAck' \in Id \cup {NoId}
        /\ events' \in Seq(Event) /\ open' \in Approval \cup {0} /\ known' \in SUBSET Id
        /\ surfaced' \in [Approval -> Nat]
    BY <1>1, <1>2 DEF Handoff, TypeOK, Status, crewVars
  <2>3. QED
    BY <1>1, <2>1, <2>2 DEF TypeOK
<1>4. IdsPast'
  BY <1>1 DEF QueueInv, IdsPast, Handoff, TypeOK, Id
<1>5. PendingInOrder' /\ PrintedIsTold' /\ AckedWasTold' /\ TurnBanked' /\ TurnAhead'
  BY <1>1, <1>2 DEF PendingInOrder, PrintedIsTold, AckedWasTold, TurnBanked, TurnAhead, TurnSeen, Here,
                   Handoff
<1>6. QED
  BY <1>3, <1>4, <1>5 DEF QueueInv

LEMMA NextQueue == QueueInv /\ [Next]_vars => QueueInv'
<1> SUFFICES ASSUME QueueInv, [Next]_vars PROVE QueueInv'
  OBVIOUS
<1>1. CASE UNCHANGED vars
  BY <1>1
  DEF vars, jobVars, workVars, cursorVars, nativeVars, offerVars, crewVars, historyVars, QueueInv,
      TypeOK, PendingInOrder, IdsPast, PrintedIsTold, AckedWasTold, TurnBanked, TurnAhead, TurnSeen, Here
<1>2. ASSUME NEW ack \in known \cup {NoId}, NEW due \in BOOLEAN, NEW look \in BOOLEAN,
             NEW printed \in BOOLEAN, Poll(ack, due, look, printed)
      PROVE  QueueInv'
  BY <1>2, QueuePolls
<1>3. QED
  BY <1>1, <1>2, QueueWork, QueueCrew, QueueHandoff DEF Next

LEMMA QueueInvariant == Spec => []QueueInv
<1>1. Init => QueueInv
  BY InitQueue
<1>2. QueueInv /\ [Next]_vars => QueueInv'
  BY NextQueue
<1>3. QED
  BY <1>1, <1>2, PTL DEF Spec

\* TypeOK (TypeOK's check of every variable), for every bound.
THEOREM TypeCorrect == Spec => []TypeOK
<1>1. QueueInv => TypeOK
  BY DEF QueueInv
<1>2. QED
  BY <1>1, QueueInvariant, PTL

\* AckedWasTold: racing, dying and repeated waits acknowledge nothing that none of them
\* printed.
THEOREM AcknowledgedIsTold == Spec => []AckedWasTold
<1>1. QueueInv => AckedWasTold
  BY DEF QueueInv
<1>2. QED
  BY <1>1, QueueInvariant, PTL

\* PendingInOrder: poll's pending delivery belongs to the active assignment and stands
\* exactly behind the cursors.
THEOREM PendingOrdered == Spec => []PendingInOrder
<1>1. QueueInv => PendingInOrder
  BY DEF QueueInv
<1>2. QED
  BY <1>1, QueueInvariant, PTL

\* TurnBanked: no poll and no acknowledgement moves scan_offset past events whose turn is
\* not in turn_started.
THEOREM TurnsBanked == Spec => []TurnBanked
<1>1. QueueInv => TurnBanked
  BY DEF QueueInv
<1>2. QED
  BY <1>1, QueueInvariant, PTL

-----------------------------------------------------------------------------
(* What a poll does to the cursors, and the queue it implements.           *)

LEMMA PollMoves ==
  ASSUME QueueInv, NEW ack \in known \cup {NoId}, NEW due \in BOOLEAN, NEW look \in BOOLEAN,
         NEW printed \in BOOLEAN, Poll(ack, due, look, printed)
  PROVE  /\ job' = job /\ ackSeq' \in {ackSeq, ackSeq + 1} /\ ackSeq' <= told
         /\ offset <= offset' /\ scan <= scan' /\ (turnStarted => turnStarted')
         /\ Len(notices) <= Len(notices') /\ told <= told' /\ told' \in {told, ackSeq' + 1}
<1> DEFINE c == Cursors(ack)
           new == News(c)
<1>1. /\ TypeOK /\ ackSeq <= told /\ ackSeq \in Nat /\ told \in Nat /\ offset \in Nat
      /\ scan \in Nat /\ Len(events) \in Nat /\ Len(notices) \in Nat
  BY DEF QueueInv, TypeOK, AckedWasTold
<1>2. ASSUME Free(ack), SaveCursors(c)
      PROVE  /\ ackSeq' = c.seq /\ ackSeq' \in {ackSeq, ackSeq + 1} /\ ackSeq' <= told
             /\ offset <= offset' /\ scan <= c.scan /\ c.seq \in Nat /\ c.scan \in Nat
             /\ c.scan <= Len(events)
  BY <1>2, CursorsFit DEF SaveCursors
<1>3. Reask(due) => Len(notices) <= Len(notices')
  BY <1>1, ReaskTyped
<1>4. ASSUME NEW status, NEW seq \in Nat, NEW upto, NEW after,
             Tell(Deliveries(status, seq, upto, after), printed)
      PROVE  told <= told' /\ told' \in {told, seq}
  <2>1. <<job, generation + 1>> \in Id
    BY <1>1 DEF TypeOK, Id
  <2>2. QED
    BY <1>1, <1>4, <2>1, DeliveryFields, Told
<1>5. CASE PollPending(ack, due, printed)
  <2>1. pending \in Offer /\ pending.seq \in {ackSeq, ackSeq + 1} /\ Tell(pending, printed)
    BY <1>1, <1>5, PendingOffer DEF PollPending, QueueInv, PendingInOrder
  <2>2. pending.seq \in Nat /\ pending.id \in Id
    BY <2>1 DEF Offer
  <2>3. told <= told' /\ told' \in {told, pending.seq}
    BY <1>1, <2>1, <2>2, Told
  <2>4. told' \in {told, ackSeq + 1}
    BY <1>1, <2>1, <2>3
  <2>5. UNCHANGED <<jobVars, cursorVars, nativeVars>> /\ Reask(due)
    BY <1>5 DEF PollPending
  <2>6. QED
    BY <1>1, <1>3, <2>3, <2>4, <2>5 DEF jobVars, cursorVars, nativeVars
<1>6. CASE PollNotice(ack, due, printed)
  <2>1. /\ Free(ack) /\ SaveCursors(c) /\ scan' = c.scan /\ Reask(due)
        /\ UNCHANGED <<jobVars, turnStarted>>
        /\ Hand(Deliveries(Notices(due)[c.seq + 1], c.seq + 1, c.scan, c.native), printed)
    BY <1>6 DEF PollNotice
  <2>2. /\ ackSeq' = c.seq /\ ackSeq' \in {ackSeq, ackSeq + 1} /\ ackSeq' <= told
        /\ offset <= offset' /\ scan <= c.scan /\ c.seq \in Nat
    BY <1>2, <2>1
  <2> HIDE DEF c
  <2>3. told <= told' /\ told' \in {told, c.seq + 1}
    <3>1. c.seq + 1 \in Nat
      BY <2>2
    <3>2. Tell(Deliveries(Notices(due)[c.seq + 1], c.seq + 1, c.scan, c.native), printed)
      BY <2>1 DEF Hand
    <3>3. QED
      BY <1>4, <3>1, <3>2
  <2>4. QED
    BY <1>3, <2>1, <2>2, <2>3 DEF jobVars
<1>7. CASE PollDone(ack)
  <2>1. /\ Free(ack) /\ SaveCursors(c) /\ scan' = c.scan
        /\ UNCHANGED <<jobVars, notices, turnStarted, historyVars>>
    BY <1>7 DEF PollDone, Free, Accepted
  <2> HIDE DEF c
  <2>2. QED
    BY <1>1, <1>2, <2>1 DEF jobVars, historyVars
<1>8. CASE PollQuiet(ack, due, look)
  <2>1. /\ Free(ack) /\ SaveCursors(c) /\ scan' = Len(events) /\ Reask(due)
        /\ turnStarted' = Turned(new) /\ UNCHANGED <<jobVars, historyVars>>
    BY <1>8 DEF PollQuiet
  <2>2. turnStarted => Turned(new)
    BY <2>1, TurnedFit
  <2> HIDE DEF c, new
  <2>3. QED
    BY <1>1, <1>2, <1>3, <2>1, <2>2 DEF jobVars, historyVars
<1>9. CASE PollNative(ack, due, look, printed)
  <2>1. /\ Free(ack) /\ SaveCursors(c) /\ scan' = c.scan /\ Reask(due)
        /\ turnStarted' = Turned(new) /\ UNCHANGED jobVars
        /\ Hand(Deliveries(StatusOf(new, c, look), c.seq, Len(events), AfterOf(new, c, look)), printed)
    BY <1>9 DEF PollNative, StatusOf, AfterOf
  <2>2. turnStarted => Turned(new)
    BY <2>1, TurnedFit
  <2>3. /\ ackSeq' = c.seq /\ ackSeq' \in {ackSeq, ackSeq + 1} /\ ackSeq' <= told
        /\ offset <= offset' /\ scan <= c.scan /\ c.seq \in Nat
    BY <1>2, <2>1
  <2> HIDE DEF c, new
  <2>4. told <= told' /\ told' \in {told, c.seq}
    BY <1>4, <2>1, <2>3 DEF Hand
  <2>5. QED
    BY <1>1, <1>3, <2>1, <2>2, <2>3, <2>4 DEF jobVars
<1>10. QED
  BY <1>5, <1>6, <1>7, <1>8, <1>9 DEF Poll

\* Every other step of the assignment but a handoff leaves the cursors alone.
LEMMA OthersKeep ==
  ASSUME QueueInv, Deliver \/ Receipt \/ Ask \/ Done \/ Report \/ CrewStep
  PROVE  /\ UNCHANGED <<job, ackSeq, offset, scan, told, turnStarted>>
         /\ Len(notices) <= Len(notices')
<1>1. notices \in Seq(NoticeKind) /\ Len(notices) \in Nat
  BY DEF QueueInv, TypeOK
<1>2. CASE CrewStep
  BY <1>1, <1>2 DEF CrewStep, Plain, Tool, Prompt, Remind, Answered, TurnEnds, CrewUnchanged, jobVars,
                    cursorVars, nativeVars, historyVars
<1>3. CASE Deliver \/ Receipt
  BY <1>1, <1>3 DEF Deliver, Receipt, jobVars, cursorVars, nativeVars, historyVars
<1>4. CASE Ask \/ Done \/ Report
  <2>1. UNCHANGED <<jobVars, cursorVars, nativeVars, historyVars>>
    BY <1>4 DEF Ask, Done, Report
  <2>2. \A k : Len(Append(notices, k)) = Len(notices) + 1
    BY <1>1
  <2>3. \E k : notices' = Append(notices, k)
    BY <1>4 DEF Ask, Done, Report
  <2>4. Len(notices) <= Len(notices')
    BY <1>1, <2>2, <2>3
  <2>5. QED
    BY <2>1, <2>4 DEF jobVars, cursorVars, nativeVars, historyVars
<1>5. QED
  BY <1>2, <1>3, <1>4

\* CursorsAdvance: within an assignment no command moves ack_seq, offset, scan_offset or
\* turn_started backwards, and ack_seq only one notice at a time.
THEOREM CursorsGoForward == Spec => CursorsAdvance
<1> DEFINE Advance == job' = job =>
             /\ ackSeq' \in {ackSeq, ackSeq + 1}
             /\ offset' >= offset /\ scan' >= scan
             /\ (turnStarted => turnStarted')
<1>1. QueueInv /\ [Next]_vars => [Advance]_vars
  <2> SUFFICES ASSUME QueueInv, Next PROVE Advance
    OBVIOUS
  <2>1. offset \in Nat /\ scan \in Nat /\ Len(events) \in Nat
    BY DEF QueueInv, TypeOK
  <2>2. CASE Deliver \/ Receipt \/ Ask \/ Done \/ Report \/ CrewStep
    BY <2>1, <2>2, OthersKeep
  <2>3. CASE Handoff
    BY <2>3 DEF Handoff, QueueInv, TypeOK
  <2>4. ASSUME NEW ack \in known \cup {NoId}, NEW due \in BOOLEAN, NEW look \in BOOLEAN,
               NEW printed \in BOOLEAN, Poll(ack, due, look, printed)
        PROVE  Advance
    <3>1. /\ ackSeq' \in {ackSeq, ackSeq + 1} /\ offset <= offset' /\ scan <= scan'
          /\ (turnStarted => turnStarted')
      BY <2>4, PollMoves
    <3>2. QueueInv'
      BY <2>4, QueuePolls
    <3>3. offset' \in Nat /\ scan' \in Nat
      <4>1. TypeOK'
        BY <3>2 DEF QueueInv
      <4>2. /\ events' \in Seq(Event) /\ base' \in 0 .. Len(events')
            /\ offset' \in base' .. Len(events') /\ scan' \in offset' .. Len(events')
        BY <4>1 DEF TypeOK
      <4>3. QED
        BY <4>2
    <3>4. QED
      BY <2>1, <3>1, <3>3
  <2>5. QED
    BY <2>2, <2>3, <2>4 DEF Next
<1>2. QED
  BY <1>1, QueueInvariant, PTL DEF Spec, CursorsAdvance

\* ServesQueue (poll's notices implement NoticeQueue): every command is a Serve of the
\* queue or leaves it alone, and begin's handoff is its Renew.
THEOREM WaitServesQueue == Spec => ServesQueue
<1>1. Init => Queue!Init
  BY DEF Init, Queue!Init
<1>2. QueueInv /\ [Next]_vars /\ QueueInv' => [Queue!Next]_(Queue!vars)
  <2> SUFFICES ASSUME QueueInv, [Next]_vars, QueueInv' PROVE Queue!Next \/ UNCHANGED Queue!vars
    OBVIOUS
  <2>1. /\ ackSeq \in Nat /\ told \in Nat /\ Len(notices) \in Nat /\ ackSeq <= told
        /\ told' \in Nat /\ Len(notices') \in Nat /\ told' <= Len(notices')
    <3>1. TypeOK /\ TypeOK' /\ ackSeq <= told
      BY DEF QueueInv, AckedWasTold
    <3>2. /\ notices \in Seq(NoticeKind) /\ notices' \in Seq(NoticeKind)
          /\ ackSeq \in 0 .. Len(notices) /\ told \in 0 .. Len(notices)
          /\ told' \in 0 .. Len(notices')
      BY <3>1 DEF TypeOK
    <3>3. QED
      BY <3>1, <3>2
  <2>2. CASE UNCHANGED vars
    BY <2>2 DEF vars, cursorVars, historyVars, Queue!vars
  <2>3. CASE Handoff
    BY <2>3 DEF Handoff, MayHandOff, Queue!Next, Queue!Renew
  <2>4. CASE Deliver \/ Receipt \/ Ask \/ Done \/ Report \/ CrewStep
    <3>1. ackSeq' = ackSeq /\ told' = told /\ Len(notices) <= Len(notices')
      BY <2>4, OthersKeep
    <3>2. QED
      BY <2>1, <3>1 DEF Queue!Next, Queue!Serve
  <2>5. ASSUME NEW ack \in known \cup {NoId}, NEW due \in BOOLEAN, NEW look \in BOOLEAN,
               NEW printed \in BOOLEAN, Poll(ack, due, look, printed)
        PROVE  Queue!Next
    <3>1. /\ ackSeq' \in {ackSeq, ackSeq + 1} /\ ackSeq' <= told
          /\ Len(notices) <= Len(notices') /\ told <= told' /\ told' \in {told, ackSeq' + 1}
      BY <2>5, PollMoves
    <3>2. ackSeq' \in ackSeq .. told /\ ackSeq' <= ackSeq + 1
      BY <2>1, <3>1
    <3>3. Queue!Serve
      BY <2>1, <3>1, <3>2 DEF Queue!Serve
    <3>4. QED
      BY <3>3 DEF Queue!Next
  <2>6. QED
    BY <2>2, <2>3, <2>4, <2>5 DEF Next
<1>3. QED
  BY <1>1, <1>2, QueueInvariant, PTL DEF Spec, ServesQueue, Queue!Spec

-----------------------------------------------------------------------------
(* One idle per message.                                                   *)

\* The first message of a handed-off assignment arms an idle only after its begin already
\* had one armed.
Spare == IF job = 1 THEN 0 ELSE 1
IdleInv == QueueInv /\ (idleSeen \/ idles < sent + Spare) /\ idles <= sent + Spare

LEMMA NextIdle == IdleInv /\ [Next]_vars => IdleInv'
<1> SUFFICES ASSUME IdleInv, [Next]_vars PROVE IdleInv'
  OBVIOUS
<1>1. QueueInv'
  BY NextQueue DEF IdleInv
<1>2. idles \in Nat /\ sent \in Nat /\ job \in Nat /\ job >= 1
  BY DEF IdleInv, QueueInv, TypeOK
<1>3. CASE UNCHANGED <<idles, sent, idleSeen, job>>
  BY <1>1, <1>3 DEF IdleInv, Spare
<1>4. CASE UNCHANGED vars
  BY <1>3, <1>4 DEF vars, jobVars, workVars, nativeVars, historyVars
<1>5. CASE Deliver
  BY <1>1, <1>2, <1>5 DEF Deliver, IdleInv, Spare, jobVars, historyVars
<1>6. CASE Receipt \/ Ask \/ Done \/ Report \/ CrewStep
  BY <1>3, <1>6 DEF Receipt, Ask, Done, Report, CrewStep, Plain, Tool, Prompt, Remind, Answered, TurnEnds,
                    CrewUnchanged, jobVars, workVars, nativeVars, historyVars
<1>7. CASE Handoff
  BY <1>1, <1>2, <1>7 DEF Handoff, IdleInv, Spare
<1>8. ASSUME NEW ack \in known \cup {NoId}, NEW due \in BOOLEAN, NEW look \in BOOLEAN,
             NEW printed \in BOOLEAN, Poll(ack, due, look, printed)
      PROVE  IdleInv'
  <2>1. CASE PollPending(ack, due, printed)
    BY <1>3, <2>1 DEF PollPending, jobVars, nativeVars
  <2>2. CASE PollNotice(ack, due, printed)
    BY <1>3, <2>2 DEF PollNotice, jobVars
  <2>3. CASE PollDone(ack)
    BY <1>3, <2>3 DEF PollDone, jobVars, workVars, historyVars
  <2>4. CASE PollQuiet(ack, due, look)
    BY <1>3, <2>4 DEF PollQuiet, jobVars, historyVars
  <2>5. CASE PollNative(ack, due, look, printed)
    <3> DEFINE c == Cursors(ack)
               new == News(c)
               status == StatusOf(new, c, look)
    <3>1. Free(ack) /\ ~Quiet(new, c, look)
      BY <2>5 DEF PollNative
    <3>2. c.native \in Status /\ new \in Seq(Event)
      BY <3>1, CursorsFit, TurnedFit DEF IdleInv
    <3>3. LastKind(new) \in {"live", "idle", "awaiting"} /\ Live(c, new, look) # "idle"
      BY <3>2, KindsFit
    <3>4. status = "idle" => ~idleSeen
      BY <3>1, <3>2, <3>3, NotQuiet DEF StatusOf
    <3>5. /\ idleSeen' = (idleSeen \/ status = "idle") /\ UNCHANGED <<job, sent>>
          /\ idles' = IF status = "idle" THEN idles + 1 ELSE idles
      BY <2>5 DEF PollNative, StatusOf, jobVars
    <3> HIDE DEF c, new, status
    <3>6. CASE status = "idle"
      <4>1. ~idleSeen /\ idleSeen' /\ job' = job /\ sent' = sent /\ idles' = idles + 1
        BY <3>4, <3>5, <3>6
      <4>2. idles < sent + Spare /\ Spare \in Nat
        BY <4>1 DEF IdleInv, Spare
      <4>3. idles' <= sent' + Spare /\ Spare' = Spare
        BY <1>2, <4>1, <4>2 DEF Spare
      <4>4. QED
        BY <1>1, <4>1, <4>3 DEF IdleInv
    <3>7. CASE status # "idle"
      <4>1. (idleSeen' \equiv idleSeen) /\ UNCHANGED <<idles, sent, job>>
        BY <3>5, <3>7
      <4>2. QED
        BY <1>1, <4>1 DEF IdleInv, Spare
    <3>8. QED
      BY <3>6, <3>7
  <2>6. QED
    BY <1>8, <2>1, <2>2, <2>3, <2>4, <2>5 DEF Poll
<1>9. QED
  BY <1>4, <1>5, <1>6, <1>7, <1>8 DEF Next

\* Whatever the handoffs, an assignment has at most one idle more than it has messages.
THEOREM IdlesAreBounded == Spec => []IdleInv
<1>1. Init => IdleInv
  BY InitQueue DEF Init, IdleInv, Spare
<1>2. QED
  BY <1>1, NextIdle, PTL DEF Spec

\* IdlePerMessage (mark_sent re-arms idle_seen): without a handoff, no more idles are
\* delivered than messages.
THEOREM OneIdlePerMessage == ASSUME MaxJobs = 1 PROVE Spec => []IdlePerMessage
<1>1. IdleInv => IdlePerMessage
  BY DEF IdleInv, QueueInv, TypeOK, Spare, IdlePerMessage
<1>2. QED
  BY <1>1, IdlesAreBounded, PTL

-----------------------------------------------------------------------------
(* Approval prompts: the steps that leave the cursor and the events alone.  *)

LEMMA InitApproval == Init => ApprovalInv
<1> SUFFICES ASSUME Init PROVE ApprovalInv
  OBVIOUS
<1>1. QueueInv
  BY InitQueue
<1>2. EventsFit /\ Newest /\ Block /\ Switch /\ DedupeBacked
  BY DEF Init, EventsFit, Newest, Block, Switch, DedupeBacked, Now
<1>3. SeenIsTold /\ ToldIsDeduped /\ DoneUnseen /\ ApprovalOnce
  BY DEF Init, SeenIsTold, ToldIsDeduped, DoneUnseen, ApprovalOnce
<1>4. QED
  BY <1>1, <1>2, <1>3 DEF ApprovalInv

\* Whatever goes on from the same place with the same dedupe keeps all of it.
LEMMA SamePlace ==
  ASSUME ApprovalInv, QueueInv', Here' = Here, Now' = Now,
         UNCHANGED <<base, crewVars, surfaced>>, state' = "done" => state = "done" \/ open = 0
  PROVE  ApprovalInv'
<1>1. EventsFit' /\ Newest' /\ Block' /\ Switch' /\ ApprovalOnce'
  BY DEF ApprovalInv, EventsFit, Newest, Block, Switch, ApprovalOnce, crewVars
<1>2. DedupeBacked' /\ SeenIsTold' /\ DoneUnseen'
  BY DEF ApprovalInv, DedupeBacked, SeenIsTold, DoneUnseen, crewVars
<1>3. ToldIsDeduped'
  BY DEF ApprovalInv, ToldIsDeduped, StillHeard, crewVars
<1>4. QED
  BY <1>1, <1>2, <1>3 DEF ApprovalInv

LEMMA ApprovalWork ==
  ASSUME ApprovalInv, Deliver \/ Receipt \/ Ask \/ Done \/ Report PROVE ApprovalInv'
<1>1. QueueInv'
  BY QueueWork DEF ApprovalInv
<1>2. UNCHANGED <<jobVars, cursorVars, native, offerVars, crewVars, historyVars>>
  BY DEF Deliver, Receipt, Ask, Done, Report, nativeVars
<1>3. Here' = Here /\ Now' = Now /\ UNCHANGED <<base, crewVars, surfaced>>
  BY <1>2 DEF Here, Now, jobVars, cursorVars, offerVars, historyVars
<1>4. state' = "done" => state = "done" \/ open = 0
  BY DEF Deliver, Receipt, Ask, Done, Report, workVars
<1>5. QED
  BY <1>1, <1>3, <1>4, SamePlace

LEMMA ApprovalHandoff == ASSUME ApprovalInv, Handoff PROVE ApprovalInv'
<1>1. QueueInv' /\ TypeOK
  BY QueueHandoff DEF ApprovalInv, QueueInv
<1>2. /\ Here' = Len(events) /\ base' = Len(events) /\ Now' = "none" /\ state = "done"
      /\ state' = "working" /\ UNCHANGED <<crewVars, surfaced>>
  BY DEF Handoff, MayHandOff, Here, Now
<1>3. EventsFit' /\ Newest' /\ Block' /\ Switch' /\ ApprovalOnce' /\ DedupeBacked' /\ DoneUnseen'
  BY <1>2 DEF ApprovalInv, EventsFit, Newest, Block, Switch, ApprovalOnce, DedupeBacked, DoneUnseen,
              crewVars
<1>4. Len(events) \in Nat
  BY <1>1 DEF TypeOK
<1>5. SeenIsTold'
  BY <1>2, <1>4 DEF SeenIsTold, crewVars
<1>6. ToldIsDeduped'
  <2> SUFFICES ASSUME NEW a \in Approval, surfaced'[a] > 0
               PROVE  a <= approvals' /\ ~StillHeard(a)'
    BY DEF ToldIsDeduped
  <2>1. surfaced[a] > 0 /\ a <= approvals /\ approvals' = approvals
    BY <1>2 DEF ApprovalInv, ToldIsDeduped, crewVars
  <2>2. a # 0 /\ surfaced[a] \in Nat
    BY <1>1 DEF Approval, TypeOK
  <2>3. open # a
    BY <1>2, <2>1, <2>2 DEF ApprovalInv, DoneUnseen
  <2>4. QED
    BY <1>2, <1>4, <2>1, <2>3 DEF StillHeard, crewVars
<1>7. QED
  BY <1>1, <1>3, <1>5, <1>6 DEF ApprovalInv

-----------------------------------------------------------------------------
(* Approval prompts: the crew's own steps.                                 *)

\* The events a crew step may log: of the prompt that is open after it, a new prompt's first
\* with its PreToolUse or behind a tool call.
Logs(e) ==
    /\ events' = Append(events, e)
    /\ Claude \/ open = 0
    /\ e.approval = 0 <=> e.kind \in OfNoPrompt
    /\ ~Claude => e.kind \in OfNoPrompt
    /\ e.approval = open'
    /\ open' = open /\ open' # 0 => e.kind = "prompt"
    /\ open' # open /\ open' # 0 =>
          e.kind = "ask" \/ (events # <<>> /\ events[Len(events)].kind = "tool")

Opens == open = 0 /\ open' = approvals + 1 /\ approvals' = approvals + 1
Closes == open' = 0 /\ approvals' = approvals
Stays == open' = open /\ approvals' = approvals

\* A crew step as the event log and the screen see it.
LEMMA CrewEvents ==
  ASSUME ApprovalInv, CrewStep
  PROVE  /\ Opens \/ Closes \/ Stays
         /\ \/ events' = events /\ (~Claude \/ open' = 0)
            \/ \E e \in Event : Logs(e)
<1>1. open \in Approval \cup {0} /\ approvals \in Nat /\ open' \in Approval \cup {0}
  BY CrewAppends DEF ApprovalInv, QueueInv, TypeOK
<1>2. ASSUME NEW k \in OfNoPrompt \cup {"ask", "prompt"}, Emit(k, open'),
             Claude \/ open = 0,
             open' = 0 <=> k \in OfNoPrompt,
             ~Claude => k \in OfNoPrompt,
             open' = open /\ open' # 0 => k = "prompt",
             open' # open /\ open' # 0 =>
               k = "ask" \/ (events # <<>> /\ events[Len(events)].kind = "tool")
      PROVE  \E e \in Event : Logs(e)
  <2> DEFINE e == [kind |-> k, approval |-> open']
  <2>1. e \in Event /\ e.kind = k /\ e.approval = open'
    BY <1>1 DEF Event, OfNoPrompt
  <2>2. events' = Append(events, e)
    BY <1>2 DEF Emit
  <2> HIDE DEF e
  <2>3. Logs(e)
    BY <1>2, <2>1, <2>2 DEF Logs
  <2>4. QED
    BY <2>1, <2>3
<1>3. 0 \notin Approval
  BY DEF Approval
<1>4. CASE Tool
  <2>1. Claude /\ open = 0 /\ open' = 0 /\ approvals' = approvals /\ Emit("tool", open')
    BY <1>4 DEF Tool
  <2>2. QED
    BY <1>2, <2>1 DEF Closes, OfNoPrompt
<1>5. CASE Prompt
  <2>1. open = 0 /\ approvals' = approvals + 1 /\ open' = approvals + 1 /\ open' # 0
    BY <1>1, <1>5 DEF Prompt
  <2>2. CASE Claude /\ Emit("ask", open')
    <3>1. open' # open /\ ~(open' = 0) /\ ~("ask" \in OfNoPrompt)
      BY <2>1 DEF OfNoPrompt
    <3>2. \E e \in Event : Logs(e)
      BY <1>2, <2>1, <2>2, <3>1
    <3>3. QED
      BY <2>1, <3>2 DEF Opens
  <2>3. CASE Claude /\ events # <<>> /\ events[Len(events)].kind = "tool" /\ Emit("prompt", open')
    BY <1>2, <2>1, <2>3 DEF Opens, OfNoPrompt
  <2>4. CASE ~Claude /\ UNCHANGED events
    BY <2>1, <2>4 DEF Opens
  <2>5. QED
    BY <1>5, <2>2, <2>3, <2>4 DEF Prompt
<1>6. CASE Remind
  <2>1. Claude /\ open # 0 /\ open' = open /\ approvals' = approvals /\ Emit("prompt", open')
    BY <1>6 DEF Remind
  <2>2. QED
    BY <1>2, <2>1 DEF Stays, OfNoPrompt
<1>7. CASE Answered
  <2>1. open' = 0 /\ approvals' = approvals
    BY <1>7 DEF Answered
  <2>2. (Claude /\ \E k \in {"tool", "turn"} : Emit(k, open')) \/ UNCHANGED events
    BY <1>7, <2>1 DEF Answered
  <2>3. QED
    BY <1>2, <2>1, <2>2 DEF Closes, OfNoPrompt
<1>8. CASE TurnEnds
  <2>1. open = 0 /\ open' = 0 /\ approvals' = approvals /\ Emit("idle", open')
    BY <1>8 DEF TurnEnds
  <2>2. QED
    BY <1>2, <2>1 DEF Closes, OfNoPrompt
<1>9. CASE Plain
  <2>1. /\ open = 0 /\ open' = 0 /\ approvals' = approvals
        /\ \E k \in {"start", "turn"} : Emit(k, open')
    BY <1>9 DEF Plain
  <2>2. QED
    BY <1>2, <2>1 DEF Closes, OfNoPrompt
<1>10. QED
  BY <1>4, <1>5, <1>6, <1>7, <1>8, <1>9 DEF CrewStep

\* The place to go on from lies among the events of the assignment.
LEMMA HereFits ==
  ASSUME QueueInv
  PROVE  /\ base \in Nat /\ Here \in Nat /\ Len(events) \in Nat
         /\ base <= Here /\ scan <= Here /\ Here <= Len(events)
         /\ Now \in Status
<1>1. /\ base \in Nat /\ Len(events) \in Nat /\ scan \in Nat /\ base <= scan /\ scan <= Len(events)
      /\ native \in Status
  BY DEF QueueInv, TypeOK
<1>2. CASE pending = NoOffer
  BY <1>1, <1>2 DEF Here, Now
<1>3. CASE pending # NoOffer
  <2>1. pending \in Offer /\ pending.offset \in scan .. Len(events)
    BY <1>3 DEF QueueInv, TypeOK, PendingInOrder
  <2>2. pending.native \in Status
    BY <2>1 DEF Offer
  <2>3. QED
    BY <1>1, <1>3, <2>1, <2>2 DEF Here, Now
<1>4. QED
  BY <1>2, <1>3

LEMMA PromptsTyped ==
  ASSUME ApprovalInv
  PROVE  /\ open \in Nat /\ approvals \in Nat /\ events \in Seq(Event) /\ open \in {0, approvals}
         /\ \A a \in Approval : surfaced[a] \in Nat /\ a \in Nat /\ a # 0
         /\ Len(events) \in Nat
<1>1. /\ approvals \in Nat /\ events \in Seq(Event) /\ surfaced \in [Approval -> Nat]
      /\ open \in {0, approvals}
  BY DEF ApprovalInv, QueueInv, TypeOK, Newest
<1>2. \A a \in Approval : a \in Nat /\ a # 0
  BY DEF Approval
<1>3. QED
  BY <1>1, <1>2

\* A step that logs nothing.
LEMMA SilentKeeps ==
  ASSUME ApprovalInv, CrewStep, QueueInv', Opens \/ Closes \/ Stays,
         events' = events, ~Claude \/ open' = 0
  PROVE  ApprovalInv'
<1>1. /\ open \in Nat /\ approvals \in Nat /\ events \in Seq(Event) /\ open \in {0, approvals}
      /\ \A a \in Approval : surfaced[a] \in Nat /\ a \in Nat /\ a # 0
  BY PromptsTyped
<1>2. /\ Here' = Here /\ Now' = Now /\ base' = base /\ surfaced' = surfaced /\ state' = state
  BY CrewAppends
  DEF ApprovalInv, QueueInv, CrewUnchanged, Here, Now, jobVars, workVars, cursorVars, nativeVars,
      offerVars, historyVars
<1>3. approvals <= approvals' /\ approvals' \in Nat /\ open' \in {0, open, approvals + 1}
      /\ open' \in {0, approvals'}
      /\ (open' # open => open' = 0 \/ (open' = approvals + 1 /\ approvals' = approvals + 1))
  <2>1. CASE Opens
    BY <1>1, <2>1 DEF Opens
  <2>2. CASE Closes
    BY <1>1, <2>2 DEF Closes
  <2>3. CASE Stays
    BY <1>1, <2>3 DEF Stays
  <2>4. QED
    BY <2>1, <2>2, <2>3
<1>4. \A i \in DOMAIN events : events[i].approval \in Nat /\ events[i].approval <= approvals
  <2>1. \A i \in DOMAIN events : events[i] \in Event
    BY <1>1
  <2>2. QED
    BY <2>1 DEF ApprovalInv, EventsFit, Event, Approval
<1>5. EventsFit'
  BY <1>1, <1>3, <1>4 DEF ApprovalInv, EventsFit
<1>6. Newest' /\ Block' /\ Switch' /\ DedupeBacked' /\ ApprovalOnce'
  BY <1>2, <1>3 DEF ApprovalInv, Newest, Block, Switch, DedupeBacked, ApprovalOnce
<1>7. SeenIsTold'
  <2> SUFFICES ASSUME NEW i \in base + 1 .. Here, open' # 0, events[i].approval = open'
               PROVE  surfaced[open'] > 0
    BY <1>2 DEF SeenIsTold
  <2>1. i \in DOMAIN events
    BY <1>1, HereFits DEF ApprovalInv
  <2>2. open' = open
    BY <1>1, <1>3, <1>4, <2>1
  <2>3. QED
    BY <2>2 DEF ApprovalInv, SeenIsTold
<1>8. ToldIsDeduped'
  <2> SUFFICES ASSUME NEW a \in Approval, surfaced[a] > 0
               PROVE  /\ a <= approvals'
                      /\ StillHeard(a)' =>
                            /\ Now = "awaiting"
                            /\ Claude => \E i \in base + 1 .. Here : events[i].approval = a
                            /\ ~Claude => Here = Len(events)
    BY <1>2 DEF ToldIsDeduped
  <2>1. a <= approvals /\ a # 0 /\ a \in Nat
    BY <1>1 DEF ApprovalInv, ToldIsDeduped
  <2>2. StillHeard(a)' => StillHeard(a)
    BY <1>1, <1>2, <1>3, <2>1 DEF StillHeard
  <2>3. QED
    BY <1>1, <1>3, <2>1, <2>2 DEF ApprovalInv, ToldIsDeduped
<1>9. DoneUnseen'
  <2> SUFFICES ASSUME state = "done", open' # 0 PROVE surfaced[open'] = 0
    BY <1>2 DEF DoneUnseen
  <2>1. open' \in Approval
    BY DEF QueueInv, TypeOK
  <2>2. CASE open' = open
    BY <2>2 DEF ApprovalInv, DoneUnseen
  <2>3. CASE open' = approvals + 1
    BY <1>1, <2>1, <2>3 DEF ApprovalInv, ToldIsDeduped
  <2>4. QED
    BY <1>3, <2>2, <2>3
<1>10. QED
  BY <1>5, <1>6, <1>7, <1>8, <1>9 DEF ApprovalInv

\* A step that logs an event: it is of the open prompt or of none, and new to every cursor.
LEMMA LogKeeps ==
  ASSUME ApprovalInv, CrewStep, QueueInv', Opens \/ Closes \/ Stays, NEW e \in Event, Logs(e)
  PROVE  ApprovalInv'
<1> DEFINE n == Len(events)
<1>1. /\ open \in Nat /\ approvals \in Nat /\ events \in Seq(Event) /\ open \in {0, approvals}
      /\ \A a \in Approval : surfaced[a] \in Nat /\ a \in Nat /\ a # 0
      /\ n \in Nat
  BY PromptsTyped
<1>2. /\ Here' = Here /\ Now' = Now /\ base' = base /\ surfaced' = surfaced /\ state' = state
  BY CrewAppends
  DEF ApprovalInv, QueueInv, CrewUnchanged, Here, Now, jobVars, workVars, cursorVars, nativeVars,
      offerVars, historyVars
<1>3. approvals <= approvals' /\ approvals' \in Nat /\ open' \in {0, open, approvals + 1}
      /\ open' \in {0, approvals'}
      /\ (open' # open => open' = 0 \/ (open' = approvals + 1 /\ approvals' = approvals + 1))
  <2>1. CASE Opens
    BY <1>1, <2>1 DEF Opens
  <2>2. CASE Closes
    BY <1>1, <2>2 DEF Closes
  <2>3. CASE Stays
    BY <1>1, <2>3 DEF Stays
  <2>4. QED
    BY <2>1, <2>2, <2>3
<1>4. /\ Len(events') = n + 1 /\ events'[n + 1] = e /\ DOMAIN events' = 1 .. n + 1
      /\ \A i \in 1 .. n : events'[i] = events[i]
      /\ DOMAIN events = 1 .. n
  BY <1>1 DEF Logs
<1> HIDE DEF n
<1>5. \A i \in 1 .. n : /\ events[i].approval \in Nat /\ events[i].approval <= approvals
                        /\ events[i].approval = 0 <=> events[i].kind \in OfNoPrompt
                        /\ ~Claude => events[i].kind \in OfNoPrompt
  <2>1. \A i \in 1 .. n : events[i] \in Event
    BY <1>1, <1>4
  <2>2. QED
    BY <1>4, <2>1 DEF ApprovalInv, EventsFit, Event, Approval
<1>6. Here \in Nat /\ Here <= n /\ base \in Nat
  BY HereFits DEF ApprovalInv, n
<1>7. \A i \in base + 1 .. Here : i \in 1 .. n /\ events'[i] = events[i]
  BY <1>1, <1>4, <1>6
<1>8. EventsFit'
  <2> SUFFICES ASSUME NEW i \in 1 .. n + 1
               PROVE  /\ events'[i].approval <= approvals'
                      /\ events'[i].approval = 0 <=> events'[i].kind \in OfNoPrompt
                      /\ ~Claude => events'[i].kind \in OfNoPrompt
    BY <1>4 DEF EventsFit
  <2>1. CASE i \in 1 .. n
    BY <1>1, <1>3, <1>4, <1>5, <2>1
  <2>2. CASE i = n + 1
    <3>1. e.approval <= approvals'
      BY <1>1, <1>3 DEF Logs
    <3>2. QED
      BY <1>4, <2>2, <3>1 DEF Logs
  <2>3. QED
    BY <1>1, <2>1, <2>2
<1>9. Newest'
  <2>1. events' # <<>> /\ events'[Len(events')].approval = open'
    BY <1>1, <1>4 DEF Logs
  <2>2. QED
    BY <1>3, <2>1 DEF Newest
\* A prompt's event goes right behind the last one of it.
<1>10. ASSUME e.approval # 0, NEW i \in 1 .. n, events[i].approval = e.approval
       PROVE  n # 0 /\ events[n].approval = e.approval /\ e.kind = "prompt"
  <2>1. open' # 0 /\ open' = e.approval
    BY <1>10 DEF Logs
  <2>2. open' = open
    BY <1>1, <1>3, <1>5, <1>10, <2>1
  <2>3. Claude
    BY <1>5, <1>10
  <2>4. QED
    BY <1>1, <2>1, <2>2, <2>3 DEF ApprovalInv, Newest, Logs, n
<1>11. Block'
  <2> SUFFICES ASSUME NEW i \in 1 .. n + 1, NEW k \in 1 .. n + 1, NEW j \in 1 .. n + 1,
                      i < k, k <= j, events'[i].approval # 0,
                      events'[i].approval = events'[j].approval
               PROVE  events'[k].approval = events'[i].approval /\ events'[k].kind = "prompt"
    BY <1>4 DEF Block
  <2>1. i \in 1 .. n /\ events'[i] = events[i]
    BY <1>1, <1>4
  <2>2. CASE j \in 1 .. n
    <3>1. k \in 1 .. n
      BY <1>1, <2>2
    <3>2. QED
      BY <1>4, <2>1, <2>2, <3>1 DEF ApprovalInv, Block
  <2>3. CASE j = n + 1
    <3>1. e.approval # 0 /\ events[i].approval = e.approval
      BY <1>4, <2>1, <2>3
    <3>2. n # 0 /\ events[n].approval = e.approval /\ e.kind = "prompt"
      BY <1>10, <2>1, <3>1
    <3>3. CASE k = n + 1
      BY <1>4, <2>1, <3>1, <3>2, <3>3
    <3>4. CASE k \in 1 .. n
      <4>1. n \in 1 .. n /\ k <= n
        BY <1>1, <3>2, <3>4
      <4>2. QED
        BY <1>4, <2>1, <3>1, <3>2, <3>4, <4>1 DEF ApprovalInv, Block
    <3>5. QED
      BY <1>1, <3>3, <3>4
  <2>4. QED
    BY <1>1, <2>2, <2>3
<1>12. Switch'
  <2> SUFFICES ASSUME NEW k \in 1 .. n + 1, NEW j \in 1 .. n + 1, k < j,
                      events'[k].approval # 0,
                      events'[j].approval \notin {0, events'[k].approval}
               PROVE  \E f \in k + 1 .. j :
                         \/ events'[f].kind = "tool"
                         \/ events'[f].kind = "ask" /\ events'[f].approval = events'[j].approval
    BY <1>4 DEF Switch
  <2>1. k \in 1 .. n /\ events'[k] = events[k]
    BY <1>1, <1>4
  <2>2. ASSUME NEW m \in 1 .. n, k < m, m <= j, events[m].approval = events'[j].approval
        PROVE  \E f \in k + 1 .. j :
                  \/ events'[f].kind = "tool"
                  \/ events'[f].kind = "ask" /\ events'[f].approval = events'[j].approval
    <3>1. PICK f \in k + 1 .. m :
                  \/ events[f].kind = "tool"
                  \/ events[f].kind = "ask" /\ events[f].approval = events[m].approval
      BY <1>4, <2>1, <2>2 DEF ApprovalInv, Switch
    <3>2. f \in 1 .. n /\ f \in k + 1 .. j
      BY <1>1, <2>1, <2>2
    <3>3. QED
      BY <1>4, <2>2, <3>1, <3>2
  <2>3. CASE j \in 1 .. n
    <3>1. events[j].approval = events'[j].approval /\ j <= j
      BY <1>4, <2>3
    <3>2. QED
      BY <2>2, <2>3, <3>1
  <2>4. CASE j = n + 1
    <3>1. e.approval # 0 /\ e.approval = open' /\ events'[j] = e
      BY <1>4, <2>4 DEF Logs
    <3>2. CASE open' = open
      <4>1. Claude
        BY <3>1, <3>2 DEF Logs
      <4>2. n # 0 /\ events[n].approval = e.approval
        BY <1>1, <3>1, <3>2, <4>1 DEF ApprovalInv, Newest, n
      <4>3. n \in 1 .. n /\ k # n
        BY <1>1, <2>1, <3>1, <4>2
      <4>4. k < n /\ n <= j
        BY <1>1, <2>4, <4>3
      <4>5. QED
        BY <2>2, <3>1, <4>2, <4>3, <4>4
    <3>3. CASE e.kind = "ask"
      <4>1. j \in k + 1 .. j
        BY <1>1
      <4>2. QED
        BY <3>1, <3>3, <4>1
    <3>4. CASE events # <<>> /\ events[n].kind = "tool"
      <4>1. n \in 1 .. n
        BY <1>1, <3>4 DEF n
      <4>2. k # n
        BY <1>5, <2>1, <3>4, <4>1 DEF OfNoPrompt
      <4>3. n \in k + 1 .. j /\ events'[n] = events[n]
        BY <1>1, <1>4, <2>4, <4>1, <4>2
      <4>4. QED
        BY <3>4, <4>3
    <3>5. QED
      BY <3>1, <3>2, <3>3, <3>4 DEF Logs, n
  <2>5. QED
    BY <1>1, <2>3, <2>4
<1>13. DedupeBacked'
  <2> SUFFICES ASSUME Claude, Now = "awaiting"
               PROVE  \E k \in base + 1 .. Here :
                         events'[k].approval # 0 /\ \A j \in k + 1 .. Here : events'[j].kind # "tool"
    BY <1>2 DEF DedupeBacked
  <2>1. PICK k \in base + 1 .. Here :
               events[k].approval # 0 /\ \A j \in k + 1 .. Here : events[j].kind # "tool"
    BY DEF ApprovalInv, DedupeBacked
  <2>2. \A j \in k + 1 .. Here : j \in base + 1 .. Here
    BY <1>6
  <2>3. QED
    BY <1>7, <2>1, <2>2
<1>14. SeenIsTold'
  <2> SUFFICES ASSUME NEW i \in base + 1 .. Here, open' # 0, events'[i].approval = open'
               PROVE  surfaced[open'] > 0
    BY <1>2 DEF SeenIsTold
  <2>1. i \in 1 .. n /\ events[i].approval = open'
    BY <1>7
  <2>2. open' = open
    BY <1>1, <1>3, <1>5, <2>1
  <2>3. QED
    BY <2>1, <2>2 DEF ApprovalInv, SeenIsTold
<1>15. ToldIsDeduped'
  <2> SUFFICES ASSUME NEW a \in Approval, surfaced[a] > 0
               PROVE  /\ a <= approvals'
                      /\ StillHeard(a)' =>
                            /\ Now = "awaiting"
                            /\ Claude => \E i \in base + 1 .. Here : events'[i].approval = a
                            /\ ~Claude => Here = Len(events')
    BY <1>2 DEF ToldIsDeduped
  <2>1. a <= approvals /\ a # 0 /\ a \in Nat
    BY <1>1 DEF ApprovalInv, ToldIsDeduped
  <2>2. open' = a => open = a
    BY <1>1, <1>3, <2>1
  <2>3. ASSUME NEW j \in Here + 1 .. n + 1, events'[j].approval = a PROVE StillHeard(a)
    <3>1. CASE j = n + 1
      BY <1>4, <2>1, <2>2, <2>3, <3>1 DEF Logs, StillHeard
    <3>2. CASE j # n + 1
      <4>1. j \in Here + 1 .. n /\ j \in 1 .. n
        BY <1>1, <1>6, <3>2
      <4>2. QED
        BY <1>4, <2>3, <4>1 DEF StillHeard, n
    <3>3. QED
      BY <3>1, <3>2
  <2>4. StillHeard(a)' => StillHeard(a)
    BY <1>2, <1>4, <2>2, <2>3 DEF StillHeard
  <2>5. ~Claude => ~StillHeard(a)'
    <3>1. ~Claude => open' = 0
      <4>1. ~Claude => e.kind \in OfNoPrompt
        BY DEF Logs
      <4>2. QED
        BY <4>1 DEF Logs
    <3>2. ~Claude => \A j \in 1 .. n + 1 : events'[j].approval = 0
      BY <1>4, <1>8 DEF EventsFit
    <3>3. QED
      BY <1>1, <1>2, <1>4, <1>6, <2>1, <3>1, <3>2 DEF StillHeard
  <2>6. Claude /\ StillHeard(a) => \E i \in base + 1 .. Here : events'[i].approval = a
    BY <1>7 DEF ApprovalInv, ToldIsDeduped
  <2>7. QED
    BY <1>1, <1>3, <2>1, <2>4, <2>5, <2>6 DEF ApprovalInv, ToldIsDeduped
<1>16. DoneUnseen'
  <2> SUFFICES ASSUME state = "done", open' # 0 PROVE surfaced[open'] = 0
    BY <1>2 DEF DoneUnseen
  <2>1. open' \in Approval
    BY DEF QueueInv, TypeOK
  <2>2. CASE open' = open
    BY <2>2 DEF ApprovalInv, DoneUnseen
  <2>3. CASE open' = approvals + 1
    BY <1>1, <2>1, <2>3 DEF ApprovalInv, ToldIsDeduped
  <2>4. QED
    BY <1>3, <2>2, <2>3
<1>17. ApprovalOnce'
  BY <1>2 DEF ApprovalInv, ApprovalOnce
<1>18. QED
  BY <1>8, <1>9, <1>11, <1>12, <1>13, <1>14, <1>15, <1>16, <1>17 DEF ApprovalInv

LEMMA ApprovalCrew == ASSUME ApprovalInv, CrewStep PROVE ApprovalInv'
<1>1. QueueInv'
  BY QueueCrew DEF ApprovalInv
<1>2. /\ Opens \/ Closes \/ Stays
      /\ (events' = events /\ (~Claude \/ open' = 0)) \/ \E e \in Event : Logs(e)
  BY CrewEvents
<1>3. QED
  BY <1>1, <1>2, SilentKeeps, LogKeeps

-----------------------------------------------------------------------------
(* Approval prompts: what a poll that says nothing, or something of the     *)
(* crew, reads behind its cursor.                                          *)

\* The events behind the cursor of a poll that is free to offer something.
New == SubSeq(events, Here + 1, Len(events))

LEMMA NewFits ==
  ASSUME QueueInv
  PROVE  /\ New \in Seq(Event) /\ Len(New) = Len(events) - Here /\ Len(New) \in Nat
         /\ DOMAIN New = 1 .. Len(New)
         /\ \A i \in 1 .. Len(New) : New[i] = events[Here + i] /\ Here + i \in DOMAIN events
         /\ \A k \in Here + 1 .. Len(events) :
               k - Here \in 1 .. Len(New) /\ events[k] = New[k - Here] /\ k \in DOMAIN events
<1>1. events \in Seq(Event) /\ Here \in Nat /\ Len(events) \in Nat /\ Here <= Len(events)
  BY HereFits DEF QueueInv, TypeOK
<1>2. New \in Seq(Event) /\ Len(New) = Len(events) - Here /\ \A i \in 1 .. Len(New) : New[i] = events[Here + i]
  BY <1>1 DEF New
<1>3. Len(New) \in Nat /\ DOMAIN New = 1 .. Len(New) /\ DOMAIN events = 1 .. Len(events)
  BY <1>1, <1>2
<1>4. \A i \in 1 .. Len(New) : Here + i \in 1 .. Len(events)
  BY <1>1, <1>2
<1>5. \A k \in Here + 1 .. Len(events) : k - Here \in 1 .. Len(New) /\ k \in 1 .. Len(events)
  BY <1>1, <1>2
<1>6. \A k \in Here + 1 .. Len(events) : events[k] = New[k - Here]
  BY <1>1, <1>2, <1>5
<1>7. QED
  BY <1>2, <1>3, <1>4, <1>5, <1>6

LEMMA NewRead ==
  ASSUME QueueInv, NEW ack \in known \cup {NoId}, Free(ack)
  PROVE  News(Cursors(ack)) = New /\ Cursors(ack).native = Now /\ Cursors(ack).scan = Here
<1>1. Cursors(ack).native = Now /\ Cursors(ack).scan = Here
  BY CursorsFit
<1>2. QED
  BY <1>1 DEF News, New

\* What poll makes of those events.
LEMMA NewTells ==
  ASSUME QueueInv, NEW c, c.native = Now
  PROVE  /\ Last(New) \in Nat /\ 1 <= Last(New) /\ Last(New) <= Len(New) + 1
         /\ Last(New) <= Len(New) => New[Last(New)].kind \notin Unnotified
         /\ \A i \in 1 .. Len(New) : i > Last(New) => New[i].kind \in Unnotified
         /\ LastKind(New) = "live" <=> Last(New) = Len(New) + 1
         /\ LastKind(New) = "idle" <=> Last(New) <= Len(New) /\ New[Last(New)].kind = "idle"
         /\ LastKind(New) \in {"live", "idle", "awaiting"}
         /\ Cleared(New) <=> \E i \in 1 .. Len(New) : i > Last(New) /\ New[i].kind = "tool"
         /\ Before(New, c) = "awaiting" <=>
               Now = "awaiting" /\ \A i \in 1 .. Len(New) : i < Last(New) => New[i].kind # "tool"
         /\ Before(New, c) \in {"none", Now}
         /\ RepeatedPrompt(New, c) <=>
               Before(New, c) = "awaiting" /\ \A i \in 1 .. Len(New) : New[i].kind # "ask"
<1>1. New \in Seq(Event) /\ Len(New) \in Nat /\ DOMAIN New = 1 .. Len(New)
  BY NewFits
<1>2. /\ Last(New) \in 1 .. Len(New) + 1
      /\ Notified(New) = {} <=> Last(New) = Len(New) + 1
      /\ Notified(New) # {} => Last(New) \in Notified(New)
      /\ \A i \in Notified(New) : i <= Last(New)
  BY <1>1, LastFit
<1>3. Last(New) \in Nat /\ 1 <= Last(New) /\ Last(New) <= Len(New) + 1
  BY <1>1, <1>2
<1>4. \A i \in 1 .. Len(New) : i \in Notified(New) <=> New[i].kind \notin Unnotified
  <2>1. \A i \in 1 .. Len(New) : New[i] \in Event
    BY <1>1
  <2>2. QED
    BY <1>1, <2>1 DEF Notified, Unnotified, Event
<1>5. \A i \in 1 .. Len(New) : i \in Tools(New) <=> New[i].kind = "tool"
  BY <1>1 DEF Tools
<1>6. Last(New) <= Len(New) <=> Notified(New) # {}
  BY <1>1, <1>2, <1>3
<1>7. Last(New) <= Len(New) => New[Last(New)].kind \notin Unnotified
  BY <1>2, <1>3, <1>4, <1>6
<1>8. \A i \in 1 .. Len(New) : i > Last(New) => New[i].kind \in Unnotified
  BY <1>2, <1>3, <1>4
<1>9. /\ LastKind(New) = "live" <=> Last(New) = Len(New) + 1
      /\ LastKind(New) = "idle" <=> Last(New) <= Len(New) /\ New[Last(New)].kind = "idle"
      /\ LastKind(New) \in {"live", "idle", "awaiting"}
  BY <1>2, <1>6 DEF LastKind
<1>10. Tools(New) \subseteq 1 .. Len(New)
  BY <1>1 DEF Tools
<1>11. Cleared(New) <=> \E i \in 1 .. Len(New) : i > Last(New) /\ New[i].kind = "tool"
  BY <1>5, <1>10 DEF Cleared
<1>12. Before(New, c) = "awaiting" <=>
          Now = "awaiting" /\ \A i \in 1 .. Len(New) : i < Last(New) => New[i].kind # "tool"
  BY <1>5, <1>10 DEF Before
<1>13. Before(New, c) \in {"none", Now}
  BY DEF Before
<1>14. RepeatedPrompt(New, c) <=>
          Before(New, c) = "awaiting" /\ \A i \in 1 .. Len(New) : New[i].kind # "ask"
  <2>1. Notified(New) \subseteq 1 .. Len(New)
    BY <1>1 DEF Notified
  <2>2. \A i \in 1 .. Len(New) : New[i].kind = "ask" => i \in Notified(New)
    BY <1>1 DEF Notified
  <2>3. QED
    BY <2>1, <2>2 DEF RepeatedPrompt
<1>15. QED
  BY <1>3, <1>7, <1>8, <1>9, <1>11, <1>12, <1>13, <1>14

\* Of whom the new events are.
LEMMA NewKinds ==
  ASSUME ApprovalInv, NEW i \in 1 .. Len(New)
  PROVE  /\ New[i].approval \in Nat /\ New[i].approval <= approvals
         /\ New[i].approval = 0 <=> New[i].kind \in OfNoPrompt
         /\ ~Claude => New[i].kind \in OfNoPrompt
         /\ New[i].approval # 0 => New[i].approval \in Approval
<1>1. New[i] = events[Here + i] /\ Here + i \in DOMAIN events /\ events \in Seq(Event)
  BY NewFits DEF ApprovalInv, QueueInv, TypeOK
<1>2. events[Here + i] \in Event
  BY <1>1
<1>3. New[i].approval \in Approval \cup {0}
  BY <1>1, <1>2 DEF Event
<1>4. QED
  BY <1>1, <1>3 DEF ApprovalInv, EventsFit, Approval

\* An event of the open prompt among the new ones: the last of them is of it, and nothing
\* after it proves it answered.
LEMMA OpenIsLast ==
  ASSUME ApprovalInv, open # 0, NEW k \in Here + 1 .. Len(events), events[k].approval = open
  PROVE  /\ Claude /\ Last(New) = Len(New) /\ Len(New) >= 1 /\ ~Cleared(New)
         /\ LastKind(New) = "awaiting" /\ New[Last(New)].approval = open
         /\ events[Len(events)].approval = open
<1>1. QueueInv /\ Here \in Nat /\ Len(events) \in Nat /\ Here <= Len(events)
  BY HereFits DEF ApprovalInv
<1>2. k - Here \in 1 .. Len(New) /\ New[k - Here].approval = open
  BY <1>1, NewFits
<1>3. Claude
  BY <1>2, NewKinds
<1>4. events[Len(events)].approval = open
  BY <1>3 DEF ApprovalInv, Newest
<1>5. Len(New) \in Nat /\ Len(New) >= 1 /\ Len(New) = Len(events) - Here
  BY <1>1, <1>2, NewFits
<1>6. New[Len(New)].approval = open /\ Len(New) \in 1 .. Len(New)
  BY <1>1, <1>4, <1>5, NewFits
<1>7. New[Len(New)].kind \notin OfNoPrompt
  BY <1>6, NewKinds
<1> DEFINE c == [native |-> Now]
<1>8. c.native = Now
  OBVIOUS
<1>9. /\ Last(New) \in Nat /\ Last(New) <= Len(New) + 1
      /\ \A i \in 1 .. Len(New) : i > Last(New) => New[i].kind \in Unnotified
      /\ LastKind(New) = "live" <=> Last(New) = Len(New) + 1
      /\ LastKind(New) = "idle" <=> Last(New) <= Len(New) /\ New[Last(New)].kind = "idle"
      /\ LastKind(New) \in {"live", "idle", "awaiting"}
      /\ Cleared(New) <=> \E i \in 1 .. Len(New) : i > Last(New) /\ New[i].kind = "tool"
  BY <1>1, <1>8, NewTells
<1>10. Len(New) <= Last(New)
  BY <1>5, <1>6, <1>7, <1>9 DEF OfNoPrompt, Unnotified
<1>11. Last(New) # Len(New) + 1
  <2>1. New[Len(New)] \in Event
    BY <1>1, <1>6, NewFits
  <2>2. Len(New) \in Notified(New)
    BY <1>1, <1>6, <1>7, <2>1, NewFits DEF Notified, Event, OfNoPrompt
  <2>3. QED
    BY <1>1, <2>2, NewFits, LastFit
<1>12. Last(New) = Len(New)
  BY <1>5, <1>9, <1>10, <1>11
<1>13. LastKind(New) = "awaiting" /\ ~Cleared(New)
  BY <1>5, <1>7, <1>9, <1>12 DEF OfNoPrompt
<1>14. QED
  BY <1>3, <1>4, <1>5, <1>6, <1>12, <1>13

\* A prompt that was delivered and is heard of again: only its reminders are new, up to
\* any event of it, and the dedupe stands.
LEMMA HeardAgain ==
  ASSUME ApprovalInv, Claude, NEW a \in Approval, surfaced[a] > 0, NEW m \in 1 .. Len(New),
         New[m].approval = a
  PROVE  /\ Now = "awaiting" /\ \E i \in base + 1 .. Here : events[i].approval = a
         /\ \A i \in 1 .. m : New[i].approval = a /\ New[i].kind = "prompt"
<1>1. /\ QueueInv /\ Here \in Nat /\ base \in Nat /\ base <= Here /\ Here <= Len(events)
      /\ Len(events) \in Nat
  BY HereFits DEF ApprovalInv
<1>2. /\ Here + m \in DOMAIN events /\ events[Here + m].approval = a /\ DOMAIN events = 1 .. Len(events)
      /\ Len(New) \in Nat
  BY <1>1, NewFits, SMTT(20) DEF QueueInv, TypeOK
<1>3. StillHeard(a)
  <2>1. Here + m \in Here + 1 .. Len(events)
    BY <1>1, <1>2
  <2>2. QED
    BY <1>2, <2>1 DEF StillHeard
<1>4. Now = "awaiting" /\ \E i \in base + 1 .. Here : events[i].approval = a
  BY <1>3 DEF ApprovalInv, ToldIsDeduped
<1>5. PICK i \in base + 1 .. Here : events[i].approval = a
  BY <1>4
<1>6. i \in DOMAIN events /\ a # 0
  BY <1>1, <1>2 DEF Approval
<1>7. ASSUME NEW k \in 1 .. m PROVE New[k].approval = a /\ New[k].kind = "prompt"
  <2>1. k \in 1 .. Len(New) /\ i < Here + k /\ Here + k <= Here + m
    BY <1>1, <1>2
  <2>2. New[k] = events[Here + k] /\ Here + k \in DOMAIN events
    BY <1>1, <2>1, NewFits
  <2>3. QED
    BY <1>2, <1>5, <1>6, <2>1, <2>2 DEF ApprovalInv, Block
<1>8. QED
  BY <1>4, <1>7

LEMMA QuietApproval ==
  ASSUME ApprovalInv, QueueInv', NEW ack \in known \cup {NoId}, NEW due \in BOOLEAN,
         NEW look \in BOOLEAN, PollQuiet(ack, due, look)
  PROVE  ApprovalInv'
<1> DEFINE c == Cursors(ack)
<1>1. QueueInv
  BY DEF ApprovalInv
<1>2. News(c) = New /\ c.native = Now
  BY <1>1, NewRead DEF PollQuiet
<1>3. /\ state # "done" /\ Quiet(New, c, look) /\ scan' = Len(events)
      /\ native' = QuietNative(New, c, look) /\ pending' = NoOffer
      /\ UNCHANGED <<jobVars, state, crewVars, historyVars>>
  BY <1>2 DEF PollQuiet, Exhausted
<1>4. /\ Here' = Len(events) /\ Now' = QuietNative(New, c, look) /\ base' = base
      /\ UNCHANGED <<crewVars, surfaced>>
  BY <1>3 DEF Here, Now, jobVars, historyVars
<1>5. /\ base \in Nat /\ Here \in Nat /\ Len(events) \in Nat /\ base <= Here /\ Here <= Len(events)
  BY <1>1, HereFits
<1>6. /\ LastKind(New) \in {"live", "idle", "awaiting"}
      /\ LastKind(New) = "awaiting" => Cleared(New) \/ RepeatedPrompt(New, c)
      /\ LastKind(New) = "awaiting" =>
            Now' = IF Cleared(New) THEN "none" ELSE Before(New, c)
      /\ LastKind(New) = "idle" => Now' = "none"
      /\ LastKind(New) = "live" =>
            Now' = IF Live(c, New, look) = "none" /\ look /\ ~Claude THEN "none" ELSE Before(New, c)
  <2>1. LastKind(New) \in {"live", "idle", "awaiting"}
    BY DEF LastKind
  <2>2. CASE LastKind(New) = "awaiting"
    BY <1>3, <1>4, <2>2 DEF Quiet, QuietNative
  <2>3. CASE LastKind(New) = "idle"
    BY <1>4, <2>3 DEF QuietNative
  <2>4. CASE LastKind(New) = "live"
    BY <1>4, <2>4 DEF QuietNative
  <2>5. QED
    BY <2>1, <2>2, <2>3, <2>4
<1>7. /\ Last(New) \in Nat /\ 1 <= Last(New) /\ Last(New) <= Len(New) + 1
      /\ Last(New) <= Len(New) => New[Last(New)].kind \notin Unnotified
      /\ LastKind(New) = "live" <=> Last(New) = Len(New) + 1
      /\ LastKind(New) = "idle" <=> Last(New) <= Len(New) /\ New[Last(New)].kind = "idle"
      /\ Cleared(New) <=> \E i \in 1 .. Len(New) : i > Last(New) /\ New[i].kind = "tool"
      /\ Before(New, c) = "awaiting" <=>
            Now = "awaiting" /\ \A i \in 1 .. Len(New) : i < Last(New) => New[i].kind # "tool"
      /\ RepeatedPrompt(New, c) <=>
            Before(New, c) = "awaiting" /\ \A i \in 1 .. Len(New) : New[i].kind # "ask"
  BY <1>1, <1>2, NewTells
<1>8. Len(New) \in Nat /\ Len(New) = Len(events) - Here
  BY <1>1, NewFits
<1>9. \A i \in 1 .. Len(New) : New[i] = events[Here + i]
  BY <1>1, NewFits
<1>10. \A k \in Here + 1 .. Len(events) : k - Here \in 1 .. Len(New) /\ events[k] = New[k - Here]
  BY <1>1, NewFits
<1> HIDE DEF c
<1>11. DedupeBacked'
  <2> SUFFICES ASSUME Claude, Now' = "awaiting"
               PROVE  \E k \in base + 1 .. Len(events) :
                         events[k].approval # 0 /\ \A j \in k + 1 .. Len(events) : events[j].kind # "tool"
    BY <1>4 DEF DedupeBacked, crewVars
  <2>1. CASE LastKind(New) = "awaiting"
    <3>1. ~Cleared(New) /\ Last(New) \in 1 .. Len(New)
      BY <1>6, <1>7, <1>8, <2>1
    <3>2. New[Last(New)].approval # 0
      <4>1. New[Last(New)].kind \notin OfNoPrompt
        BY <1>7, <2>1, <3>1 DEF OfNoPrompt, Unnotified
      <4>2. QED
        BY <3>1, <4>1, NewKinds
    <3>3. /\ Here + Last(New) \in base + 1 .. Len(events)
          /\ events[Here + Last(New)].approval # 0
      BY <1>5, <1>8, <1>9, <3>1, <3>2
    <3>4. ASSUME NEW j \in Here + Last(New) + 1 .. Len(events) PROVE events[j].kind # "tool"
      <4>1. j \in Here + 1 .. Len(events) /\ j - Here > Last(New)
        BY <1>5, <3>1
      <4>2. QED
        BY <1>7, <1>10, <3>1, <4>1
    <3>5. QED
      BY <3>3, <3>4
  <2>2. CASE LastKind(New) = "live"
    <3>1. Now = "awaiting" /\ \A i \in 1 .. Len(New) : New[i].kind # "tool"
      BY <1>6, <1>7, <1>8, <2>2
    <3>2. PICK k \in base + 1 .. Here :
                 events[k].approval # 0 /\ \A j \in k + 1 .. Here : events[j].kind # "tool"
      BY <3>1 DEF ApprovalInv, DedupeBacked
    <3>3. \A j \in k + 1 .. Len(events) : j \in k + 1 .. Here \/ j \in Here + 1 .. Len(events)
      BY <1>5
    <3>4. \A j \in k + 1 .. Len(events) : events[j].kind # "tool"
      BY <1>10, <3>1, <3>2, <3>3
    <3>5. k \in base + 1 .. Len(events)
      BY <1>5
    <3>6. QED
      BY <3>2, <3>4, <3>5
  <2>3. QED
    BY <1>6, <2>1, <2>2
<1>12. SeenIsTold'
  <2> SUFFICES ASSUME NEW i \in base + 1 .. Len(events), open # 0, events[i].approval = open
               PROVE  surfaced[open] > 0
    BY <1>4 DEF SeenIsTold, crewVars
  <2>1. CASE \E k \in base + 1 .. Here : events[k].approval = open
    BY <2>1 DEF ApprovalInv, SeenIsTold
  <2>2. CASE ~(\E k \in base + 1 .. Here : events[k].approval = open)
    <3>1. i \in Here + 1 .. Len(events)
      BY <1>5, <2>2
    <3>2. /\ Claude /\ Last(New) = Len(New) /\ Len(New) >= 1 /\ ~Cleared(New)
          /\ LastKind(New) = "awaiting" /\ New[Last(New)].approval = open
          /\ events[Len(events)].approval = open
      BY <3>1, OpenIsLast
    <3>3. RepeatedPrompt(New, c)
      BY <1>6, <3>2
    <3>4. Now = "awaiting" /\ \A j \in 1 .. Len(New) : New[j].kind # "ask"
      BY <1>7, <3>3
    <3>5. \A j \in 1 .. Len(New) : New[j].kind # "tool"
      BY <1>7, <1>8, <3>2, <3>3 DEF Unnotified
    <3>6. PICK k \in base + 1 .. Here :
                 events[k].approval # 0 /\ \A j \in k + 1 .. Here : events[j].kind # "tool"
      BY <3>2, <3>4 DEF ApprovalInv, DedupeBacked
    <3>7. events[k].approval # open
      BY <2>2
    <3>8. k \in DOMAIN events /\ Len(events) \in DOMAIN events /\ k < Len(events)
      <4>1. DOMAIN events = 1 .. Len(events)
        BY <1>1 DEF QueueInv, TypeOK
      <4>2. Here < Len(events)
        BY <1>5, <1>8, <3>2
      <4>3. QED
        BY <1>5, <4>1, <4>2
    <3>9. PICK f \in k + 1 .. Len(events) :
                 \/ events[f].kind = "tool"
                 \/ events[f].kind = "ask" /\ events[f].approval = open
      BY <3>2, <3>6, <3>7, <3>8 DEF ApprovalInv, Switch
    <3>10. CASE f \in k + 1 .. Here
      <4>1. f \in base + 1 .. Here
        BY <1>5, <3>10
      <4>2. QED
        BY <2>2, <3>6, <3>9, <3>10, <4>1
    <3>11. CASE f \in Here + 1 .. Len(events)
      BY <1>10, <3>4, <3>5, <3>9, <3>11
    <3>12. QED
      BY <1>5, <3>10, <3>11
  <2>3. QED
    BY <2>1, <2>2
<1>13. ToldIsDeduped'
  <2> SUFFICES ASSUME NEW a \in Approval, surfaced[a] > 0
               PROVE  /\ a <= approvals
                      /\ StillHeard(a)' =>
                            /\ Now' = "awaiting"
                            /\ Claude => \E i \in base + 1 .. Len(events) : events[i].approval = a
    BY <1>4 DEF ToldIsDeduped, crewVars
  <2>1. a <= approvals
    BY DEF ApprovalInv, ToldIsDeduped
  <2>2. ASSUME StillHeard(a)' PROVE open = a
    BY <1>4, <1>5, <2>2 DEF StillHeard, crewVars
  <2>3. ASSUME open = a
        PROVE  /\ Now' = "awaiting"
               /\ Claude => \E i \in base + 1 .. Len(events) : events[i].approval = a
    <3>1. /\ Now = "awaiting" /\ (Claude => \E i \in base + 1 .. Here : events[i].approval = a)
          /\ (~Claude => Here = Len(events))
      BY <2>3 DEF ApprovalInv, ToldIsDeduped, StillHeard
    <3>2. Claude => \E i \in base + 1 .. Len(events) : events[i].approval = a
      BY <1>5, <3>1
    <3>3. CASE New = <<>>
      <4>1. LastKind(New) = "live" /\ Before(New, c) = "awaiting"
        BY <1>7, <3>1, <3>3
      <4>2. ~Claude /\ look => Live(c, New, look) = "awaiting"
        BY <2>3 DEF Live, Approval
      <4>3. QED
        BY <1>6, <3>2, <4>1, <4>2
    <3>4. CASE New # <<>>
      <4>1. Len(New) >= 1
        BY <1>1, <1>8, <3>4, NewFits
      <4>2. Claude
        BY <1>5, <1>8, <3>1, <4>1
      <4>3. events[Len(events)].approval = a /\ a # 0
        BY <2>3, <4>2 DEF ApprovalInv, Newest, Approval
      <4>4. New[Len(New)].approval = a /\ Len(New) \in 1 .. Len(New)
        BY <1>5, <1>8, <1>9, <4>1, <4>3
      <4>5. \A i \in 1 .. Len(New) : New[i].approval = a /\ New[i].kind = "prompt"
        BY <4>2, <4>4, HeardAgain
      <4>6. Len(events) \in Here + 1 .. Len(events)
        BY <1>5, <1>8, <4>1
      <4>7. LastKind(New) = "awaiting" /\ ~Cleared(New)
        BY <2>3, <4>3, <4>6, OpenIsLast
      <4>8. Before(New, c) = "awaiting"
        BY <1>7, <3>1, <4>5
      <4>9. QED
        BY <1>6, <3>2, <4>7, <4>8
    <3>5. QED
      BY <3>3, <3>4
  <2>4. QED
    BY <2>1, <2>2, <2>3
<1>14. EventsFit' /\ Newest' /\ Block' /\ Switch' /\ ApprovalOnce' /\ DoneUnseen'
  BY <1>3, <1>4 DEF ApprovalInv, EventsFit, Newest, Block, Switch, ApprovalOnce, DoneUnseen, crewVars
<1>15. QED
  BY <1>11, <1>12, <1>13, <1>14 DEF ApprovalInv

LEMMA NativeApproval ==
  ASSUME ApprovalInv, QueueInv', NEW ack \in known \cup {NoId}, NEW due \in BOOLEAN,
         NEW look \in BOOLEAN, NEW printed \in BOOLEAN, PollNative(ack, due, look, printed)
  PROVE  ApprovalInv'
<1> DEFINE c == Cursors(ack)
           status == StatusOf(New, c, look)
           after == AfterOf(New, c, look)
           whose == IF LastKind(New) = "live" THEN open ELSE New[Last(New)].approval
           offer == Deliveries(status, c.seq, Len(events), after)
<1>1. QueueInv
  BY DEF ApprovalInv
<1>2. News(c) = New /\ c.native = Now /\ c.seq \in Nat
  <2>1. Free(ack)
    BY DEF PollNative
  <2>2. News(c) = New /\ c.native = Now
    BY <1>1, <2>1, NewRead
  <2>3. c.seq \in Nat
    BY <1>1, <2>1, CursorsFit
  <2>4. QED
    BY <2>2, <2>3
<1>3. /\ state # "done" /\ ~Quiet(New, c, look) /\ pending' = offer
      /\ UNCHANGED <<jobVars, state, crewVars>>
  BY <1>2 DEF PollNative, Exhausted, Hand, StatusOf, AfterOf
<1>4. surfaced' = [a \in Approval |-> IF status = "awaiting" /\ a = whose
                                      THEN surfaced[a] + 1 ELSE surfaced[a]]
  BY <1>2 DEF PollNative, StatusOf
<1>5. /\ base \in Nat /\ Here \in Nat /\ Len(events) \in Nat /\ base <= Here /\ Here <= Len(events)
      /\ Now \in Status
  BY <1>1, HereFits
<1>6. New \in Seq(Event) /\ c.native \in Status
  BY <1>1, <1>2, <1>5, NewFits
<1>7. /\ status \in {"awaiting", "error", "idle"} /\ after \in Status
      /\ LastKind(New) = "awaiting" => ~Cleared(New) /\ ~RepeatedPrompt(New, c)
      /\ LastKind(New) = "idle" => ~idleSeen
      /\ LastKind(New) = "live" => Live(c, New, look) \notin {"none", Before(New, c)}
  BY <1>3, <1>6, NotQuiet
<1>8. Here' = Len(events) /\ Now' = after
  <2>1. offer # NoOffer
    BY <1>1, <1>2, <1>5, <1>7, DeliveryTyped DEF QueueInv
  <2>2. offer.offset = Len(events) /\ offer.native = after
    BY DeliveryFields
  <2> HIDE DEF offer, after
  <2>3. QED
    BY <1>3, <2>1, <2>2 DEF Here, Now
<1>9. base' = base /\ UNCHANGED crewVars /\ events' = events /\ open' = open /\ approvals' = approvals
  BY <1>3 DEF jobVars, crewVars
<1>10. /\ Last(New) \in Nat /\ 1 <= Last(New) /\ Last(New) <= Len(New) + 1
       /\ Last(New) <= Len(New) => New[Last(New)].kind \notin Unnotified
       /\ \A i \in 1 .. Len(New) : i > Last(New) => New[i].kind \in Unnotified
       /\ LastKind(New) = "live" <=> Last(New) = Len(New) + 1
       /\ LastKind(New) = "idle" <=> Last(New) <= Len(New) /\ New[Last(New)].kind = "idle"
       /\ LastKind(New) \in {"live", "idle", "awaiting"}
       /\ Cleared(New) <=> \E i \in 1 .. Len(New) : i > Last(New) /\ New[i].kind = "tool"
       /\ Before(New, c) = "awaiting" <=>
             Now = "awaiting" /\ \A i \in 1 .. Len(New) : i < Last(New) => New[i].kind # "tool"
       /\ RepeatedPrompt(New, c) <=>
             Before(New, c) = "awaiting" /\ \A i \in 1 .. Len(New) : New[i].kind # "ask"
  BY <1>1, <1>2, NewTells
<1>11. Len(New) \in Nat /\ Len(New) = Len(events) - Here
  BY <1>1, NewFits
<1>12. \A i \in 1 .. Len(New) : New[i] = events[Here + i]
  BY <1>1, NewFits
<1>13. \A a \in Approval : surfaced[a] \in Nat /\ a \in Nat /\ a # 0 /\ surfaced'[a] >= surfaced[a]
  <2>1. \A a \in Approval : surfaced[a] \in Nat /\ a \in Nat /\ a # 0
    BY PromptsTyped
  <2>2. QED
    BY <1>4, <2>1
<1>14. open \in Approval \cup {0} /\ open \in {0, approvals} /\ approvals \in Nat
  BY <1>1 DEF QueueInv, TypeOK, ApprovalInv, Newest
<1>15. after = IF status = "idle" \/ Cleared(New) THEN "none" ELSE status
  BY DEF AfterOf
<1>16. status = IF LastKind(New) = "live" THEN Live(c, New, look) ELSE LastKind(New)
  BY DEF StatusOf
\* A prompt that was delivered and is still open: nothing of it is new.
<1>17. ASSUME NEW a \in Approval, surfaced[a] > 0, open = a
       PROVE  /\ Now = "awaiting"
              /\ Claude => \E i \in base + 1 .. Here : events[i].approval = a
              /\ ~Claude => Here = Len(events)
  BY <1>17 DEF ApprovalInv, ToldIsDeduped, StillHeard
<1>18. ASSUME NEW a \in Approval, StillHeard(a)' PROVE open = a
  BY <1>5, <1>8, <1>9, <1>18 DEF StillHeard
<1>19. EventsFit' /\ Newest' /\ Block' /\ Switch' /\ DoneUnseen'
  BY <1>3, <1>9 DEF ApprovalInv, EventsFit, Newest, Block, Switch, DoneUnseen
<1> HIDE DEF c, status, after, whose, offer
<1>20. CASE LastKind(New) = "awaiting"
  <2>1. /\ Last(New) \in 1 .. Len(New) /\ ~Cleared(New) /\ ~RepeatedPrompt(New, c)
        /\ status = "awaiting" /\ after = "awaiting"
    BY <1>7, <1>10, <1>11, <1>15, <1>16, <1>20
  <2>2. New[Last(New)].kind \notin OfNoPrompt
    BY <1>10, <1>20, <2>1 DEF OfNoPrompt, Unnotified
  <2>3. whose = New[Last(New)].approval /\ whose \in Approval /\ whose <= approvals /\ Claude
    BY <1>20, <2>1, <2>2, NewKinds DEF whose
  <2>4. PICK p \in base + 1 .. Len(events) : p = Here + Last(New) /\ events[p].approval = whose
    BY <1>5, <1>11, <1>12, <2>1, <2>3
  <2>5. surfaced'[whose] = surfaced[whose] + 1 /\ \A a \in Approval : a # whose => surfaced'[a] = surfaced[a]
    BY <1>4, <2>1, <2>3
  <2>6. surfaced[whose] = 0
    <3> SUFFICES ASSUME surfaced[whose] > 0 PROVE FALSE
      BY <1>13, <2>3
    <3>1. /\ Now = "awaiting"
          /\ \A i \in 1 .. Last(New) : New[i].approval = whose /\ New[i].kind = "prompt"
      BY <1>10, <2>1, <2>3, HeardAgain
    <3>2. QED
      BY <1>10, <2>1, <3>1 DEF Unnotified
  <2>7. DedupeBacked'
    <3>1. ASSUME NEW j \in p + 1 .. Len(events) PROVE events[j].kind # "tool"
      <4>1. j - Here \in 1 .. Len(New) /\ j - Here > Last(New) /\ Here + (j - Here) = j
        BY <1>5, <1>10, <1>11, <2>1, <2>4
      <4>2. QED
        BY <1>10, <1>12, <2>1, <4>1
    <3>2. whose # 0
      BY <1>13, <2>3
    <3>3. QED
      BY <1>8, <1>9, <2>4, <3>1, <3>2 DEF DedupeBacked
  <2>8. SeenIsTold'
    <3> SUFFICES ASSUME NEW i \in base + 1 .. Len(events), open # 0, events[i].approval = open
                 PROVE  surfaced'[open] > 0
      BY <1>8, <1>9 DEF SeenIsTold
    <3>1. open \in Approval
      BY <1>14
    <3>2. CASE i \in base + 1 .. Here
      <4>1. surfaced[open] > 0
        BY <3>2 DEF ApprovalInv, SeenIsTold
      <4>2. QED
        BY <1>4, <1>13, <3>1, <4>1
    <3>3. CASE i \in Here + 1 .. Len(events)
      <4>1. New[Last(New)].approval = open
        BY <3>3, OpenIsLast
      <4>2. QED
        BY <1>13, <2>1, <2>3, <2>5, <3>1, <4>1
    <3>4. QED
      BY <1>5, <3>2, <3>3
  <2>9. ToldIsDeduped'
    <3> SUFFICES ASSUME NEW a \in Approval, surfaced'[a] > 0
                 PROVE  /\ a <= approvals
                        /\ StillHeard(a)' => \E i \in base + 1 .. Len(events) : events[i].approval = a
      BY <1>8, <1>9, <2>1, <2>3 DEF ToldIsDeduped
    <3>1. CASE a = whose
      BY <2>3, <2>4, <3>1
    <3>2. CASE a # whose
      <4>1. surfaced[a] > 0
        BY <2>5, <3>2
      <4>2. a <= approvals
        BY <4>1 DEF ApprovalInv, ToldIsDeduped
      <4>3. ASSUME StillHeard(a)' PROVE \E i \in base + 1 .. Len(events) : events[i].approval = a
        <5>1. open = a
          BY <1>18, <4>3
        <5>2. QED
          BY <1>5, <1>17, <2>3, <4>1, <5>1
      <4>4. QED
        BY <4>2, <4>3
    <3>3. QED
      BY <3>1, <3>2
  <2>10. ApprovalOnce'
    BY <1>13, <2>3, <2>5, <2>6 DEF ApprovalInv, ApprovalOnce
  <2>11. QED
    BY <1>19, <2>7, <2>8, <2>9, <2>10 DEF ApprovalInv
<1>21. CASE LastKind(New) = "idle"
  <2>1. status = "idle" /\ after = "none" /\ Last(New) <= Len(New)
    BY <1>10, <1>15, <1>16, <1>21
  <2>2. surfaced' = surfaced
    <3>1. surfaced \in [Approval -> Nat]
      BY <1>1 DEF QueueInv, TypeOK
    <3>2. QED
      BY <1>4, <2>1, <3>1
  <2>3. DedupeBacked' /\ ApprovalOnce'
    BY <1>8, <2>1, <2>2 DEF DedupeBacked, ApprovalInv, ApprovalOnce
  <2>4. \A k \in Here + 1 .. Len(events) : ~(open # 0 /\ events[k].approval = open)
    BY <1>21, OpenIsLast
  <2>5. SeenIsTold'
    <3> SUFFICES ASSUME NEW i \in base + 1 .. Len(events), open # 0, events[i].approval = open
                 PROVE  surfaced[open] > 0
      BY <1>8, <1>9, <2>2 DEF SeenIsTold
    <3>1. i \in base + 1 .. Here
      BY <1>5, <2>4
    <3>2. QED
      BY <3>1 DEF ApprovalInv, SeenIsTold
  <2>6. ToldIsDeduped'
    <3> SUFFICES ASSUME NEW a \in Approval, surfaced[a] > 0 PROVE a <= approvals /\ ~StillHeard(a)'
      BY <1>9, <2>2 DEF ToldIsDeduped
    <3>1. a <= approvals
      BY DEF ApprovalInv, ToldIsDeduped
    <3>2. ASSUME open = a PROVE FALSE
      <4>1. Len(New) >= 1 /\ Claude
        BY <1>5, <1>10, <1>11, <1>17, <2>1, <3>2
      <4>2. events[Len(events)].approval = a /\ a # 0
        BY <1>13, <3>2, <4>1 DEF ApprovalInv, Newest
      <4>3. Len(events) \in Here + 1 .. Len(events)
        BY <1>5, <1>11, <4>1
      <4>4. QED
        BY <2>4, <3>2, <4>2, <4>3
    <3>3. QED
      BY <1>18, <3>1, <3>2
  <2>7. QED
    BY <1>19, <2>3, <2>5, <2>6 DEF ApprovalInv
<1>22. CASE LastKind(New) = "live" /\ status = "error"
  <2>1. Claude /\ ~Turned(New) /\ after # "awaiting"
    <3>1. StalledAt(c, New)
      BY <1>16, <1>22 DEF Live
    <3>2. QED
      BY <1>15, <1>22, <3>1 DEF StalledAt
  <2>2. \A i \in base + 1 .. Len(events) : events[i].approval = 0
    <3>1. ASSUME NEW i \in base + 1 .. Len(events), IsTurn(events[i]) PROVE FALSE
      <4>1. CASE i \in base + 1 .. Here
        BY <1>1, <2>1, <3>1, <4>1 DEF QueueInv, TurnAhead, TurnSeen, Turned
      <4>2. CASE i \in Here + 1 .. Len(events)
        <5>1. i - Here \in DOMAIN New /\ New[i - Here] = events[i]
          BY <1>1, <4>2, NewFits
        <5>2. QED
          BY <2>1, <3>1, <5>1 DEF Turned
      <4>3. QED
        BY <1>5, <4>1, <4>2
    <3>2. \A i \in base + 1 .. Len(events) : i \in DOMAIN events
      <4>1. DOMAIN events = 1 .. Len(events)
        BY <1>1 DEF QueueInv, TypeOK
      <4>2. QED
        BY <1>5, <4>1
    <3>3. QED
      BY <3>1, <3>2 DEF IsTurn, ApprovalInv, EventsFit, OfNoPrompt
  <2>3. surfaced' = surfaced
    <3>1. surfaced \in [Approval -> Nat]
      BY <1>1 DEF QueueInv, TypeOK
    <3>2. QED
      BY <1>4, <1>22, <3>1
  <2>4. DedupeBacked' /\ ApprovalOnce'
    BY <1>8, <2>1, <2>3 DEF DedupeBacked, ApprovalInv, ApprovalOnce
  <2>5. SeenIsTold'
    BY <1>8, <1>9, <2>2, <2>3 DEF ApprovalInv, SeenIsTold
  <2>6. ToldIsDeduped'
    <3> SUFFICES ASSUME NEW a \in Approval, surfaced[a] > 0 PROVE a <= approvals /\ ~StillHeard(a)'
      BY <1>9, <2>3 DEF ToldIsDeduped
    <3>1. a <= approvals
      BY DEF ApprovalInv, ToldIsDeduped
    <3>2. ASSUME open = a PROVE FALSE
      <4>1. PICK i \in base + 1 .. Here : events[i].approval = a
        BY <1>17, <2>1, <3>2
      <4>2. QED
        BY <1>5, <1>13, <2>2, <4>1
    <3>3. QED
      BY <1>18, <3>1, <3>2
  <2>7. QED
    BY <1>19, <2>4, <2>5, <2>6 DEF ApprovalInv
<1>23. CASE LastKind(New) = "live" /\ status = "awaiting"
  <2>1. ~Claude /\ open # 0 /\ Before(New, c) # "awaiting"
    BY <1>7, <1>16, <1>23 DEF Live
  <2>2. Last(New) = Len(New) + 1 /\ ~Cleared(New) /\ after = "awaiting" /\ whose = open
    BY <1>10, <1>11, <1>15, <1>23 DEF whose
  <2>3. open \in Approval /\ open <= approvals
    BY <1>14, <2>1
  <2>4. surfaced'[open] = surfaced[open] + 1 /\ \A a \in Approval : a # open => surfaced'[a] = surfaced[a]
    BY <1>4, <1>23, <2>2, <2>3
  <2>5. \A i \in DOMAIN events : events[i].approval = 0
    BY <2>1 DEF ApprovalInv, EventsFit
  <2>6. surfaced[open] = 0
    <3> SUFFICES ASSUME surfaced[open] > 0 PROVE FALSE
      BY <1>13, <2>3
    <3>1. Now = "awaiting" /\ Here = Len(events)
      BY <1>17, <2>1, <2>3
    <3>2. Len(New) = 0
      BY <1>5, <1>11, <3>1
    <3>3. Before(New, c) = "awaiting"
      BY <1>10, <3>1, <3>2
    <3>4. QED
      BY <2>1, <3>3
  <2>7. DedupeBacked'
    BY <2>1 DEF DedupeBacked
  <2>8. SeenIsTold'
    <3>1. \A i \in base + 1 .. Len(events) : events[i].approval = 0
      <4>1. DOMAIN events = 1 .. Len(events)
        BY <1>1 DEF QueueInv, TypeOK
      <4>2. QED
        BY <1>5, <2>5, <4>1
    <3>2. QED
      BY <1>8, <1>9, <3>1 DEF SeenIsTold
  <2>9. ToldIsDeduped'
    <3> SUFFICES ASSUME NEW a \in Approval, surfaced'[a] > 0 PROVE a <= approvals
      BY <1>8, <1>9, <2>1, <2>2 DEF ToldIsDeduped
    <3>1. CASE a = open
      BY <2>3, <3>1
    <3>2. CASE a # open
      BY <2>4, <3>2 DEF ApprovalInv, ToldIsDeduped
    <3>3. QED
      BY <3>1, <3>2
  <2>10. ApprovalOnce'
    BY <1>13, <2>3, <2>4, <2>6 DEF ApprovalInv, ApprovalOnce
  <2>11. QED
    BY <1>19, <2>7, <2>8, <2>9, <2>10 DEF ApprovalInv
<1>24. LastKind(New) = "live" => status \in {"error", "awaiting"}
  BY <1>7, <1>16 DEF Live
<1>25. QED
  BY <1>10, <1>20, <1>21, <1>22, <1>23, <1>24

LEMMA NextApproval == ApprovalInv /\ [Next]_vars => ApprovalInv'
<1> SUFFICES ASSUME ApprovalInv, [Next]_vars PROVE ApprovalInv'
  OBVIOUS
<1>1. QueueInv /\ QueueInv'
  BY NextQueue DEF ApprovalInv
<1>2. CASE UNCHANGED vars
  BY <1>1, <1>2, SamePlace
  DEF vars, jobVars, workVars, cursorVars, nativeVars, offerVars, historyVars, Here, Now
<1>3. ASSUME NEW ack \in known \cup {NoId}, NEW due \in BOOLEAN, NEW look \in BOOLEAN,
             NEW printed \in BOOLEAN, Poll(ack, due, look, printed)
      PROVE  ApprovalInv'
  <2>1. CASE PollPending(ack, due, printed)
    BY <1>1, <2>1, SamePlace
    DEF PollPending, jobVars, cursorVars, nativeVars, offerVars, Here, Now
  <2>2. CASE PollNotice(ack, due, printed)
    <3> DEFINE offer == Deliveries(Notices(due)[Cursors(ack).seq + 1], Cursors(ack).seq + 1,
                                   Cursors(ack).scan, Cursors(ack).native)
    <3>1. /\ Free(ack) /\ pending' = offer
          /\ UNCHANGED <<jobVars, state, crewVars, surfaced>>
      BY <2>2 DEF PollNotice, Hand
    <3>2. Cursors(ack).scan = Here /\ Cursors(ack).native = Now /\ Cursors(ack).seq \in Nat
      BY <1>1, <3>1, CursorsFit
    <3>3. offer.id = <<job, generation + 1>> /\ offer.offset = Here /\ offer.native = Now
      BY <3>2, DeliveryFields
    <3>4. offer # NoOffer
      <4>1. <<job, generation + 1>> \in Id
        <5>1. job \in 1 .. MaxJobs /\ generation + 1 \in Nat
          BY <1>1 DEF QueueInv, TypeOK
        <5>2. QED
          BY <5>1 DEF Id
      <4>2. QED
        BY <3>3, <4>1, NoOfferFields, NoIdIsNone
    <3> HIDE DEF offer
    <3>5. Here' = Here /\ Now' = Now /\ UNCHANGED <<base, crewVars, surfaced, state>>
      BY <3>1, <3>3, <3>4 DEF Here, Now, jobVars
    <3>6. QED
      BY <1>1, <3>5, SamePlace
  <2>3. CASE PollDone(ack)
    <3>1. /\ Free(ack) /\ pending' = NoOffer /\ scan' = Cursors(ack).scan
          /\ native' = Cursors(ack).native
          /\ UNCHANGED <<jobVars, workVars, crewVars, historyVars>>
      BY <2>3 DEF PollDone, Free, Accepted
    <3>2. Cursors(ack).scan = Here /\ Cursors(ack).native = Now
      BY <1>1, <3>1, CursorsFit
    <3>3. Here' = Here /\ Now' = Now /\ UNCHANGED <<base, crewVars, surfaced, state>>
      BY <3>1, <3>2 DEF Here, Now, jobVars, workVars, historyVars
    <3>4. QED
      BY <1>1, <3>3, SamePlace
  <2>4. CASE PollQuiet(ack, due, look)
    BY <1>1, <2>4, QuietApproval
  <2>5. CASE PollNative(ack, due, look, printed)
    BY <1>1, <2>5, NativeApproval
  <2>6. QED
    BY <1>3, <2>1, <2>2, <2>3, <2>4, <2>5 DEF Poll
<1>4. QED
  BY <1>2, <1>3, ApprovalWork, ApprovalCrew, ApprovalHandoff DEF Next

LEMMA ApprovalInvariant == Spec => []ApprovalInv
BY InitApproval, NextApproval, PTL DEF Spec

\* ApprovalOnce (poll's dedupe, native_status and cleared): no approval prompt is delivered
\* twice, however its events, polls and acknowledgements fall together.
THEOREM PromptsSurfaceOnce == Spec => []ApprovalOnce
<1>1. ApprovalInv => ApprovalOnce
  BY DEF ApprovalInv
<1>2. QED
  BY <1>1, ApprovalInvariant, PTL

\* ApprovalTold (poll's scan_offset): no cursor passes an event of the prompt on the screen
\* without a delivery of that prompt.
THEOREM PromptsAreTold == Spec => []ApprovalTold
<1>1. ApprovalInv => ApprovalTold
  <2> SUFFICES ASSUME ApprovalInv, NEW i \in base + 1 .. scan, events[i].approval = open, open # 0
               PROVE  surfaced[open] > 0
    BY DEF ApprovalTold
  <2>1. QueueInv /\ scan \in Nat /\ base \in Nat
    BY DEF ApprovalInv, QueueInv, TypeOK
  <2>2. i \in base + 1 .. Here
    BY <2>1, HereFits
  <2>3. QED
    BY <2>2 DEF ApprovalInv, SeenIsTold
<1>2. QED
  BY <1>1, ApprovalInvariant, PTL

=============================================================================
