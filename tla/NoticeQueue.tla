----------------------------- MODULE NoticeQueue -----------------------------
(***************************************************************************)
(* What captain wait promises of an assignment's notices: they are numbered *)
(* in the order they were appended, each is shown to the captain before it  *)
(* can be acknowledged, and they are acknowledged one at a time, in order,  *)
(* however often a wait repeats, dies or races another.                     *)
(***************************************************************************)
EXTENDS Integers

VARIABLES
    posted,     \* notices appended to the assignment
    told,       \* the highest of them a captain command has printed
    acked       \* the highest of them the captain has acknowledged

vars == <<posted, told, acked>>

Init == posted = 0 /\ told = 0 /\ acked = 0

\* One captain or crew command: it may acknowledge the notice being shown, append
\* notices of its own, and show the next one.
Serve ==
    /\ acked' \in acked .. told /\ acked' <= acked + 1
    /\ posted' >= posted
    /\ told' \in {told, acked' + 1} /\ told' >= told /\ told' <= posted'

\* A handoff opens the next assignment, and only over a fully acknowledged one.
Renew ==
    /\ acked = posted
    /\ posted' = 0 /\ told' = 0 /\ acked' = 0

Next == Serve \/ Renew

Spec == Init /\ [][Next]_vars
=============================================================================
