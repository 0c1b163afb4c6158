----------------------------- MODULE MCCrewMail -----------------------------
(* One or two messages; where there is a question, the last message answers it. *)
EXTENDS CrewMail, TLC

CONSTANTS m1, m2, q1,
    Early           \* captain commands that run only while nothing but m1 is under way

TwoMessages == {m1, m2}
OneMessage == {m1}
OneQuestion == {q1}
SecondAnswers == [m \in TwoMessages |-> IF m = m2 THEN q1 ELSE None]
FirstAnswers == [m \in OneMessage |-> q1]

\* Two commands race over the first message's stamp, one of them goes on to the second.
Bounded == \A c \in Early : pc'[c] = "idle" \/ \A m \in Msg \ {m1} : delivery'[m] = "none"
BoundedSpec == Init /\ [][Next /\ Bounded]_vars

Symmetry == Permutations(Captain) \cup Permutations(Reader)
=============================================================================
