------------------------------- MODULE MCStores -------------------------------
(***************************************************************************)
(* One run for parts that share no state: the native history of a session,  *)
(* the placement of crew in tabs, and a graph of memory.  A behaviour is    *)
(* one of one part; the others stay as they start.  Native history runs     *)
(* twice: all its sessions with the captain staying, and the first session  *)
(* alone with captains that come and go and prune.                          *)
(***************************************************************************)
EXTENDS History, Placement, Memory

VARIABLE part           \* the part this behaviour is about

CaptainShape == <<1, 1>>
CrewShape == <<2, 2>>

Init ==
    /\ part \in {"history", "pruning", "placement", "memory"}
    /\ HistoryInit /\ PlacementInit /\ MemoryInit
    /\ part \in {"placement", "memory"} => provider = "codex"
    /\ part # "memory" => scope = "repo"

HistoryStep ==
    /\ part \in {"history", "pruning"} /\ HistoryNext
    /\ part = "history" => UNCHANGED sessionVars
    /\ part = "pruning" => started' \subseteq {First}
    /\ UNCHANGED <<part, placementVars, memoryVars>>
PlacementStep ==
    /\ part = "placement" /\ PlacementNext
    /\ UNCHANGED <<part, historyVars, memoryVars>>
MemoryStep ==
    /\ part = "memory" /\ MemoryNext
    /\ UNCHANGED <<part, historyVars, placementVars>>

Next == HistoryStep \/ PlacementStep \/ MemoryStep

Spec == Init /\ [][Next]_<<part, historyVars, placementVars, memoryVars>>

=============================================================================
