------------------------------ MODULE Placement ------------------------------
(***************************************************************************)
(* Where a crew opens (placement.py, layout.py, agents.create_crew).        *)
(*                                                                          *)
(* A tab has a declared shape, the depths of its columns.  The slot of the  *)
(* next crew comes from the roster's counts alone and is made by splitting  *)
(* one pane, right or down.  Herdr keeps a tree of splits and collapses one *)
(* when a pane closes; nothing ever moves a pane.  Whether the panes on the *)
(* screen still are the columns the roster counts is the question.          *)
(***************************************************************************)
EXTENDS Naturals, FiniteSets, Sequences, SequencesExt

CONSTANTS
    MaxPane,            \* pane identities a tab may use, in the order their names sort
    MaxTab,             \* crew tabs
    MaxStray,           \* panes at once on which the roster's slots and the screen differ
    captain_tab,        \* the declared shapes: the depth of each column
    crew_tab

ASSUME PlacementAssumption ==
    /\ MaxPane \in Nat /\ MaxTab \in Nat /\ MaxStray \in Nat
    /\ captain_tab \in Seq(Nat \ {0}) /\ captain_tab # <<>> /\ captain_tab[1] = 1
    /\ crew_tab \in Seq(Nat \ {0}) /\ crew_tab # <<>>

VARIABLES
    at,                 \* Herdr: per pane its tab and its place in the tab's tree of splits
    roster,             \* the crew not dismissed: pane, tab and slot of each
    spot,               \* the recruit under way: the slot it resolved
    churned,            \* tabs a pane of which went
    nested,             \* of those, tabs where a column was opened again beside a stack
    forced              \* tabs where a slot was split against the direction it implies

placementVars == <<at, roster, spot, churned, nested, forced>>

Captain == 0            \* the captain's pane, with the dashboard nested in it
CaptainTab == 0
PaneIds == 1 .. MaxPane
Tabs == 0 .. MaxTab
ByHand == 0             \* the column of a crew placed by hand

\* A place is the path to a leaf: at each split which way it went and which half.
Half == {"right", "down"} \X {0, 1}
NoSpot == [step |-> "none", tab |-> 0, pane |-> 0, direction |-> "tab", implied |-> "tab",
           column |-> ByHand, row |-> 0]

PlacementTypeOK ==
    /\ DOMAIN at \subseteq {Captain} \cup PaneIds
    /\ \A p \in DOMAIN at : at[p].tab \in Tabs /\ at[p].path \in Seq(Half)
    /\ \A c \in roster : c \in [pane: PaneIds, tab: Tabs, column: Nat, row: Nat]
    /\ {spot.direction, spot.implied} \subseteq {"right", "down", "tab"}
    /\ spot.step \in {"none", "resolved"}
    /\ churned \subseteq Tabs /\ nested \subseteq churned /\ forced \subseteq Tabs

PlacementInit ==
    /\ at = [p \in {Captain} |-> [tab |-> CaptainTab, path |-> <<>>]]
    /\ roster = {} /\ spot = NoSpot
    /\ churned = {} /\ nested = {} /\ forced = {}

-----------------------------------------------------------------------------
(* Herdr: a split makes a leaf two, a close gives the split to its sibling. *)

Split(p, direction, new) ==
    [q \in DOMAIN at \cup {new} |->
        IF q = p THEN [at[p] EXCEPT !.path = Append(@, <<direction, 0>>)]
        ELSE IF q = new THEN [at[p] EXCEPT !.path = Append(@, <<direction, 1>>)]
        ELSE at[q]]

Sibling(path) == Append(Front(path), <<Last(path)[1], 1 - Last(path)[2]>>)
Close(p) ==
    LET path == at[p].path
        Heir(q) == /\ path # <<>> /\ at[q].tab = at[p].tab
                   /\ IsPrefix(Sibling(path), at[q].path)
    IN [q \in DOMAIN at \ {p} |->
           IF Heir(q)
           THEN [at[q] EXCEPT !.path = Front(path) \o SubSeq(@, Len(path) + 1, Len(@))]
           ELSE at[q]]

-----------------------------------------------------------------------------
(* The slot, from the roster: what a tab's columns hold and which is next.  *)

OpenTabs == {at[p].tab : p \in DOMAIN at}

\* Roster panes that vanished from their tab are passed over.
active(tab) == {c \in roster : c.tab = tab /\ c.pane \in DOMAIN at /\ at[c.pane].tab = tab}
occupancy(tab, column) == {c \in active(tab) : c.column = column}
count(tab, column) == Cardinality(occupancy(tab, column))

shape(tab) == IF tab = CaptainTab THEN captain_tab ELSE crew_tab

\* On the captain's tab column 1 row 1 is the captain.
nextRow(tab, column) ==
    count(tab, column) + (IF tab = CaptainTab /\ column = 1 THEN 2 ELSE 1)
is_open(tab, column) ==
    count(tab, column) > 0 \/ (column = 1 /\ tab = CaptainTab)
free(tab) ==
    {column \in DOMAIN shape(tab) :
        /\ nextRow(tab, column) <= shape(tab)[column]
        /\ is_open(tab, column) \/ (column > 1 /\ is_open(tab, column - 1))}

\* Depth first: the leftmost column with room.
LeftmostSlot(tab) ==
    CHOOSE column \in free(tab) : \A other \in free(tab) : column <= other
\* Breadth first: the lowest row, and of those the leftmost column.
next_slot(tab) ==
    CHOOSE column \in free(tab) : \A other \in free(tab) :
        \/ nextRow(tab, column) < nextRow(tab, other)
        \/ nextRow(tab, column) = nextRow(tab, other) /\ column <= other

\* A column's panes are sorted by the row each was given, then by name.
Above(c, d) == c.row < d.row \/ (c.row = d.row /\ c.pane < d.pane)
Top(crew)    == (CHOOSE c \in crew : \A d \in crew \ {c} : Above(c, d)).pane
Bottom(crew) == (CHOOSE c \in crew : \A d \in crew \ {c} : Above(d, c)).pane

split_for(tab, column) ==
    IF count(tab, column) > 0 THEN <<Bottom(occupancy(tab, column)), "down">>
    ELSE IF column = 1 THEN <<Captain, "down">>
    ELSE IF count(tab, column - 1) > 0 THEN <<Top(occupancy(tab, column - 1)), "right">>
    ELSE <<Captain, "right">>

\* Chosen from the roster alone: no pane is measured.
Spot(tab) ==
    LET column == next_slot(tab)
        split == split_for(tab, column)
    IN [step |-> "resolved", tab |-> tab, pane |-> split[1],
        direction |-> split[2], implied |-> split[2],
        column |-> column, row |-> nextRow(tab, column)]
NewTab == [NoSpot EXCEPT !.step = "resolved", !.column = 1, !.row = 1]

\* The captain's tab comes first; which of the crew tabs is next is left open.
Usable == {tab \in OpenTabs : free(tab) # {}}
grid_spots ==
    IF Usable = {} THEN {NewTab}
    ELSE IF CaptainTab \in Usable THEN {Spot(CaptainTab)}
    ELSE {Spot(tab) : tab \in Usable}

-----------------------------------------------------------------------------
(* Recruiting, under the crew lock: resolve, split, record.                 *)

Resolve ==
    /\ spot.step = "none"
    /\ spot' \in grid_spots
    /\ UNCHANGED <<at, roster, churned, nested, forced>>

\* The panes that hold a slot on one side only; MaxStray bounds how many there are at once,
\* the tabs split against the grid included.
Strays ==
    {p \in PaneIds : (p \in DOMAIN at) # (\E c \in roster : c.pane = p /\ c.column # ByHand)}
MoreStrays == Cardinality(Strays) + Cardinality(forced) < MaxStray

\* --placement tab, or a pane named by hand, beside or below it, takes no slot; --direction
\* alone keeps the slot that is next and splits its pane the way it says.
HandTab == [NoSpot EXCEPT !.step = "resolved"]
ResolveFlags ==
    /\ spot.step = "none"
    /\ MoreStrays
    /\ \/ spot' = HandTab
       \/ \E p \in DOMAIN at, direction \in {"right", "down"} :
             spot' = [HandTab EXCEPT !.tab = at[p].tab, !.pane = p,
                                     !.direction = direction, !.implied = direction]
       \/ \E slot \in grid_spots \ {NewTab}, direction \in {"right", "down"} :
             spot' = [slot EXCEPT !.direction = direction]
    /\ UNCHANGED <<at, roster, churned, nested, forced>>

\* Herdr gives a pane a name no roster entry holds.
FreePanes == (PaneIds \ DOMAIN at) \ {c.pane : c \in roster}
FreeTabs  == (Tabs \ OpenTabs) \ {c.tab : c \in roster}

Opened(new, tab, recorded) ==
    /\ roster' = IF recorded
                 THEN roster \cup {[pane |-> new, tab |-> tab,
                                    column |-> spot.column, row |-> spot.row]}
                 ELSE roster
    /\ recorded \/ MoreStrays
    /\ spot' = NoSpot

\* A column is opened beside a stack, in a tab that lost a pane.
BesideStack ==
    /\ spot.implied = "right" /\ spot.column > 1
    /\ spot.tab \in churned /\ count(spot.tab, spot.column - 1) > 1

\* The command may die between Herdr's answer and the roster.
CreatePane ==
    /\ spot.step = "resolved" /\ spot.direction # "tab" /\ spot.pane \in DOMAIN at
    /\ \E new \in FreePanes, recorded \in BOOLEAN :
          /\ at' = Split(spot.pane, spot.direction, new)
          /\ Opened(new, spot.tab, recorded)
    /\ nested' = IF BesideStack THEN nested \cup {spot.tab} ELSE nested
    /\ forced' = IF spot.direction # spot.implied THEN forced \cup {spot.tab} ELSE forced
    /\ UNCHANGED churned
CreateTab ==
    /\ spot.step = "resolved" /\ spot.direction = "tab"
    /\ \E new \in FreePanes, tab \in FreeTabs, recorded \in BOOLEAN :
          /\ at' = [p \in DOMAIN at \cup {new} |->
                       IF p = new THEN [tab |-> tab, path |-> <<>>] ELSE at[p]]
          /\ Opened(new, tab, recorded)
          /\ churned' = churned \ {tab} /\ nested' = nested \ {tab} /\ forced' = forced \ {tab}
\* The pane to split has closed, or the command dies before it asks.
RecruitFails ==
    /\ spot.step = "resolved"
    /\ spot' = NoSpot
    /\ UNCHANGED <<at, roster, churned, nested, forced>>

-----------------------------------------------------------------------------
(* Panes go: with a dismissal, or by the user's hand or a crash.            *)

Gone(p) ==
    /\ at' = Close(p)
    /\ churned' = churned \cup {at[p].tab}

dismiss(c) ==
    /\ spot.step = "none"
    /\ roster' = roster \ {c}
    /\ IF c.pane \in DOMAIN at THEN Gone(c.pane) ELSE UNCHANGED <<at, churned>>
    /\ UNCHANGED <<spot, nested, forced>>
PaneGone(p) ==
    /\ p # Captain /\ (MoreStrays \/ p \in Strays)
    /\ Gone(p)
    /\ UNCHANGED <<roster, spot, nested, forced>>

PlacementNext ==
    \/ Resolve \/ ResolveFlags \/ CreatePane \/ CreateTab \/ RecruitFails
    \/ \E c \in roster : dismiss(c)
    \/ \E p \in DOMAIN at : PaneGone(p)

PlacementSpec == PlacementInit /\ [][PlacementNext]_placementVars

-----------------------------------------------------------------------------
(* Two panes part at the first split where they went different ways.        *)
Parts(p, q, direction) ==
    LET a == at[p].path
        b == at[q].path
    IN \E i \in DOMAIN a \cap DOMAIN b :
          /\ SubSeq(a, 1, i - 1) = SubSeq(b, 1, i - 1)
          /\ a[i] = <<direction, 0>> /\ b[i] = <<direction, 1>>

\* The panes of a tab that hold a slot, the captain's included, with the column of each.
Slots(tab) ==
    {c \in active(tab) : c.column # ByHand} \cup
    (IF tab = CaptainTab THEN {[pane |-> Captain, tab |-> tab, column |-> 1, row |-> 1]} ELSE {})

(* Whatever is recruited, dismissed, closed or lost, no column holds more   *)
(* than was declared.  Unless --direction split a slot against the grid,    *)
(* the roster's columns run left to right on the screen, and a pane lies    *)
(* below another only in its own column, except where a column that had     *)
(* emptied was opened again beside a stack.  In a tab that lost no pane the *)
(* stacks are in the order of arrival (placement.py:276, layout.py:66).     *)
ShapeHolds ==
    \A tab \in OpenTabs :
       /\ \A column \in DOMAIN shape(tab) :
             Cardinality({c \in Slots(tab) : c.column = column}) <= shape(tab)[column]
       /\ tab \notin forced => \A c, d \in Slots(tab) :
             /\ Parts(c.pane, d.pane, "right") => c.column < d.column
             /\ Parts(c.pane, d.pane, "down") /\ tab \notin nested => c.column = d.column
             /\ Parts(c.pane, d.pane, "down") /\ tab \notin churned => c.row < d.row

=============================================================================
