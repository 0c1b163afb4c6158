--------------------------- MODULE PlacementProofs ---------------------------
(***************************************************************************)
(* Proofs about Placement, for any declared shapes and any number of panes  *)
(* and tabs: whatever is recruited, dismissed, closed or lost, no column    *)
(* the roster counts is overfull, and but for slots split against the grid  *)
(* the columns on the screen are those of the roster.                       *)
(***************************************************************************)
EXTENDS Placement, FiniteSetTheorems, SequenceTheorems, WellFoundedInduction, TLAPS

-----------------------------------------------------------------------------
(* The inductive invariant.                                                *)

\* Herdr's trees: no leaf lies below another, and at the split where two panes of a tab
\* part they went different ways of one direction.
Trees ==
    \A p, q \in DOMAIN at : p # q /\ at[p].tab = at[q].tab =>
        \E direction \in {"right", "down"} : Parts(p, q, direction) \/ Parts(q, p, direction)

\* What is on the screen and on the roster, each pane once, and what a slot may be.
Listing ==
    /\ DOMAIN at \subseteq {Captain} \cup PaneIds
    /\ Captain \in DOMAIN at /\ at[Captain].tab = CaptainTab
    /\ \A p \in DOMAIN at : at[p] \in [tab: Tabs, path: Seq(Half)]
    /\ roster \subseteq [pane: PaneIds, tab: Tabs, column: Nat, row: Nat] /\ IsFiniteSet(roster)
    /\ \A c, d \in roster : c.pane = d.pane => c = d
    /\ \A c \in roster : c.column # ByHand =>
          c.column \in DOMAIN shape(c.tab) /\ c.row <= shape(c.tab)[c.column]
    /\ churned \subseteq Tabs /\ nested \subseteq churned /\ forced \subseteq Tabs

\* A column holds no more than was declared.
Room == \A tab \in Tabs : \A column \in DOMAIN shape(tab) :
            nextRow(tab, column) <= shape(tab)[column] + 1

\* Columns run left to right, stacks top to bottom, where no slot was split against the grid.
Ordered ==
    \A tab \in Tabs \ forced : \A c, d \in Slots(tab) :
        /\ Parts(c.pane, d.pane, "right") => c.column < d.column
        /\ Parts(c.pane, d.pane, "down") /\ tab \notin nested => c.column = d.column
        /\ Parts(c.pane, d.pane, "down") /\ tab \notin churned => c.row < d.row

\* While no pane goes, rows count up and a column gets its second pane after its right
\* neighbour's first.
Grown ==
    \A tab \in Tabs \ churned :
        /\ \A c \in active(tab) : c.column # ByHand => c.row < nextRow(tab, c.column)
        /\ \A column \in DOMAIN shape(tab) :
              count(tab, column) > 1 /\ column + 1 \in DOMAIN shape(tab) => count(tab, column + 1) > 0

\* A slot of a column is aimed at; the pane to split is a crew of some column, or the
\* captain in its own.
Aims(tab, column) ==
    /\ spot.step = "resolved" /\ spot.direction # "tab"
    /\ spot.tab = tab /\ spot.column = column
Splitting(tab, column) ==
    \/ \E c \in roster : c.pane = spot.pane /\ c.tab = tab /\ c.column = column
    \/ spot.pane = Captain /\ tab = CaptainTab /\ column = 1

\* What was resolved still has room, and is beside or below the column it was meant for.
Resolved ==
    /\ spot.step \in {"none", "resolved"}
    /\ {spot.direction, spot.implied} \subseteq {"right", "down", "tab"}
    /\ spot.tab \in Tabs /\ spot.column \in Nat /\ spot.row \in Nat
    /\ spot.step = "resolved" /\ spot.direction = "tab" =>
          spot.column = ByHand \/ (spot.column = 1 /\ spot.row = 1)
    /\ spot.step = "resolved" /\ spot.direction # "tab" /\ spot.pane \in DOMAIN at =>
          at[spot.pane].tab = spot.tab
    /\ \A tab \in Tabs, column \in Nat \ {ByHand} : Aims(tab, column) =>
          /\ column \in DOMAIN shape(tab) /\ spot.row <= shape(tab)[column]
          /\ nextRow(tab, column) <= shape(tab)[column]
          /\ \/ spot.implied = "down" /\ Splitting(tab, column)
             \/ /\ spot.implied = "right" /\ column > 1
                /\ count(tab, column) = 0 /\ Splitting(tab, column - 1)

\* In a tab that lost no pane it is still the next one.
Current ==
    \A tab \in Tabs \ churned, column \in Nat \ {ByHand} : Aims(tab, column) =>
        /\ spot.row = nextRow(tab, column)
        /\ spot.implied = "right" => count(tab, column - 1) < 2
        /\ spot.implied = "down" =>
              /\ \A c, d \in occupancy(tab, column) : c.pane = spot.pane => d.row <= c.row
              /\ column + 1 \in DOMAIN shape(tab) => count(tab, column + 1) > 0

PlacementInv == Trees /\ Listing /\ Room /\ Ordered /\ Grown /\ Resolved /\ Current

-----------------------------------------------------------------------------
(* Paths in a tree of splits.                                              *)

\* Where two paths part, for the first time, in a direction.
PartAt(a, b, i, direction) ==
    /\ i \in 1 .. Len(a) /\ i \in 1 .. Len(b)
    /\ \A k \in 1 .. i - 1 : a[k] = b[k]
    /\ a[i] = <<direction, 0>> /\ b[i] = <<direction, 1>>

\* Two paths start alike when they agree place by place.
LEMMA SamePrefix ==
  ASSUME NEW a \in Seq(Half), NEW b \in Seq(Half), NEW n \in Nat, n <= Len(a), n <= Len(b)
  PROVE  SubSeq(a, 1, n) = SubSeq(b, 1, n) <=> \A k \in 1 .. n : a[k] = b[k]
<1>1. /\ SubSeq(a, 1, n) \in Seq(Half) /\ Len(SubSeq(a, 1, n)) = n
      /\ SubSeq(b, 1, n) \in Seq(Half) /\ Len(SubSeq(b, 1, n)) = n
      /\ \A k \in 1 .. n : SubSeq(a, 1, n)[k] = a[k] /\ SubSeq(b, 1, n)[k] = b[k]
  OBVIOUS
<1>2. QED
  BY <1>1

\* One path leads off to the first half of a split in that direction, the other to the second.
Leads(a, b, direction) == \E i \in Nat : PartAt(a, b, i, direction)
Directions == {"right", "down"}
Divided(a, b) == \E direction \in Directions : Leads(a, b, direction) \/ Leads(b, a, direction)

\* The split at which two panes part, in arithmetic.
LEMMA PartsAt ==
  ASSUME NEW a \in Seq(Half), NEW b \in Seq(Half), NEW direction
  PROVE  (\E i \in DOMAIN a \cap DOMAIN b :
              /\ SubSeq(a, 1, i - 1) = SubSeq(b, 1, i - 1)
              /\ a[i] = <<direction, 0>> /\ b[i] = <<direction, 1>>)
         <=> Leads(a, b, direction)
<1>1. DOMAIN a = 1 .. Len(a) /\ DOMAIN b = 1 .. Len(b) /\ Len(a) \in Nat /\ Len(b) \in Nat
  OBVIOUS
<1>2. \A i \in DOMAIN a \cap DOMAIN b :
          SubSeq(a, 1, i - 1) = SubSeq(b, 1, i - 1) <=> \A k \in 1 .. i - 1 : a[k] = b[k]
  BY <1>1, SamePrefix
<1>3. ASSUME NEW i \in DOMAIN a \cap DOMAIN b
      PROVE  /\ i \in Nat
             /\ PartAt(a, b, i, direction) <=>
                  /\ SubSeq(a, 1, i - 1) = SubSeq(b, 1, i - 1)
                  /\ a[i] = <<direction, 0>> /\ b[i] = <<direction, 1>>
  BY <1>1, <1>2 DEF PartAt
<1>4. \A i \in Nat : PartAt(a, b, i, direction) => i \in DOMAIN a \cap DOMAIN b
  BY <1>1 DEF PartAt
<1>5. QED
  BY <1>3, <1>4 DEF Leads

\* Panes part as their paths do, before and after a step.
LEMMA PartsLeads ==
  ASSUME NEW p, NEW q, NEW direction
  PROVE  /\ at[p].path \in Seq(Half) /\ at[q].path \in Seq(Half) =>
               (Parts(p, q, direction) <=> Leads(at[p].path, at[q].path, direction))
         /\ at'[p].path \in Seq(Half) /\ at'[q].path \in Seq(Half) =>
               (Parts(p, q, direction)' <=> Leads(at'[p].path, at'[q].path, direction))
BY PartsAt DEF Parts

\* Two paths part once, in one direction and one way round.
LEMMA PartsOnce ==
  ASSUME NEW a, NEW b, NEW i \in Nat, NEW j \in Nat, NEW d, NEW e, PartAt(a, b, i, d)
  PROVE  /\ PartAt(a, b, j, e) => i = j /\ d = e
         /\ ~PartAt(b, a, j, e)
<1>1. <<d, 0>> # <<e, 1>> /\ (<<d, 0>> = <<e, 0>> => d = e)
  OBVIOUS
<1>2. i < j /\ 1 <= i => i \in 1 .. j - 1
  OBVIOUS
<1>3. j < i /\ 1 <= j => j \in 1 .. i - 1
  OBVIOUS
<1>4. QED
  BY <1>1, <1>2, <1>3 DEF PartAt

\* Two paths part in one direction only, and one way round.
LEMMA LeadsOnce ==
  ASSUME NEW a, NEW b, NEW d, NEW e, Leads(a, b, d)
  PROVE  (Leads(a, b, e) => d = e) /\ ~Leads(b, a, e)
BY PartsOnce DEF Leads

\* Paths that were divided stay as they were, if what held of them does.
LEMMA Carried ==
  ASSUME NEW a, NEW b, NEW c, NEW d, Divided(a, b),
         \A e \in Directions : (Leads(a, b, e) => Leads(c, d, e)) /\ (Leads(b, a, e) => Leads(d, c, e))
  PROVE  /\ Divided(c, d)
         /\ \A e \in Directions : (Leads(c, d, e) <=> Leads(a, b, e)) /\ (Leads(d, c, e) <=> Leads(b, a, e))
<1>1. Divided(c, d)
  BY DEF Divided
<1>2. PICK f \in Directions : Leads(a, b, f) \/ Leads(b, a, f)
  BY DEF Divided
<1>3. CASE Leads(a, b, f)
  BY <1>1, <1>3, LeadsOnce
<1>4. CASE Leads(b, a, f)
  BY <1>1, <1>4, LeadsOnce
<1>5. QED
  BY <1>2, <1>3, <1>4

\* A split adds a step to a path and divides its two halves.
LEMMA Grows ==
  ASSUME NEW a \in Seq(Half), NEW b \in Seq(Half), NEW h \in Half, NEW direction, Leads(a, b, direction)
  PROVE  Leads(Append(a, h), b, direction) /\ Leads(a, Append(b, h), direction)
<1>1. PICK i \in Nat : PartAt(a, b, i, direction)
  BY DEF Leads
<1>2. /\ Len(a) \in Nat /\ Len(Append(a, h)) = Len(a) + 1 /\ \A k \in 1 .. Len(a) : Append(a, h)[k] = a[k]
      /\ Len(b) \in Nat /\ Len(Append(b, h)) = Len(b) + 1 /\ \A k \in 1 .. Len(b) : Append(b, h)[k] = b[k]
  OBVIOUS
<1>3. \A k \in 1 .. i : k \in 1 .. Len(a) /\ k \in 1 .. Len(b)
  BY <1>1, <1>2 DEF PartAt
<1>4. 1 <= i /\ i \in 1 .. i /\ \A k \in 1 .. i - 1 : k \in 1 .. i
  BY <1>1, <1>2 DEF PartAt
<1>5. i \in 1 .. Len(a) + 1 /\ i \in 1 .. Len(b) + 1
  BY <1>1, <1>2 DEF PartAt
<1>6. PartAt(Append(a, h), b, i, direction) /\ PartAt(a, Append(b, h), i, direction)
  BY <1>1, <1>2, <1>3, <1>4, <1>5 DEF PartAt
<1>7. QED
  BY <1>6 DEF Leads

\* The two halves of a split part in its direction.
LEMMA Halves ==
  ASSUME NEW a \in Seq(Half), NEW direction \in Directions
  PROVE  Leads(Append(a, <<direction, 0>>), Append(a, <<direction, 1>>), direction)
<1> DEFINE x == Append(a, <<direction, 0>>)
           y == Append(a, <<direction, 1>>)
<1>1. /\ Len(a) \in Nat /\ Len(x) = Len(a) + 1 /\ Len(y) = Len(a) + 1
      /\ \A k \in 1 .. Len(a) : x[k] = y[k]
      /\ x[Len(a) + 1] = <<direction, 0>> /\ y[Len(a) + 1] = <<direction, 1>>
  BY DEF Directions, Half
<1> HIDE DEF x, y
<1>2. PartAt(x, y, Len(a) + 1, direction)
  BY <1>1 DEF PartAt
<1>3. QED
  BY <1>1, <1>2 DEF Leads, x, y

\* A closed pane's path, and what becomes of another one of its tab.
Heir(a, b) == IsPrefix(Sibling(a), b)
Collapsed(a, b) == IF Heir(a, b) THEN Front(a) \o SubSeq(b, Len(a) + 1, Len(b)) ELSE b

\* A path without its last split.
LEMMA FrontAt ==
  ASSUME NEW a \in Seq(Half), a # <<>>
  PROVE  /\ Front(a) \in Seq(Half) /\ Len(Front(a)) = Len(a) - 1
         /\ \A k \in 1 .. Len(a) - 1 : Front(a)[k] = a[k]
<1> DEFINE n == Len(a)
<1>1. n \in Nat /\ n >= 1 /\ \A i \in 1 .. n - 1 : a[i] \in Half
  OBVIOUS
<1>2. /\ SubSeq(a, 1, n - 1) \in Seq(Half)
      /\ Len(SubSeq(a, 1, n - 1)) = IF 1 <= n - 1 THEN (n - 1) - 1 + 1 ELSE 0
      /\ \A i \in 1 .. (n - 1) - 1 + 1 : SubSeq(a, 1, n - 1)[i] = a[1 + i - 1]
  BY <1>1, SubSeqProperties
<1> HIDE DEF n
<1>3. Front(a) = SubSeq(a, 1, n - 1)
  BY DEF Front, n
<1>4. Front(a) \in Seq(Half) /\ Len(Front(a)) = n - 1 /\ \A k \in 1 .. n - 1 : Front(a)[k] = a[k]
  BY <1>1, <1>2, <1>3
<1>5. QED
  BY <1>4 DEF n

\* An heir's path goes through the sibling of the closed leaf.
LEMMA HeirAt ==
  ASSUME NEW a \in Seq(Half), a # <<>>, NEW b \in Seq(Half)
  PROVE  Heir(a, b) <=> /\ Len(a) <= Len(b)
                        /\ \A k \in 1 .. Len(a) - 1 : b[k] = a[k]
                        /\ b[Len(a)] = <<a[Len(a)][1], 1 - a[Len(a)][2]>>
<1> DEFINE n == Len(a)
           s == Sibling(a)
<1>1. n \in Nat /\ n >= 1 /\ Len(b) \in Nat /\ a[n] \in Half
  OBVIOUS
<1>2. <<a[n][1], 1 - a[n][2]>> \in Half
  BY <1>1 DEF Half
<1>3. Front(a) \in Seq(Half) /\ Len(Front(a)) = n - 1 /\ \A k \in 1 .. n - 1 : Front(a)[k] = a[k]
  BY FrontAt
<1>4. s = Append(Front(a), <<a[n][1], 1 - a[n][2]>>)
  BY DEF Sibling, Last
<1> HIDE DEF n, s
<1>5. s \in Seq(Half) /\ Len(s) = n
  BY <1>1, <1>2, <1>3, <1>4
<1>6. (\A k \in 1 .. n - 1 : s[k] = a[k]) /\ s[n] = <<a[n][1], 1 - a[n][2]>>
  BY <1>1, <1>2, <1>3, <1>4
<1>7. Heir(a, b) <=> n <= Len(b) /\ SubSeq(s, 1, n) = SubSeq(b, 1, n)
  BY <1>5 DEF Heir, IsPrefix, s
<1>8. n <= Len(b) => (SubSeq(s, 1, n) = SubSeq(b, 1, n) <=> \A k \in 1 .. n : s[k] = b[k])
  BY <1>1, <1>5, SamePrefix
<1>9. (\A k \in 1 .. n : s[k] = b[k]) <=> (\A k \in 1 .. n - 1 : b[k] = a[k]) /\ b[n] = <<a[n][1], 1 - a[n][2]>>
  <2>1. \A k \in 1 .. n : k \in 1 .. n - 1 \/ k = n
    BY <1>1
  <2>2. (\A k \in 1 .. n - 1 : k \in 1 .. n) /\ n \in 1 .. n
    BY <1>1
  <2>3. QED
    BY <1>6, <2>1, <2>2
<1>10. QED
  BY <1>7, <1>8, <1>9 DEF n

\* An heir's path loses the split that closed, and nothing else.
LEMMA CollapsedAt ==
  ASSUME NEW a \in Seq(Half), a # <<>>, NEW b \in Seq(Half), Heir(a, b)
  PROVE  /\ Collapsed(a, b) \in Seq(Half) /\ Len(Collapsed(a, b)) = Len(b) - 1
         /\ \A k \in 1 .. Len(a) - 1 : Collapsed(a, b)[k] = b[k]
         /\ \A k \in Len(a) .. Len(b) - 1 : Collapsed(a, b)[k] = b[k + 1]
<1> DEFINE n == Len(a)
           f == Front(a)
           t == SubSeq(b, n + 1, Len(b))
<1>1. n \in Nat /\ n >= 1 /\ Len(b) \in Nat /\ n <= Len(b) /\ \A k \in 1 .. n - 1 : b[k] = a[k]
  BY HeirAt
<1>2. f \in Seq(Half) /\ Len(f) = n - 1 /\ \A k \in 1 .. n - 1 : f[k] = a[k]
  BY FrontAt
<1>3. t \in Seq(Half) /\ Len(t) = Len(b) - n /\ \A k \in 1 .. Len(b) - n : t[k] = b[n + k]
  BY <1>1
<1>4. Collapsed(a, b) = f \o t
  BY DEF Collapsed
<1> HIDE DEF n, f, t
<1>5. f \o t \in Seq(Half) /\ Len(f \o t) = Len(b) - 1
  <2>1. f \o t \in Seq(Half) /\ Len(f \o t) = Len(f) + Len(t)
    BY <1>2, <1>3, ConcatProperties
  <2>2. QED
    BY <1>1, <1>2, <1>3, <2>1
<1>6. \A k \in 1 .. n - 1 : (f \o t)[k] = b[k]
  BY <1>1, <1>2, <1>3
<1>7. ASSUME NEW k \in n .. Len(b) - 1 PROVE (f \o t)[k] = b[k + 1]
  <2>1. (f \o t)[k] = t[k - (n - 1)]
    BY <1>1, <1>2, <1>3
  <2>2. k - (n - 1) \in 1 .. Len(b) - n /\ n + (k - (n - 1)) = k + 1
    BY <1>1
  <2>3. QED
    BY <1>3, <2>1, <2>2
<1>8. QED
  BY <1>4, <1>5, <1>6, <1>7 DEF n

\* Where two paths part, they differ; a path that is divided from another is not above it.
LEMMA DividedDiffer ==
  ASSUME NEW a \in Seq(Half), NEW b \in Seq(Half), Divided(a, b)
  PROVE  \E k \in 1 .. Len(a) : k \in 1 .. Len(b) /\ a[k] # b[k]
<1>1. PICK d \in Directions, i \in Nat : PartAt(a, b, i, d) \/ PartAt(b, a, i, d)
  BY DEF Divided, Leads
<1>2. <<d, 0>> # <<d, 1>>
  OBVIOUS
<1>3. QED
  BY <1>1, <1>2 DEF PartAt

\* What an heir and a pane that is none part at lies above the closed split.
LEMMA PartsAbove ==
  ASSUME NEW a \in Seq(Half), a # <<>>, NEW b \in Seq(Half), NEW c \in Seq(Half),
         Heir(a, b), ~Heir(a, c), Divided(a, c), NEW i \in Nat, NEW direction \in Directions,
         PartAt(b, c, i, direction) \/ PartAt(c, b, i, direction)
  PROVE  i < Len(a)
<1> DEFINE n == Len(a)
<1>1. n \in Nat /\ n >= 1 /\ Len(b) \in Nat /\ Len(c) \in Nat
  OBVIOUS
<1>2. /\ n <= Len(b) /\ \A k \in 1 .. n - 1 : b[k] = a[k]
      /\ b[n] = <<a[n][1], 1 - a[n][2]>>
  BY HeirAt
<1>3. i >= 1 /\ i <= Len(b) /\ i <= Len(c) /\ \A k \in 1 .. i - 1 : b[k] = c[k]
  BY <1>1 DEF PartAt
<1>4. ~(n <= Len(c) /\ (\A k \in 1 .. n - 1 : c[k] = a[k]) /\ c[n] = <<a[n][1], 1 - a[n][2]>>)
  BY HeirAt
<1>5. PICK k \in 1 .. n : k \in 1 .. Len(c) /\ a[k] # c[k]
  BY DividedDiffer
<1> HIDE DEF n
<1>6. CASE i > n
  <2>1. (\A j \in 1 .. n - 1 : j \in 1 .. i - 1) /\ n \in 1 .. i - 1
    BY <1>1, <1>6
  <2>2. (\A j \in 1 .. n - 1 : c[j] = a[j]) /\ c[n] = b[n] /\ n <= Len(c)
    BY <1>1, <1>2, <1>3, <1>6, <2>1
  <2>3. QED
    BY <1>2, <1>4, <2>2
<1>7. CASE i = n
  <2>1. \A j \in 1 .. n - 1 : c[j] = a[j]
    BY <1>2, <1>3, <1>7
  <2>2. a[n] \in Half
    BY <1>1 DEF n
  <2>3. PICK x \in Directions, y \in {0, 1} : a[n] = <<x, y>>
    BY <2>2 DEF Half, Directions
  <2>4. b[n] = <<x, 1 - y>>
    BY <1>2, <2>3
  <2>5. \/ b[n] = <<direction, 0>> /\ c[n] = <<direction, 1>>
        \/ b[n] = <<direction, 1>> /\ c[n] = <<direction, 0>>
    BY <1>7 DEF PartAt
  <2>6. c[n] = a[n]
    BY <2>3, <2>4, <2>5
  <2>7. \A j \in 1 .. n : j \in 1 .. n - 1 \/ j = n
    BY <1>1
  <2>8. QED
    BY <1>5, <2>1, <2>6, <2>7
<1>8. QED
  BY <1>1, <1>6, <1>7 DEF n

\* Closing a pane leaves how the others part.
LEMMA CollapseKeeps ==
  ASSUME NEW a \in Seq(Half), a # <<>>, NEW b \in Seq(Half), NEW c \in Seq(Half),
         Divided(a, b), Divided(a, c), NEW direction \in Directions, Leads(b, c, direction)
  PROVE  Leads(Collapsed(a, b), Collapsed(a, c), direction)
<1> DEFINE n == Len(a)
<1>1. PICK i \in Nat : PartAt(b, c, i, direction)
  BY DEF Leads
<1>2. /\ i >= 1 /\ i <= Len(b) /\ i <= Len(c) /\ Len(b) \in Nat /\ Len(c) \in Nat
      /\ \A k \in 1 .. i - 1 : b[k] = c[k]
      /\ b[i] = <<direction, 0>> /\ c[i] = <<direction, 1>>
  BY <1>1 DEF PartAt
<1>3. n \in Nat /\ n >= 1
  OBVIOUS
<1>4. CASE Heir(a, b) /\ Heir(a, c)
  <2> DEFINE x == Collapsed(a, b)
             y == Collapsed(a, c)
  <2>1. /\ Len(x) = Len(b) - 1 /\ (\A k \in 1 .. n - 1 : x[k] = b[k])
        /\ \A k \in n .. Len(b) - 1 : x[k] = b[k + 1]
    BY <1>4, CollapsedAt
  <2>2. /\ Len(y) = Len(c) - 1 /\ (\A k \in 1 .. n - 1 : y[k] = c[k])
        /\ \A k \in n .. Len(c) - 1 : y[k] = c[k + 1]
    BY <1>4, CollapsedAt
  <2>3. /\ \A k \in 1 .. n - 1 : b[k] = a[k] /\ c[k] = a[k]
        /\ b[n] = c[n]
    BY <1>4, HeirAt
  <2> HIDE DEF x, y, n
  <2>4. b[i] # c[i]
    BY <1>2
  <2>5. i > n
    <3>1. i # n
      BY <2>3, <2>4
    <3>2. i < n => i \in 1 .. n - 1
      BY <1>2, <1>3
    <3>3. QED
      BY <1>2, <1>3, <2>3, <2>4, <3>1, <3>2
  <2>6. x[i - 1] = b[i] /\ y[i - 1] = c[i]
    <3>1. i - 1 \in n .. Len(b) - 1 /\ i - 1 \in n .. Len(c) - 1 /\ (i - 1) + 1 = i
      BY <1>2, <1>3, <2>5
    <3>2. QED
      BY <2>1, <2>2, <3>1
  <2>7. ASSUME NEW k \in 1 .. (i - 1) - 1 PROVE x[k] = y[k]
    <3>1. CASE k < n
      <4>1. k \in 1 .. n - 1
        BY <1>3, <3>1
      <4>2. QED
        BY <2>1, <2>2, <2>3, <4>1
    <3>2. CASE k >= n
      <4>1. k \in n .. Len(b) - 1 /\ k \in n .. Len(c) - 1 /\ k + 1 \in 1 .. i - 1
        BY <1>2, <1>3, <3>2
      <4>2. QED
        BY <1>2, <2>1, <2>2, <4>1
    <3>3. QED
      BY <1>3, <3>1, <3>2
  <2>8. i - 1 \in Nat /\ i - 1 \in 1 .. Len(x) /\ i - 1 \in 1 .. Len(y)
    BY <1>2, <1>3, <2>1, <2>2, <2>5
  <2>9. PartAt(x, y, i - 1, direction)
    BY <1>2, <2>6, <2>7, <2>8 DEF PartAt
  <2>10. QED
    BY <2>8, <2>9 DEF Leads, x, y
<1>5. CASE Heir(a, b) /\ ~Heir(a, c)
  <2> DEFINE x == Collapsed(a, b)
  <2>1. i < n
    BY <1>1, <1>5, PartsAbove
  <2>2. Len(x) = Len(b) - 1 /\ (\A k \in 1 .. n - 1 : x[k] = b[k]) /\ n <= Len(b)
    BY <1>5, CollapsedAt, HeirAt
  <2>3. Collapsed(a, c) = c
    BY <1>5 DEF Collapsed
  <2> HIDE DEF x, n
  <2>4. \A k \in 1 .. i : k \in 1 .. n - 1
    BY <1>3, <2>1
  <2>5. i \in 1 .. i /\ \A k \in 1 .. i - 1 : k \in 1 .. i
    BY <1>2
  <2>6. i \in 1 .. Len(x) /\ i \in 1 .. Len(c)
    BY <1>2, <1>3, <2>1, <2>2
  <2>7. PartAt(x, c, i, direction)
    BY <1>2, <2>2, <2>4, <2>5, <2>6 DEF PartAt
  <2>8. QED
    BY <2>3, <2>7 DEF Leads, x
<1>6. CASE ~Heir(a, b) /\ Heir(a, c)
  <2> DEFINE y == Collapsed(a, c)
  <2>1. i < n
    BY <1>1, <1>6, PartsAbove
  <2>2. Len(y) = Len(c) - 1 /\ (\A k \in 1 .. n - 1 : y[k] = c[k]) /\ n <= Len(c)
    BY <1>6, CollapsedAt, HeirAt
  <2>3. Collapsed(a, b) = b
    BY <1>6 DEF Collapsed
  <2> HIDE DEF y, n
  <2>4. \A k \in 1 .. i : k \in 1 .. n - 1
    BY <1>3, <2>1
  <2>5. i \in 1 .. i /\ \A k \in 1 .. i - 1 : k \in 1 .. i
    BY <1>2
  <2>6. i \in 1 .. Len(y) /\ i \in 1 .. Len(b)
    BY <1>2, <1>3, <2>1, <2>2
  <2>7. PartAt(b, y, i, direction)
    BY <1>2, <2>2, <2>4, <2>5, <2>6 DEF PartAt
  <2>8. QED
    BY <2>3, <2>7 DEF Leads, y
<1>7. CASE ~Heir(a, b) /\ ~Heir(a, c)
  BY <1>7 DEF Collapsed
<1>8. QED
  BY <1>4, <1>5, <1>6, <1>7

-----------------------------------------------------------------------------
(* Herdr's splits and closes.                                              *)

LEMMA Repathed ==
  ASSUME NEW r, NEW b, r = [tab |-> r.tab, path |-> r.path]
  PROVE  [r EXCEPT !.path = b] = [tab |-> r.tab, path |-> b]
<1>1. r \in [tab: {r.tab}, path: {r.path, b}]
  OBVIOUS
<1>2. [r EXCEPT !.path = b] \in [tab: {r.tab}, path: {r.path, b}]
  BY <1>1
<1>3. [r EXCEPT !.path = b].tab = r.tab /\ [r EXCEPT !.path = b].path = b
  BY <1>1
<1>4. QED
  BY <1>2, <1>3

\* A new pane parts from the others as the pane it was split from does.
LEMMA Splits ==
  ASSUME Trees, Listing, NEW p \in DOMAIN at, NEW direction \in Directions,
         NEW new \in PaneIds, new \notin DOMAIN at, at' = Split(p, direction, new)
  PROVE  /\ Trees'
         /\ DOMAIN at' = DOMAIN at \cup {new}
         /\ \A q \in DOMAIN at' : at'[q] \in [tab: Tabs, path: Seq(Half)]
         /\ at'[new].tab = at[p].tab /\ \A q \in DOMAIN at : at'[q].tab = at[q].tab
         /\ \A q, r \in DOMAIN at, e \in Directions :
               q # r /\ at[q].tab = at[r].tab => (Parts(q, r, e)' <=> Parts(q, r, e))
         /\ \A r \in DOMAIN at, e \in Directions : r # p /\ at[r].tab = at[p].tab =>
               (Parts(new, r, e)' <=> Parts(p, r, e)) /\ (Parts(r, new, e)' <=> Parts(r, p, e))
         /\ \A e \in Directions : (Parts(p, new, e)' => e = direction) /\ ~Parts(new, p, e)'
         /\ \A q \in DOMAIN at', e \in Directions : ~Parts(q, q, e)'
<1> DEFINE a(q) == at[q].path
           b(q) == at'[q].path
           x == <<direction, 0>>
           y == <<direction, 1>>
<1>1. \A q \in DOMAIN at : /\ at[q] = [tab |-> at[q].tab, path |-> a(q)]
                           /\ at[q].tab \in Tabs /\ a(q) \in Seq(Half)
  BY DEF Listing
<1>2. x \in Half /\ y \in Half
  BY DEF Half, Directions
<1>3. /\ DOMAIN at' = DOMAIN at \cup {new}
      /\ at'[p] = [tab |-> at[p].tab, path |-> Append(a(p), x)]
      /\ at'[new] = [tab |-> at[p].tab, path |-> Append(a(p), y)]
      /\ \A q \in DOMAIN at \ {p} : at'[q] = at[q]
  <2>1. [at[p] EXCEPT !.path = Append(at[p].path, x)] = [tab |-> at[p].tab, path |-> Append(a(p), x)]
    BY <1>1, Repathed
  <2>2. [at[p] EXCEPT !.path = Append(at[p].path, y)] = [tab |-> at[p].tab, path |-> Append(a(p), y)]
    BY <1>1, Repathed
  <2>3. at' = [q \in DOMAIN at \cup {new} |->
                  IF q = p THEN [tab |-> at[p].tab, path |-> Append(a(p), x)]
                  ELSE IF q = new THEN [tab |-> at[p].tab, path |-> Append(a(p), y)]
                  ELSE at[q]]
    BY <2>1, <2>2 DEF Split
  <2>4. QED
    BY <2>3
<1>4. \A q \in DOMAIN at' : at'[q] \in [tab: Tabs, path: Seq(Half)] /\ b(q) \in Seq(Half)
  <2>1. Append(a(p), x) \in Seq(Half) /\ Append(a(p), y) \in Seq(Half)
    BY <1>1, <1>2
  <2>2. QED
    <3>1. ASSUME NEW q \in DOMAIN at'
          PROVE  \E w \in Seq(Half) : \E t \in Tabs : at'[q] = [tab |-> t, path |-> w]
      BY <1>1, <1>3, <2>1
    <3>2. QED
      BY <3>1
<1>5. /\ b(p) = Append(a(p), x) /\ b(new) = Append(a(p), y)
      /\ \A q \in DOMAIN at \ {p} : b(q) = a(q)
      /\ at'[new].tab = at[p].tab /\ \A q \in DOMAIN at : at'[q].tab = at[q].tab
  BY <1>3
<1>6. \A q, r \in DOMAIN at : q # r /\ at[q].tab = at[r].tab => Divided(a(q), a(r))
  BY <1>1, PartsLeads DEF Trees, Divided, Directions
<1> HIDE DEF a, b, x, y
<1>7. ASSUME NEW q \in DOMAIN at, NEW r \in DOMAIN at, q # r, at[q].tab = at[r].tab
      PROVE  /\ Divided(b(q), b(r))
             /\ \A e \in Directions : Leads(b(q), b(r), e) <=> Leads(a(q), a(r), e)
  <2>1. b(q) = a(q) \/ b(q) = Append(a(q), x)
    BY <1>5
  <2>2. b(r) = a(r) \/ b(r) = Append(a(r), x)
    BY <1>5
  <2>3. b(q) = a(q) \/ b(r) = a(r)
    BY <1>5, <1>7
  <2>4. \A e \in Directions :
            (Leads(a(q), a(r), e) => Leads(b(q), b(r), e)) /\ (Leads(a(r), a(q), e) => Leads(b(r), b(q), e))
    BY <1>1, <1>2, <2>1, <2>2, <2>3, Grows
  <2>5. Divided(a(q), a(r))
    BY <1>6, <1>7
  <2>6. QED
    <3>1. /\ Divided(b(q), b(r))
          /\ \A e \in Directions : /\ Leads(b(q), b(r), e) <=> Leads(a(q), a(r), e)
                                   /\ Leads(b(r), b(q), e) <=> Leads(a(r), a(q), e)
      BY <2>4, <2>5, Carried
    <3>2. QED
      BY <3>1
<1>8. ASSUME NEW r \in DOMAIN at, r # p, at[r].tab = at[p].tab
      PROVE  /\ Divided(b(new), b(r))
             /\ \A e \in Directions : /\ Leads(b(new), b(r), e) <=> Leads(a(p), a(r), e)
                                      /\ Leads(b(r), b(new), e) <=> Leads(a(r), a(p), e)
  <2>1. b(r) = a(r) /\ b(new) = Append(a(p), y)
    BY <1>5, <1>8
  <2>2. \A e \in Directions :
            /\ Leads(a(p), a(r), e) => Leads(b(new), b(r), e)
            /\ Leads(a(r), a(p), e) => Leads(b(r), b(new), e)
    BY <1>1, <1>2, <2>1, Grows
  <2>3. Divided(a(p), a(r))
    BY <1>6, <1>8
  <2>4. QED
    BY <2>2, <2>3, Carried
<1>9. Leads(b(p), b(new), direction)
  BY <1>1, <1>5, Halves DEF x, y
<1>10. Divided(b(p), b(new)) /\ \A e \in Directions : (Leads(b(p), b(new), e) => e = direction) /\ ~Leads(b(new), b(p), e)
  BY <1>9, LeadsOnce DEF Divided
<1>11. \A q, r \in DOMAIN at', e \in Directions : Parts(q, r, e)' <=> Leads(b(q), b(r), e)
  BY <1>4, PartsLeads DEF b
<1>12. \A q, r \in DOMAIN at, e \in Directions : Parts(q, r, e) <=> Leads(a(q), a(r), e)
  BY <1>1, PartsLeads DEF a
<1>13. ASSUME NEW q \in DOMAIN at', NEW r \in DOMAIN at', q # r, at'[q].tab = at'[r].tab
       PROVE  Divided(b(q), b(r))
  <2>1. \A c, d : Divided(c, d) => Divided(d, c)
    BY DEF Divided
  <2>2. QED
    BY <1>3, <1>5, <1>7, <1>8, <1>10, <1>13, <2>1
<1>14. Trees'
  BY <1>11, <1>13 DEF Trees, Divided, Directions
<1>15. p \in DOMAIN at' /\ new \in DOMAIN at' /\ \A q \in DOMAIN at : q \in DOMAIN at'
  BY <1>3
<1>16. \A q, r \in DOMAIN at, e \in Directions :
           q # r /\ at[q].tab = at[r].tab => (Parts(q, r, e)' <=> Parts(q, r, e))
  BY <1>7, <1>11, <1>12, <1>15
<1>17. \A r \in DOMAIN at, e \in Directions : r # p /\ at[r].tab = at[p].tab =>
           (Parts(new, r, e)' <=> Parts(p, r, e)) /\ (Parts(r, new, e)' <=> Parts(r, p, e))
  BY <1>8, <1>11, <1>12, <1>15
<1>18. \A q \in DOMAIN at', e \in Directions : ~Parts(q, q, e)'
  BY <1>11, LeadsOnce
<1>19. QED
  BY <1>3, <1>4, <1>5, <1>10, <1>11, <1>14, <1>15, <1>16, <1>17, <1>18 DEF b

\* A closed pane leaves how the others part.
LEMMA Closes ==
  ASSUME Trees, Listing, NEW p \in DOMAIN at, at' = Close(p)
  PROVE  /\ Trees'
         /\ DOMAIN at' = DOMAIN at \ {p}
         /\ \A q \in DOMAIN at' : /\ at'[q] \in [tab: Tabs, path: Seq(Half)]
                                  /\ at'[q].tab = at[q].tab
         /\ \A q, r \in DOMAIN at', e \in Directions :
               q # r /\ at[q].tab = at[r].tab => (Parts(q, r, e)' <=> Parts(q, r, e))
         /\ \A q \in DOMAIN at', e \in Directions : ~Parts(q, q, e)'
<1> DEFINE a(q) == at[q].path
           b(q) == at'[q].path
           Heirs == {q \in DOMAIN at : a(p) # <<>> /\ at[q].tab = at[p].tab /\ Heir(a(p), a(q))}
<1>1. \A q \in DOMAIN at : /\ at[q] = [tab |-> at[q].tab, path |-> a(q)]
                           /\ at[q].tab \in Tabs /\ a(q) \in Seq(Half)
  BY DEF Listing
<1>2. /\ DOMAIN at' = DOMAIN at \ {p}
      /\ \A q \in DOMAIN at \ {p} :
            at'[q] = IF q \in Heirs
                     THEN [tab |-> at[q].tab, path |-> Collapsed(a(p), a(q))] ELSE at[q]
  <2>1. \A q \in Heirs :
            [at[q] EXCEPT !.path = Front(a(p)) \o SubSeq(at[q].path, Len(a(p)) + 1, Len(at[q].path))]
            = [tab |-> at[q].tab, path |-> Collapsed(a(p), a(q))]
    BY <1>1, Repathed DEF Collapsed
  <2>2. at' = [q \in DOMAIN at \ {p} |->
                  IF q \in Heirs
                  THEN [at[q] EXCEPT !.path = Front(a(p)) \o SubSeq(at[q].path, Len(a(p)) + 1, Len(at[q].path))]
                  ELSE at[q]]
    BY DEF Close, Heir
  <2>3. QED
    BY <2>1, <2>2
<1>3. \A q \in DOMAIN at' : /\ at'[q] \in [tab: Tabs, path: Seq(Half)]
                            /\ at'[q].tab = at[q].tab /\ b(q) \in Seq(Half)
  <2>1. \A q \in Heirs : Collapsed(a(p), a(q)) \in Seq(Half)
    BY <1>1, CollapsedAt
  <2>2. QED
    BY <1>1, <1>2, <2>1
<1>4. ASSUME NEW q \in DOMAIN at \ {p}, a(p) # <<>>, at[q].tab = at[p].tab
      PROVE  b(q) = Collapsed(a(p), a(q))
  <2>1. CASE Heir(a(p), a(q))
    <3>1. q \in Heirs
      BY <1>4, <2>1
    <3>2. at'[q] = [tab |-> at[q].tab, path |-> Collapsed(a(p), a(q))]
      BY <1>2, <3>1
    <3>3. QED
      BY <3>2
  <2>2. CASE ~Heir(a(p), a(q))
    <3>1. q \notin Heirs
      BY <2>2
    <3>2. at'[q] = at[q]
      BY <1>2, <3>1
    <3>3. QED
      BY <2>2, <3>2 DEF Collapsed
  <2>3. QED
    BY <2>1, <2>2
<1>5. \A q \in DOMAIN at \ {p} : a(p) = <<>> \/ at[q].tab # at[p].tab => b(q) = a(q)
  BY <1>2
<1>6. \A q, r \in DOMAIN at : q # r /\ at[q].tab = at[r].tab => Divided(a(q), a(r))
  BY <1>1, PartsLeads DEF Trees, Divided, Directions
<1> HIDE DEF a, b, Heirs
<1>7. ASSUME NEW q \in DOMAIN at', NEW r \in DOMAIN at', q # r, at[q].tab = at[r].tab
      PROVE  /\ Divided(b(q), b(r))
             /\ \A e \in Directions : Leads(b(q), b(r), e) <=> Leads(a(q), a(r), e)
  <2>1. q \in DOMAIN at \ {p} /\ r \in DOMAIN at \ {p}
    BY <1>2
  <2>2. Divided(a(q), a(r))
    BY <1>6, <1>7, <2>1
  <2>3. CASE a(p) = <<>> \/ at[q].tab # at[p].tab
    BY <1>5, <1>7, <2>1, <2>2, <2>3
  <2>4. CASE a(p) # <<>> /\ at[q].tab = at[p].tab
    <3>1. Divided(a(p), a(q)) /\ Divided(a(p), a(r))
      BY <1>6, <1>7, <2>1, <2>4
    <3>2. b(q) = Collapsed(a(p), a(q)) /\ b(r) = Collapsed(a(p), a(r))
      BY <1>4, <1>7, <2>1, <2>4
    <3>3. \A e \in Directions : /\ Leads(a(q), a(r), e) => Leads(b(q), b(r), e)
                                /\ Leads(a(r), a(q), e) => Leads(b(r), b(q), e)
      BY <1>1, <2>1, <2>4, <3>1, <3>2, CollapseKeeps
    <3>4. QED
      <4>1. /\ Divided(b(q), b(r))
            /\ \A e \in Directions : /\ Leads(b(q), b(r), e) <=> Leads(a(q), a(r), e)
                                     /\ Leads(b(r), b(q), e) <=> Leads(a(r), a(q), e)
        BY <2>2, <3>3, Carried
      <4>2. QED
        BY <4>1
  <2>5. QED
    BY <2>3, <2>4
<1>8. \A q, r \in DOMAIN at', e \in Directions : Parts(q, r, e)' <=> Leads(b(q), b(r), e)
  BY <1>3, PartsLeads DEF b
<1>9. \A q, r \in DOMAIN at, e \in Directions : Parts(q, r, e) <=> Leads(a(q), a(r), e)
  BY <1>1, PartsLeads DEF a
<1>10. Trees'
  BY <1>3, <1>7, <1>8 DEF Trees, Divided, Directions
<1>11. \A q, r \in DOMAIN at', e \in Directions :
           q # r /\ at[q].tab = at[r].tab => (Parts(q, r, e)' <=> Parts(q, r, e))
  BY <1>2, <1>7, <1>8, <1>9
<1>12. \A q \in DOMAIN at', e \in Directions : ~Parts(q, q, e)'
  BY <1>8, LeadsOnce
<1>13. QED
  BY <1>2, <1>3, <1>10, <1>11, <1>12

-----------------------------------------------------------------------------
(* Columns and what the roster counts in them.                             *)

\* A declared shape has a first column, and columns of one pane or more.
LEMMA Shapes ==
  ASSUME NEW tab
  PROVE  /\ Len(shape(tab)) \in Nat /\ DOMAIN shape(tab) = 1 .. Len(shape(tab)) /\ 1 \in DOMAIN shape(tab)
         /\ \A column \in DOMAIN shape(tab) : shape(tab)[column] \in Nat /\ shape(tab)[column] >= 1
         /\ shape(CaptainTab)[1] = 1
BY PlacementAssumption DEF shape

\* What a column holds is finite and counted.
LEMMA Counts ==
  ASSUME Listing, NEW tab, NEW column
  PROVE  /\ occupancy(tab, column) \subseteq roster /\ IsFiniteSet(occupancy(tab, column))
         /\ count(tab, column) \in Nat
         /\ count(tab, column) = 0 <=> occupancy(tab, column) = {}
         /\ nextRow(tab, column) \in Nat /\ nextRow(tab, column) > count(tab, column)
<1>1. occupancy(tab, column) \subseteq roster /\ IsFiniteSet(roster)
  BY DEF occupancy, active, Listing
<1>2. IsFiniteSet(occupancy(tab, column))
  BY <1>1, FS_Subset
<1>3. count(tab, column) \in Nat /\ (count(tab, column) = 0 <=> occupancy(tab, column) = {})
  BY <1>2, FS_CardinalityType, FS_EmptySet DEF count
<1>4. QED
  BY <1>1, <1>2, <1>3 DEF nextRow

\* Two crew make a stack.
LEMMA Stacked ==
  ASSUME Listing, NEW tab, NEW column, NEW c \in occupancy(tab, column), NEW d \in occupancy(tab, column), c # d
  PROVE  count(tab, column) > 1
<1>1. IsFiniteSet(occupancy(tab, column)) /\ {c, d} \subseteq occupancy(tab, column)
  BY Counts
<1>2. IsFiniteSet({c}) /\ Cardinality({c}) = 1
  BY FS_Singleton
<1>3. IsFiniteSet({c} \cup {d}) /\ Cardinality({c} \cup {d}) = 2
  <2>1. d \notin {c}
    OBVIOUS
  <2>2. Cardinality({c} \cup {d}) = Cardinality({c}) + 1 /\ IsFiniteSet({c} \cup {d})
    BY <1>2, <2>1, FS_AddElement
  <2>3. QED
    BY <1>2, <2>2
<1>4. Cardinality({c} \cup {d}) <= Cardinality(occupancy(tab, column))
  BY <1>1, <1>3, FS_Subset
<1>5. QED
  BY <1>3, <1>4, Counts DEF count

\* The captain has column 1 of its tab to itself.
LEMMA CaptainAlone == ASSUME Listing, Room PROVE occupancy(CaptainTab, 1) = {}
<1>1. nextRow(CaptainTab, 1) <= shape(CaptainTab)[1] + 1
  BY Shapes DEF Room, CaptainTab, Tabs, Listing
<1>2. QED
  BY <1>1, Shapes, Counts DEF nextRow

\* A set of numbers has a least one; a bounded one, a greatest.
LEMMA LeastNat ==
  ASSUME NEW S \in SUBSET Nat, S # {} PROVE \E m \in S : \A k \in S : m <= k
<1>1. IsWellFoundedOn(OpToRel(<, Nat), Nat)
  BY NatLessThanWellFounded
<1>2. PICK m \in S : \A k \in S : ~ (<<k, m>> \in OpToRel(<, Nat))
  BY <1>1, WFMin
<1>3. \A k \in S : ~(k < m)
  BY <1>2 DEF OpToRel
<1>4. QED
  BY <1>3

LEMMA GreatestNat ==
  ASSUME NEW S \in SUBSET Nat, S # {}, NEW n \in Nat, \A k \in S : k <= n
  PROVE  \E m \in S : \A k \in S : k <= m
<1> DEFINE T == {n - k : k \in S}
<1>1. T \in SUBSET Nat /\ T # {}
  <2>1. \A k \in S : k \in Nat /\ k <= n
    OBVIOUS
  <2>2. \A k \in S : n - k \in Nat
    BY <2>1
  <2>3. QED
    BY <2>2
<1>2. PICK t \in T : \A k \in T : t <= k
  BY <1>1, LeastNat
<1>3. PICK m \in S : t = n - m
  BY <1>2
<1>4. \A k \in S : n - k \in T
  OBVIOUS
<1>5. \A k \in S : n - m <= n - k
  BY <1>2, <1>3, <1>4
<1>6. QED
  BY <1>5

\* The next slot is the first of the free ones, if there is any.
LEMMA NextSlot ==
  ASSUME Listing, NEW tab, free(tab) # {}
  PROVE  /\ next_slot(tab) \in free(tab)
         /\ \A other \in free(tab) : nextRow(tab, next_slot(tab)) <= nextRow(tab, other)
<1> DEFINE rows == {nextRow(tab, column) : column \in free(tab)}
<1>1. free(tab) \subseteq Nat
  BY Shapes DEF free
<1>2. \A column : nextRow(tab, column) \in Nat
  BY Counts
<1>3. PICK row \in rows : \A other \in rows : row <= other
  BY <1>2, LeastNat
<1> DEFINE firsts == {column \in free(tab) : nextRow(tab, column) = row}
<1>4. firsts \in SUBSET Nat /\ firsts # {}
  BY <1>1, <1>3
<1>5. PICK first \in firsts : \A other \in firsts : first <= other
  BY <1>4, LeastNat
<1>6. \A other \in free(tab) : \/ nextRow(tab, first) < nextRow(tab, other)
                               \/ nextRow(tab, first) = nextRow(tab, other) /\ first <= other
  <2>1. ASSUME NEW other \in free(tab)
        PROVE  \/ nextRow(tab, first) < nextRow(tab, other)
               \/ nextRow(tab, first) = nextRow(tab, other) /\ first <= other
    <3>1. row <= nextRow(tab, other) /\ nextRow(tab, first) = row
      BY <1>3, <1>5
    <3>2. nextRow(tab, other) = row => first <= other
      BY <1>5
    <3>3. QED
      BY <1>2, <3>1, <3>2
  <2>2. QED
    BY <2>1
<1>7. first \in free(tab)
  BY <1>5
<1> HIDE DEF rows, firsts
<1>8. next_slot(tab) \in free(tab) /\ \A other \in free(tab) :
          \/ nextRow(tab, next_slot(tab)) < nextRow(tab, other)
          \/ nextRow(tab, next_slot(tab)) = nextRow(tab, other) /\ next_slot(tab) <= other
  BY <1>6, <1>7 DEF next_slot
<1>9. QED
  BY <1>2, <1>8

\* A crew's panes in a column, by row and by name.
LEMMA TopOf ==
  ASSUME Listing, NEW crew \in SUBSET roster, crew # {}
  PROVE  \E c \in crew : Top(crew) = c.pane
<1>1. \A c \in crew : c.row \in Nat /\ c.pane \in Nat
  BY DEF Listing, PaneIds
<1>2. PICK row \in {c.row : c \in crew} : \A c \in crew : row <= c.row
  <2> DEFINE rows == {c.row : c \in crew}
  <2>1. rows \in SUBSET Nat /\ rows # {}
    BY <1>1
  <2>2. \A c \in crew : c.row \in rows
    OBVIOUS
  <2> HIDE DEF rows
  <2>3. PICK row \in rows : \A k \in rows : row <= k
    BY <2>1, LeastNat
  <2>4. QED
    BY <2>2, <2>3 DEF rows
<1>3. PICK pane \in {c.pane : c \in {d \in crew : d.row = row}} : \A c \in crew : c.row = row => pane <= c.pane
  <2> DEFINE panes == {c.pane : c \in {d \in crew : d.row = row}}
  <2>1. panes \in SUBSET Nat
    BY <1>1
  <2>2. panes # {}
    BY <1>2
  <2>3. \A c \in crew : c.row = row => c.pane \in panes
    OBVIOUS
  <2> HIDE DEF panes
  <2>4. PICK pane \in panes : \A k \in panes : pane <= k
    BY <2>1, <2>2, LeastNat
  <2>5. QED
    BY <2>3, <2>4 DEF panes
<1>4. PICK c \in crew : c.row = row /\ c.pane = pane
  BY <1>3
<1>5. \A d \in crew \ {c} : d.pane # c.pane
  BY DEF Listing
<1>6. \A d \in crew \ {c} : Above(c, d)
  BY <1>1, <1>2, <1>3, <1>4, <1>5 DEF Above
<1>7. QED
  BY <1>6 DEF Top

\* The bottom of a column is the pane of the greatest row.
LEMMA BottomOf ==
  ASSUME Listing, NEW crew \in SUBSET roster, crew # {}, NEW n \in Nat, \A c \in crew : c.row <= n
  PROVE  \E c \in crew : Bottom(crew) = c.pane /\ \A d \in crew : d.row <= c.row
<1>1. \A c \in crew : c.row \in Nat /\ c.pane \in Nat /\ c.pane <= MaxPane
  BY PlacementAssumption DEF Listing, PaneIds
<1>2. PICK row \in {c.row : c \in crew} : \A c \in crew : c.row <= row
  <2>1. {c.row : c \in crew} \in SUBSET Nat /\ {c.row : c \in crew} # {} /\ \A k \in {c.row : c \in crew} : k <= n
    BY <1>1
  <2>2. QED
    BY <2>1, GreatestNat
<1>3. PICK pane \in {c.pane : c \in {d \in crew : d.row = row}} : \A c \in crew : c.row = row => c.pane <= pane
  <2> DEFINE panes == {c.pane : c \in {d \in crew : d.row = row}}
  <2>1. panes \in SUBSET Nat /\ \A k \in panes : k <= MaxPane
    BY <1>1
  <2>2. panes # {}
    BY <1>2
  <2>3. \A c \in crew : c.row = row => c.pane \in panes
    OBVIOUS
  <2> HIDE DEF panes
  <2>4. PICK pane \in panes : \A k \in panes : k <= pane
    BY <2>1, <2>2, GreatestNat, PlacementAssumption
  <2>5. QED
    BY <2>3, <2>4 DEF panes
<1>4. PICK c \in crew : c.row = row /\ c.pane = pane
  BY <1>3
<1>5. \A d \in crew \ {c} : d.pane # c.pane
  BY DEF Listing
<1>6. \A d \in crew \ {c} : Above(d, c)
  BY <1>1, <1>2, <1>3, <1>4, <1>5 DEF Above
<1>7. \A e \in crew : (\A d \in crew \ {e} : Above(d, e)) => e = c
  BY <1>1, <1>6 DEF Above
<1>8. Bottom(crew) = c.pane
  BY <1>6, <1>7 DEF Bottom
<1>9. QED
  BY <1>2, <1>4, <1>8

\* A slot resolved from the roster has room, and splits a pane of the column it is meant for.
LEMMA SlotFits ==
  ASSUME Listing, Room, Grown, NEW tab \in Tabs, free(tab) # {},
         NEW column, column = next_slot(tab), NEW pane, NEW direction,
         split_for(tab, column) = <<pane, direction>>
  PROVE  /\ column \in DOMAIN shape(tab) /\ column \in Nat \ {ByHand}
         /\ nextRow(tab, column) \in Nat /\ nextRow(tab, column) <= shape(tab)[column]
         /\ pane \in DOMAIN at /\ at[pane].tab = tab
         /\ \/ /\ direction = "down" /\ \E c \in occupancy(tab, column) : c.pane = pane
               /\ \A c, d \in occupancy(tab, column) : c.pane = pane => d.row <= c.row
               /\ tab \notin churned /\ column + 1 \in DOMAIN shape(tab) => count(tab, column + 1) > 0
            \/ /\ direction = "right" /\ column > 1 /\ count(tab, column) = 0
               /\ \/ \E c \in occupancy(tab, column - 1) : c.pane = pane
                  \/ pane = Captain /\ tab = CaptainTab /\ column - 1 = 1
               /\ tab \notin churned => count(tab, column - 1) < 2
<1>1. /\ column \in DOMAIN shape(tab) /\ nextRow(tab, column) <= shape(tab)[column]
      /\ is_open(tab, column) \/ (column > 1 /\ is_open(tab, column - 1))
      /\ \A other \in free(tab) : nextRow(tab, column) <= nextRow(tab, other)
  BY NextSlot DEF free
<1>2. column \in Nat /\ column >= 1
  BY <1>1, Shapes
<1>3. \A k : /\ count(tab, k) \in Nat /\ (count(tab, k) = 0 <=> occupancy(tab, k) = {})
             /\ nextRow(tab, k) \in Nat /\ nextRow(tab, k) > count(tab, k)
  BY Counts
<1>4. ASSUME tab = CaptainTab, column = 1 PROVE FALSE
  <2>1. shape(tab)[column] = 1
    BY <1>4, Shapes
  <2>2. nextRow(tab, column) = count(tab, column) + 2 /\ count(tab, column) \in Nat
    BY <1>4, Counts DEF nextRow
  <2>3. QED
    BY <1>1, <2>1, <2>2
<1>5. \A k : occupancy(tab, k) \in SUBSET roster
  BY Counts
<1>6. \A k, c : c \in occupancy(tab, k) => c.pane \in DOMAIN at /\ at[c.pane].tab = tab
  BY DEF occupancy, active
<1>7. CASE count(tab, column) > 0
  <2>1. occupancy(tab, column) # {} /\ occupancy(tab, column) \in SUBSET roster
    BY <1>3, <1>5, <1>7
  <2>2. shape(tab)[column] \in Nat /\ \A c \in occupancy(tab, column) : c.row <= shape(tab)[column]
    <3>1. \A c \in occupancy(tab, column) : c \in roster /\ c.tab = tab /\ c.column = column
      BY DEF occupancy, active
    <3>2. QED
      BY <1>1, <1>2, <3>1, Shapes DEF Listing, ByHand
  <2>3. PICK c \in occupancy(tab, column) :
            Bottom(occupancy(tab, column)) = c.pane /\ \A d \in occupancy(tab, column) : d.row <= c.row
    BY <2>1, <2>2, BottomOf
  <2>4. pane = c.pane /\ direction = "down"
    BY <1>7, <2>3 DEF split_for
  <2>5. \A e, d \in occupancy(tab, column) : e.pane = pane => d.row <= e.row
    BY <2>1, <2>3, <2>4 DEF Listing
  <2>6. ASSUME column + 1 \in DOMAIN shape(tab), ~(count(tab, column + 1) > 0) PROVE FALSE
    <3>1. count(tab, column + 1) = 0 /\ column + 1 > 1 /\ (column + 1) - 1 = column /\ column + 1 # 1
      BY <1>2, <1>3, <2>6
    <3>2. nextRow(tab, column + 1) = 1
      BY <3>1 DEF nextRow
    <3>3. column + 1 \in free(tab)
      BY <1>7, <2>6, <3>1, <3>2, Shapes DEF free, is_open
    <3>4. nextRow(tab, column) <= 1
      BY <1>1, <3>2, <3>3
    <3>5. QED
      BY <1>3, <1>7, <3>4
  <2>7. QED
    BY <1>1, <1>2, <1>3, <1>6, <2>3, <2>4, <2>5, <2>6 DEF ByHand
<1>8. CASE ~(count(tab, column) > 0)
  <2>1. count(tab, column) = 0
    BY <1>3, <1>8
  <2>2. column > 1 /\ is_open(tab, column - 1)
    BY <1>1, <1>2, <1>4, <2>1 DEF is_open
  <2>3. direction = "right" /\ ((\E c \in occupancy(tab, column - 1) : c.pane = pane) \/
                                (pane = Captain /\ tab = CaptainTab /\ column - 1 = 1))
    <3>1. CASE count(tab, column - 1) > 0
      <4>1. occupancy(tab, column - 1) # {} /\ occupancy(tab, column - 1) \in SUBSET roster
        BY <1>3, <1>5, <3>1
      <4>2. PICK c \in occupancy(tab, column - 1) : Top(occupancy(tab, column - 1)) = c.pane
        BY <4>1, TopOf
      <4>3. QED
        BY <2>1, <2>2, <3>1, <4>2 DEF split_for
    <3>2. CASE ~(count(tab, column - 1) > 0)
      <4>1. column - 1 = 1 /\ tab = CaptainTab
        BY <2>2, <3>2 DEF is_open
      <4>2. QED
        BY <2>1, <2>2, <3>2, <4>1 DEF split_for
    <3>3. QED
      BY <3>1, <3>2
  <2>4. pane \in DOMAIN at /\ at[pane].tab = tab
    BY <1>6, <2>3 DEF Listing
  <2>5. ASSUME tab \notin churned, ~(count(tab, column - 1) < 2) PROVE FALSE
    <3>1. column - 1 \in DOMAIN shape(tab) /\ (column - 1) + 1 = column
      BY <1>1, <1>2, <2>2, Shapes
    <3>2. count(tab, column - 1) > 1
      BY <1>3, <2>5
    <3>3. QED
      BY <1>1, <2>1, <2>5, <3>1, <3>2 DEF Grown
  <2>6. QED
    BY <1>1, <1>2, <1>3, <2>1, <2>2, <2>3, <2>4, <2>5 DEF ByHand
<1>9. QED
  BY <1>7, <1>8

\* Where the crew of a tab stay, so do its counts.
LEMMA SameCounts ==
  ASSUME NEW tab, active(tab)' = active(tab)
  PROVE  \A column : /\ occupancy(tab, column)' = occupancy(tab, column)
                     /\ count(tab, column)' = count(tab, column)
                     /\ nextRow(tab, column)' = nextRow(tab, column)
<1>1. ASSUME NEW column PROVE occupancy(tab, column)' = occupancy(tab, column)
  BY DEF occupancy
<1>2. \A column : count(tab, column)' = count(tab, column)
  BY <1>1 DEF count
<1>3. QED
  BY <1>1, <1>2 DEF nextRow

\* The slots of a tab are panes of it, one each, and a crew's is never of column 0.
LEMMA SlotsAt ==
  ASSUME Listing, NEW tab
  PROVE  /\ \A c \in Slots(tab) : /\ c.pane \in DOMAIN at /\ at[c.pane].tab = tab
                                  /\ c.column \in Nat \ {ByHand} /\ c.row \in Nat
         /\ \A c, d \in Slots(tab) : c.pane = d.pane => c = d
         /\ \A c \in Slots(tab) : \/ c \in occupancy(tab, c.column)
                                  \/ tab = CaptainTab /\ c.column = 1 /\ c.pane = Captain
<1> DEFINE captain == [pane |-> Captain, tab |-> tab, column |-> 1, row |-> 1]
<1>1. \A c \in Slots(tab) :
          \/ c \in active(tab) /\ c.column # ByHand
          \/ tab = CaptainTab /\ c = captain
  BY DEF Slots
<1>2. \A c \in active(tab) : /\ c \in roster /\ c.pane \in DOMAIN at /\ at[c.pane].tab = tab
                             /\ c.pane \in PaneIds /\ c.column \in Nat /\ c.row \in Nat
                             /\ c \in occupancy(tab, c.column)
  BY DEF active, Listing, occupancy
<1>3. Captain \notin PaneIds /\ captain.pane = Captain /\ captain.column = 1 /\ captain.row = 1
  BY PlacementAssumption DEF Captain, PaneIds
<1>4. Captain \in DOMAIN at /\ at[Captain].tab = CaptainTab
  BY DEF Listing
<1>5. \A c \in roster, d \in roster : c.pane = d.pane => c = d
  BY DEF Listing
<1> HIDE DEF captain
<1>6. \A c \in Slots(tab) : /\ c.pane \in DOMAIN at /\ at[c.pane].tab = tab
                            /\ c.column \in Nat \ {ByHand} /\ c.row \in Nat
  BY <1>1, <1>2, <1>3, <1>4 DEF ByHand
<1>7. \A c, d \in Slots(tab) : c.pane = d.pane => c = d
  BY <1>1, <1>2, <1>3, <1>5
<1>8. \A c \in Slots(tab) : \/ c \in occupancy(tab, c.column)
                            \/ tab = CaptainTab /\ c.column = 1 /\ c.pane = Captain
  BY <1>1, <1>2, <1>3
<1>9. QED
  BY <1>6, <1>7, <1>8

\* No pane parts from itself.
LEMMA NoSelf ==
  ASSUME NEW p, NEW direction PROVE ~Parts(p, p, direction)
<1>1. <<direction, 0>> # <<direction, 1>>
  OBVIOUS
<1>2. QED
  BY <1>1 DEF Parts

-----------------------------------------------------------------------------
(* Steps that move no pane.                                                *)

\* When no pane moves, only the recruit under way has to be looked at.
LEMMA StillStanding ==
  ASSUME PlacementInv, UNCHANGED <<at, roster, churned, nested, forced>>
  PROVE  /\ Trees' /\ Listing' /\ Room' /\ Ordered' /\ Grown'
         /\ \A tab, column : /\ occupancy(tab, column)' = occupancy(tab, column)
                             /\ count(tab, column)' = count(tab, column)
                             /\ nextRow(tab, column)' = nextRow(tab, column)
<1>1. \A p, q, direction : Parts(p, q, direction)' = Parts(p, q, direction)
  BY DEF Parts
<1>2. Trees' /\ Listing'
  <2>1. Trees'
    BY <1>1 DEF PlacementInv, Trees
  <2>2. Listing'
    BY DEF PlacementInv, Listing
  <2>3. QED
    BY <2>1, <2>2
<1>3. \A tab : active(tab)' = active(tab) /\ Slots(tab)' = Slots(tab)
  BY DEF active, Slots
<1>4. \A tab, column : /\ occupancy(tab, column)' = occupancy(tab, column)
                       /\ count(tab, column)' = count(tab, column)
                       /\ nextRow(tab, column)' = nextRow(tab, column)
  BY <1>3, SameCounts
<1>5. Room' /\ Grown'
  BY <1>3, <1>4 DEF PlacementInv, Room, Grown
<1>6. Ordered'
  BY <1>1, <1>3 DEF PlacementInv, Ordered
<1>7. QED
  BY <1>2, <1>4, <1>5, <1>6

\* A recruit that goes, or is for a new tab, aims at no slot of a tab.
LEMMA KeptByNewTab ==
  ASSUME PlacementInv, UNCHANGED <<at, roster, churned, nested, forced>>,
         spot' \in {NewTab, HandTab, NoSpot}
  PROVE  PlacementInv'
<1>1. /\ spot'.step \in {"none", "resolved"} /\ spot'.direction = "tab" /\ spot'.implied = "tab"
      /\ spot'.tab = 0 /\ spot'.column \in Nat /\ spot'.row \in Nat
      /\ spot'.column = ByHand \/ (spot'.column = 1 /\ spot'.row = 1)
  <2>1. CASE spot' = NewTab
    BY <2>1 DEF NewTab, NoSpot
  <2>2. CASE spot' = HandTab
    BY <2>2 DEF HandTab, NoSpot, ByHand
  <2>3. CASE spot' = NoSpot
    BY <2>3 DEF NoSpot, ByHand
  <2>4. QED
    BY <2>1, <2>2, <2>3
<1>2. 0 \in Tabs
  BY PlacementAssumption DEF Tabs
<1>3. Resolved' /\ Current'
  BY <1>1, <1>2 DEF Resolved, Current, Aims
<1>4. QED
  BY <1>3, StillStanding DEF PlacementInv

\* The slot the layout resolves has room and is beside or below its column, whichever way
\* its pane is then split.
LEMMA KeptBySlot ==
  ASSUME PlacementInv, UNCHANGED <<at, roster, churned, nested, forced>>,
         NEW tab \in Usable, NEW chosen \in Directions \cup {Spot(tab).direction},
         spot' = [Spot(tab) EXCEPT !.direction = chosen]
  PROVE  PlacementInv'
<1>1. tab \in Tabs /\ free(tab) # {} /\ Listing /\ Room /\ Grown
  BY DEF Usable, OpenTabs, PlacementInv, Listing
<1>2. PICK column : column = next_slot(tab)
  OBVIOUS
<1>3. PICK pane, direction : split_for(tab, column) = <<pane, direction>>
  BY DEF split_for
<1>4. Spot(tab) = [step |-> "resolved", tab |-> tab, pane |-> pane,
                   direction |-> direction, implied |-> direction,
                   column |-> column, row |-> nextRow(tab, column)]
  BY <1>2, <1>3 DEF Spot
<1>5. /\ column \in DOMAIN shape(tab) /\ column \in Nat \ {ByHand}
      /\ nextRow(tab, column) \in Nat /\ nextRow(tab, column) <= shape(tab)[column]
      /\ pane \in DOMAIN at /\ at[pane].tab = tab
      /\ \/ /\ direction = "down" /\ \E c \in occupancy(tab, column) : c.pane = pane
            /\ \A c, d \in occupancy(tab, column) : c.pane = pane => d.row <= c.row
            /\ tab \notin churned /\ column + 1 \in DOMAIN shape(tab) => count(tab, column + 1) > 0
         \/ /\ direction = "right" /\ column > 1 /\ count(tab, column) = 0
            /\ \/ \E c \in occupancy(tab, column - 1) : c.pane = pane
               \/ pane = Captain /\ tab = CaptainTab /\ column - 1 = 1
            /\ tab \notin churned => count(tab, column - 1) < 2
  BY <1>1, <1>2, <1>3, SlotFits
<1>6. /\ Trees' /\ Listing' /\ Room' /\ Ordered' /\ Grown'
      /\ \A t, k : /\ occupancy(t, k)' = occupancy(t, k)
                   /\ count(t, k)' = count(t, k) /\ nextRow(t, k)' = nextRow(t, k)
      /\ at' = at /\ roster' = roster /\ churned' = churned
  BY StillStanding
<1>7. /\ spot'.step = "resolved" /\ spot'.tab = tab /\ spot'.pane = pane
      /\ spot'.direction \in Directions /\ spot'.implied = direction
      /\ spot'.column = column /\ spot'.row = nextRow(tab, column)
  BY <1>4, <1>5 DEF Directions
<1>8. \A k : \A c \in occupancy(tab, k) : c \in roster /\ c.tab = tab /\ c.column = k
  BY DEF occupancy, active
<1>9. /\ (direction = "down" => Splitting(tab, column)')
      /\ (direction = "right" => Splitting(tab, column - 1)')
  BY <1>5, <1>6, <1>7, <1>8 DEF Splitting
<1>10. Resolved'
  BY <1>1, <1>5, <1>6, <1>7, <1>9 DEF Resolved, Aims, Directions
<1>11. Current'
  BY <1>5, <1>6, <1>7 DEF Current, Aims
<1>12. QED
  BY <1>6, <1>10, <1>11 DEF PlacementInv

\* The layout resolves such a slot, or a new tab.
LEMMA KeptByResolve == ASSUME PlacementInv, Resolve PROVE PlacementInv'
<1>1. CASE spot' = NewTab
  BY <1>1, KeptByNewTab DEF Resolve
<1>2. ASSUME NEW tab \in Usable, spot' = Spot(tab) PROVE PlacementInv'
  <2>1. spot' = [Spot(tab) EXCEPT !.direction = Spot(tab).direction]
    BY <1>2 DEF Spot
  <2>2. QED
    BY <2>1, KeptBySlot DEF Resolve
<1>3. spot' = NewTab \/ \E tab \in Usable : spot' = Spot(tab)
  BY DEF Resolve, grid_spots
<1>4. QED
  BY <1>1, <1>2, <1>3

\* What is named by hand is outside the shape; --direction keeps the slot.
LEMMA KeptByFlags == ASSUME PlacementInv, ResolveFlags PROVE PlacementInv'
<1>1. UNCHANGED <<at, roster, churned, nested, forced>>
  BY DEF ResolveFlags
<1>2. CASE spot' = HandTab
  BY <1>1, <1>2, KeptByNewTab
<1>3. ASSUME NEW p \in DOMAIN at, NEW direction \in {"right", "down"},
             spot' = [HandTab EXCEPT !.tab = at[p].tab, !.pane = p,
                                     !.direction = direction, !.implied = direction]
      PROVE  PlacementInv'
  <2>1. at' = at /\ Trees' /\ Listing' /\ Room' /\ Ordered' /\ Grown'
    BY <1>1, StillStanding
  <2>2. at[p].tab \in Tabs
    BY DEF PlacementInv, Listing
  <2>3. /\ spot'.step = "resolved" /\ spot'.tab = at[p].tab /\ spot'.pane = p
        /\ spot'.direction = direction /\ spot'.implied = direction
        /\ spot'.column = ByHand /\ spot'.row = 0 /\ ByHand = 0
    BY <1>3 DEF HandTab, NoSpot, ByHand
  <2>4. Resolved' /\ Current'
    BY <2>1, <2>2, <2>3 DEF Resolved, Current, Aims
  <2>5. QED
    BY <2>1, <2>4 DEF PlacementInv
<1>4. ASSUME NEW slot \in grid_spots \ {NewTab}, NEW direction \in {"right", "down"},
             spot' = [slot EXCEPT !.direction = direction]
      PROVE  PlacementInv'
  <2>1. PICK tab \in Usable : slot = Spot(tab)
    BY <1>4 DEF grid_spots
  <2>2. QED
    BY <1>1, <1>4, <2>1, KeptBySlot DEF Directions
<1>5. QED
  BY <1>2, <1>3, <1>4 DEF ResolveFlags

LEMMA KeptByFailure == ASSUME PlacementInv, RecruitFails PROVE PlacementInv'
BY KeptByNewTab DEF RecruitFails

-----------------------------------------------------------------------------
(* Panes go.                                                               *)

\* A tab that loses crew counts less; one that loses no pane counts the same.
LEMMA Shrinks ==
  ASSUME PlacementInv, NEW p,
         \/ p \in DOMAIN at /\ p # Captain /\ at' = Close(p) /\ churned' = churned \cup {at[p].tab}
         \/ at' = at /\ churned' = churned,
         roster' \subseteq roster, roster' = roster \/ spot.step = "none",
         \A tab \in Tabs \ churned' : active(tab)' = active(tab),
         spot' = spot, nested' = nested, forced' = forced
  PROVE  PlacementInv'
<1>1. /\ Trees' /\ DOMAIN at' \subseteq DOMAIN at
      /\ Captain \in DOMAIN at'
      /\ \A q \in DOMAIN at' : at'[q] \in [tab: Tabs, path: Seq(Half)] /\ at'[q].tab = at[q].tab
      /\ \A q, r \in DOMAIN at', e \in Directions :
            q # r /\ at[q].tab = at[r].tab => (Parts(q, r, e)' <=> Parts(q, r, e))
      /\ \A q \in DOMAIN at', e \in Directions : ~Parts(q, q, e)'
      /\ churned \subseteq churned' /\ churned' \subseteq Tabs
  <2>1. /\ Trees /\ Listing /\ Captain \in DOMAIN at /\ churned \subseteq Tabs
        /\ \A q \in DOMAIN at : at[q] \in [tab: Tabs, path: Seq(Half)]
    BY DEF PlacementInv, Listing
  <2>2. CASE p \in DOMAIN at /\ p # Captain /\ at' = Close(p) /\ churned' = churned \cup {at[p].tab}
    BY <2>1, <2>2, Closes
  <2>3. CASE at' = at /\ churned' = churned
    <3>1. \A q, r, e : Parts(q, r, e)' = Parts(q, r, e)
      BY <2>3 DEF Parts
    <3>2. Trees'
      BY <2>1, <2>3, <3>1 DEF Trees
    <3>3. QED
      BY <2>1, <2>3, <3>1, <3>2, NoSelf
  <2>4. QED
    BY <2>2, <2>3
<1>2. \A tab : active(tab)' \subseteq active(tab) /\ Slots(tab)' \subseteq Slots(tab)
  <2>1. \A tab : active(tab)' \subseteq active(tab)
    BY <1>1 DEF active
  <2>2. QED
    BY <2>1 DEF Slots
<1>3. \A tab, column : /\ count(tab, column)' \in Nat /\ count(tab, column) \in Nat
                       /\ count(tab, column)' <= count(tab, column)
                       /\ nextRow(tab, column)' \in Nat /\ nextRow(tab, column) \in Nat
                       /\ nextRow(tab, column)' <= nextRow(tab, column)
  <2>1. ASSUME NEW tab, NEW column
        PROVE  /\ count(tab, column)' \in Nat /\ count(tab, column) \in Nat
               /\ count(tab, column)' <= count(tab, column)
    <3>1. occupancy(tab, column)' \subseteq occupancy(tab, column)
      BY <1>2 DEF occupancy
    <3>2. IsFiniteSet(occupancy(tab, column)) /\ count(tab, column) \in Nat
      BY Counts DEF PlacementInv
    <3>3. QED
      BY <3>1, <3>2, FS_Subset, FS_CardinalityType DEF count
  <2>2. QED
    BY <2>1 DEF nextRow
<1>4. Listing'
  <2>1. Listing /\ IsFiniteSet(roster')
    BY FS_Subset DEF PlacementInv, Listing
  <2>2. /\ DOMAIN at' \subseteq {Captain} \cup PaneIds
        /\ Captain \in DOMAIN at' /\ at'[Captain].tab = CaptainTab
        /\ \A q \in DOMAIN at' : at'[q] \in [tab: Tabs, path: Seq(Half)]
    BY <1>1, <2>1 DEF Listing
  <2>3. /\ roster' \subseteq [pane: PaneIds, tab: Tabs, column: Nat, row: Nat]
        /\ \A c, d \in roster' : c.pane = d.pane => c = d
    BY <2>1 DEF Listing
  <2>4. \A c \in roster' : c.column # ByHand =>
            c.column \in DOMAIN shape(c.tab) /\ c.row <= shape(c.tab)[c.column]
    BY <2>1 DEF Listing
  <2>5. churned' \subseteq Tabs /\ nested' \subseteq churned' /\ forced' \subseteq Tabs
    BY <1>1, <2>1 DEF Listing
  <2>6. QED
    BY <2>1, <2>2, <2>3, <2>4, <2>5 DEF Listing
<1>5. Room'
  <2>1. ASSUME NEW tab \in Tabs, NEW column \in DOMAIN shape(tab)
        PROVE  nextRow(tab, column)' <= shape(tab)[column] + 1
    <3>1. nextRow(tab, column) <= shape(tab)[column] + 1 /\ shape(tab)[column] \in Nat
      BY Shapes DEF PlacementInv, Room
    <3>2. QED
      BY <1>3, <3>1
  <2>2. QED
    BY <2>1 DEF Room
<1>6. Ordered'
  <2>1. SUFFICES ASSUME NEW tab \in Tabs \ forced, NEW c \in Slots(tab)', NEW d \in Slots(tab)'
                 PROVE  /\ Parts(c.pane, d.pane, "right")' => c.column < d.column
                        /\ Parts(c.pane, d.pane, "down")' /\ tab \notin nested' => c.column = d.column
                        /\ Parts(c.pane, d.pane, "down")' /\ tab \notin churned' => c.row < d.row
    BY DEF Ordered
  <2>2. c \in Slots(tab) /\ d \in Slots(tab)
    BY <1>2
  <2>3. at[c.pane].tab = tab /\ at[d.pane].tab = tab
    BY <2>2, SlotsAt DEF PlacementInv
  <2>4. c.pane \in DOMAIN at' /\ d.pane \in DOMAIN at'
    BY <1>1 DEF Slots, active
  <2>5. \A e \in Directions : Parts(c.pane, d.pane, e)' => Parts(c.pane, d.pane, e)
    BY <1>1, <2>3, <2>4
  <2>6. Parts(c.pane, d.pane, "right")' => Parts(c.pane, d.pane, "right")
    BY <2>5 DEF Directions
  <2>7. Parts(c.pane, d.pane, "down")' => Parts(c.pane, d.pane, "down")
    BY <2>5 DEF Directions
  <2>8. QED
    BY <1>1, <2>2, <2>6, <2>7 DEF PlacementInv, Ordered
<1>7. \A tab \in Tabs \ churned' :
          /\ tab \in Tabs \ churned /\ active(tab)' = active(tab)
          /\ \A column : /\ occupancy(tab, column)' = occupancy(tab, column)
                         /\ count(tab, column)' = count(tab, column)
                         /\ nextRow(tab, column)' = nextRow(tab, column)
  BY <1>1, SameCounts
<1>8. Grown'
  BY <1>7 DEF PlacementInv, Grown
<1>9. Resolved'
  <2>1. ASSUME NEW tab \in Tabs, NEW column \in Nat \ {ByHand}, Aims(tab, column)'
        PROVE  /\ column \in DOMAIN shape(tab) /\ spot.row <= shape(tab)[column]
               /\ nextRow(tab, column)' <= shape(tab)[column]
               /\ \/ spot.implied = "down" /\ Splitting(tab, column)'
                  \/ /\ spot.implied = "right" /\ column > 1
                     /\ count(tab, column)' = 0 /\ Splitting(tab, column - 1)'
    <3>1. Aims(tab, column) /\ roster' = roster
      BY <2>1 DEF Aims
    <3>2. /\ column \in DOMAIN shape(tab) /\ spot.row <= shape(tab)[column]
          /\ nextRow(tab, column) <= shape(tab)[column]
          /\ \/ spot.implied = "down" /\ Splitting(tab, column)
             \/ /\ spot.implied = "right" /\ column > 1
                /\ count(tab, column) = 0 /\ Splitting(tab, column - 1)
      BY <3>1 DEF PlacementInv, Resolved
    <3>3. \A k : Splitting(tab, k)' = Splitting(tab, k)
      BY <3>1 DEF Splitting
    <3>4. nextRow(tab, column)' <= shape(tab)[column] /\ (count(tab, column) = 0 => count(tab, column)' = 0)
      BY <1>3, <3>2, Shapes
    <3>5. QED
      BY <3>2, <3>3, <3>4
  <2>2. Resolved
    BY DEF PlacementInv
  <2>3. spot.step = "resolved" /\ spot.direction # "tab" /\ spot.pane \in DOMAIN at' =>
            at'[spot.pane].tab = spot.tab
    BY <1>1, <2>2 DEF Resolved
  <2>4. QED
    BY <2>1, <2>2, <2>3 DEF Resolved
<1>10. Current'
  <2>1. SUFFICES ASSUME NEW tab \in Tabs \ churned', NEW column \in Nat \ {ByHand}, Aims(tab, column)
                 PROVE  /\ spot.row = nextRow(tab, column)'
                        /\ spot.implied = "right" => count(tab, column - 1)' < 2
                        /\ spot.implied = "down" =>
                              /\ \A c, d \in occupancy(tab, column)' : c.pane = spot.pane => d.row <= c.row
                              /\ column + 1 \in DOMAIN shape(tab) => count(tab, column + 1)' > 0
    BY DEF Current, Aims
  <2>2. QED
    BY <1>7, <2>1 DEF PlacementInv, Current
<1>11. QED
  BY <1>1, <1>4, <1>5, <1>6, <1>8, <1>9, <1>10 DEF PlacementInv

\* A dismissal takes its own pane, in a tab where it counted or in one where it did not.
LEMMA KeptByDismissal == ASSUME PlacementInv, NEW c \in roster, dismiss(c) PROVE PlacementInv'
<1>1. /\ c.pane \in PaneIds /\ c.pane # Captain
      /\ \A d \in roster : d.pane = c.pane => d = c
  <2>1. Captain \notin PaneIds
    BY PlacementAssumption DEF Captain, PaneIds
  <2>2. QED
    BY <2>1 DEF PlacementInv, Listing
<1>2. CASE c.pane \in DOMAIN at
  <2>1. at' = Close(c.pane) /\ churned' = churned \cup {at[c.pane].tab} /\ roster' = roster \ {c}
    BY <1>2 DEF dismiss, Gone
  <2>2. DOMAIN at' = DOMAIN at \ {c.pane} /\ \A q \in DOMAIN at' : at'[q].tab = at[q].tab
    BY <1>2, <2>1, Closes DEF PlacementInv
  <2>3. ASSUME NEW tab \in Tabs \ churned' PROVE active(tab)' = active(tab)
    <3>1. at[c.pane].tab # tab
      BY <2>1
    <3>2. \A d \in active(tab) : d.pane # c.pane
      BY <3>1 DEF active
    <3>3. QED
      BY <1>1, <2>1, <2>2, <3>2 DEF active
  <2>4. QED
    BY <1>1, <1>2, <2>1, <2>3, Shrinks DEF dismiss
<1>3. CASE c.pane \notin DOMAIN at
  <2>1. at' = at /\ churned' = churned /\ roster' = roster \ {c}
    BY <1>3 DEF dismiss
  <2>2. \A tab : active(tab)' = active(tab)
    BY <1>3, <2>1 DEF active
  <2>3. QED
    BY <2>1, <2>2, Shrinks DEF dismiss
<1>4. QED
  BY <1>2, <1>3

\* A pane that goes by itself leaves an entry that no longer counts.
LEMMA KeptByLoss == ASSUME PlacementInv, NEW p \in DOMAIN at, PaneGone(p) PROVE PlacementInv'
<1>1. /\ p # Captain /\ at' = Close(p) /\ churned' = churned \cup {at[p].tab}
      /\ roster' = roster /\ spot' = spot /\ nested' = nested /\ forced' = forced
  BY DEF PaneGone, Gone
<1>2. DOMAIN at' = DOMAIN at \ {p} /\ \A q \in DOMAIN at' : at'[q].tab = at[q].tab
  BY <1>1, Closes DEF PlacementInv
<1>3. ASSUME NEW tab \in Tabs \ churned' PROVE active(tab)' = active(tab)
  <2>1. at[p].tab # tab
    BY <1>1
  <2>2. QED
    BY <1>1, <1>2, <2>1 DEF active
<1>4. QED
  BY <1>1, <1>3, Shrinks

-----------------------------------------------------------------------------
(* A pane comes.                                                           *)

\* What a new pane's entry adds to the counts: one, to its column.
LEMMA Joins ==
  ASSUME Listing, NEW new \in PaneIds, new \notin DOMAIN at, \A c \in roster : c.pane # new,
         DOMAIN at' = DOMAIN at \cup {new}, \A q \in DOMAIN at : at'[q].tab = at[q].tab,
         NEW tab \in Tabs, at'[new].tab = tab, NEW rec, rec.pane = new, rec.tab = tab,
         roster' \in {roster, roster \cup {rec}}
  PROVE  /\ rec \in roster' => active(tab)' = active(tab) \cup {rec}
         /\ \A t : rec \notin roster' \/ t # tab => active(t)' = active(t)
         /\ rec \in roster' => /\ count(tab, rec.column)' = count(tab, rec.column) + 1
                               /\ nextRow(tab, rec.column)' = nextRow(tab, rec.column) + 1
         /\ \A t, k : rec \notin roster' \/ t # tab \/ k # rec.column =>
               count(t, k)' = count(t, k) /\ nextRow(t, k)' = nextRow(t, k)
<1>1. rec \notin roster
  OBVIOUS
<1>2. ASSUME NEW t, NEW c
      PROVE  c \in active(t)' <=> c \in active(t) \/ (rec \in roster' /\ t = tab /\ c = rec)
  <2>1. c \in roster' <=> c \in roster \/ (rec \in roster' /\ c = rec)
    BY <1>1
  <2>2. c \in roster => c.pane # new /\ (c.pane \in DOMAIN at' <=> c.pane \in DOMAIN at)
    OBVIOUS
  <2>3. c \in roster /\ c.pane \in DOMAIN at => at'[c.pane].tab = at[c.pane].tab
    OBVIOUS
  <2>4. new \in DOMAIN at' /\ at'[new].tab = tab
    OBVIOUS
  <2>5. c \in active(t)' <=> c \in roster' /\ c.tab = t /\ c.pane \in DOMAIN at' /\ at'[c.pane].tab = t
    BY DEF active
  <2>6. c \in active(t) <=> c \in roster /\ c.tab = t /\ c.pane \in DOMAIN at /\ at[c.pane].tab = t
    BY DEF active
  <2>7. CASE c \in roster
    BY <1>1, <2>1, <2>2, <2>3, <2>5, <2>6, <2>7
  <2>8. CASE c \notin roster
    BY <1>1, <2>1, <2>4, <2>5, <2>6, <2>8
  <2>9. QED
    BY <2>7, <2>8
<1>3. ASSUME rec \in roster' PROVE active(tab)' = active(tab) \cup {rec}
  <2>1. \A c : c \in active(tab)' <=> c \in active(tab) \/ c = rec
    BY <1>2, <1>3
  <2>2. QED
    BY <2>1
<1>4. ASSUME NEW t, rec \notin roster' \/ t # tab PROVE active(t)' = active(t)
  <2>1. \A c : c \in active(t)' <=> c \in active(t)
    BY <1>2, <1>4
  <2>2. QED
    BY <2>1
<1>5. \A t, k : count(t, k) \in Nat
  BY Counts
<1>6. ASSUME rec \in roster' PROVE count(tab, rec.column)' = count(tab, rec.column) + 1
  <2>1. occupancy(tab, rec.column)' = occupancy(tab, rec.column) \cup {rec}
    BY <1>3, <1>6 DEF occupancy
  <2>2. rec \notin occupancy(tab, rec.column) /\ IsFiniteSet(occupancy(tab, rec.column))
    BY <1>1, Counts
  <2>3. Cardinality(occupancy(tab, rec.column) \cup {rec}) = Cardinality(occupancy(tab, rec.column)) + 1
    BY <2>2, FS_AddElement
  <2>4. QED
    BY <2>1, <2>3 DEF count
<1>7. ASSUME NEW t, NEW k, rec \notin roster' \/ t # tab \/ k # rec.column
      PROVE  count(t, k)' = count(t, k)
  <2>1. occupancy(t, k)' = occupancy(t, k)
    BY <1>3, <1>4, <1>7 DEF occupancy
  <2>2. QED
    BY <2>1 DEF count
<1>8. rec \in roster' => nextRow(tab, rec.column)' = nextRow(tab, rec.column) + 1
  BY <1>5, <1>6 DEF nextRow
<1>9. \A t, k : rec \notin roster' \/ t # tab \/ k # rec.column => nextRow(t, k)' = nextRow(t, k)
  BY <1>7 DEF nextRow
<1>10. QED
  BY <1>3, <1>4, <1>6, <1>7, <1>8, <1>9

\* The list and the room a new pane leaves, when its entry is within the shape.
LEMMA Lists ==
  ASSUME PlacementInv, NEW new \in PaneIds, new \notin DOMAIN at, \A c \in roster : c.pane # new,
         DOMAIN at' = DOMAIN at \cup {new},
         \A q \in DOMAIN at' : at'[q] \in [tab: Tabs, path: Seq(Half)],
         \A q \in DOMAIN at : at'[q].tab = at[q].tab,
         NEW tab \in Tabs, at'[new].tab = tab,
         NEW rec \in [pane: PaneIds, tab: Tabs, column: Nat, row: Nat], rec.pane = new, rec.tab = tab,
         roster' \in {roster, roster \cup {rec}},
         rec.column # ByHand => /\ rec.column \in DOMAIN shape(tab)
                                /\ rec.row <= shape(tab)[rec.column]
                                /\ nextRow(tab, rec.column) <= shape(tab)[rec.column],
         churned' \subseteq churned, nested' \subseteq churned', forced' \subseteq Tabs, spot' = NoSpot
  PROVE  Listing' /\ Room' /\ Resolved' /\ Current'
<1>1. Listing /\ Room
  BY DEF PlacementInv
<1>2. Listing'
  <2>1. /\ DOMAIN at' \subseteq {Captain} \cup PaneIds
        /\ Captain \in DOMAIN at' /\ at'[Captain].tab = CaptainTab
        /\ churned' \subseteq Tabs
    BY <1>1 DEF Listing
  <2>2. IsFiniteSet(roster')
    <3>1. IsFiniteSet(roster)
      BY <1>1 DEF Listing
    <3>2. IsFiniteSet(roster \cup {rec})
      BY <3>1, FS_AddElement
    <3>3. QED
      BY <3>1, <3>2
  <2>3. /\ roster' \subseteq [pane: PaneIds, tab: Tabs, column: Nat, row: Nat]
        /\ \A c, d \in roster' : c.pane = d.pane => c = d
    BY <1>1 DEF Listing
  <2>4. \A c \in roster' : c.column # ByHand =>
            c.column \in DOMAIN shape(c.tab) /\ c.row <= shape(c.tab)[c.column]
    BY <1>1 DEF Listing
  <2>5. QED
    BY <2>1, <2>2, <2>3, <2>4 DEF Listing
<1>3. /\ rec \in roster' => nextRow(tab, rec.column)' = nextRow(tab, rec.column) + 1
      /\ \A t, k : rec \notin roster' \/ t # tab \/ k # rec.column => nextRow(t, k)' = nextRow(t, k)
  BY <1>1, Joins
<1>4. Room'
  <2>1. ASSUME NEW t \in Tabs, NEW k \in DOMAIN shape(t) PROVE nextRow(t, k)' <= shape(t)[k] + 1
    <3>1. nextRow(t, k) <= shape(t)[k] + 1 /\ nextRow(t, k) \in Nat /\ shape(t)[k] \in Nat /\ k # ByHand
      BY <1>1, Shapes, Counts DEF Room, ByHand
    <3>2. CASE rec \in roster' /\ t = tab /\ k = rec.column
      BY <1>3, <3>1, <3>2
    <3>3. CASE rec \notin roster' \/ t # tab \/ k # rec.column
      BY <1>3, <3>1, <3>3
    <3>4. QED
      BY <3>2, <3>3
  <2>2. QED
    BY <2>1 DEF Room
<1>5. Resolved' /\ Current'
  <2>1. /\ spot'.step = "none" /\ spot'.direction = "tab" /\ spot'.implied = "tab"
        /\ spot'.tab = 0 /\ spot'.column = 0 /\ spot'.row = 0
    BY DEF NoSpot, ByHand
  <2>2. 0 \in Tabs /\ 0 \in Nat
    BY PlacementAssumption DEF Tabs
  <2>3. QED
    BY <2>1, <2>2 DEF Resolved, Current, Aims
<1>6. QED
  BY <1>2, <1>4, <1>5

\* A crew in a new tab is its only slot, or takes none.
LEMMA KeptByTab == ASSUME PlacementInv, CreateTab PROVE PlacementInv'
<1>1. PICK new \in FreePanes, tab \in FreeTabs, recorded \in BOOLEAN :
          /\ at' = [p \in DOMAIN at \cup {new} |->
                       IF p = new THEN [tab |-> tab, path |-> <<>>] ELSE at[p]]
          /\ Opened(new, tab, recorded)
          /\ churned' = churned \ {tab} /\ nested' = nested \ {tab} /\ forced' = forced \ {tab}
  BY DEF CreateTab
<1>2. PICK rec : rec = [pane |-> new, tab |-> tab, column |-> spot.column, row |-> spot.row]
  OBVIOUS
<1>3. /\ spot.column \in Nat /\ spot.row \in Nat
      /\ spot.column = ByHand \/ (spot.column = 1 /\ spot.row = 1)
  BY DEF CreateTab, PlacementInv, Resolved
<1>4. /\ new \in PaneIds /\ new \notin DOMAIN at /\ \A c \in roster : c.pane # new
      /\ tab \in Tabs /\ \A p \in DOMAIN at : at[p].tab # tab
  BY DEF FreePanes, FreeTabs, OpenTabs
<1>5. /\ tab # CaptainTab /\ \A p \in DOMAIN at : at[p] \in [tab: Tabs, path: Seq(Half)]
      /\ nested \subseteq churned /\ Listing /\ Trees
  BY <1>4 DEF PlacementInv, Listing
<1>6. /\ DOMAIN at' = DOMAIN at \cup {new}
      /\ \A p \in DOMAIN at : at'[p] = at[p]
      /\ at'[new].tab = tab /\ at'[new] \in [tab: Tabs, path: Seq(Half)]
  BY <1>1, <1>4
<1>7. /\ spot' = NoSpot /\ roster' \in {roster, roster \cup {rec}}
      /\ rec \in [pane: PaneIds, tab: Tabs, column: Nat, row: Nat]
      /\ rec.pane = new /\ rec.tab = tab
      /\ rec.column = ByHand \/ (rec.column = 1 /\ rec.row = 1)
  BY <1>1, <1>3, <1>4, <1>2 DEF Opened
<1>8. active(tab) = {} /\ \A k : count(tab, k) = 0 /\ nextRow(tab, k) = 1
  <2>1. active(tab) = {}
    BY <1>4 DEF active
  <2>2. \A k : occupancy(tab, k) = {}
    BY <2>1 DEF occupancy
  <2>3. \A k : count(tab, k) = 0
    BY <2>2, FS_EmptySet DEF count
  <2>4. QED
    BY <1>5, <2>1, <2>3 DEF nextRow
<1>9. /\ rec \in roster' => active(tab)' = active(tab) \cup {rec}
      /\ \A t : rec \notin roster' \/ t # tab => active(t)' = active(t)
      /\ rec \in roster' => /\ count(tab, rec.column)' = count(tab, rec.column) + 1
                            /\ nextRow(tab, rec.column)' = nextRow(tab, rec.column) + 1
      /\ \A t, k : rec \notin roster' \/ t # tab \/ k # rec.column =>
            count(t, k)' = count(t, k) /\ nextRow(t, k)' = nextRow(t, k)
  <2>1. Listing /\ new \in PaneIds /\ new \notin DOMAIN at /\ \A c \in roster : c.pane # new
    BY <1>4, <1>5
  <2>2. DOMAIN at' = DOMAIN at \cup {new} /\ \A q \in DOMAIN at : at'[q].tab = at[q].tab
    BY <1>6
  <2>3. tab \in Tabs /\ at'[new].tab = tab
    BY <1>4, <1>6
  <2>4. rec.pane = new /\ rec.tab = tab /\ roster' \in {roster, roster \cup {rec}}
    BY <1>7
  <2>5. QED
    BY <2>1, <2>2, <2>3, <2>4, Joins
<1>10. Listing' /\ Room' /\ Resolved' /\ Current'
  <2>1. rec.column # ByHand =>
            rec.column \in DOMAIN shape(tab) /\ rec.row <= shape(tab)[rec.column]
            /\ nextRow(tab, rec.column) <= shape(tab)[rec.column]
    BY <1>7, <1>8, Shapes
  <2>2. churned' \subseteq churned /\ nested' \subseteq churned' /\ forced' \subseteq Tabs
    BY <1>1, <1>5 DEF Listing
  <2>3. \A q \in DOMAIN at' : at'[q] \in [tab: Tabs, path: Seq(Half)]
    BY <1>5, <1>6
  <2>4. \A q \in DOMAIN at : at'[q].tab = at[q].tab
    BY <1>6
  <2>5. QED
    BY <1>4, <1>6, <1>7, <2>1, <2>2, <2>3, <2>4, Lists
<1>11. \A p, q \in DOMAIN at : \A e : Parts(p, q, e)' = Parts(p, q, e)
  BY <1>6 DEF Parts
<1>12. Trees'
  BY <1>4, <1>5, <1>6, <1>11 DEF Trees
<1>13. Ordered'
  <2>1. SUFFICES ASSUME NEW t \in Tabs \ forced', NEW c \in Slots(t)', NEW d \in Slots(t)'
                 PROVE  /\ Parts(c.pane, d.pane, "right")' => c.column < d.column
                        /\ Parts(c.pane, d.pane, "down")' /\ t \notin nested' => c.column = d.column
                        /\ Parts(c.pane, d.pane, "down")' /\ t \notin churned' => c.row < d.row
    BY DEF Ordered
  <2>2. CASE t = tab
    <3>1. c.pane = new /\ d.pane = new
      BY <1>5, <1>7, <1>8, <1>9, <2>2 DEF Slots
    <3>2. ~Parts(new, new, "right")' /\ ~Parts(new, new, "down")'
      <4>1. <<"right", 0>> # <<"right", 1>> /\ <<"down", 0>> # <<"down", 1>>
        OBVIOUS
      <4>2. QED
        BY <4>1 DEF Parts
    <3>3. QED
      BY <3>1, <3>2
  <2>3. CASE t # tab
    <3>1. c \in Slots(t) /\ d \in Slots(t)
      BY <1>9, <2>3 DEF Slots
    <3>2. c.pane \in DOMAIN at /\ d.pane \in DOMAIN at
      BY <1>5, <3>1, SlotsAt
    <3>3. t \in churned' <=> t \in churned
      BY <1>1, <2>3
    <3>4. (t \in nested' <=> t \in nested) /\ t \notin forced
      BY <1>1, <2>1, <2>3
    <3>5. /\ Parts(c.pane, d.pane, "right") => c.column < d.column
          /\ Parts(c.pane, d.pane, "down") /\ t \notin nested => c.column = d.column
          /\ Parts(c.pane, d.pane, "down") /\ t \notin churned => c.row < d.row
      BY <3>1, <3>4 DEF PlacementInv, Ordered
    <3>6. QED
      BY <1>11, <3>2, <3>3, <3>4, <3>5
  <2>4. QED
    BY <2>2, <2>3
<1>14. Grown'
  <2>1. ASSUME NEW t \in Tabs \ churned'
        PROVE  /\ \A c \in active(t)' : c.column # ByHand => c.row < nextRow(t, c.column)'
               /\ \A k \in DOMAIN shape(t) :
                     count(t, k)' > 1 /\ k + 1 \in DOMAIN shape(t) => count(t, k + 1)' > 0
    <3>1. CASE t = tab
      BY <1>7, <1>8, <1>9, <3>1
    <3>2. CASE t # tab
      <4>1. t \in Tabs \ churned
        BY <1>1, <3>2
      <4>2. /\ active(t)' = active(t)
            /\ \A k : count(t, k)' = count(t, k) /\ nextRow(t, k)' = nextRow(t, k)
        BY <1>9, <3>2
      <4>3. QED
        BY <4>1, <4>2 DEF PlacementInv, Grown
    <3>3. QED
      BY <3>1, <3>2
  <2>2. QED
    BY <2>1 DEF Grown
<1>15. QED
  BY <1>10, <1>12, <1>13, <1>14 DEF PlacementInv

\* A new entry is in order with the slots of its tab when the pane it came from is.
LEMMA BesideOrBelow ==
  ASSUME PlacementInv, NEW tab \in Tabs \ forced, NEW s \in Slots(tab), NEW d \in Slots(tab),
         NEW column \in Nat, NEW row \in Nat, NEW new, NEW direction \in Directions,
         Aims(tab, column), column # ByHand, spot.pane = s.pane, spot.implied = direction,
         s.column = IF direction = "down" THEN column ELSE column - 1,
         ~(tab = CaptainTab /\ column = 1), row = spot.row,
         nested' = IF BesideStack THEN nested \cup {spot.tab} ELSE nested, churned' = churned,
         \A e \in Directions : d # s =>
            (Parts(new, d.pane, e)' <=> Parts(s.pane, d.pane, e)) /\ (Parts(d.pane, new, e)' <=> Parts(d.pane, s.pane, e)),
         \A e \in Directions : d = s =>
            (Parts(d.pane, new, e)' => e = direction) /\ ~Parts(new, d.pane, e)'
  PROVE  /\ Parts(new, d.pane, "right")' => column < d.column
         /\ Parts(d.pane, new, "right")' => d.column < column
         /\ Parts(new, d.pane, "down")' \/ Parts(d.pane, new, "down")' =>
               /\ tab \notin nested' => d.column = column
               /\ tab \notin churned' => Parts(d.pane, new, "down")' /\ d.row < row
<1>1. /\ Listing /\ Room /\ nested \subseteq churned
      /\ s.column \in Nat /\ d.column \in Nat /\ s.row \in Nat /\ d.row \in Nat
  BY SlotsAt DEF PlacementInv, Listing
<1>2. /\ Parts(s.pane, d.pane, "right") => s.column < d.column
      /\ Parts(d.pane, s.pane, "right") => d.column < s.column
      /\ Parts(s.pane, d.pane, "down") \/ Parts(d.pane, s.pane, "down") =>
            (tab \notin nested => s.column = d.column)
      /\ Parts(s.pane, d.pane, "down") /\ tab \notin churned => s.row < d.row
      /\ Parts(d.pane, s.pane, "down") /\ tab \notin churned => d.row < s.row
  BY DEF PlacementInv, Ordered
<1>3. /\ d # s => /\ Parts(new, d.pane, "right")' <=> Parts(s.pane, d.pane, "right")
                  /\ Parts(d.pane, new, "right")' <=> Parts(d.pane, s.pane, "right")
                  /\ Parts(new, d.pane, "down")' <=> Parts(s.pane, d.pane, "down")
                  /\ Parts(d.pane, new, "down")' <=> Parts(d.pane, s.pane, "down")
      /\ d = s => /\ Parts(d.pane, new, "right")' => direction = "right"
                  /\ Parts(d.pane, new, "down")' => direction = "down"
                  /\ ~Parts(new, d.pane, "right")' /\ ~Parts(new, d.pane, "down")'
  BY DEF Directions
<1>4. \A c \in Slots(tab) : c.column = column => c \in occupancy(tab, column)
  BY <1>1, SlotsAt
<1>5. CASE direction = "down"
  <2>1. s.column = column /\ s \in occupancy(tab, column)
    BY <1>4, <1>5
  <2>2. tab \notin churned => /\ row = nextRow(tab, column)
                              /\ \A c, e \in occupancy(tab, column) : c.pane = s.pane => e.row <= c.row
    BY <1>5 DEF PlacementInv, Current
  <2>3. tab \notin churned => s.row < row
    BY <2>1, <2>2 DEF PlacementInv, Grown, occupancy
  <2>4. /\ Parts(new, d.pane, "right")' => column < d.column
        /\ Parts(d.pane, new, "right")' => d.column < column
    BY <1>2, <1>3, <1>5, <2>1
  <2>5. nested' = nested
    BY <1>5 DEF BesideStack
  <2>6. Parts(new, d.pane, "down")' \/ Parts(d.pane, new, "down")' => (tab \notin nested' => d.column = column)
    BY <1>2, <1>3, <2>1, <2>5
  <2>7. ASSUME tab \notin churned PROVE ~Parts(new, d.pane, "down")'
    <3>1. SUFFICES ASSUME d # s, Parts(s.pane, d.pane, "down") PROVE FALSE
      BY <1>3
    <3>2. d.column = column /\ s.row < d.row
      BY <1>1, <1>2, <2>1, <2>7, <3>1
    <3>3. d \in occupancy(tab, column)
      BY <1>4, <3>2
    <3>4. QED
      BY <1>1, <2>1, <2>2, <2>7, <3>2, <3>3
  <2>8. ASSUME tab \notin churned, Parts(d.pane, new, "down")' PROVE d.row < row
    <3>1. row \in Nat /\ s.row < row
      BY <2>3, <2>8
    <3>2. QED
      BY <1>1, <1>2, <1>3, <2>8, <3>1
  <2>9. QED
    BY <2>4, <2>6, <2>7, <2>8
<1>6. CASE direction = "right"
  <2>1. column > 1 /\ s.column = column - 1 /\ count(tab, column) = 0
    BY <1>6 DEF PlacementInv, Resolved
  <2>2. d.column # column
    <3>1. occupancy(tab, column) = {}
      BY <1>1, <2>1, Counts
    <3>2. QED
      BY <1>4, <3>1
  <2>3. /\ Parts(new, d.pane, "right")' => column < d.column
        /\ Parts(d.pane, new, "right")' => d.column < column
    BY <1>1, <1>2, <1>3, <2>1, <2>2
  <2>4. ASSUME Parts(new, d.pane, "down")' \/ Parts(d.pane, new, "down")', tab \notin nested' PROVE FALSE
    <3>1. tab \notin nested
      BY <2>4
    <3>2. d # s /\ s.column = d.column
      BY <1>2, <1>3, <1>6, <2>4, <3>1
    <3>3. s \in occupancy(tab, column - 1) /\ d \in occupancy(tab, column - 1)
      <4>1. /\ s \in occupancy(tab, s.column) \/ (tab = CaptainTab /\ s.column = 1 /\ s.pane = Captain)
            /\ d \in occupancy(tab, d.column) \/ (tab = CaptainTab /\ d.column = 1 /\ d.pane = Captain)
            /\ s.pane # d.pane
        BY <1>1, <3>2, SlotsAt
      <4>2. tab = CaptainTab /\ s.column = 1 => occupancy(tab, s.column) = {}
        BY <1>1, CaptainAlone
      <4>3. QED
        BY <2>1, <3>2, <4>1, <4>2
    <3>4. count(tab, column - 1) > 1
      BY <1>1, <3>2, <3>3, Stacked
    <3>5. tab \notin churned => count(tab, column - 1) < 2
      BY <1>6 DEF PlacementInv, Current
    <3>6. tab \in churned
      BY <1>1, <3>4, <3>5, Counts
    <3>7. BesideStack
      BY <1>6, <2>1, <3>4, <3>6 DEF BesideStack, Aims
    <3>8. QED
      BY <2>4, <3>7 DEF Aims
  <2>5. nested' \subseteq churned'
    BY <1>1 DEF BesideStack
  <2>6. QED
    BY <2>3, <2>4, <2>5
<1>7. QED
  BY <1>5, <1>6 DEF Directions

\* A crew opened by a split is in order with the slots of the tab.
LEMMA KeptByPane == ASSUME PlacementInv, CreatePane PROVE PlacementInv'
<1> DEFINE p == spot.pane
<1>1. PICK new \in FreePanes, recorded \in BOOLEAN :
          at' = Split(spot.pane, spot.direction, new) /\ Opened(new, spot.tab, recorded)
  BY DEF CreatePane
<1>2. PICK tab, column, row, pane, direction, implied :
          /\ tab = spot.tab /\ column = spot.column /\ row = spot.row
          /\ pane = spot.pane /\ direction = spot.direction /\ implied = spot.implied
  OBVIOUS
<1>3. PICK rec : rec = [pane |-> new, tab |-> tab, column |-> column, row |-> row]
  OBVIOUS
<1>4. /\ spot.step = "resolved" /\ direction \in Directions /\ pane \in DOMAIN at /\ at[pane].tab = tab
      /\ tab \in Tabs /\ column \in Nat /\ row \in Nat
      /\ nested' = (IF BesideStack THEN nested \cup {tab} ELSE nested) /\ churned' = churned
      /\ forced' = IF direction # implied THEN forced \cup {tab} ELSE forced
  BY <1>2 DEF CreatePane, PlacementInv, Resolved, Directions
<1>5. /\ new \in PaneIds /\ new \notin DOMAIN at /\ \A c \in roster : c.pane # new
      /\ Trees /\ Listing /\ Room /\ nested \subseteq churned
  BY DEF FreePanes, PlacementInv, Listing
<1>6. /\ spot' = NoSpot /\ roster' \in {roster, roster \cup {rec}}
      /\ rec \in [pane: PaneIds, tab: Tabs, column: Nat, row: Nat]
      /\ rec.pane = new /\ rec.tab = tab /\ rec.column = column /\ rec.row = row
  BY <1>1, <1>2, <1>3, <1>4, <1>5 DEF Opened
<1>7. at' = Split(pane, direction, new)
  BY <1>1, <1>2
<1>8. /\ Trees'
      /\ DOMAIN at' = DOMAIN at \cup {new}
      /\ \A q \in DOMAIN at' : at'[q] \in [tab: Tabs, path: Seq(Half)]
      /\ at'[new].tab = at[pane].tab /\ \A q \in DOMAIN at : at'[q].tab = at[q].tab
      /\ \A q, r \in DOMAIN at, e \in Directions :
            q # r /\ at[q].tab = at[r].tab => (Parts(q, r, e)' <=> Parts(q, r, e))
      /\ \A r \in DOMAIN at, e \in Directions : r # pane /\ at[r].tab = at[pane].tab =>
            (Parts(new, r, e)' <=> Parts(pane, r, e)) /\ (Parts(r, new, e)' <=> Parts(r, pane, e))
      /\ \A e \in Directions : (Parts(pane, new, e)' => e = direction) /\ ~Parts(new, pane, e)'
      /\ \A q \in DOMAIN at', e \in Directions : ~Parts(q, q, e)'
  BY <1>4, <1>5, <1>7, Splits
<1>9. /\ rec \in roster' => active(tab)' = active(tab) \cup {rec}
      /\ \A t : rec \notin roster' \/ t # tab => active(t)' = active(t)
      /\ rec \in roster' => /\ count(tab, rec.column)' = count(tab, rec.column) + 1
                            /\ nextRow(tab, rec.column)' = nextRow(tab, rec.column) + 1
      /\ \A t, k : rec \notin roster' \/ t # tab \/ k # rec.column =>
            count(t, k)' = count(t, k) /\ nextRow(t, k)' = nextRow(t, k)
  <2>1. DOMAIN at' = DOMAIN at \cup {new} /\ \A q \in DOMAIN at : at'[q].tab = at[q].tab
    BY <1>8
  <2>2. at'[new].tab = tab
    BY <1>4, <1>8
  <2>3. QED
    BY <1>4, <1>5, <1>6, <2>1, <2>2, Joins
<1>10. column # ByHand => Aims(tab, column)
  BY <1>2, <1>4 DEF Aims, Directions
<1>11. ASSUME column # ByHand
       PROVE  /\ column \in DOMAIN shape(tab) /\ row <= shape(tab)[column]
              /\ nextRow(tab, column) <= shape(tab)[column]
              /\ \/ implied = "down" /\ Splitting(tab, column)
                 \/ /\ implied = "right" /\ column > 1
                    /\ count(tab, column) = 0 /\ Splitting(tab, column - 1)
  BY <1>2, <1>4, <1>10, <1>11 DEF PlacementInv, Resolved
<1>12. Listing' /\ Room' /\ Resolved' /\ Current'
  <2>1. nested' \subseteq churned' /\ forced' \subseteq Tabs
    BY <1>2, <1>4, <1>5 DEF BesideStack, Listing
  <2>2. at'[new].tab = tab
    BY <1>4, <1>8
  <2>3. QED
    BY <1>4, <1>5, <1>6, <1>8, <1>11, <2>1, <2>2, Lists
<1>13. Grown'
  <2>1. ASSUME NEW t \in Tabs \ churned'
        PROVE  /\ \A c \in active(t)' : c.column # ByHand => c.row < nextRow(t, c.column)'
               /\ \A k \in DOMAIN shape(t) :
                     count(t, k)' > 1 /\ k + 1 \in DOMAIN shape(t) => count(t, k + 1)' > 0
    <3>1. /\ \A c \in active(t) : c.column # ByHand => c.row < nextRow(t, c.column)
          /\ \A k \in DOMAIN shape(t) :
                count(t, k) > 1 /\ k + 1 \in DOMAIN shape(t) => count(t, k + 1) > 0
          /\ \A k : count(t, k) \in Nat /\ nextRow(t, k) \in Nat
          /\ t \notin churned
      BY <1>4, <1>5, <2>1, Counts DEF PlacementInv, Grown
    <3>2. CASE rec \notin roster' \/ t # tab
      <4>1. /\ active(t)' = active(t)
            /\ \A k : count(t, k)' = count(t, k) /\ nextRow(t, k)' = nextRow(t, k)
        BY <1>9, <3>2
      <4>2. QED
        BY <3>1, <4>1
    <3>3. CASE rec \in roster' /\ t = tab
      <4>1. /\ active(t)' = active(t) \cup {rec}
            /\ count(t, column)' = count(t, column) + 1
            /\ nextRow(t, column)' = nextRow(t, column) + 1
            /\ \A k : k # column => count(t, k)' = count(t, k) /\ nextRow(t, k)' = nextRow(t, k)
        BY <1>6, <1>9, <3>3
      <4>2. \A k : /\ count(t, k)' \in Nat /\ count(t, k)' >= count(t, k)
                   /\ nextRow(t, k)' \in Nat /\ nextRow(t, k)' >= nextRow(t, k)
        BY <3>1, <4>1
      <4>3. column # ByHand =>
              /\ row = nextRow(t, column)
              /\ implied = "down" /\ column + 1 \in DOMAIN shape(t) => count(t, column + 1) > 0
              /\ implied = "right" => count(t, column) = 0
        <5>1. SUFFICES ASSUME column # ByHand
                       PROVE  /\ row = nextRow(tab, column)
                              /\ implied = "down" /\ column + 1 \in DOMAIN shape(tab) => count(tab, column + 1) > 0
                              /\ implied = "right" => count(tab, column) = 0
          BY <3>3
        <5>2. tab \in Tabs \ churned /\ column \in Nat \ {ByHand} /\ Aims(tab, column) /\ Current
          BY <1>4, <1>10, <3>1, <3>3, <5>1 DEF PlacementInv
        <5>3. /\ spot.row = nextRow(tab, column)
              /\ spot.implied = "down" /\ column + 1 \in DOMAIN shape(tab) => count(tab, column + 1) > 0
          BY <5>2 DEF Current
        <5>4. QED
          BY <1>2, <1>11, <5>1, <5>3
      <4>4. ASSUME NEW c \in active(t)', c.column # ByHand PROVE c.row < nextRow(t, c.column)'
        <5>1. CASE c \in active(t)
          <6>1. c.row \in Nat
            BY <1>5, <5>1 DEF active, Listing
          <6>2. QED
            BY <3>1, <4>1, <4>2, <4>4, <5>1, <6>1
        <5>2. CASE c = rec
          BY <1>6, <3>1, <4>1, <4>3, <4>4, <5>2
        <5>3. QED
          BY <4>1, <5>1, <5>2
      <4>5. ASSUME NEW k \in DOMAIN shape(t), count(t, k)' > 1, k + 1 \in DOMAIN shape(t)
            PROVE  count(t, k + 1)' > 0
        <5>1. k \in Nat /\ k # ByHand
          BY Shapes DEF ByHand
        <5>2. count(t, k + 1) > 0
          BY <1>11, <3>1, <4>1, <4>3, <4>5, <5>1
        <5>3. count(t, k + 1)' \in Nat /\ count(t, k + 1) \in Nat /\ count(t, k + 1)' >= count(t, k + 1)
          BY <3>1, <4>2
        <5>4. QED
          BY <5>2, <5>3
      <4>6. QED
        BY <4>4, <4>5
    <3>4. QED
      BY <3>2, <3>3
  <2>2. QED
    BY <2>1 DEF Grown
<1>14. Ordered'
  <2>1. SUFFICES ASSUME NEW t \in Tabs \ forced', NEW c \in Slots(t)', NEW d \in Slots(t)'
                 PROVE  /\ Parts(c.pane, d.pane, "right")' => c.column < d.column
                        /\ Parts(c.pane, d.pane, "down")' /\ t \notin nested' => c.column = d.column
                        /\ Parts(c.pane, d.pane, "down")' /\ t \notin churned' => c.row < d.row
    BY DEF Ordered
  <2>2. /\ "right" \in Directions /\ "down" \in Directions
        /\ t \notin forced /\ (t = tab => direction = implied)
    BY <1>4, <2>1 DEF Directions
  <2>3. ASSUME NEW e \in Slots(t)'
        PROVE  e \in Slots(t) \/ (rec \in roster' /\ t = tab /\ e = rec /\ column # ByHand)
    BY <1>6, <1>9 DEF Slots
  <2>4. CASE c \in Slots(t) /\ d \in Slots(t)
    <3>1. /\ c.pane \in DOMAIN at /\ d.pane \in DOMAIN at /\ at[c.pane].tab = at[d.pane].tab
      BY <1>5, <2>4, SlotsAt
    <3>2. \A e \in Directions : Parts(c.pane, d.pane, e)' => Parts(c.pane, d.pane, e)
      BY <1>8, <3>1
    <3>3. /\ Parts(c.pane, d.pane, "right") => c.column < d.column
          /\ Parts(c.pane, d.pane, "down") /\ t \notin nested => c.column = d.column
          /\ Parts(c.pane, d.pane, "down") /\ t \notin churned => c.row < d.row
      BY <2>2, <2>4 DEF PlacementInv, Ordered
    <3>4. QED
      BY <1>4, <2>2, <3>2, <3>3
  <2>5. CASE c = rec /\ d = rec
    BY <1>6, <1>8, <2>2, <2>5
  <2>6. ASSUME t = tab, column # ByHand, NEW e \in Slots(tab)
        PROVE  /\ Parts(new, e.pane, "right")' => column < e.column
               /\ Parts(e.pane, new, "right")' => e.column < column
               /\ Parts(new, e.pane, "down")' \/ Parts(e.pane, new, "down")' =>
                     /\ tab \notin nested' => e.column = column
                     /\ tab \notin churned' => Parts(e.pane, new, "down")' /\ e.row < row
    <3>1. ~(tab = CaptainTab /\ column = 1)
      BY <1>5, <1>11, <2>6, Shapes, Counts DEF nextRow
    <3>2. PICK s \in Slots(tab) : /\ s.pane = pane
                                  /\ s.column = IF direction = "down" THEN column ELSE column - 1
      <4>1. PICK k : k = IF direction = "down" THEN column ELSE column - 1
        OBVIOUS
      <4>2. Splitting(tab, k) /\ k # ByHand
        BY <1>4, <1>11, <2>2, <2>6, <4>1 DEF ByHand
      <4>3. CASE \E c0 \in roster : c0.pane = pane /\ c0.tab = tab /\ c0.column = k
        BY <1>4, <4>1, <4>2, <4>3 DEF Slots, active
      <4>4. CASE pane = Captain /\ tab = CaptainTab /\ k = 1
        <5>1. [pane |-> Captain, tab |-> tab, column |-> 1, row |-> 1] \in Slots(tab)
          BY <4>4 DEF Slots
        <5>2. QED
          BY <4>1, <4>4, <5>1
      <4>5. QED
        BY <1>2, <4>2, <4>3, <4>4 DEF Splitting
    <3>3. /\ e.pane \in DOMAIN at /\ at[e.pane].tab = at[pane].tab /\ (e.pane = s.pane => e = s)
      BY <1>4, <1>5, <3>2, SlotsAt
    <3>4. \A f \in Directions : e # s =>
            (Parts(new, e.pane, f)' <=> Parts(s.pane, e.pane, f)) /\ (Parts(e.pane, new, f)' <=> Parts(e.pane, s.pane, f))
      BY <1>8, <3>2, <3>3
    <3>5. \A f \in Directions : e = s =>
            (Parts(e.pane, new, f)' => f = direction) /\ ~Parts(new, e.pane, f)'
      BY <1>8, <3>2
    <3>6. /\ tab \in Tabs \ forced /\ column \in Nat /\ row \in Nat /\ direction \in Directions
          /\ Aims(tab, column) /\ column # ByHand /\ spot.pane = s.pane /\ spot.implied = direction
          /\ row = spot.row /\ churned' = churned
      BY <1>2, <1>4, <1>10, <2>2, <2>6, <3>2
    <3>7. nested' = IF BesideStack THEN nested \cup {spot.tab} ELSE nested
      BY <1>2, <1>4
    <3>8. s.column = IF direction = "down" THEN column ELSE column - 1
      BY <3>2
    <3>9. QED
      BY <2>6, <3>1, <3>4, <3>5, <3>6, <3>7, <3>8, BesideOrBelow
  <2>7. CASE c = rec /\ d \in Slots(t) /\ t = tab /\ column # ByHand
    <3>1. /\ Parts(new, d.pane, "right")' => column < d.column
          /\ Parts(new, d.pane, "down")' => /\ tab \notin nested' => d.column = column
                                            /\ tab \notin churned' => Parts(d.pane, new, "down")'
      BY <2>6, <2>7
    <3>2. Parts(new, d.pane, "down")' => ~Parts(d.pane, new, "down")'
      <4>1. at'[new].path \in Seq(Half) /\ at'[d.pane].path \in Seq(Half)
        BY <1>5, <1>8, <2>7, SlotsAt
      <4>2. QED
        BY <4>1, PartsLeads, LeadsOnce
    <3>3. QED
      BY <1>6, <2>7, <3>1, <3>2
  <2>8. CASE d = rec /\ c \in Slots(t) /\ t = tab /\ column # ByHand
    BY <1>6, <2>6, <2>8
  <2>9. QED
    BY <2>3, <2>4, <2>5, <2>7, <2>8
<1>15. QED
  BY <1>8, <1>12, <1>13, <1>14 DEF PlacementInv

-----------------------------------------------------------------------------
(* The theorems.                                                           *)

\* The captain is alone.
LEMMA PlacementStarts == ASSUME PlacementInit PROVE PlacementInv
<1>1. /\ DOMAIN at = {Captain} /\ at[Captain] = [tab |-> CaptainTab, path |-> <<>>]
      /\ roster = {} /\ spot.step = "none" /\ spot.direction = "tab" /\ spot.implied = "tab"
      /\ spot.tab = 0 /\ spot.column = 0 /\ spot.row = 0
      /\ churned = {} /\ nested = {} /\ forced = {}
  BY DEF PlacementInit, NoSpot, ByHand
<1>2. CaptainTab \in Tabs /\ CaptainTab = 0
  BY PlacementAssumption DEF Tabs, CaptainTab
<1>3. /\ \A tab : active(tab) = {}
      /\ \A tab, column : count(tab, column) = 0 /\ nextRow(tab, column) \in {1, 2}
      /\ \A tab, column : nextRow(tab, column) = 2 => column = 1
  <2>1. \A tab : active(tab) = {}
    BY <1>1 DEF active
  <2>2. \A tab, column : count(tab, column) = 0
    BY <2>1, FS_EmptySet DEF count, occupancy
  <2>3. QED
    BY <2>1, <2>2 DEF nextRow
<1>4. Trees
  BY <1>1 DEF Trees
<1>5. Listing
  <2>1. IsFiniteSet({}) /\ <<>> \in Seq(Half)
    BY FS_EmptySet
  <2>2. at[Captain].tab = CaptainTab /\ \A p \in DOMAIN at : at[p] \in [tab: Tabs, path: Seq(Half)]
    <3>1. PICK path : path = <<>>
      OBVIOUS
    <3>2. path \in Seq(Half) /\ at[Captain] = [tab |-> CaptainTab, path |-> path]
      BY <1>1, <2>1, <3>1
    <3>3. [tab |-> CaptainTab, path |-> path] \in [tab: Tabs, path: Seq(Half)]
      BY <1>2, <3>2
    <3>4. QED
      BY <1>1, <3>2, <3>3
  <2>3. QED
    BY <1>1, <1>2, <2>1, <2>2 DEF Listing
<1>6. Room
  BY <1>3, Shapes DEF Room
<1>7. Ordered
  <2>1. \A tab, c : c \in Slots(tab) => c.pane = Captain
    BY <1>3 DEF Slots
  <2>2. QED
    BY <2>1, NoSelf DEF Ordered
<1>8. Grown
  BY <1>3 DEF Grown
<1>9. Resolved /\ Current
  BY <1>1, <1>2 DEF Resolved, Current, Aims
<1>10. QED
  BY <1>4, <1>5, <1>6, <1>7, <1>8, <1>9 DEF PlacementInv

\* The invariant is inductive.
LEMMA PlacementKept == PlacementInv /\ [PlacementNext]_placementVars => PlacementInv'
<1>1. SUFFICES ASSUME PlacementInv, [PlacementNext]_placementVars PROVE PlacementInv'
  OBVIOUS
<1>2. CASE UNCHANGED placementVars
  <2>1. UNCHANGED <<at, roster, churned, nested, forced>> /\ spot' = spot
    BY <1>2 DEF placementVars
  <2>2. \A k, tab : Splitting(tab, k)' = Splitting(tab, k) /\ Aims(tab, k)' = Aims(tab, k)
    BY <2>1 DEF Splitting, Aims
  <2>3. Resolved' /\ Current'
    BY <1>1, <2>1, <2>2, StillStanding DEF PlacementInv, Resolved, Current
  <2>4. QED
    BY <1>1, <2>1, <2>3, StillStanding DEF PlacementInv
<1>3. QED
  BY <1>1, <1>2, KeptByResolve, KeptByFlags, KeptByPane, KeptByTab, KeptByFailure,
     KeptByDismissal, KeptByLoss DEF PlacementNext

\* The invariant says that the shape holds.
LEMMA ShapeFollows == PlacementInv => ShapeHolds
<1>1. SUFFICES ASSUME PlacementInv, NEW tab \in OpenTabs
               PROVE  /\ \A column \in DOMAIN shape(tab) :
                            Cardinality({c \in Slots(tab) : c.column = column}) <= shape(tab)[column]
                      /\ tab \notin forced => \A c, d \in Slots(tab) :
                            /\ Parts(c.pane, d.pane, "right") => c.column < d.column
                            /\ Parts(c.pane, d.pane, "down") /\ tab \notin nested => c.column = d.column
                            /\ Parts(c.pane, d.pane, "down") /\ tab \notin churned => c.row < d.row
  BY DEF ShapeHolds
<1>2. tab \in Tabs /\ Listing /\ Room
  BY <1>1 DEF PlacementInv, Listing, OpenTabs
<1>3. ASSUME NEW column \in DOMAIN shape(tab)
      PROVE  Cardinality({c \in Slots(tab) : c.column = column}) <= shape(tab)[column]
  <2>1. /\ column # ByHand /\ shape(tab)[column] \in Nat /\ shape(tab)[column] >= 1
        /\ nextRow(tab, column) <= shape(tab)[column] + 1
        /\ count(tab, column) \in Nat /\ nextRow(tab, column) \in Nat
        /\ nextRow(tab, column) > count(tab, column)
    BY <1>2, Shapes, Counts DEF Room, ByHand
  <2>2. CASE tab = CaptainTab /\ column = 1
    <3>1. occupancy(tab, column) = {}
      BY <1>2, <2>2, CaptainAlone
    <3>2. \A c \in Slots(tab) : c.column = column => c = [pane |-> Captain, tab |-> tab, column |-> 1, row |-> 1]
      BY <2>2, <3>1 DEF Slots, occupancy
    <3>3. {c \in Slots(tab) : c.column = column} = {[pane |-> Captain, tab |-> tab, column |-> 1, row |-> 1]}
      BY <2>2, <3>2 DEF Slots
    <3>4. QED
      BY <2>1, <3>3, FS_Singleton
  <2>3. CASE ~(tab = CaptainTab /\ column = 1)
    <3>1. {c \in Slots(tab) : c.column = column} = occupancy(tab, column)
      BY <2>1, <2>3 DEF Slots, occupancy
    <3>2. QED
      BY <2>1, <3>1 DEF count
  <2>4. QED
    BY <2>2, <2>3
<1>4. QED
  BY <1>1, <1>2, <1>3 DEF PlacementInv, Ordered

\* The inductive invariant holds of every state the layout and Herdr reach.
THEOREM PlacementSafe == PlacementSpec => []PlacementInv
<1>1. PlacementInit => PlacementInv
  BY PlacementStarts
<1>2. QED
  BY <1>1, PlacementKept, PTL DEF PlacementSpec

\* Whatever is recruited, dismissed, closed or lost, no column of the roster holds more than
\* was declared.  Where no slot was split against the grid by --direction, the columns run left
\* to right on the screen, and a pane is below another only in its own column, and below the
\* one that came first, but for the tabs that ShapeHolds names: those that lost a pane, and of
\* them those where an emptied column was opened again beside a stack (next_slot and split_for of the layout, create_crew and dismiss_crew, Herdr's splits).
THEOREM ColumnsHoldShape == PlacementSpec => []ShapeHolds
BY PlacementSafe, ShapeFollows, PTL

\* Panes, roster and recruit keep their types (placement.py, agents.create_crew).
THEOREM PlacesAreTyped == PlacementSpec => []PlacementTypeOK
<1>1. PlacementInv => PlacementTypeOK
  BY DEF PlacementInv, Listing, Resolved, PlacementTypeOK
<1>2. QED
  BY <1>1, PlacementSafe, PTL

=============================================================================
