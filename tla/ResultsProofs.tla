---------------------------- MODULE ResultsProofs ----------------------------
(***************************************************************************)
(* Proofs about Results, for any number of files, results, edits and saves: *)
(* a final result is the crew's last word, disposal loses nothing, and a    *)
(* transfer replaces only the base or what was saved after its last look.   *)
(***************************************************************************)
EXTENDS Results, TLAPS

\* Only after the verdict is a scan not provisional, and the verdict is a receipt.
VerdictStands ==
    /\ ~provisional => writer = "stopped" /\ scan = 3 /\ cmd \in {"scan", "publish"}
    /\ cmd \in {"verdict", "publish"} => scan = 3
    /\ cmd = "verdict" => at = 0

FinalStands == \A r \in 1 .. Len(results) : Final(r) => writer = "stopped"

\* The third scan, of a writer that has stopped, copies the tree item by item.
ThirdScan ==
    ~cut /\ ~provisional =>
        /\ cmd = "scan" => \A i \in Item : i < at => snap[i] = tree[i]
        /\ cmd = "publish" => \A i \in Item : snap[i] = tree[i]

\* A collection has room for its result.
Room ==
    /\ Len(results) <= MaxResults
    /\ cmd \in {"scan", "verdict", "publish"} => Len(results) < MaxResults
    /\ wt.result <= Len(results)

\* What stands in the checkout is among what has stood there.
Standing == \A p \in Path : checkout[p] \in stood[p]

\* What cleanup_ready found, as far as it lasts: the user may edit the checkout meanwhile.
Ready(r) ==
    /\ r # 0 /\ r <= Len(results)
    /\ Final(r) /\ Resolved(r) /\ results[r].tree = tree
    /\ \/ r \in discarded
       \/ tree[0] = "base" /\ \A p \in Entries(r) : Post(r, p) \in stood[p]

Disposing ==
    /\ cmd \in {"ready", "removing", "git"} => writer = "stopped"
    /\ cmd \in {"removing", "git"} /\ ~cut => Ready(wt.result)

\* A transfer is of a published result.  Since its last look at the file it replaces that
\* is the base's, or the user saved it.
Swapping ==
    /\ xfer.step # "idle" => xfer.result \in 1 .. Len(results)
    /\ xfer.step = "swap" => /\ xfer.path \in Path
                             /\ checkout[xfer.path] = "base" \/ xfer.raced

ResInv ==
    /\ TypeOK /\ VerdictStands /\ FinalStands /\ ThirdScan /\ Room /\ FinalIsFinal /\ Standing
    /\ Disposing /\ Swapping

ResultRecord == [provisional: BOOLEAN, tree: Tree]

-----------------------------------------------------------------------------
(* Trees, and results under a longer list.                                 *)

LEMMA ItemFacts == Path \subseteq Item /\ 0 \in Item /\ 0 \notin Path
BY ResultsAssumption DEF Path, Item

LEMMA TreeApart ==
    ASSUME NEW t \in Tree, NEW u \in Tree, \A i \in Item : t[i] = u[i]
    PROVE  t = u
BY DEF Tree

LEMMA BaseTyped == BaseTree \in Tree
BY ItemFacts DEF BaseTree, Tree, Content, Remainder

LEMMA ResultTyped ==
    ASSUME TypeOK, NEW r \in 1 .. Len(results)
    PROVE  /\ results[r] \in ResultRecord
           /\ Entries(r) \subseteq Path
           /\ \A p \in Path : Post(r, p) \in Content
<1>1. results \in Seq(ResultRecord)
  BY DEF TypeOK, ResultRecord
<1>2. results[r] \in ResultRecord
  BY <1>1
<1> QED
  BY <1>2 DEF ResultRecord, Entries, Post, Tree

LEMMA InitInv == Init => ResInv
<1> SUFFICES ASSUME Init PROVE ResInv
  OBVIOUS
<1>1. TypeOK
  <2>2. results \in Seq([provisional: BOOLEAN, tree: Tree])
    BY DEF Init
  <2>3. xfer \in [step: {"idle", "journal", "write", "swap", "receipt"},
                  result: 0 .. MaxResults, todo: SUBSET Path, path: 0 .. Files, raced: BOOLEAN]
    BY ResultsAssumption DEF Init, Idle
  <2>4. checkout \in [Path -> Content \cup {"user"}] /\ stood \in [Path -> SUBSET (Content \cup {"user"})]
    BY DEF Init, Content
  <2>5. wt \in [phase: {"reserved", "creating", "ready", "retained", "removing", "removed"},
                result: 0 .. MaxResults]
    BY ResultsAssumption DEF Init
  <2>6. /\ journal \in [Result -> {"none", "applying", "partial", "applied"}]
        /\ index \in [Path -> {"base", "staged", "committed"}]
    BY DEF Init
  <2>7. tree \in Tree /\ snap \in Tree
    BY BaseTyped DEF Init
  <2>8. at \in Item /\ scan \in 1 .. 3 /\ edits \in Nat /\ saves \in Nat
    BY ItemFacts DEF Init
  <2>9. /\ discarded \subseteq Result /\ link = "none" /\ writer = "unverified" /\ cmd = "idle"
        /\ cut \in BOOLEAN /\ provisional \in BOOLEAN
    BY DEF Init
  <2> QED
    BY <2>2, <2>3, <2>4, <2>5, <2>6, <2>7, <2>8, <2>9 DEF TypeOK
<1>2. VerdictStands /\ FinalStands /\ ThirdScan /\ FinalIsFinal /\ Standing
  BY DEF Init, VerdictStands, FinalStands, ThirdScan, FinalIsFinal, Standing
<1>3. Room /\ Disposing /\ Swapping
  BY ResultsAssumption DEF Init, Room, Disposing, Swapping, Idle
<1> QED
  BY <1>1, <1>2, <1>3 DEF ResInv

-----------------------------------------------------------------------------
(* Types are kept.                                                         *)

LEMMA TypeStep == ResInv /\ [Next]_vars => TypeOK'
<1> SUFFICES ASSUME ResInv, [Next]_vars PROVE TypeOK'
  OBVIOUS
<1> USE DEF ResInv, TypeOK
<1>1. CASE Create
  BY <1>1 DEF Create, BeginCreate, AddWorktree, Register, Step, ScanKept, resVars, userVars
<1>2. CASE WriterEnds
  BY <1>2 DEF WriterEnds, cmdVars, resVars, userVars
<1>3. CASE CrewWrites
  <2>1. tree' \in Tree
    BY <1>3, ItemFacts DEF CrewWrites, Tree
  <2> QED
    BY <1>3, <2>1 DEF CrewWrites, cmdVars, resVars, userVars
<1>4. CASE BeginCollect
  BY <1>4 DEF BeginCollect, Step, ScanKept, wtVars, resVars, userVars
<1>5. CASE Look
  <2>1. snap' \in Tree
    <3>1. at = 0 => tree[at] \in Remainder
      BY DEF Tree
    <3>2. at # 0 => at \in Path /\ tree[at] \in Content
      BY ResultsAssumption DEF Tree, Item, Path
    <3> QED
      BY <1>5, <3>1, <3>2, ItemFacts DEF Look, Tree
  <2>2. at' \in Item /\ scan' \in 1 .. 3
    BY <1>5, ResultsAssumption DEF Look, Item
  <2>3. cmd' \in {"scan", "verdict", "publish"}
    BY <1>5 DEF Look
  <2> QED
    BY <1>5, <2>1, <2>2, <2>3 DEF Look, wtVars, resVars, userVars
<1>6. CASE Verdict
  BY <1>6 DEF Verdict, AfterVerdict, stopped, wtVars, resVars, userVars
<1>7. CASE Publish
  <2>1. results' \in Seq([provisional: BOOLEAN, tree: Tree])
    BY <1>7 DEF Publish
  <2>2. snap' \in Tree /\ at' \in Item /\ scan' \in 1 .. 3 /\ provisional' \in BOOLEAN
    BY <1>7, BaseTyped, ItemFacts DEF Publish, NoScan
  <2> QED
    BY <1>7, <2>1, <2>2 DEF Publish, Step, wtVars, userVars
<1>8. CASE RecordResult
  <2>1. Len(results) \in 0 .. MaxResults
    BY ResultsAssumption DEF Room
  <2> QED
    BY <1>8, <2>1 DEF RecordResult, Step, ScanKept, resVars, userVars
<1>9. CASE FinishRemoval \/ BeginDispose \/ CheckReady \/ JournalRemoving \/ GitRemoves \/ JournalRemoved
  BY <1>9, ZenonT(30) DEF FinishRemoval, BeginDispose, CheckReady, JournalRemoving, GitRemoves,
              JournalRemoved, Step, ScanKept, wtVars, cmdVars, resVars, userVars
<1>10. CASE GitCuts
  <2>1. tree' \in Tree
    BY <1>10, ItemFacts DEF GitCuts, Tree, Content
  <2> QED
    BY <1>10, <2>1 DEF GitCuts, cmdVars, resVars, userVars
<1>11. CASE CommandEnds
  <2>1. snap' \in Tree /\ at' \in Item /\ scan' \in 1 .. 3 /\ provisional' \in BOOLEAN
    BY <1>11, BaseTyped, ItemFacts DEF CommandEnds, NoScan
  <2> QED
    BY <1>11, <2>1 DEF CommandEnds, wtVars, resVars, userVars
<1>12. CASE Transfer
  <2> DEFINE Xfer == [step: {"idle", "journal", "write", "swap", "receipt"},
                      result: 0 .. MaxResults, todo: SUBSET Path, path: 0 .. Files,
                      raced: BOOLEAN]
  <2>0. xfer \in Xfer /\ Idle \in Xfer
    BY ResultsAssumption DEF Idle
  <2>1. CASE \E r \in 1 .. Len(results) : FindApplied(r) \/ BeginApply(r)
    <3> PICK r \in 1 .. Len(results) : FindApplied(r) \/ BeginApply(r)
      BY <2>1
    <3>1. r \in 0 .. MaxResults /\ Entries(r) \subseteq Path
      BY ResultsAssumption DEF Room, Entries
    <3>2. xfer' \in Xfer
      BY <2>0, <3>1 DEF FindApplied, BeginApply
    <3> QED
      BY <3>2 DEF FindApplied, BeginApply, wtVars, resVars, userVars, cmdVars
  <2>2. CASE \E r \in 1 .. Len(results) : Discard(r)
    BY <2>2, ResultsAssumption DEF Discard, Result, Room, wtVars, userVars, cmdVars
  <2>3. CASE \E q \in Path : Recheck(q)
    <3> PICK q \in Path : Recheck(q)
      BY <2>3
    <3>1. q \in 0 .. Files
      BY ResultsAssumption DEF Path
    <3>2. xfer' \in Xfer
      BY <2>0, <3>1 DEF Recheck
    <3> QED
      BY <3>2 DEF Recheck, wtVars, resVars, userVars, cmdVars
  <2>4. CASE Swap
    <3>1. Post(xfer.result, xfer.path) \in Content
      BY <2>4, ResultTyped DEF Swapping, Swap
    <3>2. xfer' \in Xfer
      <4>1. 0 \in 0 .. Files
        BY ResultsAssumption
      <4> QED
        BY <2>0, <2>4, <4>1 DEF Swap
    <3>3. /\ checkout' \in [Path -> Content \cup {"user"}]
          /\ stood' \in [Path -> SUBSET (Content \cup {"user"})]
      BY <2>4, <3>1 DEF Swap, Put
    <3> QED
      BY <2>4, <3>2, <3>3 DEF Swap, wtVars, resVars, cmdVars
  <2>5. CASE JournalApplying \/ TransferFails \/ Receipt
    <3>1. xfer' \in Xfer
      BY <2>0, <2>5 DEF JournalApplying, TransferFails, Receipt
    <3>2. journal' \in [Result -> {"none", "applying", "partial", "applied"}]
      BY <2>5 DEF JournalApplying, TransferFails, Receipt
    <3> QED
      BY <2>5, <3>1, <3>2 DEF JournalApplying, TransferFails, Receipt, wtVars, userVars, cmdVars
  <2>6. CASE Written \/ TransferDies
    <3>1. xfer' \in Xfer
      BY <2>0, <2>6 DEF Written, TransferDies
    <3> QED
      BY <2>6, <3>1 DEF Written, TransferDies, wtVars, resVars, userVars, cmdVars
  <2> QED
    BY <1>12, <2>1, <2>2, <2>3, <2>4, <2>5, <2>6 DEF Transfer
<1>13. CASE User
  <2>1. \A q \in Path : \A c \in ByHand(q) : c \in Content \cup {"user"}
    BY ResultTyped DEF ByHand
  <2>2. ASSUME NEW q \in Path, NEW c \in Content \cup {"user"}, Save(q, c) PROVE TypeOK'
    <3>1. /\ checkout' \in [Path -> Content \cup {"user"}]
          /\ stood' \in [Path -> SUBSET (Content \cup {"user"})]
      BY <2>2 DEF Save, Put
    <3>2. xfer' \in [step: {"idle", "journal", "write", "swap", "receipt"},
                     result: 0 .. MaxResults, todo: SUBSET Path, path: 0 .. Files,
                     raced: BOOLEAN]
      BY <2>2 DEF Save
    <3>3. saves' \in Nat /\ UNCHANGED <<index, wtVars, resVars, cmdVars>>
      BY <2>2 DEF Save
    <3> QED
      BY <3>1, <3>2, <3>3 DEF wtVars, resVars, cmdVars
  <2>3. ASSUME NEW q \in Path, NEW i \in {"staged", "committed"}, Stage(q, i) PROVE TypeOK'
    BY <2>3 DEF Stage, wtVars, resVars, cmdVars
  <2> QED
    BY <1>13, <2>1, <2>2, <2>3 DEF User
<1>14. CASE UNCHANGED vars
  BY <1>14 DEF vars, wtVars, resVars, userVars, cmdVars
<1> QED
  BY <1>1, <1>2, <1>3, <1>4, <1>5, <1>6, <1>7, <1>8, <1>9, <1>10, <1>11, <1>12, <1>13, <1>14
     DEF Next, Crew, Collect, Dispose

-----------------------------------------------------------------------------
(* The scans and what they found.                                          *)

\* Outside the collection a step leaves the scan alone, or ends it.
Collecting == {"scan", "verdict", "publish", "record"}
LEMMA ScanFrame ==
    ASSUME Next, ~Collect
    PROVE  \/ /\ UNCHANGED <<scan, at, snap, provisional>>
              /\ cmd' = cmd \/ (cmd \notin Collecting /\ cmd' \notin Collecting)
           \/ cmd' = "idle" /\ provisional' = TRUE
BY DEF Next, Create, BeginCreate, AddWorktree, Register, Crew, WriterEnds, CrewWrites, Step,
       Dispose, FinishRemoval, BeginDispose, CheckReady, JournalRemoving, GitCuts, GitRemoves,
       JournalRemoved, CommandEnds, NoScan, ScanKept, Transfer, FindApplied, BeginApply, Discard,
       Recheck, JournalApplying, Swap, TransferFails, Written, Receipt, TransferDies,
       User, Save, Stage, cmdVars, Collecting

\* The tree changes by the crew, which has not stopped, or by git; a receipt stands.
LEMMA TreeFrame ==
    ASSUME Next
    PROVE  /\ writer = "stopped" => writer' = "stopped"
           /\ cut => cut'
           /\ writer = "stopped" /\ ~cut' => tree' = tree
<1>1. CASE CrewWrites
  BY <1>1 DEF CrewWrites
<1>2. CASE WriterEnds
  BY <1>2 DEF WriterEnds
<1>3. CASE GitCuts \/ GitRemoves
  BY <1>3 DEF GitCuts, GitRemoves
<1>4. CASE ~(CrewWrites \/ WriterEnds \/ GitCuts \/ GitRemoves)
  <2>1. UNCHANGED <<tree, cut, writer>>
    <3>1. CASE Create \/ Collect \/ Dispose \/ CommandEnds
      BY <1>4, <3>1 DEF Create, BeginCreate, AddWorktree, Register, Collect, BeginCollect,
         Look, Verdict, Publish, RecordResult, Dispose, FinishRemoval, BeginDispose, CheckReady,
         JournalRemoving, JournalRemoved, CommandEnds, wtVars
    <3>2. CASE Transfer \/ User
      BY <3>2 DEF Transfer, FindApplied, BeginApply, Discard, Recheck, JournalApplying, Swap,
         TransferFails, Written, Receipt, TransferDies, User, Save, Stage, wtVars
    <3> QED
      BY <1>4, <3>1, <3>2 DEF Next, Crew
  <2> QED
    BY <2>1
<1> QED
  BY <1>1, <1>2, <1>3, <1>4

LEMMA VerdictStep == ResInv /\ [Next]_vars => VerdictStands'
<1> SUFFICES ASSUME ResInv, [Next]_vars PROVE VerdictStands'
  OBVIOUS
<1> USE DEF VerdictStands
<1>1. VerdictStands /\ scan \in 1 .. 3
  BY DEF ResInv, TypeOK
<1>2. CASE Next /\ ~Collect
  BY <1>1, <1>2, ScanFrame, TreeFrame DEF Collecting
<1>3. CASE BeginCollect
  BY <1>1, <1>3 DEF BeginCollect, Step, ScanKept, wtVars
<1>4. CASE Look
  BY <1>1, <1>4 DEF Look, wtVars
<1>5. CASE Verdict
  BY <1>1, <1>5 DEF Verdict, AfterVerdict, stopped, wtVars, ResInv, TypeOK
<1>6. CASE Publish
  BY <1>1, <1>6 DEF Publish, Step, NoScan, wtVars
<1>7. CASE RecordResult
  BY <1>1, <1>7 DEF RecordResult, Step, ScanKept
<1>8. CASE UNCHANGED vars
  BY <1>1, <1>8 DEF vars, wtVars, cmdVars
<1> QED
  BY <1>2, <1>3, <1>4, <1>5, <1>6, <1>7, <1>8 DEF Next, Collect

LEMMA ThirdStep == ResInv /\ [Next]_vars => ThirdScan'
<1> SUFFICES ASSUME ResInv, [Next]_vars, ~cut', ~provisional'
             PROVE  /\ cmd' = "scan" => \A i \in Item : i < at' => snap'[i] = tree'[i]
                    /\ cmd' = "publish" => \A i \in Item : snap'[i] = tree'[i]
  BY DEF ThirdScan
<1>1. ThirdScan /\ VerdictStands /\ scan \in 1 .. 3 /\ at \in Item /\ snap \in Tree /\ tree \in Tree
  BY DEF ResInv, TypeOK
<1>2. CASE Next /\ ~Collect
  BY <1>1, <1>2, ScanFrame, TreeFrame DEF ThirdScan, VerdictStands, Collecting
<1>3. CASE BeginCollect
  BY <1>1, <1>3 DEF BeginCollect, Step, ScanKept, wtVars, VerdictStands
<1>4. CASE Look
  <2>1. /\ cmd = "scan" /\ ~provisional /\ scan = 3 /\ UNCHANGED <<tree, cut>>
        /\ snap' = snap /\ snap[at] = tree[at]
    BY <1>1, <1>4 DEF Look, wtVars, VerdictStands, Tree
  <2>2. \A i \in Item : i <= at => snap[i] = tree[i]
    BY <1>1, <2>1, ResultsAssumption DEF ThirdScan, Item
  <2>3. at < Files => cmd' = "scan" /\ at' = at + 1
    BY <1>4, <2>1 DEF Look
  <2>4. ~(at < Files) => cmd' = "publish" /\ at = Files
    BY <1>1, <1>4, <2>1, ResultsAssumption DEF Look, Item
  <2> QED
    BY <1>1, <2>1, <2>2, <2>3, <2>4, ResultsAssumption DEF Item
<1>5. CASE Verdict
  BY <1>1, <1>5, ResultsAssumption DEF Verdict, AfterVerdict, VerdictStands, Item
<1>6. CASE Publish \/ RecordResult
  BY <1>6 DEF Publish, RecordResult, Step
<1>7. CASE UNCHANGED vars
  BY <1>1, <1>7 DEF vars, wtVars, cmdVars, ThirdScan
<1> QED
  BY <1>2, <1>3, <1>4, <1>5, <1>6, <1>7 DEF Next, Collect

-----------------------------------------------------------------------------
(* Results and the record.                                                 *)

\* Only publishing touches the results, and only RecordResult names one in the record.
LEMMA ResultsKept ==
    ASSUME Next, ~Publish
    PROVE  results' = results
BY DEF Next, Create, BeginCreate, AddWorktree, Register, Crew, WriterEnds, CrewWrites, Collect,
       BeginCollect, Look, Verdict, RecordResult, Dispose, FinishRemoval, BeginDispose,
       CheckReady, JournalRemoving, GitCuts, GitRemoves, JournalRemoved, CommandEnds, Transfer,
       FindApplied, BeginApply, Discard, Recheck, JournalApplying, Swap, TransferFails, Written,
       Receipt, TransferDies, User, Save, Stage, resVars

LEMMA RecordKept ==
    ASSUME TypeOK, Next, ~RecordResult
    PROVE  wt'.result = wt.result
<1> DEFINE Phases == {"reserved", "creating", "ready", "retained", "removing", "removed"}
<1>1. wt \in [phase: Phases, result: 0 .. MaxResults]
  BY DEF TypeOK
<1>2. CASE wt' = wt
  BY <1>2
<1>3. CASE \E phase \in Phases : wt' = [wt EXCEPT !.phase = phase]
  BY <1>1, <1>3
<1>4. wt' = wt \/ \E phase \in Phases : wt' = [wt EXCEPT !.phase = phase]
  <2>1. CASE BeginCreate
    BY <2>1 DEF BeginCreate
  <2>2. CASE Register
    BY <2>2 DEF Register
  <2>3. CASE FinishRemoval
    BY <2>3 DEF FinishRemoval
  <2>4. CASE JournalRemoving \/ JournalRemoved
    BY <2>4 DEF JournalRemoving, JournalRemoved
  <2>5. CASE Collect \/ Crew \/ CommandEnds \/ AddWorktree
    BY <2>5 DEF Collect, Crew, BeginCollect, Look, Verdict, Publish, WriterEnds, CrewWrites,
       CommandEnds, AddWorktree, wtVars
  <2>6. CASE BeginDispose \/ CheckReady \/ GitCuts \/ GitRemoves
    BY <2>6 DEF BeginDispose, CheckReady, GitCuts, GitRemoves, wtVars
  <2>7. CASE Transfer \/ User
    BY <2>7 DEF Transfer, FindApplied, BeginApply, Discard, Recheck, JournalApplying, Swap,
       TransferFails, Written, Receipt, TransferDies, User, Save, Stage, wtVars
  <2> QED
    BY <2>1, <2>2, <2>3, <2>4, <2>5, <2>6, <2>7 DEF Next, Create, Dispose
<1> QED
  BY <1>2, <1>3, <1>4

LEMMA RoomStep == ResInv /\ [Next]_vars => Room'
<1> SUFFICES ASSUME ResInv, [Next]_vars PROVE Room'
  OBVIOUS
<1>1. Room /\ results \in Seq(ResultRecord) /\ wt.result \in Nat /\ Len(results) \in Nat /\ MaxResults \in Nat
  BY ResultsAssumption DEF ResInv, TypeOK, ResultRecord
<1>2. CASE Publish
  <2>1. Len(results') = Len(results) + 1
    BY <1>1, <1>2 DEF Publish
  <2>2. wt' = wt /\ cmd = "publish" /\ cmd' = "record"
    BY <1>2 DEF Publish, wtVars, Step
  <2> QED
    BY <1>1, <2>1, <2>2 DEF Room
<1>3. CASE RecordResult
  BY <1>1, <1>3 DEF RecordResult, Step, Room, resVars
<1>4. CASE BeginCollect
  BY <1>1, <1>4 DEF BeginCollect, Step, Room, wtVars, resVars
<1>5. CASE Look \/ Verdict
  <2>1. wt' = wt /\ results' = results /\ cmd \in {"scan", "verdict"}
    BY <1>5 DEF Look, Verdict, wtVars, resVars
  <2> QED
    BY <1>1, <2>1 DEF Room
<1>6. CASE Next /\ ~Collect
  <2>1. results' = results /\ wt'.result = wt.result
    BY <1>6, ResultsKept, RecordKept DEF Collect, ResInv
  <2> QED
    BY <1>1, <1>6, <2>1, ScanFrame DEF Room, Collecting
<1>7. CASE UNCHANGED vars
  BY <1>1, <1>7 DEF vars, wtVars, resVars, cmdVars, Room
<1> QED
  BY <1>2, <1>3, <1>4, <1>5, <1>6, <1>7 DEF Collect, Next

LEMMA StandStep == ResInv /\ [Next]_vars => FinalStands'
<1> SUFFICES ASSUME ResInv, [Next]_vars,
                    NEW r \in 1 .. Len(results'), ~results'[r].provisional
             PROVE  writer' = "stopped"
  BY DEF FinalStands, Final
<1>1. /\ VerdictStands /\ FinalStands /\ results \in Seq(ResultRecord) /\ Len(results) \in Nat
  BY DEF ResInv, TypeOK, ResultRecord
<1>2. CASE Publish
  <2>1. /\ results' = Append(results, [provisional |-> provisional, tree |-> snap])
        /\ writer' = writer
    BY <1>2 DEF Publish, wtVars
  <2>2. CASE r = Len(results) + 1
    <3>1. results'[r] = [provisional |-> provisional, tree |-> snap]
      BY <1>1, <2>1, <2>2
    <3> QED
      BY <1>1, <2>1, <3>1 DEF VerdictStands
  <2>3. CASE r # Len(results) + 1
    <3>1. r \in 1 .. Len(results) /\ results'[r] = results[r]
      BY <1>1, <2>1, <2>3
    <3> QED
      BY <1>1, <2>1, <3>1 DEF FinalStands, Final
  <2> QED
    BY <2>2, <2>3
<1>3. CASE Next /\ ~Publish
  BY <1>1, <1>3, ResultsKept, TreeFrame DEF FinalStands, Final
<1>4. CASE UNCHANGED vars
  BY <1>1, <1>4 DEF vars, wtVars, resVars, FinalStands, Final
<1> QED
  BY <1>2, <1>3, <1>4

LEMMA FinalStep == ResInv /\ [Next]_vars => FinalIsFinal'
<1> SUFFICES ASSUME ResInv, [Next]_vars, ~cut',
                    NEW r \in 1 .. Len(results'), ~results'[r].provisional
             PROVE  results'[r].tree = tree'
  BY DEF FinalIsFinal, Final
<1>1. /\ FinalIsFinal /\ FinalStands /\ ThirdScan /\ tree \in Tree /\ snap \in Tree
      /\ results \in Seq(ResultRecord) /\ Len(results) \in Nat
  BY DEF ResInv, TypeOK, ResultRecord
<1>2. CASE Publish
  <2>1. /\ results' = Append(results, [provisional |-> provisional, tree |-> snap])
        /\ tree' = tree /\ ~cut /\ cmd = "publish"
    BY <1>2 DEF Publish, Step, wtVars
  <2>2. CASE r = Len(results) + 1
    <3>1. results'[r] = [provisional |-> provisional, tree |-> snap]
      BY <1>1, <2>1, <2>2
    <3>2. \A i \in Item : snap[i] = tree[i]
      BY <1>1, <2>1, <3>1 DEF ThirdScan
    <3> QED
      BY <1>1, <2>1, <3>1, <3>2, TreeApart
  <2>3. CASE r # Len(results) + 1
    <3>1. r \in 1 .. Len(results) /\ results'[r] = results[r]
      BY <1>1, <2>1, <2>3
    <3> QED
      BY <1>1, <2>1, <3>1 DEF FinalIsFinal, Final
  <2> QED
    BY <2>2, <2>3
<1>3. CASE Next /\ ~Publish
  <2>1. results' = results
    BY <1>3, ResultsKept
  <2>2. ~cut
    BY <1>3, TreeFrame
  <2>3. r \in 1 .. Len(results) /\ Final(r)
    BY <2>1 DEF Final
  <2>4. results[r].tree = tree
    BY <1>1, <2>2, <2>3 DEF FinalIsFinal
  <2>5. writer = "stopped"
    BY <1>1, <2>3 DEF FinalStands
  <2> QED
    BY <1>3, <2>1, <2>4, <2>5, TreeFrame
<1>4. CASE UNCHANGED vars
  BY <1>1, <1>4 DEF vars, wtVars, resVars, FinalIsFinal, Final
<1> QED
  BY <1>2, <1>3, <1>4

-----------------------------------------------------------------------------
(* The checkout.                                                           *)

\* A step changes the checkout by putting a content in a file, which has stood there then.
LEMMA PutKeeps ==
    ASSUME TypeOK, NEW q \in Path, NEW c, Put(q, c), Standing
    PROVE  /\ Standing'
           /\ \A p \in Path : stood[p] \subseteq stood'[p]
BY DEF TypeOK, Put, Standing

LEMMA Stood ==
    ASSUME ResInv, [Next]_vars
    PROVE  /\ Standing'
           /\ \A p \in Path : stood[p] \subseteq stood'[p]
           /\ discarded \subseteq discarded'
<1>1. Standing /\ TypeOK
  BY DEF ResInv
<1>2. CASE Swap
  <2>1. xfer.path \in Path /\ discarded' = discarded
    BY <1>2 DEF ResInv, Swapping, Swap, resVars
  <2> QED
    BY <1>1, <1>2, <2>1, PutKeeps DEF Swap
<1>3. CASE User
  <2>1. CASE \E q \in Path : \E c \in ByHand(q) : Save(q, c)
    <3>1. PICK q \in Path : \E c : Put(q, c)
      BY <2>1 DEF Save
    <3> QED
      BY <1>1, <2>1, <3>1, PutKeeps DEF Save, resVars
  <2>2. CASE \E q \in Path : \E i \in {"staged", "committed"} : Stage(q, i)
    BY <1>1, <2>2 DEF Stage, resVars, Standing
  <2> QED
    BY <1>3, <2>1, <2>2 DEF User
<1>4. CASE UNCHANGED <<checkout, stood, discarded>>
  BY <1>1, <1>4 DEF Standing
<1>5. CASE Transfer /\ ~Swap
  <2>1. CASE \E r \in 1 .. Len(results) : Discard(r)
    BY <1>1, <2>1 DEF Discard, userVars, Standing
  <2> QED
    BY <1>4, <1>5, <2>1 DEF Transfer, FindApplied, BeginApply, Recheck, JournalApplying,
       TransferFails, Written, Receipt, TransferDies, userVars, resVars
<1>6. CASE UNCHANGED vars
  BY <1>4, <1>6 DEF vars, resVars, userVars
<1>7. CASE Create \/ Crew \/ Collect \/ Dispose \/ CommandEnds
  BY <1>4, <1>7 DEF Create, BeginCreate, AddWorktree, Register, Crew, WriterEnds, CrewWrites,
     Collect, BeginCollect, Look, Verdict, Publish, RecordResult, Dispose, FinishRemoval,
     BeginDispose, CheckReady, JournalRemoving, GitCuts, GitRemoves, JournalRemoved, CommandEnds,
     userVars, resVars
<1> QED
  BY <1>2, <1>3, <1>5, <1>6, <1>7 DEF Next

-----------------------------------------------------------------------------
(* Disposal and transfer.                                                  *)

\* What cleanup_ready found lasts until git begins.
LEMMA ReadyLasts ==
    ASSUME ResInv, [Next]_vars, ~cut', writer = "stopped", Ready(wt.result),
           cmd \in {"removing", "git"}
    PROVE  Ready(wt.result)'
<1>1. ~Publish /\ ~RecordResult
  BY DEF Publish, RecordResult, Step
<1>2. results' = results /\ wt'.result = wt.result
  BY <1>1, ResultsKept, RecordKept DEF ResInv, vars, wtVars, resVars
<1>3. tree' = tree
  BY TreeFrame DEF vars, wtVars
<1>4. \A p \in Path : stood[p] \subseteq stood'[p]
  BY Stood
<1>5. discarded \subseteq discarded'
  BY Stood
<1> QED
  BY <1>2, <1>3, <1>4, <1>5 DEF Ready, Final, Resolved, Entries, Post

LEMMA ReadyFound ==
    ASSUME ResInv, cleanup_ready(wt.result)
    PROVE  Ready(wt.result)
<1> DEFINE r == wt.result
<1>1. r # 0 /\ Final(r) /\ Resolved(r) /\ results[r].tree = tree
  BY DEF cleanup_ready
<1>2. r <= Len(results)
  BY DEF ResInv, Room
<1>3. CASE r \in discarded
  BY <1>1, <1>2, <1>3 DEF Ready
<1>4. CASE tree[0] # "hidden" /\ (Entries(r) = {} \/ Integrated(r))
  <2>1. tree[0] = "base"
    BY <1>1, <1>4 DEF ResInv, TypeOK, Tree, Resolved, Remainder
  <2>2. \A p \in Entries(r) : p \in Path /\ Post(r, p) \in stood[p]
    BY <1>4 DEF Integrated, AtPost, Entries, ResInv, Standing
  <2> QED
    BY <1>1, <1>2, <2>1, <2>2 DEF Ready
<1> QED
  BY <1>3, <1>4 DEF cleanup_ready

LEMMA DisposeStep == ResInv /\ [Next]_vars => Disposing'
<1> SUFFICES ASSUME ResInv, [Next]_vars PROVE Disposing'
  OBVIOUS
<1>1. Disposing
  BY DEF ResInv
<1>2. CASE cmd' \in {"ready", "removing", "git"} /\ cmd' # cmd
  <2>1. CASE BeginDispose
    BY <2>1 DEF BeginDispose, Step, Disposing, stopped, wtVars
  <2>2. CASE CheckReady
    <3>1. cleanup_ready(wt.result) /\ cmd = "ready" /\ cmd' = "removing" /\ UNCHANGED <<wtVars, resVars, userVars>>
      BY <2>2 DEF CheckReady, Step
    <3>2. writer' = "stopped"
      BY <1>1, <3>1 DEF Disposing, wtVars
    <3>3. Ready(wt.result)
      BY <3>1, ReadyFound
    <3>4. Ready(wt.result)'
      BY <3>1, <3>3 DEF Ready, Final, Resolved, Entries, Post, wtVars, resVars, userVars
    <3> QED
      BY <3>2, <3>4 DEF Disposing
  <2>3. CASE JournalRemoving
    <3>1. cmd = "removing" /\ cmd' = "git" /\ UNCHANGED <<cut, writer>>
      BY <2>3 DEF JournalRemoving, Step
    <3> QED
      BY <1>1, <3>1, ReadyLasts DEF Disposing
  <2>4. BeginDispose \/ CheckReady \/ JournalRemoving
    <3>1. CASE Dispose
      BY <1>2, <3>1 DEF Dispose, FinishRemoval, GitCuts, GitRemoves, JournalRemoved, Step, cmdVars
    <3>2. CASE Create \/ Crew \/ Collect \/ CommandEnds
      <4> scan \in 1 .. 3
        BY DEF ResInv, TypeOK
      <4> QED
        BY <1>2, <3>2 DEF Create, BeginCreate, AddWorktree, Register, Crew, WriterEnds,
           CrewWrites, Collect, BeginCollect, Look, Verdict, AfterVerdict, Publish, RecordResult,
           CommandEnds, Step, cmdVars
    <3>3. CASE Transfer \/ User \/ UNCHANGED vars
      BY <1>2, <3>3 DEF Transfer, FindApplied, BeginApply, Discard, Recheck, JournalApplying,
         Swap, TransferFails, Written, Receipt, TransferDies, User, Save, Stage, vars, cmdVars
    <3> QED
      BY <3>1, <3>2, <3>3 DEF Next
  <2> QED
    BY <2>1, <2>2, <2>3, <2>4
<1>3. CASE cmd' = cmd
  <2>1. writer = "stopped" => writer' = "stopped"
    BY TreeFrame DEF vars, wtVars
  <2>2. cut => cut'
    BY TreeFrame DEF vars, wtVars
  <2> QED
    BY <1>1, <1>3, <2>1, <2>2, ReadyLasts DEF Disposing
<1>4. CASE cmd' \notin {"ready", "removing", "git"}
  BY <1>4 DEF Disposing
<1> QED
  BY <1>2, <1>3, <1>4

\* Only a swap and the user change the checkout, and only the user saves.
LEMMA SwapStep == ResInv /\ [Next]_vars => Swapping'
<1> SUFFICES ASSUME ResInv, [Next]_vars PROVE Swapping'
  OBVIOUS
<1>1. Swapping /\ TypeOK
  BY DEF ResInv
<1>2. CASE Transfer
  <2>1. CASE \E r \in 1 .. Len(results) : FindApplied(r) \/ BeginApply(r) \/ Discard(r)
    <3>1. PICK r \in 1 .. Len(results) : FindApplied(r) \/ BeginApply(r) \/ Discard(r)
      BY <2>1
    <3>2. CASE FindApplied(r)
      BY <3>2 DEF FindApplied, Idle, Swapping, resVars
    <3>3. CASE BeginApply(r)
      BY <3>3 DEF BeginApply, Idle, Swapping, resVars
    <3>4. CASE Discard(r)
      BY <1>1, <3>4 DEF Discard, Swapping, userVars
    <3> QED
      BY <3>1, <3>2, <3>3, <3>4
  <2>2. CASE \E q \in Path : Recheck(q)
    <3>1. PICK q \in Path : Recheck(q)
      BY <2>2
    <3>2. /\ xfer'.result = xfer.result /\ xfer'.path = q
          /\ UNCHANGED <<checkout, results>> /\ checkout[q] = "base"
          /\ xfer.step # "idle"
      BY <1>1, <3>1 DEF Recheck, SeesBase, TypeOK, resVars, userVars
    <3> QED
      BY <1>1, <3>2 DEF Swapping
  <2>3. CASE JournalApplying \/ Swap \/ Written
    BY <1>1, <2>3 DEF JournalApplying, Swap, Written, Swapping, TypeOK, resVars, userVars
  <2>4. CASE TransferFails \/ Receipt \/ TransferDies
    BY <2>4 DEF TransferFails, Receipt, TransferDies, Idle, Swapping
  <2> QED
    BY <1>2, <2>1, <2>2, <2>3, <2>4 DEF Transfer
<1>3. CASE User
  <2>1. CASE \E q \in Path : \E c \in ByHand(q) : Save(q, c)
    <3>1. PICK q \in Path : \E c : Save(q, c)
      BY <2>1
    <3>2. /\ xfer'.step = xfer.step /\ xfer'.path = xfer.path /\ xfer'.result = xfer.result
          /\ xfer'.raced = (xfer.raced \/ q = xfer.path)
          /\ \A p \in Path : p # q => checkout'[p] = checkout[p]
          /\ results' = results
      BY <1>1, <3>1 DEF Save, Put, TypeOK, resVars
    <3> QED
      BY <1>1, <3>2 DEF Swapping
  <2>2. CASE \E q \in Path : \E i \in {"staged", "committed"} : Stage(q, i)
    BY <1>1, <2>2 DEF Stage, Swapping, resVars
  <2> QED
    BY <1>3, <2>1, <2>2 DEF User
<1>4. CASE UNCHANGED <<xfer, checkout>>
  <2>1. Len(results) <= Len(results')
    <3>1. CASE Publish
      BY <1>1, <3>1 DEF Publish, TypeOK
    <3>2. CASE ~Publish
      <4>1. results' = results
        BY <3>2, ResultsKept DEF vars, resVars
      <4> QED
        BY <1>1, <4>1 DEF TypeOK
    <3> QED
      BY <3>1, <3>2
  <2>2. Len(results) \in Nat /\ Len(results') \in Nat
    BY <1>1, TypeStep DEF TypeOK
  <2> QED
    BY <1>1, <1>4, <2>1, <2>2 DEF Swapping
<1>5. CASE Create \/ Crew \/ Collect \/ Dispose \/ CommandEnds \/ UNCHANGED vars
  <2> UNCHANGED <<xfer, checkout>>
    BY <1>5 DEF Create, BeginCreate, AddWorktree, Register, Crew, WriterEnds, CrewWrites,
       Collect, BeginCollect, Look, Verdict, Publish, RecordResult, Dispose, FinishRemoval,
       BeginDispose, CheckReady, JournalRemoving, GitCuts, GitRemoves, JournalRemoved,
       CommandEnds, vars, userVars
  <2> QED
    BY <1>4
<1> QED
  BY <1>2, <1>3, <1>5 DEF Next

LEMMA InvStep == ResInv /\ [Next]_vars => ResInv'
<1> SUFFICES ASSUME ResInv, [Next]_vars PROVE ResInv'
  OBVIOUS
<1>1. TypeOK' /\ VerdictStands' /\ FinalStands' /\ ThirdScan'
  BY TypeStep, VerdictStep, StandStep, ThirdStep
<1>2. Room' /\ FinalIsFinal' /\ Standing' /\ Disposing' /\ Swapping'
  BY RoomStep, FinalStep, Stood, DisposeStep, SwapStep
<1> QED
  BY <1>1, <1>2 DEF ResInv

-----------------------------------------------------------------------------
(* The theorems.                                                           *)

\* The state of worktrees, results and transfers keeps its types.
THEOREM ResultsTyped == Spec => []TypeOK
<1>1. ResInv => TypeOK
  BY DEF ResInv
<1> QED
  BY <1>1, InitInv, InvStep, PTL DEF Spec

\* A result that says it is final is what stands in the tree, until git takes it apart:
\* the third scan, after the verdict, is what makes it so (results.py:263).
THEOREM ResultIsLastWord == Spec => []FinalIsFinal
<1>1. ResInv => FinalIsFinal
  BY DEF ResInv
<1> QED
  BY <1>1, InitInv, InvStep, PTL DEF Spec

\* Disposal takes a tree apart only when a final result holds it and the captain has
\* discarded that or has had every entry of it in the checkout (worktrees.py:243).
THEOREM DisposalLosesNothing == Spec => NothingLost
<1> DEFINE Kept ==
      ~cut /\ cut' =>
          LET r == wt.result
          IN /\ r # 0 /\ Final(r) /\ Resolved(r) /\ results[r].tree = tree
             /\ \/ r \in discarded
                \/ tree[0] = "base" /\ \A p \in Entries(r) : Post(r, p) \in stood[p]
<1>1. ResInv /\ [Next]_vars => [Kept]_vars
  <2> SUFFICES ASSUME ResInv, Next, ~cut, cut' PROVE Kept
    BY DEF vars, wtVars
  <2>1. cmd = "git"
    <3>1. CASE GitCuts \/ GitRemoves
      BY <3>1 DEF GitCuts, GitRemoves, Step
    <3>2. CASE Create \/ Crew \/ Collect \/ (Dispose /\ ~GitCuts /\ ~GitRemoves) \/ CommandEnds
      BY <3>2 DEF Create, BeginCreate, AddWorktree, Register, Crew, WriterEnds, CrewWrites,
         Collect, BeginCollect, Look, Verdict, Publish, RecordResult, Dispose, FinishRemoval,
         BeginDispose, CheckReady, JournalRemoving, JournalRemoved, CommandEnds, wtVars
    <3>3. CASE Transfer \/ User
      BY <3>3 DEF Transfer, FindApplied, BeginApply, Discard, Recheck, JournalApplying,
         Swap, TransferFails, Written, Receipt, TransferDies, User, Save, Stage, wtVars
    <3> QED
      BY <3>1, <3>2, <3>3 DEF Next
  <2> QED
    BY <2>1 DEF ResInv, Disposing, Ready
<1> QED
  BY <1>1, InitInv, InvStep, PTL DEF Spec, NothingLost

\* A transfer replaces the base commit's content, or what the user saved after its last
\* look at that file (results.py:376, 381).
THEOREM TransferKeepsWork == Spec => UserKept
<1> DEFINE Kept ==
      \A p \in Path :
          xfer.step = "swap" /\ saves' = saves /\ checkout'[p] # checkout[p] =>
              checkout[p] = "base" \/ xfer.raced
<1>1. ResInv /\ [Next]_vars => [Kept]_vars
  <2> SUFFICES ASSUME ResInv, Next, NEW p \in Path, xfer.step = "swap", saves' = saves,
                      checkout'[p] # checkout[p]
               PROVE  checkout[p] = "base" \/ xfer.raced
    OBVIOUS
  <2>1. Swapping /\ TypeOK
    BY DEF ResInv
  <2>2. CASE Swap
    BY <2>1, <2>2 DEF Swap, Put, Swapping, TypeOK
  <2>3. CASE User
    BY <2>1, <2>3 DEF User, Save, Stage, TypeOK
  <2>4. Swap \/ User
    BY DEF Next, Create, BeginCreate, AddWorktree, Register, Crew, WriterEnds, CrewWrites,
       Collect, BeginCollect, Look, Verdict, Publish, RecordResult, Dispose, FinishRemoval,
       BeginDispose, CheckReady, JournalRemoving, GitCuts, GitRemoves, JournalRemoved,
       CommandEnds, Transfer, FindApplied, BeginApply, Discard, Recheck, JournalApplying,
       TransferFails, Written, Receipt, TransferDies, userVars
  <2> QED
    BY <2>2, <2>3, <2>4
<1> QED
  BY <1>1, InitInv, InvStep, PTL DEF Spec, UserKept

=============================================================================
