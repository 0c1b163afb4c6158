------------------------------- MODULE Results -------------------------------
(***************************************************************************)
(* An isolated crew's worktree and its results (worktrees.py, results.py,   *)
(* execution.py): creation, collection of what the crew wrote, transfer     *)
(* into the captain's checkout, discard, and disposal of the worktree.      *)
(*                                                                          *)
(* Creation, collection and disposal hold worktrees.lock, transfer and      *)
(* discard result-transfer.lock; the crew writes into its tree and the user *)
(* into the checkout under no lock at all.  Every command may die at any    *)
(* step and may be given at any time, by the captain's result and worktree  *)
(* commands or by a dismissal (retire), so a command is "not idle" and      *)
(* nothing says who gave it.  A refusal changes nothing: it is the end of   *)
(* the command.                                                             *)
(*                                                                          *)
(* A tree is a function on items: item 0 stands for what no entry of a      *)
(* result carries ("hidden": detached commits or distinct staged content;   *)
(* "stray": ignored, unknown or out-of-grant files), the others are files.  *)
(* That a verified writer has stopped for good is Lifetime's VerdictHolds.  *)
(***************************************************************************)
EXTENDS Naturals, Sequences, FiniteSets

CONSTANTS
    Files,          \* the files of the base commit
    MaxResults,     \* bounds: results collected, writes of the crew, acts of the user
    MaxEdits,
    MaxSaves

ASSUME ResultsAssumption == Files \in Nat /\ MaxResults \in Nat

VARIABLES
    wt,             \* the worktree record: its phase and its result (0: none)
    link,           \* the worktree and its administration in the repository
    tree,           \* what is in it
    cut,            \* history: has git begun to take it apart
    writer,         \* whether the lifetime receipt proves that the crew's processes stopped
    results,        \* the published manifests
    journal,        \* per result: transfer.json
    discarded,      \* the results with a discard.json
    checkout,       \* the captain's working files
    index,          \* per file: is its index entry the base's, staged, or committed
    stood,          \* history: the contents each file of the checkout has had
    cmd,            \* the command that holds worktrees.lock, and where it is
    scan, at,       \* its scan of the tree and the item it looks at
    snap,           \* what the first scan saw
    provisional,    \* what the verdict said
    xfer,           \* the transfer that holds result-transfer.lock
    edits, saves    \* counters of the bounds

wtVars   == <<wt, link, tree, cut, writer, edits>>
resVars  == <<results, journal, discarded>>
userVars == <<checkout, index, stood, saves>>
cmdVars  == <<cmd, scan, at, snap, provisional>>
vars == <<wtVars, resVars, userVars, cmdVars, xfer>>

Path == 1 .. Files
Item == 0 .. Files
Result == 1 .. MaxResults

Content == {"base", "crew", "gone"}
Remainder == {"base", "hidden", "stray"}
Tree == {t \in [Item -> Content \cup Remainder] :
             t[0] \in Remainder /\ \A p \in Path : t[p] \in Content}
BaseTree == [i \in Item |-> "base"]

Idle == [step |-> "idle", result |-> 0, todo |-> {}, path |-> 0, raced |-> FALSE]

TypeOK ==
    /\ wt \in [phase: {"reserved", "creating", "ready", "retained", "removing", "removed"},
               result: 0 .. MaxResults]
    /\ link \in {"none", "linked", "broken", "gone"}
    /\ tree \in Tree /\ snap \in Tree /\ cut \in BOOLEAN
    /\ writer \in {"unverified", "stopped"}
    /\ results \in Seq([provisional: BOOLEAN, tree: Tree])
    /\ journal \in [Result -> {"none", "applying", "partial", "applied"}]
    /\ discarded \subseteq Result
    /\ checkout \in [Path -> Content \cup {"user"}]
    /\ index \in [Path -> {"base", "staged", "committed"}]
    /\ stood \in [Path -> SUBSET (Content \cup {"user"})]
    /\ cmd \in {"idle", "add", "register", "scan", "verdict", "publish", "record", "ready",
                "removing", "git", "check"}
    /\ scan \in 1 .. 3 /\ at \in Item
    /\ provisional \in BOOLEAN
    /\ xfer \in [step: {"idle", "journal", "write", "swap", "receipt"}, result: 0 .. MaxResults,
                 todo: SUBSET Path, path: 0 .. Files, raced: BOOLEAN]
    /\ edits \in Nat /\ saves \in Nat

Init ==
    /\ wt = [phase |-> "reserved", result |-> 0]
    /\ link = "none"
    /\ tree = BaseTree /\ cut = FALSE
    /\ writer = "unverified"
    /\ results = <<>>
    /\ journal = [r \in Result |-> "none"]
    /\ discarded = {}
    /\ checkout = [p \in Path |-> "base"]
    /\ index = [p \in Path |-> "base"]
    /\ stood = [p \in Path |-> {"base"}]
    /\ cmd = "idle"
    /\ scan = 1 /\ at = 0 /\ snap = BaseTree /\ provisional = TRUE
    /\ xfer = Idle
    /\ edits = 0 /\ saves = 0

-----------------------------------------------------------------------------
(* What the commands ask.                                                  *)

\* The pointers of worktree and administration agree, and the record knows the latter.
registered == link = "linked" /\ wt.phase \notin {"reserved", "creating"}

stopped == writer = "stopped"

Final(r) == ~results[r].provisional
Resolved(r) == results[r].tree[0] # "stray"
Post(r, p) == results[r].tree[p]
Entries(r) == {p \in Path : Post(r, p) # "base"}
AtPost(r) == \A p \in Entries(r) : checkout[p] = Post(r, p)

Step(from, to) == cmd = from /\ cmd' = to
ScanKept == UNCHANGED <<scan, at, snap, provisional>>
NoScan == scan' = 1 /\ at' = 0 /\ snap' = BaseTree /\ provisional' = TRUE

-----------------------------------------------------------------------------
(* Creation.                                                               *)

BeginCreate ==
    /\ Step("idle", "add")
    /\ wt.phase = "reserved"
    /\ wt' = [wt EXCEPT !.phase = "creating"]
    /\ ScanKept /\ UNCHANGED <<link, tree, cut, writer, edits, resVars, userVars, xfer>>

\* git worktree add may do half its work; the failure leaves the phase as it is.
AddWorktree ==
    /\ Step("add", "register")
    /\ link' \in {"linked", "broken"}
    /\ ScanKept /\ UNCHANGED <<wt, tree, cut, writer, edits, resVars, userVars, xfer>>

Register ==
    /\ Step("register", "idle")
    /\ wt' = IF link = "linked" THEN [wt EXCEPT !.phase = "ready"] ELSE wt
    /\ ScanKept /\ UNCHANGED <<link, tree, cut, writer, edits, resVars, userVars, xfer>>

-----------------------------------------------------------------------------
(* The crew.                                                               *)

\* It may also never end, or end without a proof.
WriterEnds ==
    /\ writer = "unverified"
    /\ writer' = "stopped"
    /\ UNCHANGED <<wt, link, tree, cut, edits, resVars, userVars, cmdVars, xfer>>

CrewWrites ==
    /\ writer = "unverified" /\ registered /\ edits < MaxEdits
    /\ \/ \E p \in Path, c \in Content : tree' = [tree EXCEPT ![p] = c]
       \/ \E r \in Remainder : tree' = [tree EXCEPT ![0] = r]
    /\ tree' # tree
    /\ edits' = edits + 1
    /\ UNCHANGED <<wt, link, cut, writer, resVars, userVars, cmdVars, xfer>>

-----------------------------------------------------------------------------
(* Collection: two scans, the verdict, a third scan, the manifest, the      *)
(* record.                                                                  *)

BeginCollect ==
    /\ Step("idle", "scan")
    /\ registered
    /\ Len(results) < MaxResults
    /\ ScanKept /\ UNCHANGED <<wtVars, resVars, userVars, xfer>>

\* Later scans must see what the first one saw.
Look ==
    /\ cmd = "scan"
    /\ snap' = [snap EXCEPT ![at] = tree[at]]
    /\ scan = 1 \/ snap' = snap
    /\ IF at < Files
         THEN at' = at + 1 /\ UNCHANGED <<cmd, scan>>
         ELSE /\ at' = 0
              /\ scan' = IF scan < 3 THEN scan + 1 ELSE 3
              /\ cmd' = <<"scan", "verdict", "publish">>[scan]
    /\ UNCHANGED <<provisional, wtVars, resVars, userVars, xfer>>

\* mutant: the verdict closes the collection
PublishAtOnce == "publish"
AfterVerdict == "scan"

Verdict ==
    /\ cmd = "verdict"
    /\ provisional' = ~stopped
    /\ cmd' = AfterVerdict
    /\ UNCHANGED <<scan, at, snap, wtVars, resVars, userVars, xfer>>

Publish ==
    /\ Step("publish", "record")
    /\ results' = Append(results, [provisional |-> provisional, tree |-> snap])
    /\ NoScan /\ UNCHANGED <<journal, discarded, wtVars, userVars, xfer>>

\* Whatever the phase was.
RecordResult ==
    /\ Step("record", "idle")
    /\ wt' = [phase |-> "retained", result |-> Len(results)]
    /\ ScanKept /\ UNCHANGED <<link, tree, cut, writer, edits, resVars, userVars, xfer>>

-----------------------------------------------------------------------------
(* Disposal.                                                               *)

FinishRemoval ==
    /\ cmd = "idle"
    /\ stopped /\ wt.phase = "removing" /\ link = "gone"
    /\ wt' = [wt EXCEPT !.phase = "removed"]
    /\ UNCHANGED <<link, tree, cut, writer, edits, resVars, userVars, cmdVars, xfer>>

BeginDispose ==
    /\ Step("idle", "ready")
    /\ stopped /\ registered
    /\ ScanKept /\ UNCHANGED <<wtVars, resVars, userVars, xfer>>

\* mutant: any receipt will do
AnyReceipt(r) == journal[r] # "none"
Integrated(r) == journal[r] = "applied" /\ AtPost(r)

cleanup_ready(r) ==
    /\ r # 0
    /\ Final(r) /\ Resolved(r)
    /\ tree = results[r].tree
    /\ \/ r \in discarded
       \/ tree[0] # "hidden" /\ (Entries(r) = {} \/ Integrated(r))

CheckReady ==
    /\ Step("ready", "removing")
    /\ cleanup_ready(wt.result)
    /\ ScanKept /\ UNCHANGED <<wtVars, resVars, userVars, xfer>>

JournalRemoving ==
    /\ Step("removing", "git")
    /\ wt' = [wt EXCEPT !.phase = "removing"]
    /\ ScanKept /\ UNCHANGED <<link, tree, cut, writer, edits, resVars, userVars, xfer>>

\* git worktree remove takes the files one by one, the pointer among them.
GitCuts ==
    /\ cmd = "git" /\ link # "gone"
    /\ \E p \in Path : tree[p] # "gone" /\ tree' = [tree EXCEPT ![p] = "gone"]
    /\ link' \in {link, "broken"}
    /\ cut' = TRUE
    /\ UNCHANGED <<wt, writer, edits, resVars, userVars, cmdVars, xfer>>

GitRemoves ==
    /\ Step("git", "check")
    /\ link' = "gone" /\ cut' = TRUE
    /\ ScanKept /\ UNCHANGED <<wt, tree, writer, edits, resVars, userVars, xfer>>

JournalRemoved ==
    /\ Step("check", "idle")
    /\ link = "gone"
    /\ wt' = [wt EXCEPT !.phase = "removed"]
    /\ ScanKept /\ UNCHANGED <<link, tree, cut, writer, edits, resVars, userVars, xfer>>

\* A refusal, an error or a crash: the kernel frees the lock.
CommandEnds ==
    /\ cmd # "idle"
    /\ cmd' = "idle"
    /\ NoScan /\ UNCHANGED <<wtVars, resVars, userVars, xfer>>

-----------------------------------------------------------------------------
(* Transfer and discard.                                                   *)

TransferFree == xfer.step = "idle"

Unstaged(r) == \A p \in Entries(r) : index[p] # "staged"
AtBase(r) == \A p \in Entries(r) : checkout[p] = "base" /\ index[p] = "base"

MayApply(r) == Resolved(r) /\ r \notin discarded /\ Unstaged(r)

\* Everything is there already, by hand or by a transfer that died before its receipt.
FindApplied(r) ==
    /\ TransferFree /\ MayApply(r)
    /\ journal[r] # "applied" /\ AtPost(r)
    /\ xfer' = [Idle EXCEPT !.step = "receipt", !.result = r]
    /\ UNCHANGED <<wtVars, resVars, userVars, cmdVars>>

\* An earlier transfer that did not end is never taken up again.
BeginApply(r) ==
    /\ TransferFree /\ MayApply(r)
    /\ journal[r] = "none" /\ ~AtPost(r) /\ AtBase(r)
    /\ xfer' = [Idle EXCEPT !.step = "journal", !.result = r, !.todo = Entries(r)]
    /\ UNCHANGED <<wtVars, resVars, userVars, cmdVars>>

JournalApplying ==
    /\ xfer.step = "journal"
    /\ journal' = [journal EXCEPT ![xfer.result] = "applying"]
    /\ xfer' = [xfer EXCEPT !.step = "write"]
    /\ UNCHANGED <<results, discarded, wtVars, userVars, cmdVars>>

\* Deletions first.
NextEntry(p) ==
    /\ p \in xfer.todo
    /\ Post(xfer.result, p) = "gone" \/ \A q \in xfer.todo : Post(xfer.result, q) # "gone"

\* mutant: the look before the transfer was enough
AnyPreimage(p) == TRUE
SeesBase(p) == checkout[p] = "base"

Recheck(p) ==
    /\ xfer.step = "write" /\ NextEntry(p) /\ SeesBase(p)
    /\ xfer' = [xfer EXCEPT !.step = "swap", !.path = p, !.raced = FALSE]
    /\ UNCHANGED <<wtVars, resVars, userVars, cmdVars>>

Put(p, c) ==
    /\ checkout' = [checkout EXCEPT ![p] = c]
    /\ stood' = [stood EXCEPT ![p] = @ \cup {c}]

Swap ==
    /\ xfer.step = "swap"
    /\ Put(xfer.path, Post(xfer.result, xfer.path))
    /\ xfer' = [xfer EXCEPT !.step = "write", !.todo = @ \ {xfer.path}, !.path = 0,
                            !.raced = FALSE]
    /\ UNCHANGED <<index, saves, wtVars, resVars, cmdVars>>

\* A preimage that changed, an error of the file system, or a file that changed after.
TransferFails ==
    /\ xfer.step \in {"write", "swap"}
    /\ journal' = [journal EXCEPT ![xfer.result] = "partial"]
    /\ xfer' = Idle
    /\ UNCHANGED <<results, discarded, wtVars, userVars, cmdVars>>

Written ==
    /\ xfer.step = "write" /\ xfer.todo = {} /\ AtPost(xfer.result)
    /\ xfer' = [xfer EXCEPT !.step = "receipt"]
    /\ UNCHANGED <<wtVars, resVars, userVars, cmdVars>>

Receipt ==
    /\ xfer.step = "receipt"
    /\ journal' = [journal EXCEPT ![xfer.result] = "applied"]
    /\ xfer' = Idle
    /\ UNCHANGED <<results, discarded, wtVars, userVars, cmdVars>>

TransferDies ==
    /\ ~TransferFree
    /\ xfer' = Idle
    /\ UNCHANGED <<wtVars, resVars, userVars, cmdVars>>

Discard(r) ==
    /\ TransferFree /\ r \notin discarded
    /\ discarded' = discarded \cup {r}
    /\ UNCHANGED <<results, journal, wtVars, userVars, cmdVars, xfer>>

-----------------------------------------------------------------------------
(* The user.                                                               *)

Save(p, c) ==
    /\ saves < MaxSaves /\ c # checkout[p]
    /\ saves' = saves + 1
    /\ Put(p, c)
    /\ xfer' = [xfer EXCEPT !.raced = @ \/ p = xfer.path]
    /\ UNCHANGED <<index, wtVars, resVars, cmdVars>>

Stage(p, i) ==
    /\ saves < MaxSaves /\ i # index[p]
    /\ saves' = saves + 1
    /\ index' = [index EXCEPT ![p] = i]
    /\ UNCHANGED <<checkout, stood, wtVars, resVars, cmdVars, xfer>>

-----------------------------------------------------------------------------
Create == BeginCreate \/ AddWorktree \/ Register
Crew == WriterEnds \/ CrewWrites
Collect == BeginCollect \/ Look \/ Verdict \/ Publish \/ RecordResult
Dispose == \/ FinishRemoval \/ BeginDispose \/ CheckReady \/ JournalRemoving \/ GitCuts
           \/ GitRemoves \/ JournalRemoved
Transfer ==
    \/ \E r \in 1 .. Len(results) : FindApplied(r) \/ BeginApply(r) \/ Discard(r)
    \/ \E p \in Path : Recheck(p)
    \/ JournalApplying \/ Swap \/ TransferFails \/ Written \/ Receipt \/ TransferDies
\* Work of their own, or a result's by hand.
ByHand(p) == {"user"} \cup {Post(r, p) : r \in 1 .. Len(results)}
User ==
    \E p \in Path : \/ \E c \in ByHand(p) : Save(p, c)
                    \/ \E i \in {"staged", "committed"} : Stage(p, i)

Next == Create \/ Crew \/ Collect \/ Dispose \/ CommandEnds \/ Transfer \/ User

Spec == Init /\ [][Next]_vars

-----------------------------------------------------------------------------
\* A result that says it is final is the crew's last word: until git takes the tree apart,
\* the tree is exactly what the result holds.  Disposal deletes on the strength of it
\* (results.py:263, 509).  Scans are not atomic and the crew writes under no lock, so it
\* takes a scan after the verdict.
FinalIsFinal == ~cut => \A r \in 1 .. Len(results) : Final(r) => results[r].tree = tree

\* What stands in the tree is lost only when a final, resolved result holds the same, and
\* either the captain discarded that result, or nothing was hidden in the tree and every
\* file the crew changed has reached the captain's checkout: through whatever crashes,
\* half transfers, later results and edits of the user came before (worktrees.py:243).
NothingLost ==
    [][~cut /\ cut' =>
           LET r == wt.result
           IN /\ r # 0 /\ Final(r) /\ Resolved(r) /\ results[r].tree = tree
              /\ \/ r \in discarded
                 \/ tree[0] = "base" /\ \A p \in Entries(r) : Post(r, p) \in stood[p]]_vars

\* A transfer replaces only what the base commit had.  The one exception is a file the user
\* saves between the last look at it and its replacement, which no lock prevents
\* (results.py:376, 381).
UserKept ==
    [][\A p \in Path :
           xfer.step = "swap" /\ saves' = saves /\ checkout'[p] # checkout[p] =>
               checkout[p] = "base" \/ xfer.raced]_vars

=============================================================================
