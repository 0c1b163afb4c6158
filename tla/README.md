# Captain Barbossa in TLA+

Captain Barbossa (`src/`) lets one coding agent, the *captain*, recruit others, the
*crew*: native CLIs (claude, codex, pi, grok) in the panes of a Herdr workspace, or headless
runs without a pane. There is no daemon. Every command (`captain tell`, `captain wait`,
`captain done`, a delivery hook) is a short process that reads and writes JSON files under a
session directory, sometimes under a file lock and sometimes not, and may be killed at any
point. What the program promises (a message is not lost, a report is final, two crews never
own one file) is therefore a property of interleaved, crashing commands over shared files.
That is what this project models.

`src/docs/crew-lifecycle.md`, `crew-mail.md`, `crew-mail-2.md` and `memory.md` are the
documents the properties quote. Line numbers below are of `src/src/captain_barbossa/`.

## 1. The system

| component | state it keeps | operations | status |
|---|---|---|---|
| crew mail (`protocol.py`, `events.py`, `cli.py`) | `protocol.json` assignments' messages, `mail/<crew>/<id>.json`, `<crew>.drain` | deliver, enqueue, ring, drain, bounce, receipt, inbox, done, ask | modelled: `CrewMail` |
| assignment state and captain wait (`protocol.py`, `crew.py`) | assignment state, question, notices, cursors, pending delivery | poll, wait, ack, notice, ask, answer, done, handoff | modelled: `CrewWait`, `NoticeQueue` |
| path allocation and dismissal (`protocol.py`, `agents.py`, `sessions.py`) | roster in `session.json`, `active`, owned paths, three locks | recruit, assign, begin, dismiss | partly: `Allocation` |
| doorbell timing (`protocol.py`, `pane.py`) | gates, rate limits, hold clocks, held notice | nudge, drain's intervals | partly: what a ring reads and writes is in `CrewMail`, its timing is not modelled |
| managed lifetime (`lifetime.py`) | launch record, owner lock, guard process group | prepare, bind, claim, start, cancel, shutdown, finish, revoke, close, check | partly: `Lifetime` |
| background runs (`background.py`) | intent, claim, record, two flocks, outcome | prepare, start, claim, abandon, run, cancel, reconcile, interrupt, dismiss | modelled: `Background`, over `Lifetime` |
| worktrees and results (`worktrees.py`, `results.py`, `execution.py`) | registered checkouts, manifests, transfer journal | reserve, create, collect, apply, discard, dispose | partly: `Results` |
| native event log (`events.py`) | `events/<crew>.jsonl`, sequence, incarnation | append_event, PreToolUse/PermissionRequest pairing | partly: the append and its roster check in `History`, the events' meaning in `CrewWait` |
| native history (`native_history.py`, `pi_history.py`, `usage.py`) | ownership manifest, frozen usage, native files, cleanup journal | prepare, observe, freeze, cleanup | partly: `History` |
| sessions and pruning (`sessions.py`) | session directories | open, prune, migrate_project_graph | partly: `History`, `Memory` |
| graph memory (`memory.py`, `store.py`) | facts in three scopes | add, upsert, supersede, forget, migrate | partly: `Memory` |
| placement and layout (`placement.py`, `layout.py`) | the roster's slots, Herdr's tree of splits | resolve, split, record, dismiss | partly: `Placement` |
| approval policy (`approval.py`) | none | judge a tool call | not modelled: lexing of shell text |
| pane and composer (`pane.py`) | none | read a terminal | its verdicts are choices in `CrewMail` and `CrewWait` |
| pi captain bridge (`pi_captain.py`) | embedded TypeScript | repeats `captain wait` | not modelled: `CrewWait`'s `Attend` is what it does |
| captain launch and exit (`agents.py`) | the panes, mail, assignments and roster entries of the crew it closes | launch, the exit watcher | the captain's coming and going in `History`; the watcher's closing of landed crew is not modelled |
| model switch, status, quiet work, recovery, inspection, dashboard, usage, models, profiles, prompts, config, onboarding, updates, runtime | little or none shared | dialogues, tables, subprocess calls | not modelled: I/O and text |

How they interact. A captain command recruits a crew (`create_crew`): it reserves owned paths
(`begin`), writes the roster, queues the task (`deliver`) and starts the CLI. From then on the
two sides share files only. Mail goes captain to crew: an entry on the assignment, a mail
file, a ring of the doorbell that types a prompt into the pane. The crew reads it through a
hook or `captain inbox`, which stamps a receipt. Notices (a question, a report, a bounce) go
crew to captain: they are appended to the assignment and handed out one by one by
`captain wait`, together with what the crew's native event log amounts to. `done` closes the
assignment; a handoff opens the next one, a dismissal closes the pane and frees name and paths.

Around that: a background crew has no pane. Its recruiter and a detached owner pass the run
through an intent file, the owner drives the managed launch, `captain wait` closes what nobody
runs any more. An isolated crew writes into a worktree of its own; the captain collects a
result, transfers it into the checkout and disposes of the tree. The crew's native CLI leaves
sessions in its provider's directories; hooks tell a manifest which, cleanup counts and deletes
them, pruning removes a session directory nobody uses.

What is hard. Commands interleave between any two file operations; the mail file and the
assignment are two files written one after the other; the `.drain` stamp has no lock at all;
a command looks at the assignment in one lock and acts in another (`deliver`, `receipt`,
`dismiss_crew`); any of them may die in between; a Herdr prompt that timed out may have
landed; one approval prompt arrives as up to three events in any number of polls. The list,
each at its line with the properties that cover it, is `hazards` in `PROJECT.json`.

What makes each component correct:

- mail: a filed report leaves no mail behind it; nothing counts as delivered to a model that
  was never shown; delivery never goes backwards; a question is closed by its answer only.
- wait: nothing is acknowledged that was not printed; notices are acknowledged in order and
  one at a time; an approval surfaces once and is never skipped; every report and every open
  prompt eventually reaches a captain that keeps waiting.
- allocation: one owner per file; paths freed only when their writer is gone; a running CLI is
  always on a roster and reachable by dismissal.
- background and lifetime: at most one launch, at most one outcome, never "stopped" while a
  process of the group lives; a reserved assignment is always closed in the end. Worktrees and
  results: no tree removed whose result is not safe, no file applied over a newer edit.
- history: nothing deleted that is not the crew's own, none before usage is on file, and what was
  named by then counted; no directory pruned that somebody uses. Memory: the graph says what was recorded, once, with one object of a
  single-valued relation. Placement: no column is overfull, and the roster's columns
  are those on the screen, unless a slot was split against the grid.

## 2. Plan

Done, in this order: `CrewMail`, `CrewWait` with `NoticeQueue`, `Allocation`, `Lifetime`,
`Background` (which composes with `Lifetime`), `Results`, `History`, `Placement`, `Memory`, and
the proofs of all of them: every invariant and action property a passing run checks is a theorem.

Left: the timing of the doorbell (gates, intervals and the held notice) over `CrewMail`'s ring, and
with it the two of a ring's hazards no property covers yet, a stamp carried forward past another
ring and a prompt that landed though it timed out.

## 3. Modules and code

### CrewMail

One assignment of one crew, its messages, any number of captain and crew commands, one
dismissal. A command's place between two file operations is its `pc`; what it carries in
memory is `cmd` (captain) or `rd` (crew).

| code | model |
|---|---|
| `deliver`, first checkpoint; second; after it | `Prepare`; `Enqueue`, `Commit`, `AlreadySent`; `RingRead` on |
| `enqueue` | `Enqueued` in `Enqueue` |
| `mark_sent` | `MarkSent` in `Commit` |
| `drain`, `stalled`, `landed_bodies`, `never_read`, `queued` | `Drain`, `Stalled`, `LandedBodies`, `NeverRead`, `Unread` |
| `ring` and the pane's answer | `RingRead`, `Nudge`, `StampRing` |
| `bounce` (two locks) | `Bounce`, `BounceNotice` |
| `deliver_mail`, `print_inbox`, `receipt` (two locks) | `Render`, `Flush`, `ReceiptFiles`, `ReceiptMirror` |
| `deliver_before_done`, `change` | `DoneStart`, `DoneRefuse`, `DoneFile`, `Ask` |
| `dismiss_crew` | `DismissCheck`, `DismissClose`, `DismissBounce`, `DismissRelease`, `DismissRetire` |
| a process killed | `CaptainDies`, `ReaderDies` (with part of its files written), `DismissDies` |

Limits. The dismissal is of a crew in a living workspace without a managed lifetime
(`Allocation` has the others). Rate limits and gates are left out: any time may have passed,
and the pane may hold a ring at will. Background crews have no doorbell and are excluded. The
bounce loop of a dismissal is one step: the crew that could interfere is gone by then. `DoneStart`
joins the two lockless reads of `deliver_before_done`, unread mail and landed bodies
(`protocol.py:436`, `:440`), in one.

### CrewWait and NoticeQueue

One crew's assignments in sequence. A `poll` runs inside one checkpoint, so it is one step
with five outcomes (`PollPending`, `PollNotice`, `PollDone`, `PollQuiet`, `PollNative`); the
printing of its answer may fail after the checkpoint, which is the parameter `printed`. The
question's two reminders are inside the poll, as in the code. The crew's native CLI (`Plain`, `Tool`,
`Prompt`, `Remind`, `Answered`, `TurnEnds`) writes the event log. Every event but a SessionStart is
of a turn (`IsTurn`, `turn_event`): `Turned` and `StalledAt` look for one of those, so a log that
holds only the start of a session, with which every claude log begins, is scanned without banking
a turn and still counts as stalled. `Plain` writes such a start at any time (it comes again with a
resume, a /clear, a compaction), or an event that shows a turn and nothing else. For a provider without
hooks the only sign of a prompt is the pane, which a poll reads when `look` holds
(`MODAL_INTERVAL`). `Handoff` is `begin` over a done assignment. `NoticeQueue` is the abstract
promise: posted, told and acknowledged notices as three numbers.

Limits. A crew runs one tool at a time: the event of a parallel tool behind an open prompt, which
poll would take for the prompt's answer, is left out. `Done` requires that the message was sent and
read, which in the code `deliver_before_done` and `change`'s refusals see to
(`protocol.py:420`); `Deliver` always closes the question, since with one open only its answer is
accepted. The drain inside `poll` is `CrewMail`'s. Startup
failure, `needs_attention` and the background `reconcile` are left out. A poll that raises
writes nothing and is no step.

### Allocation

All sessions of a project, their rosters and assignments, any number of captain commands.
`pc`/`cmd` as above; `crewLock`, `protLock` and `allocLock` are the three file locks.

| code | model |
|---|---|
| `create_crew`, `begin_recruitment` | `RecruitStart`, `RosterEarly`, `RosterHeld`, `Run`, `LaunchFails`, `ReleaseFailed`, `DropRoster` |
| `assign` | `AssignStart` |
| `begin`, `project_assignments`, `overlaps` | `BeginCheck`, `BeginWrite`, `BeginRefused`, `Conflicts`, `Overlaps` |
| `dismiss_crew`, `dismiss_blocker` | `DismissCheck`, `DismissClose`, `CloseFails`, `DismissSettle`, `DismissRetire` |
| `receipt`, `change`, `deliver`'s two checkpoints for an answer | `ReadMail`, `Report`, `AnswerPrepare`, `AnswerCommit` |
| Herdr gone; a process killed | `WorkspaceDies`; `Dies` |

Paths are abstract: `Within` is "is or lies below", `Outside` the absolute ones. The code's
test is on case-folded path prefixes. Limits: background recruits, pruning, the check for
unlanded work, a manual relaunch in a preserved pane and a CLI that exits on its own are left
out; a question is reduced to the answer under way; notices to whether all are acknowledged;
`choose_checkout` is a free choice, whose look at the other assignments nothing holds still;
`MayHandOff` compares all outside paths, the code only the directories that exist
(`protocol.py:122`).

### Lifetime

One managed launch: the record `lifetimes/<incarnation>.json` (`record`), the `.owner` lock
(`owner`), any number of processes that run the launch's script (`Owner`, each with its place
`pc` and its `ManagedJob`), the guard and what lives in its process group (`guard`, `group`,
`native`, `escaped`), and any number of commands that stop it (`Closer`). Every rewrite of the
record happens under its `.lock` and is one step.

| code | model |
|---|---|
| `prepare`, `bind`, `create_crew` around them | `Prepare`, `OpenPane`, `Bind`, `RecruitFails`, `Replace` |
| `claim`, and leaving its context | `Claim`, `Leave` |
| `ManagedJob.start` | `Spawn`, `StartFails`, `Go` |
| `run`'s loop, `poll`, `_drain` | `Ends`, `Signalled`, `Fails` |
| `cancel_before_start` | `CancelClaim` |
| `shutdown`, `_count_survivors`, `finish` | `Kill`, `Reap`, `Confirm`, `Unconfirmed`, `Survivors`, `Finish` |
| `_guard` | `GuardReady`, `GuardLaunches`, `GuardReports`, `GuardKills` |
| `revoke`, `close` | `Revoke`, `CloseLook`, `CloseMark`, `CloseAwait`, `CloseTerminal`, `CloseRecord` |
| `check` with its scopes | `GroupStopped`, `NativeStopped`, `TreeStopped`, `ClosureKnown` |
| `execution.stop`, `retire`, `native_history.cleanup`, `worktrees.stopped` | `Stop`, `Stopped`, `Retire`, `HistoryFreed` |
| kernel, native CLI, user | `Dies`, `Forks`, `Escapes`, `NativeExits`, `StrayExits`, `EscapedExits`, `PaneCloses`, `GuardKilled` |

`verdicts` and `launches` are histories: which scopes some command was told are stopped, how
often a native CLI was started. A deadline may pass at any moment (`GivesUp`, `Unconfirmed`,
`Fails`), and an attempt at a busy lock is no step. `escaped` is any descendant that left the
group and still lives. `Survivors` is one look at `/proc`, which the code walks.

Limits. The evidence for the worktree is Linux's: orphans reparent to the owner, which counts
them. Darwin's scan of descendants is best effort by its own words, and the receipt it writes
is the one case the verdict does not stand for; the sweep of working directories that backs it
up is left out. Terminal modes and foreground groups are left out, and so is Herdr's reuse of a
pane id between `pane get` and `pane close` (`lifetime.py:919` and `:929`), for which Herdr has
no single call. Process-group numbers are not reused while a member or the unreaped guard pins
them.

One launch's `RecruitFails` may come before its pane exists, and `Unconfirmed` at any of the
shutdown's last steps: `Background` needs both.

### Background

One headless run of one assignment. The native process is `Lifetime`'s, by
`L == INSTANCE Lifetime WITH Owner <- {Self}, Closer <- {Dismisser}`: every step that touches it
is one of `Lifetime`'s actions, joined with what the owner or the dismissal writes.

| code | model |
|---|---|
| `launch_background`, `prepare`, `start`, `abandon` | `Reserve`, `PrepareLaunch`, `RecordRun`, `WriteIntent`, `StartOwner`, `SeesClaim`; `Withdraw`, `WithdrawRecord`, `RecruitFails`, `CloseFailed`, `RetireFailed` |
| `run`, `_claim` | `TakeLock`, `ClaimIntent`, `Accept`, `WithdrawOwn`, `Receipt` |
| `_execute`, `_settle` | `ClaimLaunch`, `ClaimRefused`, `LookCancel`, `DriveJob`, `JobGoesWrong`, `StartFails`, `LoopEnds`, `JobEnds`, `Settle`, `RecordOutcome` |
| `reconcile`, `alive` | `WaitLook`, `WaitLaunch`, `WaitLock`, `WaitRelease`, `WaitClose` |
| `cancel`, dismissal of a background crew | `Interrupt`, `DismissCheck` to `DismissRetire` |
| a process killed | `RecruiterDies`, `OwnerDies`, `DismissDies` |

`alive` learns whether a lock is free by taking it, so a look of a wait can make a starting
owner leave; that is `wait = "probe"` in `RunLockHeld`. `abandon` that finds no intent reports
the run as started although its owner may just have withdrawn a late claim. Limits: the copying
of output and the text of the report are reduced to whether they fail; `wait --all`, which skips
dismissed crew, differs from `wait NAME` only in `FairSpec`'s condition.

### Results

One isolated crew's worktree. A tree is a function on items: 1 to `Files` are files, item 0
stands for what no entry of a result carries (`hidden`: detached commits or distinct staged
content; `stray`: ignored, unknown or out-of-grant files). `writer` is `Lifetime`'s
`VerdictHolds`: what it calls stopped stays stopped.

| code | model |
|---|---|
| `worktrees.create` | `BeginCreate`, `AddWorktree`, `Register` |
| `results.collect`, `_scan` | `BeginCollect`, `Look` (three scans, item by item), `Verdict`, `Publish`, `RecordResult` |
| `worktrees.dispose`, `cleanup_ready` | `BeginDispose`, `CheckReady`, `JournalRemoving`, `GitCuts`, `GitRemoves`, `JournalRemoved`, `FinishRemoval` |
| `results.apply`, `discard` | `FindApplied`, `BeginApply`, `JournalApplying`, `Recheck`, `Swap`, `Written`, `Receipt`, `TransferFails`, `Discard` |
| crew and user | `WriterEnds`, `CrewWrites`; `Save`, `Stage` |
| a refusal or a process killed | `CommandEnds`, `TransferDies` |

Any command may be given whenever its lock is free, so nothing says who gave it. Limits: apply's
look over all its files is one step (the look at a single file and its replacement are two); the
sweep of working directories, path validation and symbolic links are refusals (`CommandEnds`);
the publication of a manifest is one rename. A registration whose validation fails after the
worktree's Git directory was saved (`worktrees.py:200`) is one that was never made, though a later
`collect` would pass over it.

### History

One crew's native CLI, its hooks, the manifest, cleanup, and the session directory with its
captain and another captain that prunes.

| code | model |
|---|---|
| `native_history.prepare`; the native CLI | `prepare`; `StartNative`, `ResumeNative`, `NativeExits`, `Finished`, `NewIncarnation` |
| `append_event`, `observe` | `append_event`, `observe` with `Adopt`, `AdoptResumed`, `Counted`, `Doubt` |
| `_transcript` | the three `Paths` a start may name |
| `cleanup`, `usage.freeze`, `pi_history` | `BeginCleanup` with `Evidence`, `Freeze` with `Usage` and `Rollouts`, `Delete`, `Journal`, `DeleteFails`, `Conclude` |
| `sessions.open`, `prune_sessions` | `Open`, `Launch`; `ListAgents`, `PruneFirstLook`, `PruneKeep`, `PruneLook`, `PruneRemove` |

A SessionStart may name its transcript plainly, name none ("absent"), or name a path that is not
plainly its own ("elsewhere"). Only the last makes the evidence ambiguous; a start without a
transcript is observed all the same (`native_history.py:236`, `:249`), so cleanup deletes a codex
session it has no transcript of. Its usage is then what the newest turn's thread leads to
(`Rollouts`), or unknown, and "unknown usage remains unknown" (`usage.py:107`):
`tests/test_native_history_cleanup.py:117` does exactly this. `saved` therefore keeps both what
was asked for (`named`) and what could be read (`of`), and `CountedFirst` says what the code does
promise: nothing is deleted before the file is written; what is deleted and was named by then is
counted, for the file is never reckoned anew once transcripts are gone; and pi's journal, read
after the CLI's end, names everything that is deleted. A session may be left and resumed again
(`ResumeNative`), which gives it a second hook, with another path perhaps; at most one hook per
session is under way.

`raced` says that something was written between pruning's last look and its removal, which no
lock prevents. A claude or grok manifest ends "partial" by design, so such a session is never
pruned. Limits: the format checks of roots and links are one outcome, "partial"; a named path may
be refused for any reason; a removal that fails half-way is left out, and so are
the log's sequence numbers and the repair of its tail. A captain counts as using its session from
its first write on: one between `Open` and `Launch` is not among the live ones of `PruneKeeps`, and
may find its directory gone.

### Placement

Slots and splits. `at` is what Herdr shows: for each pane the path to its leaf in the tab's tree
of splits; `roster` is what the captain counts. `free`, `next_slot` and `split_for` are
`placement.py`'s and `layout.py`'s functions; `Resolve`, `ResolveFlags`, `CreatePane`,
`CreateTab`, `RecruitFails`, `dismiss` and `PaneGone` are a recruit's steps and how panes go.

Flags are of two kinds. `--placement tab`, and a pane named by hand, resolve to a crew without a
column (`HandTab`; `placement.py:353`): it takes no slot, is counted nowhere, and its tab is never
filled. `--direction` alone keeps the slot that is next and splits its pane the way it says
(`placement.py:296`): the roster counts a column the screen may not show. `spot.implied` is the
direction the slot stands for, `forced` the tabs where the split went another way, which
`ShapeHolds` exempts from the order on the screen, never from the depth of a column.

Limits: Herdr does not give a new pane a name a roster entry still holds; evening the sizes and
tabs of older versions without a map are left out; which tab comes first among the crew's is free.
A tab once forced stays so until it is created anew.

### Memory

One graph, of any of the three scopes, and several captains' commands. A graph is nodes and
links with identities; `migrate_graph`, `add_memory`, `matches`, `Replaced` (upsert),
`live_nodes` and `Forgotten` are the code's functions on it; `Begin`, `CopyFile`, `CopyEnds`,
`MigrationFails`, `Read`, `Write` and `Dies` the steps of a command. `told` is a history of what
commands reported as recorded. Limits: git replacing a repo graph between a command's read and
write, the spelling of labels, search and rendering. A failed migration followed by an add
leaves the old graph behind for good, since the file then exists: `told` counts a migrated fact
only when it was copied.

`MCStores` puts the last three in one run. They share no state; `part` says which of them, and
which half of `History`, a behaviour is about. The theorems about `History` are about `HistorySpec` itself.

## 4. Runs

| run | question and bounds |
|---|---|
| `MailQueue` | Two messages, the second answering a question, two captain commands, one crew command, crew without hooks. Two messages are what the doorbell's order, its carried bodies and an answer racing an instruction need; two commands rewrite one unlocked `.drain` stamp. `Bounded` lets the second of them run only until the second message is begun. 1.5 million states. |
| `MailDismiss` | One message (an answer), two captain and two crew commands, a dismissal, crew with hooks. Two of each are needed for a lost stamp, a double receipt and a retried deliver to race the dismissal. |
| `WaitClaude` | Four events, two prompts, two messages: one prompt's three events with what ends it or a second prompt to confuse it with behind them, or two turns with a message between them. One event (`MaxPlain`) may be a SessionStart or show only a turn. |
| `WaitNotices` | A question with both reminders, a bounce and a report behind native events, under `FairSpec`: safety, refinement of `NoticeQueue`, liveness. `MaxPlain` is 0: such events matter to what a turn is, not to notices. |
| `WaitHandoff` | A crew whose prompts only its pane shows, two of them, polls that look at it and polls that do not, and a second assignment, so that ids and cursors of the first meet the second. One `MaxPlain` event. |
| `WaitIdleEarly` | Finds the disagreement in section 7. |
| `Alloc` | Two sessions, one name, two commands, two incarnations, three assignments, one path everybody wants: the smallest instance with a cross-session conflict, a re-recruited name and a third reservation made while an answer reopens the first. |
| `AllocDismissRace` | Finds the disagreement in section 7. |
| `Lifetime` | Two processes run the script of one launch, two commands stop it (a dismissal and `captain worktree dispose`, which takes no `crew.lock`), the crew works in a worktree. Two of each are what a repeated claim and two concurrent closes need; one child is enough to outlive or leave the group. |
| `Background` | One recruiter, owner, wait and dismissal, each of which may die at any step, with `Lifetime`'s guard, native CLI and one child below them, under `FairSpec`. One of each is what the code allows at a time: `crew.lock` admits one recruit or dismissal, the checkpoint one wait, the intent one owner. 335 thousand states. |
| `Results` | Two files, two results, two writes of the crew, one act of the user. Two files are what a transfer that ends half-way and a scan overtaken by a write need, two results a later one that replaces the earlier on the record. 5.5 million states. |
| `Stores` | `History` for each of five kinds of provider, in two parts: two native sessions of the crew's own and a foreign one, their starts naming each kind of path, the captain staying ("history"); the first session alone with captains that come, go and prune ("pruning"). `Placement` with four panes in the captain's tab (`<<1,1>>`) and two crew tabs (`<<2,2>>`), one of which a crew placed by hand can take; `MaxStray` lets one pane be out of step or one tab be forced at a time. `Memory` with two captains, two labels and two reasons. Three native sessions are first, cleared and resumed; four panes fill a column beside a stack and reopen it; two captains are one that writes behind the other's read. 5.7 million states. |

`MCCrewMail` and `MCAllocation` give the constants and the symmetry of interchangeable
processes, incarnations and assignments; the liveness run uses none. All runs set
`CHECK_DEADLOCK FALSE`: a session in which everything is read, reported and dismissed is a
legitimate end, and bounds on ids and events end the rest.

Each property has a mutant of the code that breaks it, a dropped guard, a swapped order, a
missing reset, defined beside the definition it replaces and marked `mutant:`.

**Fairness.** Three specifications have any. That of `CrewWait` has weak fairness of `Attend`, a `captain wait` that prints
its answer and acknowledges what the previous one printed. The captain's instructions
(`src/docs/crew-lifecycle.md`) are to keep a wait running, and the pi captain's bridge does so
mechanically. Nothing is assumed of the crew, of waits that die, or of the user. Under it
`ReportReachesCaptain` (what handoff and dismissal block on) and `PromptReachesCaptain` hold. That of `Lifetime`
has it for what the program and the kernel do by themselves: the owner's next statement
(`OwnerStep`; its failures, signals and death are free), the guard's polling loop (`GuardStep`)
and the death of a process that was sent SIGKILL. Nothing is assumed of recruiters, of
commands that stop the launch, or of the native CLI, which may ignore everything but SIGKILL.
`GroupEnds` excepts a guard killed alone by somebody else: until the owner notices, nobody
kills the rest, and if the owner dies too, nobody ever does. That of `Background` has weak fairness of the
recruiter's next statement (its deadlines are bounded, and each may die), of the guard and the
kernel as before, and of a wait while the crew is on the roster; strong fairness of the owner's,
because a wait that takes the checkpoint again and again may not keep it out for ever
(it polls the lock; an owner that misses it for
`LOCK_WAIT` raises, which is `OwnerDies`). Under it `AssignmentEnds`: whoever dies, a reserved assignment is closed or
its crew retired.

## 5. Proofs

All are for arbitrary finite or infinite sets of processes, messages, sessions, paths and facts and
any bounds, under the named assumption of the module (`MailAssumption`, `WaitAssumption`,
`AllocationAssumption`, `LifetimeAssumption`, `BackgroundAssumption`, `ResultsAssumption`, `HistoryAssumption`,
`PlacementAssumption`, `MemoryAssumption`), which say only how the constants are typed and that `None` is none of the
values it stands beside. TLC checked each inductive invariant on the runs' instances, or on
smaller ones of the same shape, before it was proved.

`CrewMailProofs`

- `TypeCorrect`: `TypeOK`.
- `ReportIsSettled`: `ReportSettled`. It is not inductive: a report could appear between
  `Enqueue` and `Commit`, or a closed crew could still run `done`. `SettledInv` adds
  `CommitHolds` (between the two a captain command holds the protocol lock and its message is
  still "prepared", so `done`'s refusal sees it), `ClosedIsGone` (no crew command after the
  pane is closed) and `ReportIsDone` (so `deliver` refuses new messages).
- `ReportIsFinal`: `ReportSurvives`, from `SettledInv`: dismissal releases an assignment only
  if it is not done, and a late answer finds nothing prepared behind a report.
- `QuestionsAnswered`: `OnlyAnswerCloses`, and `DeliveryGoesForward`: `DeliveryForward`, action
  properties, from `SettledInv`. `AskedIsOpen`: `AskedMeansOpen`, inductive beside it.
- `FilesStayAgreed`: `FilesAgree`. Each half of a pair of writes is made by a command that has
  seen the other half earlier, in another lock, so `FilesInv` adds `Underway` (a command past its
  mail file, and the last ring's stamp, speak of a message that has one) and `Mirrored` (what a
  receipt is about to mirror has left the queue).
- `LandedIsTyped`: `LandedWasTyped`, and `LossIsRefusal`: `OnlyRefusalLoses`. The stamp has no
  lock: a ring carries bodies forward that it read several steps before it writes. `BodyInv`
  adds `RingCarries` (what a ring has in hand was typed, or left the queue before) and
  `Stamping` (what a receipt is about to stamp was printed, or a `done` still owes it).

`CrewWaitProofs`

- `AcknowledgedIsTold`: `AckedWasTold`, `PendingOrdered`: `PendingInOrder`, `TurnsBanked`:
  `TurnBanked` (about events of a turn: a log of session starts alone banks none) and `TypeCorrect`: `TypeOK`, all from `QueueInv`. A wait that died may have printed
  an offer another one acknowledges, so it adds `IdsPast` (ids in circulation are of earlier
  offers or of the one that stands), `PrintedIsTold` (an offer whose id was printed is told) and
  `TurnAhead` (the turn is banked for the offered cursor too, before it is acknowledged).
- `CursorsGoForward`: `CursorsAdvance`, an action property no run checks, from `QueueInv`.
- `WaitServesQueue`: `ServesQueue`, the refinement of `NoticeQueue` under `Queue`'s mapping: a
  poll that prints a notice is `Serve`, an acknowledgement moves `acked` by what was told, a handoff
  is `Renew`, every other step stutters.
- `IdlesAreBounded`: `IdleInv`, for any number of assignments, and from it `OneIdlePerMessage`:
  `IdlePerMessage` where `MaxJobs = 1`. A handoff can hand the next assignment the last one's
  idle (the finding in section 7), so what is true of every assignment has `Spare`: none in the
  first, one after a handoff. That `IdlePerMessage` fails from the second on is what the run
  `WaitIdleEarly` shows, and why its theorem has the hypothesis.
- `PromptsSurfaceOnce`: `ApprovalOnce`, and `PromptsAreTold`: `ApprovalTold`. One prompt is up to
  three events, which polls meet in any grouping. `ApprovalInv` adds `EventsFit` (an event speaks
  of a prompt there was), `Newest` and `Block` (the events of one prompt stand together, none of
  an older one behind a newer one's), `Switch` (between two blocks lies the tool call or
  PreToolUse that tells poll the first prompt is over), `DedupeBacked` (poll's "awaiting" stands for a prompt it
  has passed, and no tool call since), `SeenIsTold` and `ToldIsDeduped` (a prompt the offered cursor passed
  was delivered, and a delivered one is in the dedupe state as long as events of it may come) and
  `DoneUnseen` (a prompt that is open when the report is filed was never delivered: nothing is
  offered after a report).

`AllocationProofs`

- `TypeCorrect`: `TypeOK`.
- `PathsStayDisjoint`: `PathsDisjoint`. `begin` tests and writes in two steps, so `DisjointInv`
  adds `OneWriter` (only the holder of `allocation.lock` is between them), `WriteClear` (what
  the test found still holds: the lemmas about `Standing` and `Claims` say that no other
  action makes or widens a reservation nobody has released) and `AnswerOpen` (an answer under
  way can reopen only what a release had closed, which is the property's exception).
- `NamesStay`: `NameKept`, an action property: whoever rules over a name that is listed is about the
  same incarnation (`OwnName`), under the session's `crew.lock` (`Phases`).
- `LivingStaysListed`: `LivingIsListed`, and `FreedStaysStopped`: `FreedIsStopped`, from `NameInv`.
  A CLI starts several steps, and two locks, after `begin` reserved for it. The invariant follows
  its incarnation: no assignment before `begin` writes (`Fresh`), then only the untouched one its
  name is active on (`Launching`), a listed name at the launch (`Announced`), nothing alive before
  it or past a dismissal's close (`Dormant`), and between those `Living`. It says too that what files
  and commands refer to belongs together: one name per incarnation (`OneHome`), assignments that
  exist (`Written`), a handoff's base (`AssignBase`, `WriteBase`), a name active on its own
  incarnation (`ActiveOwn`, `ListedOwn`).

`LifetimeProofs`

- `TypeCorrect`: `TypeOK`.
- `VerdictSound`: `VerdictHolds`, and `LaunchedOnce`: `OneLaunch`. A verdict is read from the
  record, so `LifeInv` ties the record to the processes: `OwnerHolds` (who is past its claim
  holds the lock of a claimed record), `ClaimFirst` (nothing ran before the claim, nor between
  it and the guard), `GuardPlace` (the guard leads its group, launches once, reports the truth),
  `Confirmed` and `ReceiptTrue` (what shutdown saw stays true, in the owner and then on the
  record), `VerdictBacked` (what was told is still on the record).
- `RecordOnlyForward`: `RecordForward`, an action property, from `LifeInv`.

`BackgroundProofs`

- `TypeCorrect`: `TypeOK`, `OutcomeMeansStopped`: `OutcomeIsStopped`, `RecordsAgree`: `RecordAgrees`.
  The launch below the run keeps `Lifetime`'s invariant: `LP` is the instance of `LifetimeProofs`
  for one owner and one closer, and its lemma about `LifeStep` (`Lifetime`'s next-state relation
  without the roster's own step) serves every step that is one of its actions. On top of it
  `OwnInv` says that an assignment is closed once (`ClosedOnce`), that whoever is about to write an
  outcome knows the launch is over (`WritersKnow`, `OutcomeIsOver`), who took the intent
  (`IntentTaken`, `ClaimedLate`), and what record and claim say at each place of the owner
  (`Recorded`, `SettledFirst`).
- The attempt found one error in the model, mended since: two arms of `JobEnds`' choice were true
  at once, and TLA+ leaves open which of them counts.

`ResultsProofs`

- `ResultsTyped`: `TypeOK`.
- `ResultIsLastWord`: `FinalIsFinal`, `DisposalLosesNothing`: `NothingLost`, `TransferKeepsWork`:
  `UserKept`. The verdict is read between scans that take many steps, so `ResInv` adds
  `VerdictStands` (a verdict "stopped" is a receipt, and only the third scan follows it),
  `ThirdScan` (behind that verdict, what the scan has passed is what the tree still holds),
  `FinalStands` (a final result has a stopped writer behind it), `Room` (counts of results),
  `Standing` (what stands in the checkout is among what has stood there), `Disposing` (what
  `cleanup_ready` found lasts until git begins, except that the user may edit the checkout) and
  `Swapping` (what `Recheck` saw holds until the swap, unless the user saved in between).

`StoresProofs`, about `History` and `Memory`

- `HistoryTyped`: `HistoryTypeOK`.
- `OnlyOwnDeleted`: `DeletedIsOwn`, `DeletedWasCounted`: `CountedFirst`. `CleanInv` adds
  `Started` (hooks and pi's journal speak of sessions the CLI started), `Records` (manifest and
  the cleanup's copy name own sessions only, and where hooks speak, one identity and its
  transcript), `Reading` (cleanup works on a manifest read after the CLI's verified end, which no
  hook changes) and `Frozen` (nothing is deleted before the usage is saved, and whatever was named
  when it was saved was there then).
- `PruningKeeps`: `PruneKeeps`, from `PruneInv`: who was in use when
  Herdr was asked is still known or has made the session young again, and what the look under
  the lock found lasts until the removal unless `raced`.

- `GraphsSayWhatWasTold`: `OneFact`. Identities of nodes and links are computed from what they
  stand for, so `MemoryInv` says which graph is on disk: `GraphOf(told)`, or the inherited one until
  the first write migrates it (`Told`, `Inherited`), that the lock has one holder (`Locked`) who has read what is
  there (`Commands`), and that facts obey the relation's kind and the cap (`OneObject`, `Capped`).
  The lemmas `Adds`, `ForgetsAndReplaces` and `GraphMigrates` say what the code's three functions make
  of the graph of any set of facts.

`PlacementProofs`

- `ColumnsHoldShape`: `ShapeHolds`, and `PlacesAreTyped`: `PlacementTypeOK`, for any shapes, panes and
  tabs. The property relates counts on a roster to paths of any length in a tree that a close
  rewrites throughout. So the first lemmas are about paths: two panes part at one split, in one
  direction and one way round (`LeadsOnce`); a new pane parts from the others as the pane it was
  split from does (`Splits`); and when a pane closes, the others part as they did (`CollapseKeeps`,
  `Closes`). With these no step but a recruit changes who is beside or below whom. The slot a
  recruit aims at was resolved in an earlier step, and panes may go in between, so `PlacementInv` adds
  to the shape (`Room`, `Ordered`) that no leaf is below another (`Trees`), that a slot which was
  resolved has room still and that its pane is of the column it is meant for (`Resolved`), and in a
  tab that lost no pane, that it is still the next one (`Current`) and that a column gets its second
  pane after its right neighbour's first (`Grown`): there a column is never opened beside a stack. That
  one can be, in a tab that did lose a pane, is the divergence in section 7.
  TLC checked `PlacementInv` on the run's shapes and on `<<1,3>>` and `<<2,1,2>>`, four panes each.
  A tab where `--direction` split a slot against the grid (`forced`) drops out of `Ordered` alone:
  `Room`, `Resolved`, `Current` and `Grown` speak of the direction the slot implies.

Only model-checked: the liveness properties (`ReportReachesCaptain`, `PromptReachesCaptain`,
`GroupEnds`, `AssignmentEnds`), since liveness under fairness and ENABLED are beyond the prover.

## 6. Not modelled

The components marked so in the table of section 1. The policy, the pane's parsing and the
configuration are text processing with no state; status, recovery, inspection, dashboard and
usage only read; onboarding, updates and runtime are calls to other programs. The doorbell's gates and
intervals are clocks: `CrewMail` lets any time pass, which is the wider behaviour; they are left
to the plan. Of the modelled components, the limits are listed with each module.

## 7. Where code and documentation disagree

Found by a run:

- `WaitIdleEarly`: a handoff starts the event cursor at the file's end (`protocol.py:279`) while
  the crew's last turn may still be running; its Stop is then delivered as an idle of the new
  assignment before any message of it. `docs/crew-lifecycle.md:245`: "a native idle notifies at
  most once per message delivered".
- `AllocDismissRace`: `assign` looks at the roster without `crew.lock` (`agents.py:489`), and
  `dismiss_crew` at the assignment once, before it closes the pane. An assignment begun and
  read in between dies with the crew, unreported, and keeps its paths.
  `docs/crew-lifecycle.md:356`: a crew "must first finish with a report".

Seen while modelling; the models include the behaviour and no property excludes it:

- `done`'s refusal stamps the receipts before it prints the bodies (`protocol.py:443`), against
  `docs/crew-mail-2.md:313`, "stamped only after the body is flushed". `OnlyRefusalLoses` says
  that this is the only such place.
- `bounce` overwrites the state of a message that was read meanwhile (`protocol.py:557`).
- A ring's stamp carries forward the landed bodies it read earlier, so a ring in between is
  forgotten (`protocol.py:655` and `:679`); `done` then serves the body again.
- Mail read between dismissal's look and the closing of the pane is still released as
  "Dismissed before any message was read." (`agents.py:622`).
- A message whose delivery straddles the dismissal is queued after the bounce loop and hidden
  for ever (`protocol.py:864`, against `docs/crew-mail.md:149`).
- A late answer puts a released assignment back to "working" (`protocol.py:878`): the exception
  of `PathsDisjoint`.
- A modal cleared and raised again between two looks at the pane is not delivered a second
  time (`protocol.py:1036`).
- A worktree recruit that dies after its early roster entry (`agents.py:729`) and before `begin`
  leaves a name dismissal refuses; a shared one that dies between `begin` and its roster entry
  (`agents.py:968`, `:978`) leaves reserved paths nobody frees.
- A background start that fails under a held protocol lock leaves its assignment to "the next
  wait" (`agents.py:786`), but retires the crew at once, and `wait --all` skips dismissed crews.
- Two concurrent closes of one terminal (a dismissal and `captain worktree dispose`) can put a
  "closed" `close_state` back to "pending" or "failed", against the comment "A verified close
  is final" (`lifetime.py:886`, `:888`): the cleanup then stays pending until it is retried.
- `execution.stop` that reads no pane just before `bind` records one revokes the launch and
  never closes its terminal (`execution.py:148`).
- `check` takes the `.owner` lock shared (`lifetime.py:846`), so a mere observer can make a
  claim (`timeout=0`, `lifetime.py:737`) fail.
- A SessionStart hook of a second codex session that comes after the first one's deletion
  leaves the manifest "complete" although that session was never observed
  (`native_history.py:371`, against `docs/memory.md:206`, missing hooks "leave non-complete
  journals that retain the session"): pruning may then take the directory.
- `collect` does not look at the worktree's phase (`results.py:282`): after an interrupted removal
  of a discarded result's tree, a new collection publishes the deletions as a final result of
  the crew, against "Immutable crew output" (`results.py:1`).
- A failed transfer leaves "partial" and the files it wrote (`results.py:455`); it is never taken
  up again, only found applied when everything is there.
- A column that emptied and is opened again beside a stack splits the stack's top pane only
  (`layout.py:108`), against `docs/placement.md:231`, "opens it again by splitting the top pane of
  column 1 to the right, exactly as crew 1 did": the exception of `ShapeHolds`.
- A recruit with `--direction` alone keeps the slot the grid chose and splits its pane another way
  (`placement.py:296`, `:312`; `tests/test_placement.py:806`, "A forced direction keeps the slot"),
  against `docs/placement.md:284`, "A crew placed by explicit flags takes no slot": the roster
  counts a column the screen does not show, and later slots are split from it. The other exception
  of `ShapeHolds`.
- A row is the column's count plus one, so after a dismissal from a stack two crew may have the
  same row and are ordered by their panes' names (`layout.py:79`): what is taken for the top or
  bottom may be neither.
- `migrate_project_graph` copies in place (`sessions.py:203`): a command killed in the middle
  leaves an unreadable graph that no later session copies again.
