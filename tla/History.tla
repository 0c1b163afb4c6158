------------------------------- MODULE History -------------------------------
(***************************************************************************)
(* What a session keeps of a crew's native CLI, and when it may go          *)
(* (events.py, native_history.py, usage.freeze, sessions.prune_sessions).   *)
(*                                                                          *)
(* Every native session the CLI starts runs a hook, a process of its own:   *)
(* it appends the event to the incarnation's log and then tells the         *)
(* ownership manifest.  Hooks overtake each other, outlive the CLI and get   *)
(* lost.  Cleanup reads the manifest once the CLI is verified gone, freezes  *)
(* the usage and deletes the native sessions the manifest calls the crew's. *)
(* Pruning removes a whole session directory that is old, settled and not   *)
(* alive.  The manifest is written under history.lock; pruning and opening  *)
(* a session take session.lock, what a session does later does not.         *)
(***************************************************************************)
EXTENDS Naturals, FiniteSets

CONSTANTS
    Own,            \* native sessions the crew's CLI starts anew
    First,          \* the one it starts with, which claude and grok are given
    Foreign,        \* native sessions it may resume, of the user or another crew
    Providers       \* "claude", "codex", "grok", "pi", or "quiet": a codex or pi that is
                    \* launched in the background to keep no session

ASSUME HistoryAssumption ==
    /\ First \in Own /\ Own \cap Foreign = {}
    /\ Providers \subseteq {"claude", "codex", "grok", "pi", "quiet"}

VARIABLES
    provider,       \* the crew's
    native,         \* its CLI
    current,        \* whether the roster still has this incarnation
    settled,        \* whether its lifetime, worktree and assignment ask for nothing more
    started,        \* the native sessions the CLI ran
    startSource,    \* how it came to each, the last time: anew, by /clear or by a resume
    hooks,          \* per native session: how far its SessionStart hook is
    journal,        \* the sessions pi's extension wrote down, each with what path
    manifest,       \* the ownership manifest
    saved,          \* usage.json: the transcripts it was asked for, and those it counts
    files,          \* the native sessions on disk
    deleted,        \* those that cleanup deleted
    cleanup,        \* the cleanup that holds history.lock: its step and its manifest
    dir,            \* whether the session directory is there
    age,            \* how long ago something in it changed: less than the days, as much, twice
    captain,        \* the session's captain
    prune,          \* another captain's pruning: its step and what Herdr told it
    raced           \* whether something changed between its last look and its removal

nativeVars  == <<provider, native, current, settled, started, startSource>>
hookVars    == <<hooks, journal>>
cleanVars   == <<saved, files, deleted, cleanup>>
sessionVars == <<dir, age, captain, prune, raced>>
historyVars == <<nativeVars, hookVars, manifest, cleanVars, sessionVars>>

Sessions == Own \cup Foreign

\* The path a SessionStart names: plainly that session's transcript, none at all, or one
\* that is not absolute, outside the provider's root or under another session's name.
Paths == {"plain", "absent", "elsewhere"}

\* usage.json is absent, or counts what could be read of the transcripts it was frozen for.
NoUsage == [frozen |-> FALSE, named |-> {}, of |-> {}]
Unprepared == [state |-> "none", ids |-> {}, transcripts |-> {}, counted |-> {},
               deletedIds |-> {}, ambiguous |-> FALSE, observed |-> FALSE]
NoCleanup == [step |-> "idle", record |-> Unprepared]
NoPrune == [step |-> "idle", herdr |-> FALSE, alive |-> FALSE]

Manifest == [state: {"none", "pending", "partial", "complete"},
             ids: SUBSET Sessions, transcripts: SUBSET Sessions, counted: SUBSET Sessions,
             deletedIds: SUBSET Sessions, ambiguous: BOOLEAN, observed: BOOLEAN]

HistoryTypeOK ==
    /\ provider \in Providers
    /\ native \in {"none", "running", "exited", "verified"}
    /\ current \in BOOLEAN /\ settled \in BOOLEAN
    /\ started \subseteq Sessions
    /\ startSource \in [Sessions -> {"startup", "clear", "resume"}]
    /\ hooks \in [Sessions -> {"none", "spawned", "appended", "done"}]
    /\ journal \subseteq Sessions \X Paths
    /\ manifest \in Manifest
    /\ saved \in [frozen: BOOLEAN, named: SUBSET Sessions, of: SUBSET Sessions]
    /\ files \subseteq Sessions /\ deleted \subseteq Sessions
    /\ cleanup \in [step: {"idle", "freeze", "delete", "journal"}, record: Manifest]
    /\ dir \in {"present", "gone"}
    /\ age \in 0 .. 2
    /\ captain \in {"gone", "opening", "alive"}
    /\ prune \in [step: {"idle", "listed", "looked", "remove"}, herdr: BOOLEAN, alive: BOOLEAN]
    /\ raced \in BOOLEAN

\* A captain is at work, nothing has been recruited; foreign sessions were there before.
HistoryInit ==
    /\ provider \in Providers
    /\ native = "none" /\ current = TRUE /\ settled = TRUE
    /\ started = {}
    /\ startSource = [s \in Sessions |-> IF s \in Own THEN "startup" ELSE "resume"]
    /\ hooks = [s \in Sessions |-> "none"] /\ journal = {}
    /\ manifest = Unprepared
    /\ saved = NoUsage /\ files = Foreign /\ deleted = {}
    /\ cleanup = NoCleanup
    /\ dir = "present" /\ age = 0 /\ captain = "alive"
    /\ prune = NoPrune /\ raced = FALSE

\* Writing in the session directory is activity, and needs the directory.
Activity ==
    /\ dir = "present"
    /\ age' = 0
    /\ raced' = (raced \/ prune.step = "remove")
    /\ UNCHANGED <<dir, prune>>
Touch == Activity /\ UNCHANGED captain

-----------------------------------------------------------------------------
(* The crew: recruited by its captain, its CLI starts, clears and resumes   *)
(* native sessions until it exits.                                          *)

\* claude and grok are told the first session's identity; pi writes its own journal.
prepare ==
    /\ native = "none" /\ captain = "alive"
    /\ native' = "running" /\ settled' = FALSE
    /\ manifest' = [Unprepared EXCEPT !.state = "pending",
                                      !.ids = IF provider \in {"codex", "quiet"} THEN {}
                                              ELSE {First}]
    /\ Touch
    /\ UNCHANGED <<provider, current, started, startSource, hookVars, cleanVars>>

\* grok and a background run have no hook, pi's extension writes its journal itself.
Announced(s) ==
    IF provider = "pi"
    THEN /\ \E path \in Paths : journal' = journal \cup {<<s, path>>}
         /\ Touch /\ UNCHANGED hooks
    ELSE /\ hooks' = IF provider \in {"grok", "quiet"} THEN hooks
                     ELSE [hooks EXCEPT ![s] = "spawned"]
         /\ UNCHANGED <<journal, sessionVars>>

\* pi refuses to resume outside its own directory.
StartNative(s) ==
    /\ native = "running" /\ s \notin started
    /\ s # First => First \in started
    /\ s \in Foreign => provider \notin {"pi", "quiet"}
    /\ started' = started \cup {s}
    /\ \/ UNCHANGED startSource
       \/ s \in Own \ {First} /\ startSource' = [startSource EXCEPT ![s] = "clear"]
    /\ files' = IF provider = "quiet" THEN files ELSE files \cup {s}
    /\ Announced(s)
    /\ UNCHANGED <<provider, native, current, settled, manifest, saved, deleted, cleanup>>

\* The user comes back to a session; its last hook is over.
ResumeNative(s) ==
    /\ native = "running" /\ s \in started
    /\ hooks[s] \in {"none", "done"}
    /\ startSource' = [startSource EXCEPT ![s] = "resume"]
    /\ Announced(s)
    /\ UNCHANGED <<provider, native, current, settled, started, manifest, cleanVars>>

NativeExits ==
    /\ native = "running"
    /\ native' = "exited"
    /\ UNCHANGED <<provider, current, settled, started, startSource, hookVars, manifest, cleanVars,
                   sessionVars>>

\* The owner's receipt: Lifetime's check(scope="native") is ok from here on.
Finished ==
    /\ native = "exited"
    /\ native' = "verified"
    /\ Touch
    /\ UNCHANGED <<provider, current, settled, started, startSource, hookVars, manifest, cleanVars>>

\* Its outcome acknowledged, its worktree removed, or the crew dismissed.
Settle ==
    /\ native = "verified" /\ ~settled
    /\ settled' = TRUE
    /\ Touch
    /\ UNCHANGED <<provider, native, current, started, startSource, hookVars, manifest, cleanVars>>

\* The roster gives the crew another incarnation, in the same pane.
NewIncarnation ==
    /\ native \in {"exited", "verified"} /\ current
    /\ current' = FALSE
    /\ Touch
    /\ UNCHANGED <<provider, native, settled, started, startSource, hookVars, manifest, cleanVars>>

-----------------------------------------------------------------------------
(* SessionStart hooks, each a process that may stop anywhere.               *)

\* The roster is asked again under the log's lock: an earlier incarnation writes nothing.
append_event(s) ==
    /\ hooks[s] = "spawned"
    /\ hooks' = [hooks EXCEPT ![s] = IF current THEN "appended" ELSE "done"]
    /\ IF current THEN Touch ELSE UNCHANGED sessionVars
    /\ UNCHANGED <<nativeVars, journal, manifest, cleanVars>>

\* What the first identity, a /clear, a resume and any other identity amount to.  A path
\* that is not plainly the session's is doubtful; a start that names none is not.
Doubt(record) == [record EXCEPT !.ambiguous = TRUE]
Adopt(record, s, path) ==
    LET known == [record EXCEPT !.ids = @ \cup {s}]
    IN IF path = "elsewhere" THEN Doubt(known)
       ELSE [known EXCEPT !.transcripts = IF path = "plain" THEN @ \cup {s} ELSE @,
                          !.observed = TRUE]
Counted(record, s, path) ==
    Doubt(IF path = "plain" THEN [record EXCEPT !.counted = @ \cup {s}] ELSE record)

AdoptResumed(record, s, path) ==
    IF s \in record.ids THEN Adopt(record, s, path)
    ELSE IF provider = "claude" /\ startSource[s] = "clear" THEN Counted(record, s, path)
    ELSE IF provider # "pi" /\ (provider # "codex" \/ record.ids # {}) THEN Doubt(record)
    ELSE Adopt(record, s, path)

observed(record, s, path) ==
    IF s \in record.ids THEN Adopt(record, s, path)
    ELSE IF provider = "claude" /\ startSource[s] = "clear" THEN Counted(record, s, path)
    ELSE IF provider # "pi" /\ (provider # "codex" \/ record.ids # {}) THEN Doubt(record)
    ELSE IF startSource[s] = "resume" THEN Doubt(record)
    ELSE Adopt(record, s, path)

\* A replaced root or link makes the evidence ambiguous, whatever the manifest said.
observe(s) ==
    /\ hooks[s] = "appended" /\ cleanup.step = "idle"
    /\ hooks' = [hooks EXCEPT ![s] = "done"]
    /\ manifest' \in {observed(manifest, s, path) : path \in Paths}
                    \cup {[Doubt(manifest) EXCEPT !.state = "partial"]}
    /\ Touch
    /\ UNCHANGED <<nativeVars, journal, cleanVars>>

-----------------------------------------------------------------------------
(* Cleanup, by dismissal or disposal: history.lock is held from its first   *)
(* step to its last, its manifest is written only where the code writes it. *)

Store(record) == manifest' = record /\ Touch
Ends(record, state) ==
    /\ Store([record EXCEPT !.state = state])
    /\ cleanup' = NoCleanup
At(step, record) == cleanup' = [step |-> step, record |-> record]

\* Not stopped, or nothing observed: pending.  Evidence that fails validation: partial.
\* pi's journal is read now, each entry as Adopt does.  grok's launch must prove the identity
\* was the first one, a background launch that it kept none.
Journalled(path) == {s \in Sessions : <<s, path>> \in journal}
Evidence ==
    IF provider = "pi"
    THEN [manifest EXCEPT !.ids = @ \cup UNION {Journalled(path) : path \in Paths},
                          !.transcripts = @ \cup Journalled("plain"),
                          !.ambiguous = @ \/ Journalled("elsewhere") # {},
                          !.observed = @ \/ Journalled("plain") \cup Journalled("absent") # {}]
    ELSE manifest

ByLaunch == provider \in {"grok", "quiet"}

BeginCleanup ==
    /\ cleanup.step = "idle" /\ dir = "present"
    /\ manifest.state \in {"pending", "partial"}
    /\ \/ native # "verified" /\ Ends(manifest, "pending")
       \/ native = "verified" /\ Ends(manifest, "partial")
       \/ /\ native = "verified"
          /\ ByLaunch \/ ~Evidence.observed
          /\ Ends(Evidence, "pending")
       \/ /\ native = "verified"
          /\ ByLaunch \/ Evidence.observed
          /\ At("freeze", Evidence)
          /\ UNCHANGED <<manifest, sessionVars>>
    /\ UNCHANGED <<nativeVars, hookVars, saved, files, deleted>>

\* A transcript that cannot be read counts nothing.  codex without one counts the rollout
\* that the newest turn's thread leads to, if it leads to any; grok is never counted.  What
\* nothing was counted of is unknown, and stays so: the file is written once.
readable(transcripts) == transcripts \cap files
Rollouts == {{}} \cup {{s} : s \in readable(started)}
Usage(record) ==
    LET named == record.transcripts \cup record.counted
    IN {[frozen |-> TRUE, named |-> named, of |-> read] :
           read \in IF provider = "codex" /\ named = {} THEN Rollouts ELSE {readable(named)}}

FreezeAnew(record) == Usage(record)
freeze(record) == IF saved.frozen THEN {saved} ELSE Usage(record)

\* The count is on disk before anything is deleted; an ambiguous identity deletes nothing.
Freeze ==
    /\ cleanup.step = "freeze"
    /\ saved' \in freeze(cleanup.record)
    /\ \/ /\ cleanup.record.ambiguous
          /\ Ends(cleanup.record, "partial")
       \/ /\ ~cleanup.record.ambiguous
          /\ At("delete", cleanup.record)
          /\ Touch /\ UNCHANGED manifest
    /\ UNCHANGED <<nativeVars, hookVars, files, deleted>>

\* grok and codex delete identities they have not yet recorded; claude and pi, transcripts.
Deletable(record) ==
    CASE provider = "grok"  -> {First} \ record.deletedIds
      [] provider = "codex" -> record.ids \ record.deletedIds
      [] provider = "quiet" -> {}
      [] OTHER              -> record.transcripts \cap files

Delete(s) ==
    /\ cleanup.step = "delete" /\ s \in Deletable(cleanup.record)
    /\ files' = files \ {s} /\ deleted' = deleted \cup {s}
    /\ IF provider \in {"codex", "grok"} THEN At("journal", cleanup.record)
       ELSE UNCHANGED cleanup
    /\ UNCHANGED <<nativeVars, hookVars, manifest, saved, sessionVars>>

\* The native command answered, and the deletion of what it deleted is recorded.
Journal ==
    /\ cleanup.step = "journal"
    /\ LET done == {s \in Deletable(cleanup.record) : s \notin files}
           record == [cleanup.record EXCEPT !.deletedIds = @ \cup done]
       IN IF provider = "codex" THEN Store(record) /\ At("delete", record)
          ELSE Ends(record, "partial")
    /\ UNCHANGED <<nativeVars, hookVars, saved, files, deleted>>

\* The native command failed or timed out, whether or not it deleted; an unlink failed.
DeleteFails ==
    /\ \/ cleanup.step = "journal"
       \/ cleanup.step = "delete" /\ Deletable(cleanup.record) # {}
    /\ \E state \in {"partial"} \cup IF provider \in {"codex", "grok"} THEN {"pending"} ELSE {} :
           Ends(cleanup.record, state)
    /\ UNCHANGED <<nativeVars, hookVars, saved, files, deleted>>

\* pi's directory is its own, claude's is shared; grok's deletion was recorded before.
Conclude ==
    /\ cleanup.step = "delete" /\ Deletable(cleanup.record) = {}
    /\ Ends(cleanup.record,
            IF \/ provider \in {"codex", "quiet"}
               \/ provider = "pi" /\ started \cap files = {}
            THEN "complete" ELSE "partial")
    /\ UNCHANGED <<nativeVars, hookVars, saved, files, deleted>>

CleanupDies ==
    /\ cleanup.step # "idle"
    /\ cleanup' = NoCleanup
    /\ UNCHANGED <<nativeVars, hookVars, manifest, saved, files, deleted, sessionVars>>

Cleanup ==
    \/ BeginCleanup \/ Freeze \/ Journal \/ DeleteFails \/ Conclude \/ CleanupDies
    \/ \E s \in Sessions : Delete(s)

-----------------------------------------------------------------------------
(* The session directory: left by its captain, opened again, pruned by      *)
(* another captain's launch.                                                *)

\* Time passes between prunings, which last moments.
Ages ==
    /\ prune.step = "idle" /\ age < 2 /\ dir = "present"
    /\ age' = age + 1
    /\ UNCHANGED <<nativeVars, hookVars, manifest, cleanVars, dir, captain, prune, raced>>

CaptainExits ==
    /\ captain = "alive"
    /\ captain' = "gone"
    /\ UNCHANGED <<nativeVars, hookVars, manifest, cleanVars, dir, age, prune, raced>>

\* Opening takes session.lock and writes nothing; the launch writes later.
Open ==
    /\ captain = "gone" /\ dir = "present" /\ prune.step # "remove"
    /\ captain' = "opening"
    /\ UNCHANGED <<nativeVars, hookVars, manifest, cleanVars, dir, age, prune, raced>>
Launch ==
    /\ captain = "opening"
    /\ captain' = "alive"
    /\ Activity
    /\ UNCHANGED <<nativeVars, hookVars, manifest, cleanVars>>

\* Herdr lists the captain's terminal, and the crew by name while its CLI runs.
live_agents == captain = "alive" \/ native = "running"
pending == manifest.state \notin {"none", "complete"}
unresolved == ~settled \/ pending

\* Herdr is asked once, before any directory is looked at, and may be out of reach.
ListAgents ==
    /\ prune.step = "idle" /\ dir = "present"
    /\ \E herdr \in BOOLEAN :
           prune' = [step |-> "listed", herdr |-> herdr, alive |-> live_agents]
    /\ UNCHANGED <<nativeVars, hookVars, manifest, cleanVars, dir, age, captain, raced>>

\* A first look without the lock passes over the sessions that are not old.
PruneFirstLook ==
    /\ prune.step = "listed"
    /\ prune' = IF age = 0 THEN NoPrune ELSE [prune EXCEPT !.step = "looked"]
    /\ UNCHANGED <<nativeVars, hookVars, manifest, cleanVars, dir, age, captain, raced>>

\* Under session.lock all of it is asked again but Herdr.
StaleBefore == TRUE
Stale == age >= (IF prune.herdr THEN 1 ELSE 2)
PruneKeep ==
    /\ prune.step = "looked"
    /\ ~Stale \/ unresolved \/ (prune.herdr /\ prune.alive)
    /\ prune' = NoPrune
    /\ UNCHANGED <<nativeVars, hookVars, manifest, cleanVars, dir, age, captain, raced>>
PruneLook ==
    /\ prune.step = "looked"
    /\ Stale /\ ~unresolved /\ ~(prune.herdr /\ prune.alive)
    /\ prune' = [prune EXCEPT !.step = "remove"]
    /\ raced' = FALSE
    /\ UNCHANGED <<nativeVars, hookVars, manifest, cleanVars, dir, age, captain>>
PruneRemove ==
    /\ prune.step = "remove"
    /\ dir' = "gone" /\ prune' = NoPrune
    /\ UNCHANGED <<nativeVars, hookVars, manifest, cleanVars, age, captain, raced>>

Prune == ListAgents \/ PruneFirstLook \/ PruneKeep \/ PruneLook \/ PruneRemove

HistoryNext ==
    \/ prepare \/ NativeExits \/ Finished \/ Settle \/ NewIncarnation
    \/ \E s \in Sessions : StartNative(s) \/ ResumeNative(s) \/ append_event(s) \/ observe(s)
    \/ Cleanup
    \/ Ages \/ CaptainExits \/ Open \/ Launch
    \/ Prune

HistorySpec == HistoryInit /\ [][HistoryNext]_historyVars

-----------------------------------------------------------------------------
(* Whatever order the hooks arrive in, and whichever get lost, nothing but  *)
(* a native session this incarnation began is ever deleted: not one the    *)
(* user resumed in the crew's CLI (native_history.py:230).                  *)
DeletedIsOwn == deleted \subseteq Own

(* Across retries, crashes and late hooks, cleanup deletes nothing before   *)
(* usage.json is on disk, and the file counts each session that is deleted  *)
(* and whose transcript was named by the time it was frozen: it was read    *)
(* while it was there, and no later cleanup reckons anew without it         *)
(* (native_history.py:442, usage.py:107).  A session whose start named no    *)
(* transcript, or named one later, may go uncounted, except pi's, whose     *)
(* journal is complete and leads to every session that is deleted.          *)
CountedFirst ==
    /\ deleted # {} => saved.frozen
    /\ deleted \cap saved.named \subseteq saved.of
    /\ provider = "pi" => deleted \subseteq saved.named

(* A session directory is removed only when nothing in it is unresolved     *)
(* and nobody uses it: a captain or crew that runs loses its session only   *)
(* if Herdr could not be asked and it wrote nothing for twice the days, or  *)
(* if it wrote between the last look and the removal (sessions.py:416).     *)
PruneKeeps ==
    [][dir' # dir => \/ raced
                     \/ /\ ~unresolved
                        /\ live_agents => ~prune.herdr /\ age = 2]_historyVars

=============================================================================
