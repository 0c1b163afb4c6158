---------------------------- MODULE StoresProofs ----------------------------
(***************************************************************************)
(* Proofs about two stores on disk.  History, for any native sessions and   *)
(* any provider: cleanup deletes what the crew began, the saved usage       *)
(* counts what it was frozen for, and pruning keeps what is open or in use. *)
(* Memory, for any captains, labels, reasons and limits: a readable graph   *)
(* holds exactly the facts commands reported and have not replaced or       *)
(* forgotten, whoever wrote between and whatever died.                      *)
(***************************************************************************)
EXTENDS History, Memory, FiniteSetTheorems, TLAPS

-----------------------------------------------------------------------------
(* Native history, and the pruning of session directories.                 *)

Hooked == provider \in {"claude", "codex"}

\* Foreign sessions come by a resume; hooks and pi's extension speak of sessions that the CLI
\* started.
Started ==
    /\ \A s \in Foreign : startSource[s] = "resume"
    /\ \A s \in Sessions : hooks[s] # "none" => s \in started /\ Hooked
    /\ journal \subseteq (started \cap Own) \X Paths
    /\ provider = "pi" => started \subseteq Own

\* A record owns own sessions and names transcripts of started ones, pi's those of the journal.
Owned(record) ==
    /\ record.ids \subseteq Own /\ record.transcripts \subseteq Own
    /\ record.transcripts \cup record.counted \subseteq started
    /\ provider = "quiet" => record.transcripts \cup record.counted = {}
    /\ provider = "pi" => record.transcripts \subseteq Journalled("plain")

Records == Owned(manifest) /\ Owned(cleanup.record)

\* Cleanup works on a manifest that it read after the CLI's end.
Reading ==
    /\ saved.frozen \/ cleanup.step # "idle" => native = "verified"
    /\ cleanup.step # "idle" /\ provider = "pi" =>
           Journalled("plain") \subseteq cleanup.record.transcripts

\* Nothing is deleted before usage is frozen, and it was frozen while all was there.
Frozen ==
    /\ ~saved.frozen => /\ deleted = {} /\ cleanup.step \notin {"delete", "journal"}
                        /\ provider # "quiet" => started \subseteq files
    /\ saved.named \subseteq saved.of
    /\ saved.frozen /\ provider = "pi" => Journalled("plain") \subseteq saved.named

CleanInv ==
    /\ HistoryTypeOK /\ Started /\ Records /\ Reading /\ Frozen
    /\ DeletedIsOwn /\ CountedFirst

-----------------------------------------------------------------------------
(* Manifests.                                                              *)

LEMMA NothingPrepared ==
    /\ Unprepared \in Manifest
    /\ Unprepared.ids = {} /\ Unprepared.transcripts = {} /\ Unprepared.counted = {}
    /\ Unprepared.state = "none"
BY DEF Unprepared, Manifest

LEMMA ObservedTyped ==
    ASSUME NEW record \in Manifest, NEW s \in Sessions, NEW path \in Paths
    PROVE  observed(record, s, path) \in Manifest
<1>1. Doubt(record) \in Manifest
  BY DEF Doubt, Manifest
<1>2. Counted(record, s, path) \in Manifest
  BY DEF Counted, Doubt, Manifest
<1>3. Adopt(record, s, path) \in Manifest
  <2> DEFINE named == IF path = "plain" THEN record.transcripts \cup {s} ELSE record.transcripts
             known == [record EXCEPT !.ids = record.ids \cup {s}]
  <2>1. named \subseteq Sessions
    BY DEF Manifest
  <2>2. known \in Manifest /\ known.transcripts = record.transcripts
    BY DEF Manifest
  <2>3. Adopt(record, s, path) \in {Doubt(known), [known EXCEPT !.transcripts = named, !.observed = TRUE]}
    BY <2>2 DEF Adopt
  <2> HIDE DEF known, named
  <2> QED
    BY <2>1, <2>2, <2>3 DEF Doubt, Manifest
<1> QED
  BY <1>1, <1>2, <1>3 DEF observed

LEMMA EvidenceFields ==
    ASSUME manifest \in Manifest, provider = "pi", journal \subseteq Sessions \X Paths
    PROVE  /\ Evidence \in Manifest
           /\ Evidence.ids = manifest.ids \cup UNION {Journalled(path) : path \in Paths}
           /\ Evidence.transcripts = manifest.transcripts \cup Journalled("plain")
           /\ Evidence.counted = manifest.counted
<1> DEFINE ids == manifest.ids \cup UNION {Journalled(path) : path \in Paths}
           named == manifest.transcripts \cup Journalled("plain")
           doubted == manifest.ambiguous \/ Journalled("elsewhere") # {}
           seen == manifest.observed \/ Journalled("plain") \cup Journalled("absent") # {}
<1>1. ids \subseteq Sessions /\ named \subseteq Sessions
  BY DEF Manifest, Journalled
<1>2. doubted \in BOOLEAN /\ seen \in BOOLEAN
  OBVIOUS
<1>3. Evidence = [manifest EXCEPT !.ids = ids, !.transcripts = named, !.ambiguous = doubted,
                                  !.observed = seen]
  BY DEF Evidence
<1> HIDE DEF ids, named, doubted, seen
<1>4. /\ Evidence \in Manifest
      /\ Evidence.ids = ids /\ Evidence.transcripts = named /\ Evidence.counted = manifest.counted
  BY <1>1, <1>2, <1>3 DEF Manifest
<1> QED
  BY <1>4 DEF ids, named

LEMMA EvidenceTyped ==
    ASSUME manifest \in Manifest, journal \subseteq Sessions \X Paths
    PROVE  Evidence \in Manifest
<1>1. provider # "pi" => Evidence = manifest
  BY DEF Evidence
<1> QED
  BY <1>1, EvidenceFields

LEMMA InitInv == HistoryInit => CleanInv
<1> SUFFICES ASSUME HistoryInit PROVE CleanInv
  OBVIOUS
<1>1. HistoryTypeOK
  <2>1. /\ cleanup \in [step: {"idle", "freeze", "delete", "journal"}, record: Manifest]
        /\ prune \in [step: {"idle", "listed", "looked", "remove"}, herdr: BOOLEAN, alive: BOOLEAN]
        /\ saved \in [frozen: BOOLEAN, named: SUBSET Sessions, of: SUBSET Sessions]
    BY NothingPrepared DEF HistoryInit, NoCleanup, NoPrune, NoUsage
  <2>2. hooks \in [Sessions -> {"none", "spawned", "appended", "done"}]
    BY DEF HistoryInit
  <2>3. /\ started \subseteq Sessions /\ journal \subseteq Sessions \X Paths
        /\ startSource \in [Sessions -> {"startup", "clear", "resume"}]
        /\ files \subseteq Sessions /\ deleted \subseteq Sessions
    BY DEF HistoryInit, Sessions
  <2>4. manifest \in Manifest /\ provider \in Providers
    BY NothingPrepared DEF HistoryInit
  <2>5. /\ native \in {"none", "running", "exited", "verified"}
        /\ dir \in {"present", "gone"} /\ age \in 0 .. 2
        /\ captain \in {"gone", "opening", "alive"}
    BY DEF HistoryInit
  <2>6. current \in BOOLEAN /\ settled \in BOOLEAN /\ raced \in BOOLEAN
    BY DEF HistoryInit
  <2> QED
    BY <2>1, <2>2, <2>3, <2>4, <2>5, <2>6 DEF HistoryTypeOK
<1>2. Started /\ Records
  <2>1. Foreign \subseteq Sessions /\ Foreign \cap Own = {}
    BY HistoryAssumption DEF Sessions
  <2>2. Started
    BY <2>1 DEF HistoryInit, Started
  <2> QED
    BY <2>2, NothingPrepared DEF HistoryInit, Records, Owned, NoCleanup
<1>3. Reading /\ Frozen /\ DeletedIsOwn /\ CountedFirst
  BY DEF HistoryInit, Reading, Frozen, DeletedIsOwn, CountedFirst, NoCleanup, NoUsage,
     Journalled
<1> QED
  BY <1>1, <1>2, <1>3 DEF CleanInv

-----------------------------------------------------------------------------
(* Types are kept.                                                         *)

LEMMA EndsTyped ==
    ASSUME NEW record \in Manifest, NEW state \in {"pending", "partial", "complete"},
           Ends(record, state), HistoryTypeOK
    PROVE  /\ manifest' \in Manifest
           /\ cleanup' \in [step: {"idle", "freeze", "delete", "journal"}, record: Manifest]
           /\ dir' = dir /\ age' = 0 /\ captain' = captain /\ prune' = prune
           /\ raced' \in BOOLEAN
<1>1. [record EXCEPT !.state = state] \in Manifest
  BY DEF Manifest
<1>2. raced' \in BOOLEAN
  BY DEF Ends, Store, Touch, Activity, HistoryTypeOK
<1> QED
  BY <1>1, <1>2, NothingPrepared DEF Ends, Store, Touch, Activity, NoCleanup

LEMMA TouchTyped ==
    ASSUME HistoryTypeOK, Activity
    PROVE  dir' = dir /\ age' \in 0 .. 2 /\ prune' = prune /\ raced' \in BOOLEAN
BY DEF HistoryTypeOK, Activity

LEMMA AnnouncedTyped ==
    ASSUME HistoryTypeOK, NEW s \in Sessions, Announced(s)
    PROVE  /\ hooks' \in [Sessions -> {"none", "spawned", "appended", "done"}]
           /\ journal' \subseteq Sessions \X Paths
           /\ dir' = dir /\ age' \in 0 .. 2 /\ prune' = prune /\ raced' \in BOOLEAN
           /\ captain' = captain
<1>1. CASE provider = "pi"
  <2>1. PICK path \in Paths : journal' = journal \cup {<<s, path>>}
    BY <1>1 DEF Announced
  <2>2. journal' \subseteq Sessions \X Paths
    BY <2>1 DEF HistoryTypeOK
  <2> QED
    BY <1>1, <2>2, TouchTyped DEF Announced, Touch, HistoryTypeOK
<1>2. CASE provider # "pi"
  BY <1>2 DEF Announced, sessionVars, HistoryTypeOK
<1> QED
  BY <1>1, <1>2

LEMMA CrewTyped ==
    ASSUME CleanInv,
           \/ prepare \/ NativeExits \/ Finished \/ Settle \/ NewIncarnation
           \/ \E s \in Sessions : StartNative(s) \/ ResumeNative(s) \/ append_event(s) \/ observe(s)
    PROVE  HistoryTypeOK'
<1> USE DEF CleanInv, HistoryTypeOK
<1>1. CASE prepare
  <2>1. manifest' \in Manifest
    BY <1>1, HistoryAssumption DEF prepare, Manifest, Unprepared, Sessions
  <2> QED
    BY <1>1, <2>1, TouchTyped DEF prepare, Touch, hookVars, cleanVars
<1>2. CASE NativeExits \/ Finished \/ Settle \/ NewIncarnation
  BY <1>2, TouchTyped DEF NativeExits, Finished, Settle, NewIncarnation, Touch, hookVars,
     cleanVars, sessionVars
<1>3. ASSUME NEW s \in Sessions, StartNative(s) \/ ResumeNative(s) PROVE HistoryTypeOK'
  <2>1. startSource' \in [Sessions -> {"startup", "clear", "resume"}]
    BY <1>3 DEF StartNative, ResumeNative
  <2>2. /\ hooks' \in [Sessions -> {"none", "spawned", "appended", "done"}]
        /\ journal' \subseteq Sessions \X Paths
        /\ dir' = dir /\ age' \in 0 .. 2 /\ prune' = prune /\ raced' \in BOOLEAN
        /\ captain' = captain
    BY <1>3, AnnouncedTyped DEF StartNative, ResumeNative
  <2>3. started' \subseteq Sessions /\ files' \subseteq Sessions
    BY <1>3 DEF StartNative, ResumeNative, cleanVars
  <2> QED
    BY <1>3, <2>1, <2>2, <2>3 DEF StartNative, ResumeNative, cleanVars
<1>4. ASSUME NEW s \in Sessions, append_event(s) PROVE HistoryTypeOK'
  <2>1. dir' = dir /\ age' \in 0 .. 2 /\ prune' = prune /\ raced' \in BOOLEAN /\ captain' = captain
    BY <1>4, TouchTyped DEF append_event, Touch, sessionVars
  <2>2. hooks' \in [Sessions -> {"none", "spawned", "appended", "done"}]
    BY <1>4 DEF append_event
  <2> QED
    BY <1>4, <2>1, <2>2 DEF append_event, nativeVars, cleanVars
<1>5. ASSUME NEW s \in Sessions, observe(s) PROVE HistoryTypeOK'
  <2>1. [Doubt(manifest) EXCEPT !.state = "partial"] \in Manifest
    BY DEF Doubt, Manifest
  <2>2. manifest' \in Manifest
    BY <1>5, <2>1, ObservedTyped DEF observe
  <2>3. hooks' \in [Sessions -> {"none", "spawned", "appended", "done"}]
    BY <1>5 DEF observe
  <2> QED
    BY <1>5, <2>2, <2>3, TouchTyped DEF observe, Touch, nativeVars, cleanVars
<1> QED
  BY <1>1, <1>2, <1>3, <1>4, <1>5

LEMMA UsageTyped ==
    ASSUME HistoryTypeOK, NEW record \in Manifest, NEW usage \in Usage(record)
    PROVE  usage \in [frozen: BOOLEAN, named: SUBSET Sessions, of: SUBSET Sessions]
<1>1. PICK read \in Rollouts \cup {readable(record.transcripts \cup record.counted)} :
          usage = [frozen |-> TRUE, named |-> record.transcripts \cup record.counted, of |-> read]
  BY DEF Usage
<1>2. files \subseteq Sessions /\ record.transcripts \cup record.counted \subseteq Sessions
  BY DEF HistoryTypeOK, Manifest
<1>3. read \subseteq Sessions
  BY <1>2 DEF Rollouts, readable
<1> QED
  BY <1>1, <1>2, <1>3

LEMMA CleanupTyped ==
    ASSUME CleanInv, Cleanup
    PROVE  HistoryTypeOK'
<1> DEFINE CleanupType == [step: {"idle", "freeze", "delete", "journal"}, record: Manifest]
<1>0. HistoryTypeOK /\ cleanup.record \in Manifest /\ NoCleanup \in CleanupType
  BY NothingPrepared DEF CleanInv, HistoryTypeOK, NoCleanup
<1> DEFINE Kept == /\ UNCHANGED <<nativeVars, hookVars>>
                   /\ manifest' \in Manifest /\ cleanup' \in CleanupType
                   /\ saved' \in [frozen: BOOLEAN, named: SUBSET Sessions, of: SUBSET Sessions]
                   /\ files' \subseteq Sessions /\ deleted' \subseteq Sessions
                   /\ dir' = dir /\ age' \in 0 .. 2 /\ captain' = captain /\ prune' = prune
                   /\ raced' \in BOOLEAN
<1>1. SUFFICES Kept
  BY <1>0 DEF HistoryTypeOK, nativeVars, hookVars
<1>2. \A step \in {"freeze", "delete", "journal"}, record \in Manifest :
          At(step, record) => cleanup' \in CleanupType
  BY DEF At
<1> USE <1>0
<1>3. CASE BeginCleanup
  <2>1. Evidence \in Manifest
    BY EvidenceTyped DEF HistoryTypeOK
  <2>2. UNCHANGED <<nativeVars, hookVars, saved, files, deleted>>
    BY <1>3 DEF BeginCleanup
  <2>3. CASE At("freeze", Evidence) /\ UNCHANGED <<manifest, sessionVars>>
    BY <1>2, <2>1, <2>2, <2>3 DEF HistoryTypeOK, sessionVars
  <2>4. CASE \E record \in {manifest, Evidence}, state \in {"pending", "partial"} : Ends(record, state)
    BY <2>1, <2>2, <2>4, EndsTyped DEF HistoryTypeOK
  <2> QED
    BY <1>3, <2>3, <2>4 DEF BeginCleanup
<1>4. CASE Freeze
  <2>1. saved' \in [frozen: BOOLEAN, named: SUBSET Sessions, of: SUBSET Sessions]
    BY <1>4, UsageTyped DEF Freeze, freeze, HistoryTypeOK
  <2>2. CASE Ends(cleanup.record, "partial")
    BY <1>4, <2>1, <2>2, EndsTyped DEF Freeze, HistoryTypeOK
  <2>3. CASE At("delete", cleanup.record) /\ Touch /\ UNCHANGED manifest
    BY <1>2, <1>4, <2>1, <2>3, TouchTyped DEF Freeze, HistoryTypeOK, Touch
  <2> QED
    BY <1>4, <2>2, <2>3 DEF Freeze
<1>5. ASSUME NEW s \in Sessions, Delete(s) PROVE Kept
  <2>1. cleanup' \in CleanupType
    BY <1>2, <1>5 DEF Delete, HistoryTypeOK
  <2> QED
    BY <1>5, <2>1 DEF Delete, HistoryTypeOK, sessionVars
<1>6. CASE Journal
  <2> DEFINE done == {s \in Deletable(cleanup.record) : s \notin files}
             record == [cleanup.record EXCEPT !.deletedIds = @ \cup done]
  <2>1. Deletable(cleanup.record) \subseteq Sessions
    BY HistoryAssumption DEF Deletable, Manifest, Sessions
  <2>2. record \in Manifest
    BY <2>1 DEF Manifest
  <2>3. \/ Store(record) /\ At("delete", record)
        \/ Ends(record, "partial")
    BY <1>6 DEF Journal
  <2>4. UNCHANGED <<nativeVars, hookVars, saved, files, deleted>>
    BY <1>6 DEF Journal
  <2> HIDE DEF record
  <2>5. CASE Ends(record, "partial")
    BY <2>2, <2>4, <2>5, EndsTyped DEF HistoryTypeOK
  <2>6. CASE Store(record) /\ At("delete", record)
    BY <1>2, <2>2, <2>4, <2>6, TouchTyped DEF Store, Touch, HistoryTypeOK
  <2> QED
    BY <2>3, <2>5, <2>6
<1>7. CASE DeleteFails
  <2>1. PICK state \in {"pending", "partial", "complete"} : Ends(cleanup.record, state)
    BY <1>7 DEF DeleteFails
  <2> QED
    BY <1>7, <2>1, EndsTyped DEF DeleteFails, HistoryTypeOK
<1>8. CASE Conclude
  <2>1. PICK state \in {"pending", "partial", "complete"} : Ends(cleanup.record, state)
    BY <1>8 DEF Conclude
  <2> QED
    BY <1>8, <2>1, EndsTyped DEF Conclude, HistoryTypeOK
<1>9. CASE CleanupDies
  BY <1>9 DEF CleanupDies, HistoryTypeOK, sessionVars
<1> QED
  BY <1>3, <1>4, <1>5, <1>6, <1>7, <1>8, <1>9 DEF Cleanup

LEMMA SessionTyped ==
    ASSUME CleanInv, Ages \/ CaptainExits \/ Open \/ Launch \/ Prune
    PROVE  HistoryTypeOK'
<1> USE DEF CleanInv, HistoryTypeOK
<1>1. CASE Ages \/ CaptainExits \/ Open
  BY <1>1 DEF Ages, CaptainExits, Open, nativeVars, hookVars, cleanVars
<1>2. CASE Launch
  BY <1>2, TouchTyped DEF Launch, nativeVars, hookVars, cleanVars
<1>3. CASE Prune
  <2>1. live_agents \in BOOLEAN
    BY DEF live_agents
  <2>2. prune' \in [step: {"idle", "listed", "looked", "remove"}, herdr: BOOLEAN, alive: BOOLEAN]
    <3>1. CASE ListAgents
      BY <2>1, <3>1 DEF ListAgents
    <3>2. CASE prune' = NoPrune
      BY <3>2 DEF NoPrune
    <3>3. CASE \E step \in {"looked", "remove"} : prune' = [prune EXCEPT !.step = step]
      BY <3>3
    <3> QED
      BY <1>3, <3>1, <3>2, <3>3 DEF Prune, PruneFirstLook, PruneKeep, PruneLook, PruneRemove
  <2>3. UNCHANGED <<nativeVars, hookVars, manifest, cleanVars, age, captain>>
    BY <1>3 DEF Prune, ListAgents, PruneFirstLook, PruneKeep, PruneLook, PruneRemove
  <2>4. dir' \in {"present", "gone"} /\ raced' \in BOOLEAN
    BY <1>3 DEF Prune, ListAgents, PruneFirstLook, PruneKeep, PruneLook, PruneRemove
  <2> QED
    BY <2>2, <2>3, <2>4 DEF nativeVars, hookVars, cleanVars
<1> QED
  BY <1>1, <1>2, <1>3

LEMMA TypeStep == CleanInv /\ [HistoryNext]_historyVars => HistoryTypeOK'
<1> SUFFICES ASSUME CleanInv, [HistoryNext]_historyVars PROVE HistoryTypeOK'
  OBVIOUS
<1>1. CASE UNCHANGED historyVars
  BY <1>1 DEF CleanInv, HistoryTypeOK, historyVars, nativeVars, hookVars, cleanVars, sessionVars
<1> QED
  BY <1>1, CrewTyped, CleanupTyped, SessionTyped DEF HistoryNext

-----------------------------------------------------------------------------
(* Hooks and records.                                                      *)

LEMMA StartedStep == CleanInv /\ [HistoryNext]_historyVars => Started'
<1> SUFFICES ASSUME CleanInv, [HistoryNext]_historyVars PROVE Started'
  OBVIOUS
<1>1. /\ Started /\ hooks \in [Sessions -> {"none", "spawned", "appended", "done"}]
      /\ provider \in {"claude", "codex", "grok", "pi", "quiet"} /\ started \subseteq Sessions
      /\ startSource \in [Sessions -> {"startup", "clear", "resume"}]
      /\ provider = "pi" => started \subseteq Own
  BY HistoryAssumption DEF CleanInv, HistoryTypeOK, Started
<1>2. ASSUME NEW s \in Sessions, StartNative(s) \/ ResumeNative(s) PROVE Started'
  <2>1. /\ started' = started \cup {s} /\ provider' = provider /\ Announced(s)
        /\ provider = "pi" => s \in Own
    BY <1>1, <1>2 DEF StartNative, ResumeNative, Sessions
  <2>2. \A f \in Foreign : startSource'[f] = "resume"
    <3>1. \/ startSource' \in {startSource, [startSource EXCEPT ![s] = "resume"]}
          \/ s \in Own /\ startSource' = [startSource EXCEPT ![s] = "clear"]
      BY <1>2 DEF StartNative, ResumeNative
    <3>2. Foreign \subseteq Sessions /\ Foreign \cap Own = {}
      BY HistoryAssumption DEF Sessions
    <3> QED
      BY <1>1, <3>1, <3>2 DEF Started
  <2>3. CASE provider = "pi"
    <3>1. PICK path \in Paths : journal' = journal \cup {<<s, path>>} /\ hooks' = hooks
      BY <2>1, <2>3 DEF Announced
    <3> QED
      BY <1>1, <2>1, <2>2, <2>3, <3>1 DEF Started, Hooked
  <2>4. CASE provider # "pi"
    BY <1>1, <2>1, <2>2, <2>4 DEF Announced, Started, Hooked
  <2> QED
    BY <2>3, <2>4
<1>3. ASSUME NEW s \in Sessions, append_event(s) \/ observe(s) PROVE Started'
  BY <1>1, <1>3 DEF append_event, observe, Started, Hooked, nativeVars
<1>4. CASE UNCHANGED <<provider, started, startSource, hooks, journal>>
  BY <1>1, <1>4 DEF Started, Hooked
<1>5. CASE prepare \/ NativeExits \/ Finished \/ Settle \/ NewIncarnation
  BY <1>4, <1>5 DEF prepare, NativeExits, Finished, Settle, NewIncarnation, hookVars
<1>6. CASE Cleanup
  BY <1>4, <1>6 DEF Cleanup, BeginCleanup, Freeze, Delete, Journal, DeleteFails, Conclude,
     CleanupDies, nativeVars, hookVars
<1>7. CASE Ages \/ CaptainExits \/ Open \/ Launch \/ Prune
  BY <1>4, <1>7 DEF Ages, CaptainExits, Open, Launch, Prune, ListAgents, PruneFirstLook,
     PruneKeep, PruneLook, PruneRemove, nativeVars, hookVars
<1>8. CASE UNCHANGED historyVars
  BY <1>4, <1>8 DEF historyVars, nativeVars, hookVars
<1> QED
  BY <1>2, <1>3, <1>5, <1>6, <1>7, <1>8 DEF HistoryNext

\* What a hook says keeps a record owned.
LEMMA ObservedOwned ==
    ASSUME HistoryTypeOK, Started, NEW record \in Manifest, Owned(record), Hooked,
           NEW s \in Sessions, s \in started, NEW path \in Paths
    PROVE  Owned(observed(record, s, path))
<1>1. provider \notin {"pi", "quiet"}
  BY DEF Hooked
<1>2. CASE s \in record.ids \/ startSource[s] # "resume"
  <2>1. s \in record.ids \/ s \in Own
    BY <1>2 DEF Started, Sessions
  <2>2. s \in Own
    BY <2>1 DEF Owned
  <2>3. /\ Adopt(record, s, path).ids = record.ids \cup {s}
        /\ Adopt(record, s, path).transcripts \subseteq record.transcripts \cup {s}
        /\ Adopt(record, s, path).counted = record.counted
    <3> DEFINE named == IF path = "plain" THEN record.transcripts \cup {s} ELSE record.transcripts
               known == [record EXCEPT !.ids = record.ids \cup {s}]
    <3>1. named \subseteq record.transcripts \cup {s}
      OBVIOUS
    <3>2. /\ known \in Manifest /\ known.transcripts = record.transcripts
          /\ known.ids = record.ids \cup {s} /\ known.counted = record.counted
      BY DEF Manifest
    <3>3. Adopt(record, s, path) \in {Doubt(known), [known EXCEPT !.transcripts = named, !.observed = TRUE]}
      BY <3>2 DEF Adopt
    <3> HIDE DEF known, named
    <3> QED
      BY <3>1, <3>2, <3>3 DEF Doubt, Manifest
  <2>4. Owned(Adopt(record, s, path))
    BY <1>1, <2>2, <2>3 DEF Owned
  <2>5. Owned(Doubt(record)) /\ Owned(Counted(record, s, path))
    BY <1>1 DEF Owned, Doubt, Counted, Manifest
  <2> QED
    BY <2>4, <2>5 DEF observed
<1>3. CASE s \notin record.ids /\ startSource[s] = "resume"
  <2>1. observed(record, s, path) = Doubt(record)
    BY <1>1, <1>3 DEF observed
  <2> QED
    BY <1>1, <2>1 DEF Owned, Doubt, Manifest
<1> QED
  BY <1>2, <1>3

LEMMA EndsOwned ==
    ASSUME NEW record \in Manifest, Owned(record), NEW state, Ends(record, state),
           UNCHANGED <<provider, started, journal>>
    PROVE  Records'
<1>1. /\ manifest'.ids = record.ids /\ manifest'.transcripts = record.transcripts
      /\ manifest'.counted = record.counted
  BY DEF Ends, Store, Manifest
<1>2. cleanup'.record = Unprepared
  BY DEF Ends, NoCleanup
<1>3. Owned(manifest)'
  BY <1>1 DEF Owned, Journalled
<1>4. Owned(cleanup.record)'
  BY <1>2, NothingPrepared DEF Owned
<1> QED
  BY <1>3, <1>4 DEF Records

LEMMA EvidenceOwned ==
    ASSUME CleanInv
    PROVE  /\ Owned(Evidence) /\ Evidence \in Manifest
           /\ provider = "pi" => Journalled("plain") \subseteq Evidence.transcripts
<1>1. /\ manifest \in Manifest /\ Owned(manifest) /\ journal \subseteq (started \cap Own) \X Paths
      /\ journal \subseteq Sessions \X Paths
  BY DEF CleanInv, HistoryTypeOK, Records, Started
<1>2. CASE provider = "pi"
  <2>1. \A path \in Paths : Journalled(path) \subseteq started \cap Own
    BY <1>1 DEF Journalled
  <2>2. "plain" \in Paths
    BY DEF Paths
  <2> QED
    BY <1>1, <1>2, <2>1, <2>2, EvidenceFields DEF Owned
<1> QED
  BY <1>1, <1>2 DEF Evidence

LEMMA RecordsStep == CleanInv /\ [HistoryNext]_historyVars => Records'
<1> SUFFICES ASSUME CleanInv, [HistoryNext]_historyVars PROVE Records'
  OBVIOUS
<1>1. /\ Owned(manifest) /\ Owned(cleanup.record) /\ HistoryTypeOK /\ Started
      /\ manifest \in Manifest /\ cleanup.record \in Manifest /\ started \subseteq started'
      /\ Journalled("plain") \subseteq Journalled("plain")' /\ provider' = provider
  <2>1. started \subseteq started' /\ journal \subseteq journal' /\ provider' = provider
    <3>1. CASE Cleanup
      BY <3>1 DEF Cleanup, BeginCleanup, Freeze, Delete, Journal, DeleteFails, Conclude,
         CleanupDies, nativeVars, hookVars
    <3>2. CASE Ages \/ CaptainExits \/ Open \/ Launch \/ Prune
      BY <3>2 DEF Ages, CaptainExits, Open, Launch, Prune, ListAgents, PruneFirstLook,
         PruneKeep, PruneLook, PruneRemove, nativeVars, hookVars
    <3>3. CASE UNCHANGED historyVars
      BY <3>3 DEF historyVars, nativeVars, hookVars
    <3> QED
      BY <3>1, <3>2, <3>3 DEF HistoryNext, prepare, NativeExits, Finished, Settle,
         NewIncarnation, StartNative, ResumeNative, Announced, append_event, observe, nativeVars,
         hookVars
  <2> QED
    BY <2>1 DEF CleanInv, HistoryTypeOK, Records, Journalled
<1>2. CASE UNCHANGED <<manifest, cleanup>>
  BY <1>1, <1>2 DEF Records, Owned
<1>3. CASE prepare
  <2>1. /\ manifest'.ids \subseteq {First}
        /\ manifest'.transcripts = {} /\ manifest'.counted = {}
        /\ UNCHANGED <<cleanup, started, journal>>
    BY <1>3 DEF prepare, Unprepared, cleanVars, hookVars
  <2> QED
    BY <1>1, <2>1, HistoryAssumption DEF Records, Owned, Journalled
<1>4. ASSUME NEW s \in Sessions, observe(s) PROVE Records'
  <2>1. Hooked /\ s \in started /\ UNCHANGED <<started, journal, cleanup>>
    BY <1>1, <1>4 DEF observe, Started, nativeVars, cleanVars
  <2>2. CASE manifest' = [Doubt(manifest) EXCEPT !.state = "partial"]
    <3>1. /\ manifest'.ids = manifest.ids /\ manifest'.transcripts = manifest.transcripts
          /\ manifest'.counted = manifest.counted
      BY <1>1, <2>2 DEF Doubt, Manifest
    <3> QED
      BY <1>1, <2>1, <3>1 DEF Records, Owned
  <2>3. CASE \E path \in Paths : manifest' = observed(manifest, s, path)
    <3>1. PICK path \in Paths : manifest' = observed(manifest, s, path)
      BY <2>3
    <3> DEFINE new == observed(manifest, s, path)
    <3>2. Owned(new)
      BY <1>1, <2>1, ObservedOwned
    <3> HIDE DEF new
    <3>3. manifest' = new
      BY <3>1 DEF new
    <3> QED
      BY <1>1, <2>1, <3>2, <3>3 DEF Records, Owned
  <2> QED
    BY <1>4, <2>2, <2>3 DEF observe
<1>5. CASE Cleanup
  <2>1. UNCHANGED <<provider, started, journal>>
    BY <1>5 DEF Cleanup, BeginCleanup, Freeze, Delete, Journal, DeleteFails, Conclude,
       CleanupDies, nativeVars, hookVars
  <2>2. CASE BeginCleanup
    <3>1. Owned(Evidence) /\ Evidence \in Manifest
      BY EvidenceOwned
    <3>2. CASE \E state : Ends(manifest, state) \/ Ends(Evidence, state)
      BY <1>1, <2>1, <3>1, <3>2, EndsOwned
    <3>3. CASE At("freeze", Evidence) /\ UNCHANGED manifest
      <4> DEFINE new == Evidence
      <4> HIDE DEF new
      <4>1. cleanup'.record = new /\ Owned(new) /\ manifest' = manifest
        BY <3>1, <3>3 DEF At, new
      <4> QED
        BY <1>1, <2>1, <4>1 DEF Records, Owned, Journalled
    <3> QED
      BY <2>2, <3>2, <3>3 DEF BeginCleanup
  <2>3. CASE Journal
    <3> DEFINE new == [cleanup.record EXCEPT !.deletedIds =
                        @ \cup {s \in Deletable(cleanup.record) : s \notin files}]
    <3>1. /\ new.ids = cleanup.record.ids /\ new.transcripts = cleanup.record.transcripts
          /\ new.counted = cleanup.record.counted
      BY <1>1 DEF Manifest
    <3>2. \/ manifest' = new /\ cleanup'.record = new
          \/ Ends(new, "partial")
      BY <2>3 DEF Journal, Store, At
    <3> HIDE DEF new
    <3>3. CASE manifest' = new /\ cleanup'.record = new
      BY <1>1, <2>1, <3>1, <3>3 DEF Records, Owned, Journalled
    <3>4. CASE Ends(new, "partial")
      <4>1. /\ manifest'.ids = cleanup.record.ids
            /\ manifest'.transcripts = cleanup.record.transcripts
            /\ manifest'.counted = cleanup.record.counted
            /\ cleanup'.record = Unprepared
        <5>1. new \in [DOMAIN new -> {new[x] : x \in DOMAIN new}] /\ DOMAIN new = DOMAIN cleanup.record
          BY <1>1 DEF new, Manifest
        <5>2. DOMAIN cleanup.record = {"state", "ids", "transcripts", "counted", "deletedIds", "ambiguous", "observed"}
          BY <1>1 DEF Manifest
        <5> QED
          BY <3>1, <3>4, <5>1, <5>2 DEF Ends, Store, NoCleanup
      <4> QED
        BY <1>1, <2>1, <4>1, NothingPrepared DEF Records, Owned, Journalled
    <3> QED
      BY <3>2, <3>3, <3>4
  <2>4. CASE \E state : Ends(cleanup.record, state)
    BY <1>1, <2>1, <2>4, EndsOwned
  <2>5. CASE Freeze
    BY <1>1, <2>1, <2>4, <2>5 DEF Freeze, At, Records, Owned, Journalled
  <2>6. ASSUME NEW s \in Sessions, Delete(s) PROVE Records'
    BY <1>1, <2>1, <2>6 DEF Delete, At, Records, Owned, Journalled
  <2>7. CASE DeleteFails \/ Conclude
    BY <2>4, <2>7 DEF DeleteFails, Conclude
  <2>8. CASE CleanupDies
    BY <1>1, <2>1, <2>8, NothingPrepared DEF CleanupDies, NoCleanup, Records, Owned,
       Journalled
  <2> QED
    BY <1>5, <2>2, <2>3, <2>5, <2>6, <2>7, <2>8 DEF Cleanup
<1>6. CASE NativeExits \/ Finished \/ Settle \/ NewIncarnation \/ UNCHANGED historyVars
  BY <1>2, <1>6 DEF NativeExits, Finished, Settle, NewIncarnation, cleanVars, historyVars
<1>7. ASSUME NEW s \in Sessions, StartNative(s) \/ ResumeNative(s) \/ append_event(s)
      PROVE  Records'
  BY <1>2, <1>7 DEF StartNative, ResumeNative, append_event, cleanVars
<1>8. CASE Ages \/ CaptainExits \/ Open \/ Launch \/ Prune
  BY <1>2, <1>8 DEF Ages, CaptainExits, Open, Launch, Prune, ListAgents, PruneFirstLook,
     PruneKeep, PruneLook, PruneRemove, cleanVars
<1> QED
  BY <1>3, <1>4, <1>5, <1>6, <1>7, <1>8 DEF HistoryNext

-----------------------------------------------------------------------------
(* Cleanup.                                                                *)

\* Outside cleanup nothing it works with changes, except what hooks and launches do.
LEMMA OutsideCleanup ==
    ASSUME HistoryNext, ~Cleanup
    PROVE  UNCHANGED <<provider, saved, deleted, cleanup>>
BY DEF HistoryNext, prepare, NativeExits, Finished, Settle, NewIncarnation, StartNative,
       ResumeNative, append_event, observe, Ages, CaptainExits, Open, Launch, Prune, ListAgents,
       PruneFirstLook, PruneKeep, PruneLook, PruneRemove, nativeVars, cleanVars

LEMMA InsideCleanup ==
    ASSUME Cleanup
    PROVE  UNCHANGED <<nativeVars, hookVars>>
BY DEF Cleanup, BeginCleanup, Freeze, Delete, Journal, DeleteFails, Conclude, CleanupDies

\* A step of cleanup goes on with a record of the same transcripts, or ends.
LEMMA RecordGoesOn ==
    ASSUME CleanInv, Cleanup, ~BeginCleanup
    PROVE  /\ cleanup.step # "idle"
           /\ cleanup'.step = "idle" \/ cleanup'.record.transcripts = cleanup.record.transcripts
<1>1. cleanup.record \in Manifest /\ cleanup \in [step: {"idle", "freeze", "delete", "journal"}, record: Manifest]
  BY DEF CleanInv, HistoryTypeOK
<1>2. ASSUME NEW state, Ends(cleanup.record, state) PROVE cleanup'.step = "idle"
  BY <1>2 DEF Ends, NoCleanup
<1>3. CASE Freeze
  BY <1>1, <1>2, <1>3 DEF Freeze, At
<1>4. ASSUME NEW s \in Sessions, Delete(s)
      PROVE  cleanup.step # "idle" /\ cleanup'.record = cleanup.record
  BY <1>1, <1>4 DEF Delete, At
<1>5. CASE Journal
  <2> DEFINE new == [cleanup.record EXCEPT !.deletedIds =
                      @ \cup {s \in Deletable(cleanup.record) : s \notin files}]
  <2>1. new.transcripts = cleanup.record.transcripts
    BY <1>1 DEF Manifest
  <2>2. cleanup'.record = new \/ cleanup'.step = "idle"
    BY <1>5 DEF Journal, At, Ends, NoCleanup
  <2>3. cleanup.step # "idle"
    BY <1>5 DEF Journal
  <2> HIDE DEF new
  <2> QED
    BY <2>1, <2>2, <2>3
<1>6. CASE DeleteFails \/ Conclude
  BY <1>2, <1>6 DEF DeleteFails, Conclude
<1>7. CASE CleanupDies
  BY <1>7 DEF CleanupDies, NoCleanup
<1> QED
  BY <1>3, <1>4, <1>5, <1>6, <1>7 DEF Cleanup

\* Its beginning reads the manifest and the journal.
LEMMA RecordBegins ==
    ASSUME BeginCleanup, cleanup'.step # "idle"
    PROVE  cleanup'.step = "freeze" /\ native = "verified" /\ cleanup'.record = Evidence
<1>1. ASSUME NEW record, NEW state, Ends(record, state) PROVE FALSE
  BY <1>1 DEF Ends, NoCleanup
<1> QED
  BY <1>1 DEF BeginCleanup, At

LEMMA ReadingStep == CleanInv /\ [HistoryNext]_historyVars => Reading'
<1> SUFFICES ASSUME CleanInv, [HistoryNext]_historyVars PROVE Reading'
  OBVIOUS
<1>1. Reading
  BY DEF CleanInv
<1>2. CASE HistoryNext /\ ~Cleanup
  <2>1. UNCHANGED <<provider, saved, deleted, cleanup>>
    BY <1>2, OutsideCleanup
  <2>2. CASE cleanup.step = "idle"
    <3>1. native = "verified" => native' = "verified"
      BY <1>2 DEF HistoryNext, prepare, NativeExits, Finished, Settle, NewIncarnation, StartNative,
         ResumeNative, append_event, observe, Ages, CaptainExits, Open, Launch, Prune,
         ListAgents, PruneFirstLook, PruneKeep, PruneLook, PruneRemove, nativeVars
    <3> QED
      BY <1>1, <2>1, <2>2, <3>1 DEF Reading
  <2>3. CASE cleanup.step # "idle"
    <3>1. native = "verified"
      BY <1>1, <2>3 DEF Reading
    <3>2. UNCHANGED <<native, journal>>
      BY <1>2, <2>3, <3>1 DEF HistoryNext, prepare, NativeExits, Finished, Settle,
         NewIncarnation, StartNative, ResumeNative, append_event, observe, Ages, CaptainExits,
         Open, Launch, Prune, ListAgents, PruneFirstLook, PruneKeep, PruneLook, PruneRemove,
         nativeVars, hookVars
    <3> QED
      BY <1>1, <2>1, <3>1, <3>2 DEF Reading, Journalled
  <2> QED
    BY <2>2, <2>3
<1>3. CASE BeginCleanup
  <2>1. UNCHANGED <<nativeVars, hookVars, saved>>
    BY <1>3 DEF BeginCleanup
  <2>2. cleanup'.step # "idle" /\ provider = "pi" =>
            Journalled("plain") \subseteq cleanup'.record.transcripts
    BY <1>3, RecordBegins, EvidenceOwned
  <2> QED
    BY <1>1, <1>3, <2>1, <2>2, RecordBegins DEF Reading, Journalled, nativeVars, hookVars
<1>4. CASE Cleanup /\ ~BeginCleanup
  <2>1. UNCHANGED <<nativeVars, hookVars>>
    BY <1>4, InsideCleanup
  <2>2. saved'.frozen => saved.frozen \/ cleanup.step # "idle"
    BY <1>4 DEF Cleanup, Freeze, Delete, Journal, DeleteFails, Conclude, CleanupDies
  <2> QED
    BY <1>1, <1>4, <2>1, <2>2, RecordGoesOn DEF Reading, Journalled, nativeVars, hookVars
<1>5. CASE UNCHANGED historyVars
  BY <1>1, <1>5 DEF Reading, Journalled, historyVars, nativeVars, hookVars, cleanVars
<1> QED
  BY <1>2, <1>3, <1>4, <1>5

\* The first freeze counts every transcript of the record, all of them being there.
LEMMA FreezeCounts ==
    ASSUME CleanInv, Freeze
    PROVE  /\ saved'.frozen /\ UNCHANGED <<files, deleted>>
           /\ saved'.named \subseteq saved'.of
           /\ provider = "pi" => Journalled("plain") \subseteq saved'.named
           /\ deleted = {} \/ saved' = saved
<1>1. /\ Records /\ Reading /\ Frozen /\ cleanup.step = "freeze"
      /\ saved' \in freeze(cleanup.record) /\ UNCHANGED <<files, deleted>>
  BY DEF CleanInv, Freeze
<1>2. CASE saved.frozen
  <2>1. saved' = saved
    BY <1>1, <1>2 DEF freeze
  <2> QED
    BY <1>1, <1>2, <2>1 DEF Frozen
<1>3. CASE ~saved.frozen
  <2> DEFINE named == cleanup.record.transcripts \cup cleanup.record.counted
  <2>1. saved' \in Usage(cleanup.record) /\ deleted = {}
    BY <1>1, <1>3 DEF freeze, Frozen
  <2>2. /\ saved'.frozen /\ saved'.named = named
        /\ named = {} \/ saved'.of = readable(named)
    BY <2>1 DEF Usage
  <2>3. named \subseteq files
    BY <1>1, <1>3 DEF Frozen, Records, Owned
  <2>4. named \subseteq saved'.of
    BY <2>2, <2>3 DEF readable
  <2>5. provider = "pi" => Journalled("plain") \subseteq cleanup.record.transcripts
    BY <1>1 DEF Reading
  <2> QED
    BY <1>1, <2>1, <2>2, <2>4, <2>5
<1> QED
  BY <1>2, <1>3

LEMMA FrozenStep == CleanInv /\ [HistoryNext]_historyVars => Frozen'
<1> SUFFICES ASSUME CleanInv, [HistoryNext]_historyVars PROVE Frozen'
  OBVIOUS
<1>1. Frozen /\ Reading
  BY DEF CleanInv
<1>2. CASE HistoryNext /\ ~Cleanup
  <2>1. UNCHANGED <<provider, saved, deleted, cleanup>>
    BY <1>2, OutsideCleanup
  <2>2. provider # "quiet" /\ started \subseteq files => started' \subseteq files'
    BY <1>2 DEF HistoryNext, prepare, NativeExits, Finished, Settle, NewIncarnation, StartNative,
       ResumeNative, append_event, observe, Ages, CaptainExits, Open, Launch, Prune, ListAgents,
       PruneFirstLook, PruneKeep, PruneLook, PruneRemove, nativeVars, cleanVars
  <2>3. ASSUME saved.frozen PROVE journal' = journal
    <3>1. native = "verified"
      BY <1>1, <2>3 DEF Reading
    <3> QED
      BY <1>2, <3>1 DEF HistoryNext, prepare, NativeExits, Finished, Settle, NewIncarnation,
         StartNative, ResumeNative, append_event, observe, Ages, CaptainExits, Open, Launch,
         Prune, ListAgents, PruneFirstLook, PruneKeep, PruneLook, PruneRemove, nativeVars,
         hookVars
  <2> QED
    BY <1>1, <2>1, <2>2, <2>3 DEF Frozen, Journalled
<1>3. CASE Cleanup
  <2>1. UNCHANGED <<provider, started, journal>>
    BY <1>3, InsideCleanup DEF nativeVars, hookVars
  <2>2. CASE BeginCleanup
    <3>1. UNCHANGED <<saved, files, deleted>>
      BY <2>2 DEF BeginCleanup
    <3>2. cleanup'.step \notin {"delete", "journal"}
      BY <2>2, RecordBegins
    <3> QED
      BY <1>1, <2>1, <3>1, <3>2 DEF Frozen, Journalled
  <2>3. CASE Freeze
    BY <2>1, <2>3, FreezeCounts DEF Frozen, Journalled
  <2>4. CASE ~BeginCleanup /\ ~Freeze
    <3>1. saved' = saved
      BY <1>3, <2>4 DEF Cleanup, Delete, Journal, DeleteFails, Conclude, CleanupDies
    <3>2. CASE ~saved.frozen
      <4>1. DeleteFails \/ Conclude \/ CleanupDies
        BY <1>1, <1>3, <2>4, <3>2 DEF Cleanup, Delete, Journal, Frozen
      <4>2. UNCHANGED <<files, deleted>>
        BY <4>1 DEF DeleteFails, Conclude, CleanupDies
      <4>3. cleanup' = NoCleanup
        <5>1. CASE DeleteFails
          BY <5>1 DEF DeleteFails, Ends
        <5>2. CASE Conclude
          BY <5>2 DEF Conclude, Ends
        <5> QED
          BY <4>1, <5>1, <5>2 DEF CleanupDies
      <4>4. cleanup'.step = "idle"
        BY <4>3 DEF NoCleanup
      <4> QED
        BY <1>1, <2>1, <3>1, <3>2, <4>2, <4>4 DEF Frozen
    <3>3. CASE saved.frozen
      BY <1>1, <2>1, <3>1, <3>3 DEF Frozen, Journalled
    <3> QED
      BY <3>2, <3>3
  <2> QED
    BY <2>2, <2>3, <2>4
<1>4. CASE UNCHANGED historyVars
  BY <1>1, <1>4 DEF Frozen, Journalled, historyVars, nativeVars, hookVars, cleanVars
<1> QED
  BY <1>2, <1>3, <1>4

LEMMA DeletedStep == CleanInv /\ [HistoryNext]_historyVars => DeletedIsOwn' /\ CountedFirst'
<1> SUFFICES ASSUME CleanInv, [HistoryNext]_historyVars PROVE DeletedIsOwn' /\ CountedFirst'
  OBVIOUS
<1>1. /\ Frozen /\ Records /\ DeletedIsOwn /\ CountedFirst
      /\ provider \in {"claude", "codex", "grok", "pi", "quiet"}
  BY HistoryAssumption DEF CleanInv, HistoryTypeOK
<1>2. CASE UNCHANGED <<provider, saved, deleted>>
  BY <1>1, <1>2 DEF DeletedIsOwn, CountedFirst
<1>3. CASE Freeze
  <2>1. provider' = provider
    BY <1>3 DEF Freeze, nativeVars
  <2> QED
    BY <1>1, <1>3, <2>1, FreezeCounts DEF DeletedIsOwn, CountedFirst
<1>4. ASSUME NEW s \in Sessions, Delete(s) PROVE DeletedIsOwn' /\ CountedFirst'
  <2>1. /\ s \in Deletable(cleanup.record) /\ deleted' = deleted \cup {s}
        /\ UNCHANGED <<provider, saved>> /\ cleanup.step = "delete"
    BY <1>4 DEF Delete, nativeVars
  <2>2. s \in Own
    BY <1>1, <2>1, HistoryAssumption DEF Deletable, Records, Owned
  <2>3. saved.frozen /\ saved.named \subseteq saved.of
    BY <1>1, <2>1 DEF Frozen
  <2>4. provider = "pi" => s \in saved.named
    BY <1>1, <2>1, <2>3 DEF Deletable, Records, Owned, Frozen
  <2> QED
    BY <1>1, <2>1, <2>2, <2>3, <2>4 DEF DeletedIsOwn, CountedFirst
<1>5. CASE BeginCleanup \/ Journal \/ DeleteFails \/ Conclude \/ CleanupDies
  BY <1>2, <1>5 DEF BeginCleanup, Journal, DeleteFails, Conclude, CleanupDies, nativeVars
<1>6. CASE HistoryNext /\ ~Cleanup
  BY <1>2, <1>6, OutsideCleanup
<1>7. CASE UNCHANGED historyVars
  BY <1>2, <1>7 DEF historyVars, nativeVars, cleanVars
<1> QED
  BY <1>3, <1>4, <1>5, <1>6, <1>7 DEF Cleanup

LEMMA InvStep == CleanInv /\ [HistoryNext]_historyVars => CleanInv'
BY TypeStep, StartedStep, RecordsStep, ReadingStep, FrozenStep, DeletedStep DEF CleanInv

-----------------------------------------------------------------------------
(* Pruning.                                                                *)

\* Who is in use at the look was so when Herdr was asked, or something has changed since;
\* and what the look found is so until something changes.
Pruning ==
    /\ prune.step \in {"listed", "looked"} /\ age # 0 => (live_agents => prune.alive)
    /\ prune.step = "remove" =>
           raced \/ (~unresolved /\ (live_agents => ~prune.herdr /\ age = 2))

PruneInv == HistoryTypeOK /\ Pruning

\* Whatever makes a session used or unresolved changes something in it.
LEMMA UseIsActivity ==
    ASSUME HistoryNext, HistoryTypeOK, ~Ages, ~Prune
    PROVE  /\ prune' = prune
           /\ \/ Activity
              \/ /\ age' = age /\ raced' = raced
                 /\ live_agents' => live_agents
                 /\ unresolved' => unresolved
<1> USE DEF live_agents, unresolved, pending
<1>1. CASE Activity
  BY <1>1 DEF Activity
<1>2. CASE prepare \/ Finished \/ Settle \/ NewIncarnation \/ Launch
  BY <1>1, <1>2 DEF prepare, Finished, Settle, NewIncarnation, Launch, Touch
<1>3. CASE NativeExits \/ CaptainExits \/ Open
  BY <1>3 DEF NativeExits, CaptainExits, Open, sessionVars, nativeVars
<1>4. ASSUME NEW s \in Sessions, StartNative(s) \/ ResumeNative(s) \/ append_event(s), ~Activity
      PROVE  UNCHANGED <<sessionVars, native, settled, manifest>>
  BY <1>4 DEF StartNative, ResumeNative, Announced, append_event, Touch, nativeVars
<1>5. ASSUME NEW s \in Sessions, observe(s) PROVE Activity
  BY <1>5 DEF observe, Touch
<1>6. CASE Cleanup /\ ~Activity
  <2>1. UNCHANGED <<nativeVars, manifest, sessionVars>>
    BY <1>6 DEF Cleanup, BeginCleanup, Freeze, Delete, Journal, DeleteFails, Conclude,
       CleanupDies, Ends, Store, Touch
  <2> QED
    BY <2>1 DEF nativeVars, sessionVars
<1> QED
  BY <1>1, <1>2, <1>3, <1>4, <1>5, <1>6 DEF HistoryNext, sessionVars

LEMMA PruneStep == PruneInv /\ [HistoryNext]_historyVars => Pruning'
<1> SUFFICES ASSUME PruneInv, [HistoryNext]_historyVars PROVE Pruning'
  OBVIOUS
<1>1. /\ Pruning /\ HistoryTypeOK /\ age \in 0 .. 2
      /\ prune \in [step: {"idle", "listed", "looked", "remove"}, herdr: BOOLEAN, alive: BOOLEAN]
  BY DEF PruneInv, HistoryTypeOK
<1>2. CASE Ages
  BY <1>2 DEF Ages, Pruning
<1>3. CASE HistoryNext /\ ~Ages /\ ~Prune
  <2>1. CASE Activity
    BY <1>1, <2>1 DEF Activity, Pruning
  <2> QED
    BY <1>1, <1>3, <2>1, UseIsActivity DEF Pruning
<1>4. CASE Prune
  <2>1. UNCHANGED <<nativeVars, manifest, age, captain>>
    BY <1>4 DEF Prune, ListAgents, PruneFirstLook, PruneKeep, PruneLook, PruneRemove
  <2>2. live_agents' = live_agents /\ unresolved' = unresolved
    BY <2>1 DEF live_agents, unresolved, pending, nativeVars
  <2>3. CASE ListAgents
    BY <2>1, <2>2, <2>3 DEF ListAgents, Pruning
  <2>4. CASE prune' = NoPrune
    BY <2>4 DEF NoPrune, Pruning
  <2>5. CASE PruneFirstLook /\ prune' = [prune EXCEPT !.step = "looked"]
    BY <1>1, <2>1, <2>2, <2>5 DEF PruneFirstLook, Pruning
  <2>6. CASE PruneLook
    BY <1>1, <2>1, <2>2, <2>6 DEF PruneLook, Pruning, Stale
  <2> QED
    BY <1>4, <2>3, <2>4, <2>5, <2>6 DEF Prune, PruneFirstLook, PruneKeep, PruneRemove
<1>5. CASE UNCHANGED historyVars
  BY <1>1, <1>5 DEF Pruning, historyVars, nativeVars, sessionVars, live_agents, unresolved, pending
<1> QED
  BY <1>2, <1>3, <1>4, <1>5

-----------------------------------------------------------------------------
(* The theorems.                                                           *)

\* The state of hooks, manifest, cleanup and pruning keeps its types.
THEOREM HistoryTyped == HistorySpec => []HistoryTypeOK
<1>1. CleanInv => HistoryTypeOK
  BY DEF CleanInv
<1> QED
  BY <1>1, InitInv, InvStep, PTL DEF HistorySpec

\* Whatever order the hooks come in, cleanup deletes only what the crew's CLI began
\* (native_history.py:230).
THEOREM OnlyOwnDeleted == HistorySpec => []DeletedIsOwn
<1>1. CleanInv => DeletedIsOwn
  BY DEF CleanInv
<1> QED
  BY <1>1, InitInv, InvStep, PTL DEF HistorySpec

\* Nothing is deleted before usage is saved, and what is deleted is in that usage if its
\* transcript was named by then, across retries, crashes and late hooks
\* (native_history.py:442, usage.py:107).
THEOREM DeletedWasCounted == HistorySpec => []CountedFirst
<1>1. CleanInv => CountedFirst
  BY DEF CleanInv
<1> QED
  BY <1>1, InitInv, InvStep, PTL DEF HistorySpec

\* Pruning removes nothing unresolved or in use, unless Herdr was silent or something
\* changed between its last look and the removal (sessions.py:432).
THEOREM PruningKeeps == HistorySpec => PruneKeeps
<1> DEFINE Kept ==
      dir' # dir => \/ raced
                    \/ ~unresolved /\ (live_agents => ~prune.herdr /\ age = 2)
<1>1. HistoryInit => Pruning
  BY DEF HistoryInit, Pruning, NoPrune
<1>2. PruneInv /\ [HistoryNext]_historyVars => [Kept]_historyVars
  <2> SUFFICES ASSUME PruneInv, HistoryNext, dir' # dir
               PROVE  raced \/ (~unresolved /\ (live_agents => ~prune.herdr /\ age = 2))
    BY DEF historyVars, sessionVars
  <2>1. PruneRemove
    BY DEF HistoryNext, prepare, NativeExits, Finished, Settle, NewIncarnation, StartNative,
       ResumeNative, Announced, append_event, observe, Cleanup, BeginCleanup, Freeze, Delete, Journal, DeleteFails,
       Conclude, CleanupDies, Ends, Store, Touch, Activity, Ages, CaptainExits, Open, Launch,
       Prune, ListAgents, PruneFirstLook, PruneKeep, PruneLook, sessionVars
  <2> QED
    BY <2>1 DEF PruneInv, Pruning, PruneRemove
<1>3. CleanInv => HistoryTypeOK
  BY DEF CleanInv
<1> QED
  BY <1>1, <1>2, <1>3, InitInv, InvStep, PruneStep, PTL DEF HistorySpec, PruneInv, PruneKeeps

-----------------------------------------------------------------------------
(* Graph memory.                                                           *)

\* The graph of a set of facts, under this version's identities.
GraphOf(facts) ==
    [nodes |-> UNION {{Node(f.subject), Node(f.object)} : f \in facts},
     links |-> {Edge(f) : f \in facts}]

-----------------------------------------------------------------------------
(* The inductive invariant.                                                *)

\* Every captain has a command, with its four parts.
Shaped ==
    /\ command = [c \in Captains |-> command[c]]
    /\ \A c \in Captains :
          command[c] = [step |-> command[c].step, op |-> command[c].op,
                        fact |-> command[c].fact, graph |-> command[c].graph]

\* The lock has one holder at a time: the command that writes or copies.
Locked ==
    /\ \A c \in Captains : command[c].step \in {"copying", "write"} => writer = {c}
    /\ \A c \in writer : command[c].step \in {"copying", "write"}

\* A command knows what it was asked, and a writer reads what is on disk until it leaves.
Commands ==
    \A c \in Captains :
        /\ command[c].step \in {"idle", "migrate", "ask", "copying", "write"}
        /\ command[c].step # "idle" => command[c].fact \in FactOf(scope)
        /\ command[c].op = "forget" => scope = "user"
        /\ command[c].step \in {"migrate", "copying"} => source # Empty
        /\ command[c].step = "copying" => file = Partial
        /\ command[c].step = "write" => file # Partial /\ command[c].graph = file.graph

\* What an older captain left is a graph of project facts; there is one fact in it.
Inherited ==
    source # Empty => scope = "project" /\ \E f \in FactOf(scope) : source = OldGraph({f})

\* On disk is the graph of the facts that were told, the inherited one as it was left until
\* the first write.
Told ==
    /\ told \subseteq FactOf(scope) /\ IsFiniteSet(told)
    /\ \/ file \in {Absent, Partial} /\ told = {}
       \/ file = Whole(GraphOf(told))
       \/ \E f \in told : told = {f} /\ scope = "project" /\ file = Whole(OldGraph(told))

\* One object of a single-valued relation, and no more facts than the limit.
OneObject ==
    scope # "project" =>
        \A f, g \in told : f.subject = g.subject /\ f.relation = g.relation
                              => f = g \/ ~Single(f.relation)
Capped == scope = "user" => Cardinality(told) <= UserLimit

MemoryInv ==
    /\ scope \in {"project", "repo", "user"} /\ writer \subseteq Captains
    /\ Shaped /\ Locked /\ Commands /\ Inherited /\ Told /\ OneObject /\ Capped

-----------------------------------------------------------------------------
(* Graphs and the facts they stand for.                                    *)

LEMMA FactFields ==
    ASSUME NEW f \in Fact
    PROVE  /\ f = [subject |-> f.subject, relation |-> f.relation, object |-> f.object, why |-> f.why]
           /\ f.subject \in Labels /\ f.object \in Labels /\ f.relation \in Relations
BY DEF Fact

LEMMA FactsOfScope == FactOf(scope) \subseteq Fact
BY DEF FactOf

\* Facts have one edge each.
LEMMA EdgeFields ==
    ASSUME NEW f
    PROVE  /\ Edge(f).source = node_id(f.subject) /\ Edge(f).target = node_id(f.object)
           /\ Edge(f).relation = f.relation /\ Edge(f).why = f.why
BY DEF Edge

LEMMA OneId == \A l, m : node_id(l) = node_id(m) <=> l = m
BY DEF node_id

LEMMA EdgesDiffer ==
    ASSUME NEW f \in Fact, NEW g \in Fact, Edge(f) = Edge(g) PROVE f = g
<1>1. f.subject = g.subject /\ f.object = g.object /\ f.relation = g.relation /\ f.why = g.why
  BY EdgeFields, OneId
<1>2. QED
  BY <1>1, FactFields

LEMMA NodesOf ==
    ASSUME NEW S, NEW n
    PROVE  n \in GraphOf(S).nodes <=> \E f \in S : n = Node(f.subject) \/ n = Node(f.object)
BY DEF GraphOf

LEMMA LinksOf ==
    ASSUME NEW S, NEW e PROVE e \in GraphOf(S).links <=> \E f \in S : e = Edge(f)
BY DEF GraphOf

LEMMA NodeFields == ASSUME NEW l PROVE Node(l).id = node_id(l) /\ Node(l).label = l
BY DEF Node

\* A graph holds no two nodes of one identity.
LEMMA LabelOf ==
    ASSUME NEW S, NEW l, \E f \in S : l = f.subject \/ l = f.object
    PROVE  Label(GraphOf(S), node_id(l)) = {l}
<1>1. \A n \in GraphOf(S).nodes : n.id = node_id(l) => n.label = l
  BY NodesOf, NodeFields, OneId
<1>2. Node(l) \in GraphOf(S).nodes /\ Node(l).id = node_id(l) /\ Node(l).label = l
  BY NodesOf, NodeFields
<1>3. QED
  BY <1>1, <1>2 DEF Label

LEMMA RowsOfGraph == ASSUME NEW S \in SUBSET Fact PROVE Rows(GraphOf(S)) = S
<1> DEFINE rows(l) == {[subject |-> s, relation |-> l.relation, object |-> o, why |-> l.why] :
                          s \in Label(GraphOf(S), l.source), o \in Label(GraphOf(S), l.target)}
<1>1. ASSUME NEW f \in S PROVE rows(Edge(f)) = {f}
  <2>1. Label(GraphOf(S), node_id(f.subject)) = {f.subject}
    BY LabelOf
  <2>2. Label(GraphOf(S), node_id(f.object)) = {f.object}
    BY LabelOf
  <2>3. f = [subject |-> f.subject, relation |-> f.relation, object |-> f.object, why |-> f.why]
    BY FactFields
  <2>4. QED
    BY <2>1, <2>2, <2>3, EdgeFields
<1>2. Rows(GraphOf(S)) = UNION {rows(l) : l \in GraphOf(S).links}
  BY DEF Rows
<1> HIDE DEF rows
<1>3. GraphOf(S).links = {Edge(f) : f \in S}
  BY DEF GraphOf
<1>4. QED
  BY <1>1, <1>2, <1>3

\* An older captain's graph of one fact.
LEMMA OldGraphOf ==
    ASSUME NEW f \in Fact
    PROVE  /\ \A n : n \in OldGraph({f}).nodes <=>
                 \/ n = [id |-> OldId(f.subject), label |-> f.subject]
                 \/ n = [id |-> OldId(f.object), label |-> f.object]
           /\ OldGraph({f}).links = {[source |-> OldId(f.subject), target |-> OldId(f.object),
                                      relation |-> f.relation, why |-> f.why]}
BY DEF OldGraph

LEMMA OldRows == ASSUME NEW f \in Fact PROVE Rows(OldGraph({f})) = {f}
<1> DEFINE g == OldGraph({f})
           e == [source |-> OldId(f.subject), target |-> OldId(f.object),
                 relation |-> f.relation, why |-> f.why]
<1>1. \A l, m : OldId(l) = OldId(m) <=> l = m
  BY DEF OldId
<1>2. Label(g, OldId(f.subject)) = {f.subject} /\ Label(g, OldId(f.object)) = {f.object}
  <2>1. ASSUME NEW l \in {f.subject, f.object} PROVE Label(g, OldId(l)) = {l}
    <3>1. \A n \in g.nodes : n.id = OldId(l) => n.label = l
      BY <1>1, OldGraphOf
    <3>2. [id |-> OldId(l), label |-> l] \in g.nodes
      BY OldGraphOf
    <3> HIDE DEF g
    <3>3. QED
      BY <3>1, <3>2 DEF Label
  <2>2. QED
    BY <2>1
<1>3. g.links = {e} /\ e.source = OldId(f.subject) /\ e.target = OldId(f.object)
      /\ e.relation = f.relation /\ e.why = f.why
  BY OldGraphOf
<1>4. f = [subject |-> f.subject, relation |-> f.relation, object |-> f.object, why |-> f.why]
  BY FactFields
<1> HIDE DEF g, e
<1>5. QED
  BY <1>2, <1>3, <1>4 DEF Rows, g

Rewire(graph, l) == [l EXCEPT !.source = Rekey(graph, @), !.target = Rekey(graph, @)]

LEMMA Rewired ==
    ASSUME NEW a, NEW b, NEW r, NEW w, NEW graph
    PROVE  Rewire(graph, [source |-> a, target |-> b, relation |-> r, why |-> w]) =
           [source |-> Rekey(graph, a), target |-> Rekey(graph, b), relation |-> r, why |-> w]
<1> DEFINE e == [source |-> a, target |-> b, relation |-> r, why |-> w]
           x == Rekey(graph, a)
           y == Rekey(graph, b)
           S == {a, b, r, w, x, y}
           d == Rewire(graph, e)
           R == [source : S, target : S, relation : S, why : S]
<1>1. e \in R /\ e.source = a /\ e.target = b /\ e.relation = r /\ e.why = w
  OBVIOUS
<1>2. x \in S /\ y \in S
  OBVIOUS
<1>3. Rekey(graph, a) = x /\ Rekey(graph, b) = y
  OBVIOUS
<1> HIDE DEF e, x, y, S
<1>4. d \in R /\ d.source = x /\ d.target = y /\ d.relation = r /\ d.why = w
  BY <1>1, <1>2, <1>3 DEF Rewire
<1> HIDE DEF d
<1>5. d = [source |-> x, target |-> y, relation |-> r, why |-> w]
  BY <1>4
<1>6. QED
  BY <1>5 DEF d, e, x, y

\* Migrating gives every node its label's identity, in the links too; once is enough.
LEMMA OldMigrates == ASSUME NEW f \in Fact PROVE migrate_graph(OldGraph({f})) = GraphOf({f})
<1> DEFINE g == OldGraph({f})
           e == [source |-> OldId(f.subject), target |-> OldId(f.object),
                 relation |-> f.relation, why |-> f.why]
<1>1. \A l, m : OldId(l) = OldId(m) <=> l = m
  BY DEF OldId
<1>2. \A n \in g.nodes : /\ n.id = OldId(n.label)
                         /\ n.label \in {f.subject, f.object}
  BY OldGraphOf, SMTT(20)
<1>3. ASSUME NEW l \in {f.subject, f.object} PROVE \E n \in g.nodes : n.id = OldId(l) /\ n.label = l
  <2>1. [id |-> OldId(l), label |-> l] \in g.nodes
    BY OldGraphOf
  <2> HIDE DEF g
  <2>2. QED
    BY <2>1
<1>4. ASSUME NEW l \in {f.subject, f.object} PROVE Rekey(g, OldId(l)) = node_id(l)
  <2>1. \E n \in g.nodes : n.id = OldId(l)
    BY <1>3
  <2>2. (CHOOSE n \in g.nodes : n.id = OldId(l)) \in g.nodes
        /\ (CHOOSE n \in g.nodes : n.id = OldId(l)).id = OldId(l)
    BY <2>1
  <2>3. (CHOOSE n \in g.nodes : n.id = OldId(l)).label = l
    BY <1>1, <1>2, <2>2
  <2>4. QED
    BY <2>1, <2>3 DEF Rekey
<1>5. g.links = {e}
  BY OldGraphOf
<1>6. Rewire(g, e) = Edge(f)
  <2>1. /\ Rekey(g, OldId(f.subject)) = node_id(f.subject)
        /\ Rekey(g, OldId(f.object)) = node_id(f.object)
    BY <1>4
  <2> HIDE DEF g
  <2>2. Rewire(g, e) =
           [source |-> Rekey(g, OldId(f.subject)), target |-> Rekey(g, OldId(f.object)),
            relation |-> f.relation, why |-> f.why]
    BY Rewired
  <2>3. QED
    BY <2>1, <2>2 DEF Edge
<1> HIDE DEF g, e
<1>7. {Rewire(g, l) : l \in g.links} = {Edge(f)}
  BY <1>5, <1>6
<1>8. {Node(n.label) : n \in g.nodes} = {Node(f.subject), Node(f.object)}
  BY <1>2, <1>3
<1>9. GraphOf({f}) = [nodes |-> {Node(f.subject), Node(f.object)}, links |-> {Edge(f)}]
  BY DEF GraphOf
<1>10. migrate_graph(g) = GraphOf({f})
  BY <1>7, <1>8, <1>9 DEF migrate_graph, Rewire
<1>11. QED
  BY <1>10 DEF g

LEMMA GraphMigrates == ASSUME NEW S \in SUBSET Fact PROVE migrate_graph(GraphOf(S)) = GraphOf(S)
<1> DEFINE g == GraphOf(S)
<1>1. \A n \in g.nodes : n = Node(n.label)
  BY NodesOf, NodeFields
<1>2. {Node(n.label) : n \in g.nodes} = g.nodes
  BY <1>1
<1>3. ASSUME NEW l, \E f \in S : l = f.subject \/ l = f.object PROVE Rekey(g, node_id(l)) = node_id(l)
  <2>1. \E n \in g.nodes : n.id = node_id(l)
    BY <1>3, NodesOf, NodeFields
  <2>2. (CHOOSE n \in g.nodes : n.id = node_id(l)) \in g.nodes
        /\ (CHOOSE n \in g.nodes : n.id = node_id(l)).id = node_id(l)
    BY <2>1
  <2>3. (CHOOSE n \in g.nodes : n.id = node_id(l)).label = l
    BY <1>1, <2>2, NodeFields, OneId
  <2>4. QED
    BY <2>1, <2>3 DEF Rekey
<1>4. ASSUME NEW l \in g.links
      PROVE  Rewire(g, l) = l
  <2>1. PICK f \in S : l = Edge(f)
    BY LinksOf
  <2>2. Rekey(g, node_id(f.subject)) = node_id(f.subject) /\ Rekey(g, node_id(f.object)) = node_id(f.object)
    BY <1>3
  <2> HIDE DEF g
  <2>3. Rewire(g, Edge(f)) =
           [source |-> Rekey(g, node_id(f.subject)), target |-> Rekey(g, node_id(f.object)),
            relation |-> f.relation, why |-> f.why]
    BY Rewired DEF Edge
  <2>4. Rewire(g, Edge(f)) = Edge(f)
    BY <2>2, <2>3 DEF Edge
  <2>5. QED
    BY <2>1, <2>4
<1>5. {Rewire(g, l) : l \in g.links} = g.links
  BY <1>4
<1>6. g = [nodes |-> g.nodes, links |-> g.links]
  BY DEF GraphOf
<1> HIDE DEF g
<1>7. migrate_graph(g) = g
  BY <1>2, <1>5, <1>6 DEF migrate_graph, Rewire
<1>8. QED
  BY <1>7 DEF g

LEMMA Adds ==
    ASSUME NEW graph, NEW S \in SUBSET Fact, NEW f \in Fact, migrate_graph(graph) = GraphOf(S)
    PROVE  add_memory(graph, f) = GraphOf(S \cup {f})
<1>1. GraphOf(S).nodes \cup {Node(f.subject), Node(f.object)} = GraphOf(S \cup {f}).nodes
  BY NodesOf
<1>2. GraphOf(S).links \cup {Edge(f)} = GraphOf(S \cup {f}).links
  BY DEF GraphOf
<1>3. GraphOf(S \cup {f}) = [nodes |-> GraphOf(S \cup {f}).nodes, links |-> GraphOf(S \cup {f}).links]
  BY DEF GraphOf
<1>4. QED
  BY <1>1, <1>2, <1>3 DEF add_memory

\* What a write of f takes the place of, among facts S.
Beaten(S, f) ==
    {g \in S : /\ g.subject = f.subject /\ g.relation = f.relation
               /\ Single(f.relation) \/ g.object = f.object}

LEMMA LinksLeft ==
    ASSUME NEW S \in SUBSET Fact, NEW f \in Fact
    PROVE  GraphOf(S).links \ matches(GraphOf(S), Edge(f)) = GraphOf(S \ Beaten(S, f)).links
<1>1. ASSUME NEW g \in S PROVE Edge(g) \in matches(GraphOf(S), Edge(f)) <=> g \in Beaten(S, f)
  <2>1. Edge(g) \in GraphOf(S).links
    BY LinksOf
  <2>2. /\ Edge(g).source = Edge(f).source <=> g.subject = f.subject
        /\ Edge(g).target = Edge(f).target <=> g.object = f.object
        /\ Edge(g).relation = g.relation /\ Edge(f).relation = f.relation
    BY EdgeFields, OneId
  <2>3. QED
    BY <2>1, <2>2 DEF matches, Beaten
<1>2. \A e : e \in GraphOf(S).links \ matches(GraphOf(S), Edge(f)) =>
                e \in GraphOf(S \ Beaten(S, f)).links
  BY <1>1, LinksOf
<1>3. \A e : e \in GraphOf(S \ Beaten(S, f)).links =>
                e \in GraphOf(S).links \ matches(GraphOf(S), Edge(f))
  BY <1>1, LinksOf
<1>4. QED
  BY <1>2, <1>3

\* The nodes that stay are those the links that stay end in.
LEMMA NodesLeft ==
    ASSUME NEW S, NEW nodes, GraphOf(S).nodes \subseteq nodes,
           \A n \in nodes : n = Node(n.label)
    PROVE  live_nodes(GraphOf(S).links, nodes) = GraphOf(S).nodes
<1>1. \A n \in nodes : n.id = node_id(n.label)
  BY NodeFields
<1>2. ASSUME NEW n \in GraphOf(S).nodes PROVE n \in live_nodes(GraphOf(S).links, nodes)
  <2>1. PICK f \in S : n = Node(f.subject) \/ n = Node(f.object)
    BY NodesOf
  <2>2. Edge(f) \in GraphOf(S).links /\ n.id \in {Edge(f).source, Edge(f).target}
    <3>1. Edge(f) \in GraphOf(S).links
      BY LinksOf
    <3>2. CASE n = Node(f.subject)
      BY <3>1, <3>2, EdgeFields, NodeFields
    <3>3. CASE n = Node(f.object)
      BY <3>1, <3>3, EdgeFields, NodeFields
    <3>4. QED
      BY <2>1, <3>2, <3>3
  <2>3. QED
    BY <2>2 DEF live_nodes
<1>3. ASSUME NEW n \in live_nodes(GraphOf(S).links, nodes) PROVE n \in GraphOf(S).nodes
  <2>1. PICK l \in GraphOf(S).links : n.id \in {l.source, l.target}
    BY <1>3 DEF live_nodes
  <2>2. PICK f \in S : l = Edge(f)
    BY LinksOf
  <2>3. n \in nodes /\ n.id = node_id(n.label) /\ n = Node(n.label)
    BY <1>1, <1>3 DEF live_nodes
  <2>4. n.label = f.subject \/ n.label = f.object
    BY <2>1, <2>2, <2>3, EdgeFields, OneId
  <2>5. QED
    BY <2>3, <2>4, NodesOf
<1>4. QED
  BY <1>2, <1>3

LEMMA ForgetsAndReplaces ==
    ASSUME NEW S \in SUBSET Fact, NEW f \in Fact
    PROVE  /\ Forgotten(GraphOf(S), f) = GraphOf(S \ Beaten(S, f))
           /\ Replaced(GraphOf(S), f) = GraphOf((S \ Beaten(S, f)) \cup {f})
<1> DEFINE left == S \ Beaten(S, f)
           wide == GraphOf(S).nodes \cup {Node(f.subject), Node(f.object)}
<1>1. GraphOf(S).links \ matches(GraphOf(S), Edge(f)) = GraphOf(left).links
  BY LinksLeft
<1>2. GraphOf(left).links \cup {Edge(f)} = GraphOf(left \cup {f}).links
  BY DEF GraphOf
<1>3. \A n \in wide : n = Node(n.label)
  BY NodesOf, NodeFields
<1>4. GraphOf(left).nodes \subseteq GraphOf(S).nodes /\ GraphOf(left \cup {f}).nodes \subseteq wide
  BY NodesOf
<1> HIDE DEF left, wide
<1>5. live_nodes(GraphOf(left).links, GraphOf(S).nodes) = GraphOf(left).nodes
  BY <1>3, <1>4, NodesLeft DEF wide
<1>6. live_nodes(GraphOf(left \cup {f}).links, wide) = GraphOf(left \cup {f}).nodes
  BY <1>3, <1>4, NodesLeft
<1>7. \A T : GraphOf(T) = [nodes |-> GraphOf(T).nodes, links |-> GraphOf(T).links]
  BY DEF GraphOf
<1>8. Forgotten(GraphOf(S), f) = GraphOf(left)
  BY <1>1, <1>5, <1>7 DEF Forgotten
<1>9. Replaced(GraphOf(S), f) = GraphOf(left \cup {f})
  BY <1>1, <1>2, <1>6, <1>7 DEF Replaced, wide
<1>10. QED
  BY <1>8, <1>9 DEF left

LEMMA LinksCount ==
    ASSUME NEW S \in SUBSET Fact, IsFiniteSet(S)
    PROVE  Cardinality(GraphOf(S).links) = Cardinality(S)
<1> DEFINE L == {Edge(f) : f \in S}
           h == [f \in S |-> Edge(f)]
<1>1. h \in Bijection(S, L)
  <2>1. h \in [S -> L]
    OBVIOUS
  <2>2. \A f, g \in S : h[f] = h[g] => f = g
    BY EdgesDiffer
  <2>3. \A e \in L : \E f \in S : h[f] = e
    OBVIOUS
  <2>4. QED
    BY <2>1, <2>2, <2>3 DEF Bijection, Injection, Surjection, IsInjective
<1> HIDE DEF h
<1>2. ExistsBijection(S, L)
  BY <1>1 DEF ExistsBijection
<1>3. Cardinality(L) = Cardinality(S)
  BY <1>2, FS_Bijection
<1>4. GraphOf(S).links = L
  BY DEF GraphOf
<1>5. QED
  BY <1>3, <1>4

-----------------------------------------------------------------------------
(* What is on disk.                                                        *)

LEMMA EmptyIsGraph == Empty = GraphOf({})
BY DEF Empty, GraphOf

LEMMA FileStates ==
    /\ Absent.state = "absent" /\ Absent.graph = Empty
    /\ Partial.state = "partial" /\ Partial.graph = Empty
    /\ \A g : Whole(g).state = "whole" /\ Whole(g).graph = g
    /\ \A g : Whole(g) # Absent /\ Whole(g) # Partial
    /\ Absent # Partial
<1>1. /\ Absent.state = "absent" /\ Absent.graph = Empty
      /\ Partial.state = "partial" /\ Partial.graph = Empty
      /\ \A g : Whole(g).state = "whole" /\ Whole(g).graph = g
  BY DEF Absent, Partial, Whole
<1>2. QED
  BY <1>1

\* What a command reads: the facts that were told, in old identities or new.
LEMMA DiskGraph ==
    ASSUME MemoryInv, file # Partial
    PROVE  /\ told \subseteq Fact
           /\ migrate_graph(file.graph) = GraphOf(told)
           /\ Rows(file.graph) = told
           /\ Cardinality(file.graph.links) = Cardinality(told)
           /\ scope # "project" => file.graph = GraphOf(told)
<1>1. told \subseteq Fact /\ IsFiniteSet(told)
  BY FactsOfScope DEF MemoryInv, Told
<1>2. ASSUME file.graph = GraphOf(told)
      PROVE  /\ migrate_graph(file.graph) = GraphOf(told) /\ Rows(file.graph) = told
             /\ Cardinality(file.graph.links) = Cardinality(told)
  BY <1>1, <1>2, GraphMigrates, RowsOfGraph, LinksCount
<1>3. CASE file = Absent /\ told = {}
  <2>1. file.graph = GraphOf(told)
    BY <1>3, EmptyIsGraph, FileStates
  <2>2. QED
    BY <1>1, <1>2, <2>1
<1>4. CASE file = Whole(GraphOf(told))
  <2>1. file.graph = GraphOf(told)
    BY <1>4, FileStates
  <2>2. QED
    BY <1>1, <1>2, <2>1
<1>5. CASE \E f \in told : told = {f} /\ scope = "project" /\ file = Whole(OldGraph(told))
  <2>1. PICK f \in told : told = {f} /\ scope = "project" /\ file = Whole(OldGraph({f}))
    BY <1>5
  <2>2. f \in Fact /\ file.graph = OldGraph({f})
    BY <1>1, <2>1, FileStates
  <2>3. Cardinality(file.graph.links) = 1 /\ Cardinality(told) = 1
    <3> DEFINE e == [source |-> OldId(f.subject), target |-> OldId(f.object),
                     relation |-> f.relation, why |-> f.why]
    <3>1. file.graph.links = {e}
      BY <2>2, OldGraphOf
    <3> HIDE DEF e
    <3>2. QED
      BY <2>1, <3>1, FS_Singleton
  <2>4. migrate_graph(file.graph) = GraphOf(told) /\ Rows(file.graph) = told
    BY <2>1, <2>2, OldMigrates, OldRows
  <2>5. QED
    BY <1>1, <2>1, <2>3, <2>4
<1>6. QED
  BY <1>3, <1>4, <1>5 DEF MemoryInv, Told

-----------------------------------------------------------------------------
(* Commands and the lock.                                                  *)

LEMMA NoCommandFields ==
    /\ NoCommand.step = "idle" /\ NoCommand.op = "add"
    /\ NoCommand = [step |-> NoCommand.step, op |-> NoCommand.op,
                    fact |-> NoCommand.fact, graph |-> NoCommand.graph]
BY DEF NoCommand

\* A command of c becomes r; the others stay.
Becomes(c, r) == command' = [command EXCEPT ![c] = r]

LEMMA Changed ==
    ASSUME Shaped, NEW c \in Captains, NEW r, Becomes(c, r),
           r = [step |-> r.step, op |-> r.op, fact |-> r.fact, graph |-> r.graph]
    PROVE  Shaped' /\ command'[c] = r /\ \A d \in Captains : d # c => command'[d] = command[d]
<1>1. command = [d \in Captains |-> command[d]]
  BY DEF Shaped
<1>2. command' = [d \in Captains |-> IF d = c THEN r ELSE command[d]]
  BY <1>1 DEF Becomes
<1>3. command'[c] = r /\ \A d \in Captains : d # c => command'[d] = command[d]
  BY <1>2
<1>4. command' = [d \in Captains |-> command'[d]]
  BY <1>2
<1>5. QED
  BY <1>3, <1>4 DEF Shaped

ReadBy(r, g) == [r EXCEPT !.step = "write", !.graph = g]

LEMMA Fields ==
    ASSUME NEW r, r = [step |-> r.step, op |-> r.op, fact |-> r.fact, graph |-> r.graph],
           NEW v, NEW g
    PROVE  /\ [r EXCEPT !.step = v] = [step |-> v, op |-> r.op, fact |-> r.fact, graph |-> r.graph]
           /\ ReadBy(r, g) = [step |-> "write", op |-> r.op, fact |-> r.fact, graph |-> g]
<1> DEFINE S == {r.step, r.op, r.fact, r.graph, v, g, "write"}
           R == [step : S, op : S, fact : S, graph : S]
<1>1. r.step \in S /\ r.op \in S /\ r.fact \in S /\ r.graph \in S /\ v \in S /\ g \in S
      /\ "write" \in S
  OBVIOUS
<1> HIDE DEF S
<1>2. r \in R
  BY <1>1
<1>3. ASSUME NEW d, d = [r EXCEPT !.step = v]
      PROVE  d \in R /\ d.step = v /\ d.op = r.op /\ d.fact = r.fact /\ d.graph = r.graph
  BY <1>1, <1>2, <1>3
<1>4. ASSUME NEW d, d = ReadBy(r, g)
      PROVE  d \in R /\ d.step = "write" /\ d.op = r.op /\ d.fact = r.fact /\ d.graph = g
  BY <1>1, <1>2, <1>4 DEF ReadBy
<1>5. \A d \in R : d = [step |-> d.step, op |-> d.op, fact |-> d.fact, graph |-> d.graph]
  OBVIOUS
<1>6. QED
  BY <1>3, <1>4, <1>5

\* A step of c's command: what it was asked stays.
LEMMA Stepped ==
    ASSUME Shaped, NEW c \in Captains, NEW v, Step(c, v)
    PROVE  /\ Shaped' /\ \A d \in Captains : d # c => command'[d] = command[d]
           /\ command'[c].step = v /\ command'[c].op = command[c].op
           /\ command'[c].fact = command[c].fact
<1> DEFINE r == [step |-> v, op |-> command[c].op, fact |-> command[c].fact,
                 graph |-> command[c].graph]
<1>1. [command[c] EXCEPT !.step = v] = r
  BY Fields DEF Shaped
<1>2. Becomes(c, r)
  BY <1>1 DEF Step, Becomes
<1>3. r = [step |-> r.step, op |-> r.op, fact |-> r.fact, graph |-> r.graph]
      /\ r.step = v /\ r.op = command[c].op /\ r.fact = command[c].fact
  OBVIOUS
<1> HIDE DEF r
<1>4. QED
  BY <1>2, <1>3, Changed

LEMMA Ended ==
    ASSUME Shaped, NEW c \in Captains, End(c)
    PROVE  /\ Shaped' /\ \A d \in Captains : d # c => command'[d] = command[d]
           /\ command'[c] = NoCommand
BY Changed, NoCommandFields DEF End, Becomes

\* With the lock free nobody copies or writes, and beside its holder nobody else does.
LEMMA Alone ==
    ASSUME MemoryInv, NEW c \in Captains, writer \subseteq {c}
    PROVE  \A d \in Captains : d # c => command[d].step \notin {"copying", "write"}
BY DEF MemoryInv, Locked

-----------------------------------------------------------------------------
(* The invariant across each command's steps.                              *)

LEMMA InitMemory == MemoryInit => MemoryInv
<1> SUFFICES ASSUME MemoryInit PROVE MemoryInv
  OBVIOUS
<1>1. /\ scope \in {"project", "repo", "user"} /\ file = Absent /\ told = {} /\ writer = {}
      /\ command = [c \in Captains |-> NoCommand]
  BY DEF MemoryInit
<1>2. Shaped /\ Locked /\ Commands
  BY <1>1, NoCommandFields DEF Shaped, Locked, Commands
<1>3. Inherited
  BY DEF MemoryInit, Inherited
<1>4. Told /\ OneObject /\ Capped
  BY <1>1, FS_EmptySet, MemoryAssumption DEF Told, OneObject, Capped
<1>5. QED
  BY <1>1, <1>2, <1>3, <1>4 DEF MemoryInv

\* The steps that touch one command and leave the disk alone.
LEMMA BeginKeeps ==
    ASSUME MemoryInv, NEW c \in Captains, NEW op \in Ops, NEW f \in FactOf(scope), Begin(c, op, f)
    PROVE  MemoryInv'
<1> DEFINE r == [step |-> IF source # Empty /\ ~exists THEN "migrate" ELSE "ask",
                 op |-> op, fact |-> f, graph |-> Empty]
<1>1. Shaped /\ command[c].step = "idle" /\ Becomes(c, r)
      /\ UNCHANGED <<scope, file, source, told, writer>>
  BY DEF MemoryInv, Begin, Becomes
<1>2. r = [step |-> r.step, op |-> r.op, fact |-> r.fact, graph |-> r.graph]
      /\ r.step \in {"migrate", "ask"} /\ r.op = op /\ r.fact = f
      /\ (r.step = "migrate" => source # Empty)
  OBVIOUS
<1> HIDE DEF r
<1>3. Shaped' /\ command'[c] = r /\ \A d \in Captains : d # c => command'[d] = command[d]
  BY <1>1, <1>2, Changed
<1>4. op = "forget" => scope = "user"
  <2>1. CASE scope = "project"
    BY <2>1 DEF Ops
  <2>2. CASE scope = "repo"
    BY <2>2 DEF Ops
  <2>3. QED
    BY <2>1, <2>2 DEF MemoryInv
<1>5. Locked'
  BY <1>1, <1>2, <1>3 DEF MemoryInv, Locked
<1>6. Commands'
  BY <1>1, <1>2, <1>3, <1>4 DEF MemoryInv, Commands
<1>7. Inherited' /\ Told' /\ OneObject' /\ Capped'
  BY <1>1 DEF MemoryInv, Inherited, Told, OneObject, Capped, Single
<1>8. QED
  BY <1>1, <1>3, <1>5, <1>6, <1>7 DEF MemoryInv

LEMMA CopyKeeps == ASSUME MemoryInv, NEW c \in Captains, CopyFile(c) PROVE MemoryInv'
<1>1. /\ Shaped /\ command[c].step = "migrate" /\ writer = {} /\ UNCHANGED <<scope, source, told>>
      /\ source # Empty
  BY DEF MemoryInv, Commands, CopyFile, Free
<1>2. \A d \in Captains : command[d].step \notin {"copying", "write"}
  BY <1>1, Alone
<1>3. Inherited' /\ OneObject' /\ Capped'
  BY <1>1 DEF MemoryInv, Inherited, OneObject, Capped, Single
<1>4. CASE exists
  <2>1. Step(c, "ask") /\ UNCHANGED <<file, writer>>
    BY <1>4 DEF CopyFile
  <2>2. /\ Shaped' /\ \A d \in Captains : d # c => command'[d] = command[d]
        /\ command'[c].step = "ask" /\ command'[c].op = command[c].op
        /\ command'[c].fact = command[c].fact
    BY <1>1, <2>1, Stepped
  <2>3. Locked' /\ Commands' /\ Told'
    BY <1>1, <1>2, <2>1, <2>2 DEF MemoryInv, Locked, Commands, Told
  <2>4. QED
    BY <1>1, <1>3, <2>1, <2>2, <2>3 DEF MemoryInv
<1>5. CASE ~exists
  <2>1. Step(c, "copying") /\ file' = Partial /\ writer' = {c}
    BY <1>5 DEF CopyFile
  <2>2. /\ Shaped' /\ \A d \in Captains : d # c => command'[d] = command[d]
        /\ command'[c].step = "copying" /\ command'[c].op = command[c].op
        /\ command'[c].fact = command[c].fact
    BY <1>1, <2>1, Stepped
  <2>3. told = {}
    BY <1>5, FileStates DEF MemoryInv, Told, exists
  <2>4. Locked' /\ Commands' /\ Told'
    BY <1>1, <1>2, <2>1, <2>2, <2>3, FS_EmptySet DEF MemoryInv, Locked, Commands, Told
  <2>5. QED
    BY <1>1, <1>3, <2>1, <2>2, <2>4 DEF MemoryInv
<1>6. QED
  BY <1>4, <1>5

LEMMA CopyEndsKeeps == ASSUME MemoryInv, NEW c \in Captains, CopyEnds(c) PROVE MemoryInv'
<1>1. /\ Shaped /\ command[c].step = "copying" /\ writer = {c} /\ file = Partial
      /\ source # Empty
  BY DEF MemoryInv, Commands, Locked, CopyEnds
<1>2. /\ file' = Whole(source) /\ writer' = {} /\ told' = told \cup Rows(source)
      /\ Step(c, "ask") /\ UNCHANGED <<scope, source>>
  BY DEF CopyEnds
<1>3. \A d \in Captains : d # c => command[d].step \notin {"copying", "write"}
  BY <1>1, Alone
<1>4. /\ Shaped' /\ \A d \in Captains : d # c => command'[d] = command[d]
      /\ command'[c].step = "ask" /\ command'[c].op = command[c].op
      /\ command'[c].fact = command[c].fact
  BY <1>1, <1>2, Stepped
<1>5. Locked' /\ Commands' /\ Inherited'
  BY <1>1, <1>2, <1>3, <1>4 DEF MemoryInv, Locked, Commands, Inherited
<1>6. told = {}
  BY <1>1, FileStates DEF MemoryInv, Told
<1>7. PICK f \in FactOf(scope) : scope = "project" /\ source = OldGraph({f})
  BY <1>1 DEF MemoryInv, Inherited
<1>8. told' = {f}
  BY <1>2, <1>6, <1>7, OldRows, FactsOfScope
<1>9. Told'
  BY <1>2, <1>7, <1>8, FS_Singleton DEF Told
<1>10. OneObject' /\ Capped'
  BY <1>2, <1>7 DEF OneObject, Capped
<1>11. QED
  BY <1>2, <1>4, <1>5, <1>9, <1>10 DEF MemoryInv

LEMMA FailKeeps == ASSUME MemoryInv, NEW c \in Captains, MigrationFails(c) PROVE MemoryInv'
<1>1. /\ Shaped /\ command[c].step = "migrate" /\ Step(c, "ask")
      /\ UNCHANGED <<scope, file, source, told, writer>>
  BY DEF MemoryInv, MigrationFails
<1>2. /\ Shaped' /\ \A d \in Captains : d # c => command'[d] = command[d]
      /\ command'[c].step = "ask" /\ command'[c].op = command[c].op
      /\ command'[c].fact = command[c].fact
  BY <1>1, Stepped
<1>3. Locked' /\ Commands'
  BY <1>1, <1>2 DEF MemoryInv, Locked, Commands
<1>4. Inherited' /\ Told' /\ OneObject' /\ Capped'
  BY <1>1 DEF MemoryInv, Inherited, Told, OneObject, Capped, Single
<1>5. QED
  BY <1>1, <1>2, <1>3, <1>4 DEF MemoryInv

LEMMA ReadKeeps == ASSUME MemoryInv, NEW c \in Captains, Read(c) PROVE MemoryInv'
<1>1. /\ Shaped /\ command[c].step = "ask" /\ writer = {}
      /\ UNCHANGED <<scope, file, source, told>>
  BY DEF MemoryInv, Read, Free
<1>2. \A d \in Captains : command[d].step \notin {"copying", "write"}
  BY <1>1, Alone
<1>3. Inherited' /\ Told' /\ OneObject' /\ Capped'
  BY <1>1 DEF MemoryInv, Inherited, Told, OneObject, Capped, Single
<1>4. CASE file = Partial
  <2>1. End(c) /\ writer' = writer
    BY <1>4 DEF Read
  <2>2. /\ Shaped' /\ \A d \in Captains : d # c => command'[d] = command[d]
        /\ command'[c] = NoCommand
    BY <1>1, <2>1, Ended
  <2>3. Locked' /\ Commands'
    BY <1>1, <1>2, <2>1, <2>2, NoCommandFields DEF MemoryInv, Locked, Commands
  <2>4. QED
    BY <1>1, <1>3, <2>1, <2>2, <2>3 DEF MemoryInv
<1>5. CASE file # Partial
  <2> DEFINE r == [step |-> "write", op |-> command[c].op, fact |-> command[c].fact,
                   graph |-> file.graph]
  <2>1. command' = [command EXCEPT ![c].step = "write", ![c].graph = file.graph] /\ writer' = {c}
    BY <1>5 DEF Read
  <2>2. ReadBy(command[c], file.graph) = r
    BY <1>1, Fields DEF Shaped
  <2>3. Becomes(c, r)
    <3>1. command = [d \in Captains |-> command[d]]
      BY <1>1 DEF Shaped
    <3>2. command' = [command EXCEPT ![c] = ReadBy(command[c], file.graph)]
      BY <2>1, <3>1 DEF ReadBy
    <3>3. QED
      BY <2>2, <3>2 DEF Becomes
  <2>4. r = [step |-> r.step, op |-> r.op, fact |-> r.fact, graph |-> r.graph]
        /\ r.step = "write" /\ r.op = command[c].op /\ r.fact = command[c].fact
        /\ r.graph = file.graph
    OBVIOUS
  <2> HIDE DEF r
  <2>5. Shaped' /\ command'[c] = r /\ \A d \in Captains : d # c => command'[d] = command[d]
    BY <1>1, <2>3, <2>4, Changed
  <2>6. Locked' /\ Commands'
    BY <1>1, <1>2, <1>5, <2>1, <2>4, <2>5 DEF MemoryInv, Locked, Commands
  <2>7. QED
    BY <1>1, <1>3, <2>1, <2>5, <2>6 DEF MemoryInv
<1>6. QED
  BY <1>4, <1>5

\* What is written and what was said of it must agree; the rest is the same for every write.
LEMMA LeaveKeeps ==
    ASSUME MemoryInv, NEW c \in Captains, command[c].step = "write", Leave(c),
           UNCHANGED <<scope, source>>, Told', OneObject', Capped'
    PROVE  MemoryInv'
<1>1. Shaped /\ writer = {c} /\ End(c) /\ writer' = {}
  BY DEF MemoryInv, Locked, Leave
<1>2. \A d \in Captains : d # c => command[d].step \notin {"copying", "write"}
  BY <1>1, Alone
<1>3. /\ Shaped' /\ \A d \in Captains : d # c => command'[d] = command[d]
      /\ command'[c] = NoCommand
  BY <1>1, Ended
<1>4. Locked' /\ Commands' /\ Inherited'
  BY <1>1, <1>2, <1>3, NoCommandFields DEF MemoryInv, Locked, Commands, Inherited
<1>5. QED
  BY <1>1, <1>3, <1>4 DEF MemoryInv

LEMMA WriteKeeps == ASSUME MemoryInv, NEW c \in Captains, Write(c) PROVE MemoryInv'
<1> DEFINE f == command[c].fact
           kept == told \ Superseded(f)
<1>1. /\ command[c].step = "write" /\ Leave(c) /\ UNCHANGED <<scope, source>>
      /\ Add(c) \/ Upsert(c) \/ Forget(c)
  BY DEF Write
<1>2. file # Partial /\ command[c].graph = file.graph /\ f \in FactOf(scope) /\ f \in Fact
  BY <1>1, FactsOfScope DEF MemoryInv, Commands
<1>3. /\ told \subseteq Fact /\ migrate_graph(file.graph) = GraphOf(told)
      /\ scope # "project" => file.graph = GraphOf(told)
  BY <1>2, DiskGraph
<1>4. told \subseteq FactOf(scope) /\ IsFiniteSet(told)
  BY DEF MemoryInv, Told
<1>5. Superseded(f) = Beaten(told, f)
  BY DEF Superseded, Beaten
<1>6. kept \subseteq told /\ IsFiniteSet(kept) /\ Cardinality(kept) <= Cardinality(told)
  BY <1>4, FS_Subset
<1>7. CASE UNCHANGED <<file, told>>
  <2>1. Told' /\ OneObject' /\ Capped'
    BY <1>1, <1>7 DEF MemoryInv, Told, OneObject, Capped, Single
  <2>2. QED
    BY <1>1, <2>1, LeaveKeeps
<1>8. CASE Add(c)
  <2>1. scope = "project" /\ told' = told \cup {f} /\ file' = Whole(GraphOf(told \cup {f}))
    BY <1>2, <1>3, <1>8, Adds DEF Add
  <2>2. IsFiniteSet(told \cup {f}) /\ told \cup {f} \subseteq FactOf(scope)
    BY <1>2, <1>4, FS_AddElement
  <2> HIDE DEF f
  <2>3. Told' /\ OneObject' /\ Capped'
    BY <1>1, <2>1, <2>2 DEF Told, OneObject, Capped
  <2>4. QED
    BY <1>1, <2>3, LeaveKeeps
<1>9. CASE Upsert(c) /\ ~UNCHANGED <<file, told>>
  <2>1. /\ scope # "project" /\ ~Refused(file.graph, command[c].op, f)
        /\ file' = Whole(Replaced(file.graph, f)) /\ told' = kept \cup {f}
    BY <1>2, <1>9 DEF Upsert
  <2>2. Replaced(file.graph, f) = GraphOf(kept \cup {f})
    BY <1>2, <1>3, <1>5, <2>1, ForgetsAndReplaces, ZenonT(30)
  <2>3. IsFiniteSet(kept \cup {f}) /\ kept \cup {f} \subseteq FactOf(scope)
    BY <1>2, <1>4, <1>6, FS_AddElement
  <2>4. scope = "user" => Cardinality(kept \cup {f}) <= UserLimit
    <3>1. Cardinality(GraphOf(kept \cup {f}).links) = Cardinality(kept \cup {f})
      BY <2>3, FactsOfScope, LinksCount
    <3>2. Cardinality(kept \cup {f}) \in Nat
      BY <2>3, FS_CardinalityType
    <3>3. scope = "user" => ~(Cardinality(GraphOf(kept \cup {f}).links) > UserLimit)
      BY <2>1, <2>2 DEF Refused
    <3>4. QED
      BY <3>1, <3>2, <3>3, MemoryAssumption
  <2>5. ASSUME NEW g \in kept PROVE ~(g.subject = f.subject /\ g.relation = f.relation /\ Single(f.relation))
    BY DEF Superseded
  <2>6. \A g \in told, h \in told : g.subject = h.subject /\ g.relation = h.relation
                                       => g = h \/ ~Single(g.relation)
    BY <2>1 DEF MemoryInv, OneObject
  <2>7. \A g \in kept \cup {f}, h \in kept \cup {f} : g.subject = h.subject /\ g.relation = h.relation
                                       => g = h \/ ~Single(g.relation)
    BY <1>6, <2>5, <2>6
  <2> HIDE DEF f, kept
  <2>8. Told'
    BY <1>1, <2>1, <2>2, <2>3 DEF Told
  <2>9. OneObject'
    <3>1. \A s : Single(s)' <=> Single(s)
      BY <1>1 DEF Single
    <3>2. QED
      BY <1>1, <2>1, <2>7, <3>1 DEF OneObject
  <2>10. Capped'
    BY <1>1, <2>1, <2>4 DEF Capped
  <2>11. QED
    BY <1>1, <2>8, <2>9, <2>10, LeaveKeeps
<1>10. CASE Forget(c) /\ ~UNCHANGED <<file, told>>
  <2>1. command[c].op = "forget" /\ file' = Whole(Forgotten(file.graph, f)) /\ told' = kept
    BY <1>2, <1>10 DEF Forget
  <2>2. scope = "user"
    BY <2>1 DEF MemoryInv, Commands
  <2>3. Forgotten(file.graph, f) = GraphOf(kept)
    BY <1>2, <1>3, <1>5, <2>2, ForgetsAndReplaces
  <2>4. Cardinality(kept) \in Nat /\ Cardinality(told) \in Nat /\ Cardinality(told) <= UserLimit
    BY <1>4, <1>6, <2>2, FS_CardinalityType DEF MemoryInv, Capped
  <2>5. Cardinality(kept) <= UserLimit
    BY <1>6, <2>4, MemoryAssumption
  <2> HIDE DEF f, kept
  <2>6. Told'
    BY <1>1, <1>4, <1>6, <2>1, <2>3 DEF Told
  <2>7. OneObject' /\ Capped'
    <3>1. \A s : Single(s)' <=> Single(s)
      BY <1>1 DEF Single
    <3>2. QED
      BY <1>1, <1>6, <2>1, <2>5, <3>1 DEF MemoryInv, OneObject, Capped
  <2>8. QED
    BY <1>1, <2>6, <2>7, LeaveKeeps
<1>11. QED
  BY <1>1, <1>7, <1>8, <1>9, <1>10

LEMMA DiesKeeps == ASSUME MemoryInv, NEW c \in Captains, Dies(c) PROVE MemoryInv'
<1>1. Shaped /\ End(c) /\ writer' = writer \ {c} /\ UNCHANGED <<scope, file, source, told>>
  BY DEF MemoryInv, Dies
<1>2. /\ Shaped' /\ \A d \in Captains : d # c => command'[d] = command[d]
      /\ command'[c] = NoCommand
  BY <1>1, Ended
<1>3. Locked' /\ Commands'
  BY <1>1, <1>2, NoCommandFields DEF MemoryInv, Locked, Commands
<1>4. Inherited' /\ Told' /\ OneObject' /\ Capped'
  BY <1>1 DEF MemoryInv, Inherited, Told, OneObject, Capped, Single
<1>5. QED
  BY <1>1, <1>2, <1>3, <1>4 DEF MemoryInv

LEMMA NextMemory == MemoryInv /\ [MemoryNext]_memoryVars => MemoryInv'
<1> SUFFICES ASSUME MemoryInv, [MemoryNext]_memoryVars PROVE MemoryInv'
  OBVIOUS
<1>1. CASE UNCHANGED memoryVars
  BY <1>1 DEF memoryVars, MemoryInv, Shaped, Locked, Commands, Inherited, Told, OneObject, Capped,
              Single
<1>2. QED
  BY <1>1, BeginKeeps, CopyKeeps, CopyEndsKeeps, FailKeeps, ReadKeeps, WriteKeeps, DiesKeeps
  DEF MemoryNext

LEMMA MemoryInvariant == MemorySpec => []MemoryInv
BY InitMemory, NextMemory, PTL DEF MemorySpec

\* OneFact (memory.py: add_memory, upsert_memory, forget_memory under store.lock): the graph
\* on disk holds what commands reported, each fact once, one object of a single-valued
\* relation and no more user facts than the limit.
THEOREM GraphsSayWhatWasTold == MemorySpec => []OneFact
<1>1. MemoryInv => OneFact
  <2> SUFFICES ASSUME MemoryInv, file # Partial PROVE OneFact
    BY DEF OneFact
  <2>1. Rows(file.graph) = told /\ Cardinality(file.graph.links) = Cardinality(told)
    BY DiskGraph
  <2>2. QED
    BY <2>1 DEF OneFact, MemoryInv, OneObject, Capped
<1>2. QED
  BY <1>1, MemoryInvariant, PTL

=============================================================================
