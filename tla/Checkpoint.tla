----------------------------- MODULE Checkpoint -----------------------------
(***************************************************************************)
(* Rewinding a session: the file history (checkpoint.FileCheckpointer), the *)
(* PLAN/TODO history (memory.StateHistory) and the conversation, as the TUI  *)
(* runtime drives them: BeforeRun snapshots both before a prompt, the        *)
(* checkpoint middleware backs a file up before an edit tool writes it, a    *)
(* rewind restores files, conversation and PLAN/TODO in that order, and a    *)
(* restart rebuilds the file history from checkpoints.jsonl.                 *)
(*                                                                           *)
(* Snapshots are named after the sequence number of the prompt's record, and *)
(* truncating the conversation gives those numbers out again.  A file's      *)
(* content is one of Contents, Absent when the file does not exist.          *)
(***************************************************************************)
EXTENDS Naturals, SequencesExt

CONSTANTS
    Files, Contents, Absent,
    Retained,      \* FileCheckpointer.maxSnapshots
    MaxSeq,        \* bound on sequence numbers
    MaxVersion,    \* bound on backup versions
    MaxEvents      \* bound on writes, rewinds, restarts, failures and foreign changes together

ASSUME CheckpointAssumption ==
    /\ Absent \in Contents
    /\ {Retained, MaxSeq, MaxVersion} \subseteq Nat \ {0} /\ MaxEvents \in Nat

VARIABLES
    disk,       \* the workspace
    plan,       \* PLAN.md and TODO.md, as one content
    stored,     \* the backup files of the checkpoints directory, by file and version
    snaps,      \* state.Snapshots, oldest first
    tracked,    \* state.TrackedFiles
    log,        \* checkpoints.jsonl
    history,    \* plan/state_history.jsonl
    next,       \* the sequence number of the next message
    prompts,    \* the sequence numbers of the prompts in the conversation
    message,    \* runtimeMessageID, 0 when unset
    run,        \* idle, admitted (BeforeRun returned) or running (prompt committed)
    began,      \* ghost: workspace and PLAN when the prompt with a number was submitted
    stale,      \* ghost: numbers whose snapshot was not taken for their last prompt
    blind,      \* ghost: files changed with no backup in the log, or behind the tools while untracked
    damaged,    \* ghost: a snapshot failed, or the log was replayed after a rewind
    events      \* how many writes, rewinds, restarts, failures and foreign changes so far

files == <<disk, stored, snaps, tracked, log>>
conversation == <<plan, history, next, prompts, message, run>>
vars == <<files, conversation, began, stale, blind, damaged, events>>

Seqs == 1..MaxSeq

Init ==
    /\ disk \in [Files -> Contents]
    /\ plan = Absent
    /\ stored = [f \in Files |-> [v \in 1..MaxVersion |-> Absent]]
    /\ snaps = <<>> /\ tracked = {} /\ log = <<>>
    /\ history = <<>>
    /\ next = 1 /\ prompts = {} /\ message = 0 /\ run = "idle"
    /\ began = <<>> /\ stale = {} /\ blind = {} /\ damaged = FALSE
    /\ events = [write |-> 0, rewind |-> 0, restart |-> 0, fault |-> 0, foreign |-> 0]

Happens(event) ==
    /\ events.write + events.rewind + events.restart + events.fault + events.foreign < MaxEvents
    /\ events' = [events EXCEPT ![event] = @ + 1]

-----------------------------------------------------------------------------
(* The file history. *)

Empty == [f \in {} |-> Absent]
Holding(f) == {i \in DOMAIN snaps : f \in DOMAIN snaps[i].backups}
LatestBackup(f) == snaps[Max(Holding(f))].backups[f]
EarliestBackup(f) == snaps[Min(Holding(f))].backups[f]

\* What a backup restores: a null backup stands for a file that did not exist.
ContentOf(f, backup) == IF backup.absent THEN Absent ELSE stored[f][backup.version]
Changed(f, backup) == disk[f] # ContentOf(f, backup)

\* createBackupLocked for the files of a function to versions.
BackupOf(f, version) == [version |-> version, absent |-> disk[f] = Absent]
Store(versions) ==
    stored' = [f \in Files |-> IF f \in DOMAIN versions /\ disk[f] # Absent
                               THEN [stored[f] EXCEPT ![versions[f]] = disk[f]] ELSE stored[f]]

Capped(list) == IF Len(list) > Retained THEN SubSeq(list, Len(list) - Retained + 1, Len(list)) ELSE list

\* A version kept in place of a new one: the snapshot would share a backup with the past.
VersionReused == [f \in {g \in tracked : Holding(g) = {} \/ Changed(g, LatestBackup(g))} |->
    IF Holding(f) = {} THEN 1 ELSE LatestBackup(f).version]

\* What MakeSnapshot stores anew: the tracked files that differ from their last backup.
NewVersions ==
    [f \in {g \in tracked : Holding(g) = {} \/ Changed(g, LatestBackup(g))} |->
        IF Holding(f) = {} THEN 1 ELSE LatestBackup(f).version + 1]

IsCurrent(id) == snaps # <<>> /\ Last(snaps).id = id

SnapshotNow(id) ==
    [id |-> id, backups |-> [f \in tracked |-> IF f \in DOMAIN NewVersions
                                               THEN BackupOf(f, NewVersions[f]) ELSE LatestBackup(f)]]

MakeSnapshot(id) ==
    IF IsCurrent(id) THEN UNCHANGED <<snaps, stored, log>> /\ stale' = stale \cup {id}
    ELSE /\ \A f \in DOMAIN NewVersions : NewVersions[f] <= MaxVersion
         /\ Store(NewVersions)
         /\ snaps' = Capped(Append(snaps, SnapshotNow(id)))
         /\ log' = Append(log, SnapshotNow(id))
         /\ stale' = stale \ {id}

\* MakeSnapshot fails: after storing some of the files, or when it writes the log.
SnapshotFails(id) ==
    /\ ~IsCurrent(id) /\ Happens("fault")
    /\ \A f \in DOMAIN NewVersions : NewVersions[f] <= MaxVersion
    /\ \/ \E some \in SUBSET DOMAIN NewVersions :
            /\ some # DOMAIN NewVersions
            /\ Store(Restrict(NewVersions, some)) /\ UNCHANGED snaps
       \/ Store(NewVersions) /\ snaps' = Capped(Append(snaps, SnapshotNow(id)))
    /\ stale' = stale \cup {id}
    /\ UNCHANGED log

\* ensureLatestSnapshotLocked: the snapshot of the running prompt, or a new empty one.
LatestFor(id) == IF IsCurrent(id) THEN Last(snaps) ELSE [id |-> id, backups |-> Empty]
WithLatest(snapshot) ==
    IF IsCurrent(snapshot.id) THEN [snaps EXCEPT ![Len(snaps)] = snapshot] ELSE Capped(Append(snaps, snapshot))

\* A tool call of the running prompt: the assistant record that asked for it is committed.
Acting == run = "running" /\ next > message + 1

\* TrackEdit, and the write of the tool that waited for it.
WriteFile(f, c) ==
    LET latest == LatestFor(message)
        updated == [latest EXCEPT !.backups = (f :> BackupOf(f, 1)) @@ @]
    IN  /\ Acting /\ c # disk[f] /\ Happens("write")
        /\ IF f \in DOMAIN latest.backups THEN UNCHANGED <<stored, snaps, tracked, log>>
           ELSE /\ Store(f :> 1)
                /\ snaps' = WithLatest(updated) /\ log' = Append(log, updated)
                /\ tracked' = tracked \cup {f}
        /\ disk' = [disk EXCEPT ![f] = c]
        /\ UNCHANGED <<conversation, began, stale, blind, damaged>>

\* The middleware logs a failed TrackEdit and lets the tool write.
WriteUntracked(f, c) ==
    /\ Acting /\ c # disk[f] /\ f \notin DOMAIN LatestFor(message).backups
    /\ Happens("fault")
    /\ disk' = [disk EXCEPT ![f] = c] /\ blind' = blind \cup {f}
    /\ \/ snaps' = WithLatest(LatestFor(message)) /\ UNCHANGED <<stored, tracked>>    \* no backup
       \/ /\ Store(f :> 1) /\ tracked' = tracked \cup {f}                           \* not logged
          /\ snaps' = WithLatest([LatestFor(message) EXCEPT !.backups = (f :> BackupOf(f, 1)) @@ @])
    /\ UNCHANGED <<log, conversation, began, stale, damaged>>

\* A bash command, or the user, changes a file; nothing is told.
ForeignChange(f, c) ==
    /\ c # disk[f] /\ Happens("foreign")
    /\ disk' = [disk EXCEPT ![f] = c]
    /\ blind' = IF f \in tracked THEN blind ELSE blind \cup {f}
    /\ UNCHANGED <<stored, snaps, tracked, log, conversation, began, stale, damaged>>

\* A replay that never replaces an entry of the same name.
ReplayedAsIs(state, entry) == Capped(Append(state, entry))

\* RestoreStateFromLog: an entry replaces the snapshot of its name, where that one is.
Replayed(state, entry) ==
    IF \E i \in DOMAIN state : state[i].id = entry.id
    THEN [i \in DOMAIN state |-> IF i = Min({j \in DOMAIN state : state[j].id = entry.id})
                                 THEN entry ELSE state[i]]
    ELSE Capped(Append(state, entry))
Replay(entries) == FoldLeft(Replayed, <<>>, entries)

Restart ==
    /\ Happens("restart") /\ damaged' = (damaged \/ events.rewind > 0)
    /\ snaps' = Replay(log)
    /\ tracked' = UNION {DOMAIN Replay(log)[i].backups : i \in DOMAIN Replay(log)}
    /\ message' = 0 /\ run' = "idle"
    /\ UNCHANGED <<disk, stored, log, plan, history, next, prompts, began, stale, blind>>

-----------------------------------------------------------------------------
(* A prompt: BeforeRun, the records of its run, its PLAN/TODO edits. *)

RecordedPlan(id) == SelectInSeq(history, LAMBDA h : h.seq = id)

SnapshotBeforeMessage(id) ==
    history' = IF RecordedPlan(id) # 0 THEN history ELSE Append(history, [seq |-> id, plan |-> plan])

Began(id) == began' = (id :> [disk |-> disk, plan |-> plan]) @@ began

BeforeRun ==
    /\ run = "idle" /\ next <= MaxSeq
    /\ SnapshotBeforeMessage(next)
    /\ message' = next /\ run' = "admitted"
    /\ Began(next)
    /\ \/ MakeSnapshot(next) /\ UNCHANGED <<events, damaged>>
       \/ SnapshotFails(next) /\ damaged' = TRUE
    /\ UNCHANGED <<disk, tracked, plan, next, prompts, blind>>

CommitPrompt ==
    /\ run = "admitted" /\ run' = "running"
    /\ prompts' = prompts \cup {next} /\ next' = next + 1
    /\ UNCHANGED <<files, plan, history, message, began, stale, blind, damaged, events>>

Answer ==
    /\ run = "running" /\ next <= MaxSeq /\ next' = next + 1
    /\ UNCHANGED <<files, plan, history, prompts, message, run, began, stale, blind, damaged, events>>

EndRun ==
    /\ run = "running" /\ run' = "idle"
    /\ UNCHANGED <<files, plan, history, next, prompts, message, began, stale, blind, damaged, events>>

\* The run ends before its prompt is committed; the next prompt gets the same number.
PromptNotCommitted ==
    /\ run = "admitted" /\ run' = "idle" /\ Happens("fault")
    /\ UNCHANGED <<files, plan, history, next, prompts, message, began, stale, blind, damaged>>

EditPlan(c) ==
    /\ Acting /\ c # plan /\ Happens("write")
    /\ plan' = c
    /\ UNCHANGED <<files, history, next, prompts, message, run, began, stale, blind, damaged>>

-----------------------------------------------------------------------------
(* Rewinding, with no run active. *)

Snapshot(id) == {i \in DOMAIN snaps : snaps[i].id = id}

\* The file as Rewind(id) leaves it; a file no snapshot knows is left alone.
RestoredFile(id, f) ==
    LET target == snaps[Max(Snapshot(id))]
    IN  IF f \in DOMAIN target.backups THEN ContentOf(f, target.backups[f])
        ELSE IF Holding(f) # {} THEN ContentOf(f, EarliestBackup(f)) ELSE disk[f]

RewindFiles(id) ==
    IF Snapshot(id) = {} THEN UNCHANGED disk
    ELSE \/ disk' = [f \in Files |-> RestoredFile(id, f)]
         \/ \E skipped \in Files :      \* restoring one file fails and is skipped
                /\ disk[skipped] # RestoredFile(id, skipped)
                /\ disk' = [f \in Files |-> IF f = skipped THEN disk[f] ELSE RestoredFile(id, f)]

Truncate(id) ==
    /\ prompts' = {p \in prompts : p < id} /\ next' = id
    /\ began' = Restrict(began, {p \in DOMAIN began : p < id}) /\ stale' = {p \in stale : p < id}

\* RestoreBeforeMessage
RewindPlan(id) ==
    plan' = IF RecordedPlan(id) = 0 THEN plan ELSE history[RecordedPlan(id)].plan

CanRewind == run = "idle" /\ Happens("rewind")

RewindBoth(id) ==
    /\ CanRewind
    /\ RewindFiles(id) /\ Truncate(id) /\ RewindPlan(id)
    /\ UNCHANGED <<stored, snaps, tracked, log, history, message, run, blind, damaged>>

\* The files alone; or the conversation could not be truncated after them.
RewindCode(id) ==
    /\ CanRewind
    /\ RewindFiles(id)
    /\ UNCHANGED <<stored, snaps, tracked, log, conversation, began, stale, blind, damaged>>

RewindConversation(id) ==
    /\ CanRewind
    /\ Truncate(id) /\ RewindPlan(id)
    /\ UNCHANGED <<files, history, message, run, blind, damaged>>

\* restoreLatestInput: the last prompt of a cancelled run, when nothing follows it.
RestoreLatestInput(id) ==
    /\ CanRewind /\ next = id + 1
    /\ Truncate(id)
    /\ UNCHANGED <<files, plan, history, message, run, blind, damaged>>

Next ==
    \/ BeforeRun \/ CommitPrompt \/ Answer \/ EndRun \/ PromptNotCommitted \/ Restart
    \/ \E f \in Files, c \in Contents : WriteFile(f, c) \/ WriteUntracked(f, c) \/ ForeignChange(f, c)
    \/ \E c \in Contents : EditPlan(c)
    \/ \E id \in prompts :
        RewindBoth(id) \/ RewindCode(id) \/ RewindConversation(id) \/ RestoreLatestInput(id)

Spec == Init /\ [][Next]_vars

-----------------------------------------------------------------------------
(* Properties. *)

TypeOK ==
    /\ disk \in [Files -> Contents] /\ plan \in Contents
    /\ stored \in [Files -> [1..MaxVersion -> Contents]]
    /\ tracked \subseteq Files /\ Len(snaps) <= Retained
    /\ next \in 1..MaxSeq + 1 /\ prompts \subseteq 1..next - 1
    /\ message \in 0..MaxSeq /\ run \in {"idle", "admitted", "running"}

\* "Rewind restores workspace files to the selected snapshot" (restore.go): whatever edits,
\* rewinds and truncations came in between, rewinding the files to a prompt brings back the
\* workspace its snapshot was taken of, for every file only the edit tools changed before it
\* was first backed up - as long as no snapshot failed half way and the log was not replayed
\* after a rewind.
RewindIsExact ==
    /\ TypeOK
    /\ ~damaged => \A id \in prompts \ stale : Snapshot(id) # {} =>
            \A f \in Files \ blind : RestoredFile(id, f) = began[id].disk[f]

\* RestoreStateFromLog: until the first rewind gives a number out again, and with no write
\* lost, the replayed log is the file history the process would have kept.
ReplayIsExact ==
    events.rewind = 0 /\ events.fault = 0 =>
        /\ Replay(log) = snaps
        /\ tracked = UNION {DOMAIN snaps[i].backups : i \in DOMAIN snaps}

\* The file history leads back to the workspace a prompt began with, and survives a restart.
HistoryIsExact == RewindIsExact /\ ReplayIsExact

=============================================================================
