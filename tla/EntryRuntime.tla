---------------------------- MODULE EntryRuntime ----------------------------
(***************************************************************************)
(* What the three entry points of cmd/fox compose around the runtime: the  *)
(* terminal application (tui_runtime.go with                               *)
(* internal/app/interactive_runtime_application.go), the one-shot command  *)
(* (cli_runtime.go with internal/cli) and the core runner of an autodev    *)
(* item (autodev_runtime.go with internal/autodev/runtime_core.go).        *)
(*                                                                         *)
(* Each composes itself in five stages, every one of which may fail, runs  *)
(* prompts with resources made for the run (journal, compactor, memory     *)
(* hooks), extracts memories behind finished runs and closes down.  Only   *)
(* the terminal application replaces its session (/new) and lets runs,     *)
(* model changes, mode changes and its own end overlap.                    *)
(*                                                                         *)
(* Abstracted: the tools and prompts of a run, permissions, and the        *)
(* session's own admission and recovery (AgentSession), of which the gate, *)
(* the lease, the pending finish and the services are kept.                *)
(***************************************************************************)
EXTENDS Naturals, Sequences

CONSTANTS MaxSessions,  \* bound: sessions made
          MaxRuns,      \* bound: prompts run
          MaxSwitches,  \* bound: changes of the model or the mode
          FirstModel,   \* the model the configuration names
          OtherModels   \* models a user or a stage may choose instead

ASSUME EntryAssumption == MaxSessions \in Nat \ {0} /\ MaxRuns \in Nat \ {0} /\ MaxSwitches \in Nat

EntrySessions == 1..MaxSessions
EntryRuns     == 1..MaxRuns
NoSession     == 0
NoRun         == 0

VARIABLES
    entry,      \* "tui", "cli" or "autodev"
    stage,      \* the stage of the composition, or Ready, or Broken
    lease,      \* per session, whether it is open
    services,   \* per session: "none", "open", "closed" or "error" (closed with an error)
    pending,    \* per session, the run whose finish has to be retried
    gate,       \* per session, the run that holds it
    bound,      \* the session of the application's binding
    current,    \* composition.current
    switch,     \* /new: "idle", "recover", "close", "commit", "bind"
    replacement, \* the session that /new made
    runs,       \* the runs
    entries,    \* runs with hooks and a tracker: composition.runs, or assets.byRun
    journals,   \* runs with a journal
    compactors, \* runs with a compactor of their own
    extracting, \* runs whose memories are being extracted
    stopped,    \* extractionCancel was called
    selected,   \* the model and mode that the next run takes: [model, mode]
    composed,   \* the model the composition takes for reviews and forks
    providers,  \* models a provider was made for
    closer,     \* the end: [st, session, failed]
    switches    \* changes of model or mode so far

switchVars  == <<bound, current, switch, replacement>>
sessionVars == <<lease, services, pending>>
runVars     == <<runs, gate, entries, journals, compactors, extracting>>
chosenVars  == <<selected, composed, providers, switches>>
entryVars   == <<entry, stage, sessionVars, switchVars, runVars, chosenVars, stopped, closer>>

NotRun == [st |-> "none", session |-> NoSession, model |-> FirstModel, plan |-> FALSE, approved |-> FALSE,
           result |-> FALSE]

\* The session is selected first, so that a bad selection is not hidden by an incomplete
\* model; the core runner of an item, which always makes its session, makes its provider first.
TuiStages  == <<"select", "provider", "files", "open", "compose">>
CliStages  == <<"select", "provider", "files", "open", "compose">>
ItemStages == <<"provider", "select", "files", "open", "compose">>
Stages == [tui |-> TuiStages, cli |-> CliStages, autodev |-> ItemStages]
Ready  == 6
Broken == 0

EntryInit ==
    /\ entry \in {"tui", "cli", "autodev"} /\ stage = 1
    /\ lease = [s \in EntrySessions |-> FALSE]
    /\ services = [s \in EntrySessions |-> "none"]
    /\ pending = [s \in EntrySessions |-> NoRun] /\ gate = [s \in EntrySessions |-> NoRun]
    /\ bound = NoSession /\ current = NoSession /\ switch = "idle" /\ replacement = NoSession
    /\ runs = [r \in EntryRuns |-> NotRun]
    /\ entries = {} /\ journals = {} /\ compactors = {} /\ extracting = {} /\ stopped = FALSE
    /\ selected = [model |-> FirstModel, mode |-> "default"] /\ composed = FirstModel /\ providers = {}
    /\ closer = [st |-> "idle", session |-> NoSession, failed |-> FALSE] /\ switches = 0

(***************************************************************************)
(* The composition.                                                        *)
(***************************************************************************)
Opened(s) == lease' = [lease EXCEPT ![s] = TRUE] /\ services' = [services EXCEPT ![s] = "open"]

\* The stages succeed one after the other.
Composed ==
    /\ stage \in 1..5
    /\ LET step == Stages[entry][stage] IN
       /\ providers' = providers \cup (IF step = "provider" THEN {FirstModel} ELSE {})
       /\ IF step = "open" THEN Opened(1) ELSE UNCHANGED <<lease, services>>
       /\ bound' = IF step = "compose" THEN 1 ELSE bound
       /\ current' = IF step = "compose" /\ entry = "tui" THEN 1 ELSE current
    /\ stage' = stage + 1
    /\ UNCHANGED <<entry, pending, switch, replacement, runVars, stopped, selected, composed, closer, switches>>

\* A stage fails.  Only the last one has a session to close; the extraction's context is
\* cancelled where it exists: from the provider on, or from the harness on.
CompositionFails ==
    /\ stage \in 1..5
    /\ LET step == Stages[entry][stage] IN
       /\ IF step = "compose"
          THEN /\ lease' = [lease EXCEPT ![1] = FALSE]
               /\ \E how \in {"closed", "error"} : services' = [services EXCEPT ![1] = how]
          ELSE UNCHANGED <<lease, services>>
       /\ stopped' = \/ entry = "tui" /\ step # "select"
                     \/ entry = "autodev" /\ step \in {"open", "compose"}
    /\ stage' = Broken
    /\ UNCHANGED <<entry, pending, switchVars, runVars, chosenVars, closer>>

(***************************************************************************)
(* A session's recovery and end, as the entries call them.                 *)
(***************************************************************************)

\* RecoverRunFinish: a finish that failed is retried.
Recover(s) ==
    \/ pending' = [pending EXCEPT ![s] = NoRun]
    \/ pending[s] # NoRun /\ UNCHANGED pending

\* AgentSession.Close, once it has the gate: what becomes of the session and whether an
\* error is returned.  The services are closed once, and their error stays.
CloseOutcomes(s) ==
    IF ~lease[s] THEN {[lease |-> FALSE, services |-> services[s], failed |-> FALSE]}
    ELSE {[lease |-> pending[s] # NoRun, services |-> how, failed |-> pending[s] # NoRun \/ how = "error"] :
              how \in IF services[s] = "open" THEN {"closed", "error"} ELSE {services[s]}}

(***************************************************************************)
(* A run.                                                                  *)
(***************************************************************************)
InProgress(r) == runs[r].st \notin {"none", "done"}
NoRunIsActive == \A r \in EntryRuns : ~InProgress(r)

\* runMu, which /new takes too.  The one-shot command and an item run one prompt after
\* the other and do not close before the last has ended.
MayRun(r) ==
    /\ stage = Ready /\ switch = "idle" /\ NoRunIsActive
    /\ runs[r].st = "none" /\ \A p \in 1..(r - 1) : runs[p].st # "none"
    /\ entry = "cli" => r = 1
    /\ entry # "tui" => closer.st = "idle"

At(r, st) == runs' = [runs EXCEPT ![r].st = st]

\* The run takes the binding and the selections as they are, then BeforeRun.
StartRun(r) ==
    /\ MayRun(r)
    /\ \E st \in {"begin", "done"} :
       runs' = [runs EXCEPT ![r] = [NotRun EXCEPT !.st = st, !.session = bound, !.model = selected.model,
                                                !.plan = selected.mode = "plan"]]
    /\ UNCHANGED <<entry, stage, sessionVars, gate, switchVars, entries, journals,
                   compactors, extracting, stopped, chosenVars, closer>>

\* BeginRun, after BeforeRun: refused by a closed session and by one that has a finish to recover; then the
\* run is stored, or not.
AdmitRun(r) ==
    /\ runs[r].st = "begin"
    /\ LET s == runs[r].session IN
       /\ gate[s] = NoRun
       /\ \/ lease[s] /\ pending[s] = NoRun /\ At(r, "journals") /\ gate' = [gate EXCEPT ![s] = r]
          \/ At(r, "done") /\ UNCHANGED gate
    /\ UNCHANGED <<entry, stage, sessionVars, switchVars, entries, journals, compactors,
                   extracting, stopped, chosenVars, closer>>

Assembling(r) ==
    UNCHANGED <<entry, stage, sessionVars, gate, switchVars, extracting, stopped,
                selected, composed, switches, closer>>

\* The assets of an item's run are made together (autodevRunAssets.get).
Assets(r) ==
    /\ journals' = journals \cup {r}
    /\ UNCHANGED providers
    /\ IF entry = "autodev" THEN compactors' = compactors \cup {r} /\ entries' = entries \cup {r}
                            ELSE UNCHANGED <<compactors, entries>>

\* NewArtifactJournal and NewTelemetryJournal: the run goes on without a journal.
AssembleJournals(r) ==
    /\ runs[r].st = "journals"
    /\ At(r, "model")
    /\ Assets(r) \/ UNCHANGED <<journals, compactors, entries, providers>>
    /\ Assembling(r)

\* NewModel of the terminal application: the provider of the run's model, then the run's
\* compactor, then its journal.
AssembleTuiModel(r) ==
    /\ entry = "tui" /\ runs[r].st = "model"
    /\ \/ /\ providers' = providers \cup {runs[r].model} /\ compactors' = compactors \cup {r}
          /\ \/ journals' = journals \cup {r} /\ At(r, "tools")
             \/ r \notin journals /\ UNCHANGED journals /\ At(r, "finish")
       \/ /\ providers' \in {providers, providers \cup {runs[r].model}}
          /\ UNCHANGED <<compactors, journals>> /\ At(r, "finish")
    /\ UNCHANGED entries
    /\ Assembling(r)

\* NewModel of the others, whose provider and, for the one-shot command, compactor are there.
AssembleModel(r) ==
    /\ entry # "tui" /\ runs[r].st = "model"
    /\ \/ Assets(r) /\ At(r, "tools")
       \/ r \notin journals /\ UNCHANGED <<journals, compactors, entries, providers>> /\ At(r, "finish")
    /\ Assembling(r)

\* NewTools: the hooks are registered after the services' tools were mounted.
AssembleTools(r) ==
    /\ runs[r].st = "tools"
    /\ \/ At(r, "finish") /\ UNCHANGED entries
       \/ At(r, "context") /\ entries' = IF entry = "tui" THEN entries \cup {r} ELSE entries
    /\ UNCHANGED <<journals, compactors, providers>>
    /\ Assembling(r)

\* NewPolicy and NewContext
AssembleContext(r) ==
    /\ runs[r].st = "context"
    /\ \E st \in {"engine", "finish"} : At(r, st)
    /\ UNCHANGED <<journals, compactors, entries, providers>>
    /\ Assembling(r)

\* Lifecycle.Approve in a Formal Plan run: later runs are ordinary ones (resetCollaboration).
ApprovePlan(r) ==
    /\ runs[r].st = "engine" /\ runs[r].plan /\ ~runs[r].approved
    /\ runs' = [runs EXCEPT ![r].approved = TRUE]
    /\ selected' = [selected EXCEPT !.mode = "default"]
    /\ UNCHANGED <<entry, stage, sessionVars, gate, switchVars, entries, journals,
                   compactors, extracting, stopped, composed, providers, switches, closer>>

\* The engine returns; "result" is whether the caller gets a result (ReturnsPartialResult).
EngineEnds(r) ==
    /\ runs[r].st = "engine"
    /\ \E result \in BOOLEAN : runs' = [runs EXCEPT ![r].st = "finish", ![r].result = result]
    /\ UNCHANGED <<journals, compactors, entries, providers>>
    /\ Assembling(r)

\* FinishRun: a failed write of the finish leaves the run to the recovery.
FinishRun(r) ==
    /\ runs[r].st = "finish"
    /\ At(r, "after")
    /\ LET s == runs[r].session IN
       /\ gate' = [gate EXCEPT ![s] = NoRun]
       /\ pending' \in {pending, [pending EXCEPT ![s] = r]}
    /\ UNCHANGED <<entry, stage, lease, services, switchVars, entries, journals,
                   compactors, extracting, stopped, chosenVars, closer>>

\* Whether AfterRun launches the extraction of the run's memories.
Extracts(r) ==
    /\ runs[r].result
    /\ entry # "cli" => r \in entries
    /\ runs[r].plan => runs[r].approved

\* What the terminal application keeps of a run that has ended; and what it would keep if it
\* asked first whether there is anything to extract.
ReleasedLate(held, r) == IF entry = "tui" /\ Extracts(r) THEN held \ {r} ELSE held
Released(held, r) == IF entry = "tui" THEN held \ {r} ELSE held

\* AfterRun
AfterRun(r) ==
    /\ runs[r].st = "after"
    /\ At(r, "done")
    /\ entries' = Released(entries, r) /\ journals' = Released(journals, r)
    /\ compactors' = Released(compactors, r)
    /\ extracting' = IF Extracts(r) THEN extracting \cup {r} ELSE extracting
    /\ UNCHANGED <<entry, stage, sessionVars, gate, switchVars, stopped, chosenVars, closer>>

\* An extraction ends: by itself, by its timeout or because it was cancelled.
ExtractionEnds(r) ==
    /\ r \in extracting
    /\ extracting' = extracting \ {r}
    /\ UNCHANGED <<entry, stage, sessionVars, gate, switchVars, runs, entries, journals,
                   compactors, stopped, chosenVars, closer>>

(***************************************************************************)
(* Selections.                                                             *)
(***************************************************************************)

Choosing == UNCHANGED <<entry, stage, sessionVars, switchVars, runVars, stopped, closer>>

Takes(m) == selected' = [selected EXCEPT !.model = m] /\ composed' = m

\* UpdateModel and changeModel under one lock: refused when no provider can be made.
ChangeModel(m) ==
    /\ stage = Ready /\ entry = "tui" /\ switches < MaxSwitches
    /\ switches' = switches + 1
    /\ \/ providers' = providers \cup {m} /\ Takes(m)
       \/ m \notin providers /\ UNCHANGED <<providers, selected, composed>>
    /\ Choosing

\* SetModel of an item, between its runs: the provider is made anew.
SetModel(m) ==
    /\ stage = Ready /\ entry = "autodev" /\ NoRunIsActive /\ closer.st = "idle" /\ switches < MaxSwitches
    /\ switches' = switches + 1
    /\ \/ providers' = {m} /\ Takes(m)
       \/ UNCHANGED <<providers, selected, composed>>
    /\ Choosing

\* UpdateCollaborationMode
ChangeMode(mode) ==
    /\ stage = Ready /\ entry = "tui" /\ switches < MaxSwitches
    /\ switches' = switches + 1
    /\ selected' = [selected EXCEPT !.mode = mode]
    /\ UNCHANGED <<composed, providers>> /\ Choosing

(***************************************************************************)
(* /new: NewSession of the interactive application.                        *)
(***************************************************************************)
Switching == UNCHANGED <<entry, stage, runVars, stopped, composed, providers, switches, closer>>

\* The replacement comes first.  When it cannot be made nothing has changed.
BeginSwitch(s) ==
    /\ entry = "tui" /\ stage = Ready /\ switch = "idle" /\ NoRunIsActive
    /\ services[s] = "none" /\ \A p \in 1..(s - 1) : services[p] # "none"
    /\ Opened(s) /\ replacement' = s /\ switch' = "recover"
    /\ UNCHANGED <<pending, bound, current, selected>> /\ Switching

RecoverPrevious ==
    /\ switch = "recover"
    /\ Recover(bound)
    /\ switch' = "close"
    /\ UNCHANGED <<lease, services, bound, current, replacement, selected>> /\ Switching

\* The replacement, which nobody has used, is closed when the previous session's recovery
\* or end failed.
ClosePrevious ==
    /\ switch = "close" /\ gate[bound] = NoRun
    /\ \E o \in CloseOutcomes(bound), how \in {"closed", "error"} :
       /\ lease' = [lease EXCEPT ![bound] = o.lease, ![replacement] = ~o.failed]
       /\ services' = [services EXCEPT ![bound] = o.services, ![replacement] = IF o.failed THEN how ELSE @]
       /\ switch' = IF o.failed THEN "idle" ELSE "commit"
       /\ replacement' = IF o.failed THEN NoSession ELSE replacement
    /\ UNCHANGED <<pending, bound, current, selected>> /\ Switching

\* Commit: the session that forks, the MCP manager and the end will find.
CommitSwitch ==
    /\ switch = "commit"
    /\ current' = replacement /\ switch' = "bind"
    /\ UNCHANGED <<sessionVars, bound, replacement, selected>> /\ Switching

BindNext ==
    /\ switch = "bind"
    /\ bound' = replacement /\ replacement' = NoSession /\ switch' = "idle"
    /\ selected' = [selected EXCEPT !.mode = "default"]
    /\ UNCHANGED <<sessionVars, current>> /\ Switching

(***************************************************************************)
(* The end: Startup.Close, Drain, and Close of an item's core runner.      *)
(***************************************************************************)
Closing == UNCHANGED <<entry, stage, bound, switch, replacement, runVars, chosenVars>>

\* The screen may end at any time and cancels the extractions first.
BeginClose ==
    /\ stage = Ready /\ closer.st = "idle"
    /\ entry = "cli" => runs[1].st = "done"
    /\ entry = "autodev" => NoRunIsActive
    /\ closer' = [closer EXCEPT !.st = "wait"]
    /\ stopped' = (entry = "tui")
    /\ UNCHANGED <<sessionVars, current>> /\ Closing

\* waitForExtraction: only an item's end has a deadline.
WaitEnds ==
    /\ closer.st = "wait"
    /\ extracting = {} \/ entry = "autodev"
    /\ closer' = [st |-> "recover", session |-> IF entry = "tui" THEN current ELSE 1, failed |-> extracting # {}]
    /\ stopped' = TRUE
    /\ current' = NoSession
    /\ UNCHANGED sessionVars /\ Closing

CloserRecovers ==
    /\ closer.st = "recover"
    /\ Recover(closer.session)
    /\ closer' = [closer EXCEPT !.st = "close", !.failed = @ \/ pending'[closer.session] # NoRun]
    /\ UNCHANGED <<lease, services, stopped, current>> /\ Closing

CloserCloses ==
    /\ closer.st = "close" /\ gate[closer.session] = NoRun
    /\ \E o \in CloseOutcomes(closer.session) :
       /\ lease' = [lease EXCEPT ![closer.session] = o.lease]
       /\ services' = [services EXCEPT ![closer.session] = o.services]
       /\ closer' = [closer EXCEPT !.st = "done", !.failed = @ \/ o.failed]
    /\ UNCHANGED <<pending, stopped, current>> /\ Closing

EntryNext ==
    \/ Composed \/ CompositionFails
    \/ \E r \in EntryRuns :
       \/ StartRun(r) \/ AdmitRun(r) \/ AssembleJournals(r) \/ AssembleTuiModel(r)
       \/ AssembleModel(r) \/ AssembleTools(r) \/ AssembleContext(r) \/ ApprovePlan(r) \/ EngineEnds(r) \/ FinishRun(r) \/ AfterRun(r)
       \/ ExtractionEnds(r)
    \/ (\E m \in OtherModels : ChangeModel(m) \/ SetModel(m)) \/ (\E mode \in {"default", "plan"} : ChangeMode(mode))
    \/ (\E s \in EntrySessions : BeginSwitch(s)) \/ RecoverPrevious \/ ClosePrevious \/ CommitSwitch \/ BindNext
    \/ BeginClose \/ WaitEnds \/ CloserRecovers \/ CloserCloses

EntrySpec == EntryInit /\ [][EntryNext]_entryVars

(***************************************************************************)
(* Properties.                                                             *)
(***************************************************************************)

\* No session is lost: one that is open is the application's, the composition's, the one
\* that /new or the last stage of the composition holds, or the end could not close it and
\* said so; a composition that failed leaves nothing open behind.
NoSessionIsLost ==
    \A s \in EntrySessions : lease[s] \/ services[s] = "open" =>
        \/ s \in {bound, current, replacement}
        \/ stage = 5 /\ s = 1
        \/ s = closer.session /\ (closer.st # "done" \/ closer.failed)

\* Reviews, forks and the MCP manager work on the session and the model that prompts are run
\* with, and the model has a provider.
SelectionsAgree ==
    stage = Ready /\ entry # "cli" =>
        /\ entry = "tui" /\ switch # "bind" /\ closer.st \in {"idle", "wait"} => current = bound
        /\ composed = selected.model /\ composed \in providers

\* A session that is the application's while nothing replaces or ends it is open, or its
\* services could not be closed by a /new that was refused.
BoundSessionIsOpen ==
    stage = Ready /\ switch \in {"idle", "recover"} /\ closer.st \in {"idle", "wait"} =>
        services[bound] # "closed" \/ pending[bound] # NoRun

\* The terminal application keeps a run's resources from its assembly to AfterRun, and the
\* engine never works without them; it works in an open session whose gate the run holds.
ResourcesFollowRuns ==
    /\ entry = "tui" => \A r \in entries \cup journals \cup compactors : InProgress(r)
    /\ \A r \in EntryRuns : runs[r].st = "engine" =>
        /\ r \in journals /\ (entry # "cli" => r \in entries \cap compactors)
        /\ lease[runs[r].session] /\ gate[runs[r].session] = r
        /\ closer.st = "idle" => services[runs[r].session] = "open"

\* Memories are extracted from a run that has ended with a result, and from a Formal Plan
\* run only after its plan was approved; none is being extracted when a one-shot command or
\* an item has closed without an error, and in the terminal application they are cancelled.
ExtractionIsOwned ==
    /\ \A r \in extracting : runs[r].st = "done" /\ runs[r].result /\ (runs[r].plan => runs[r].approved)
    /\ closer.st = "done" =>
        /\ stopped
        /\ entry # "tui" /\ ~closer.failed => extracting = {}

\* The entry points, with failures at every stage, runs, /new and the end overlapping.
EntriesAreExact ==
    NoSessionIsLost /\ SelectionsAgree /\ BoundSessionIsOpen /\ ResourcesFollowRuns /\ ExtractionIsOwned
=============================================================================
