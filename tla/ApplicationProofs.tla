-------------------------- MODULE ApplicationProofs --------------------------
(***************************************************************************)
(* The application below its entry points and the terminal above it.       *)
(*                                                                         *)
(* The entry points keep their sessions, models, runs and extractions      *)
(* apart, for any number of sessions, runs and changes of the model.  The  *)
(* invariant says what each stage of the composition, of /new and of the   *)
(* end has done so far.                                                    *)
(*                                                                         *)
(* The terminal tells the truth about what runs and keeps one reader per   *)
(* bridge, for any number of inputs, keys and questions.  Its invariant    *)
(* follows every operation from its number to its message.                 *)
(*                                                                         *)
(* The records of unattended development are only ever changed as their    *)
(* own validation accepts, and no work is taken back, for any backlog,     *)
(* pipeline and publishing steps.  The invariant relates the stored record *)
(* to the place the process has reached in its two loops.                  *)
(***************************************************************************)
EXTENDS EntryRuntime, Interactive, Autodev, FiniteSetTheorems, SequenceTheorems,
        WellFoundedInduction, TLAPS

-----------------------------------------------------------------------------
(* The entry points.                                                          *)

Models    == {FirstModel} \cup OtherModels
RunStates == {"none", "begin", "journals", "model", "tools", "context", "engine", "finish",
      "after", "done"}
RunsOrNone     == EntryRuns \cup {NoRun}
SessionsOrNone == EntrySessions \cup {NoSession}
RunRecords == [st : RunStates, session : SessionsOrNone, model : Models,
               plan : BOOLEAN, approved : BOOLEAN, result : BOOLEAN]
Ends       == [st : {"idle", "wait", "recover", "close", "done"}, session : SessionsOrNone,
      failed : BOOLEAN]
ServiceStates == {"none", "open", "closed", "error"}

EntryTypeOK ==
    /\ entry \in {"tui", "cli", "autodev"} /\ stage \in 0..6
    /\ lease \in [EntrySessions -> BOOLEAN]
    /\ services \in [EntrySessions -> ServiceStates]
    /\ pending \in [EntrySessions -> RunsOrNone] /\ gate \in [EntrySessions -> RunsOrNone]
    /\ bound \in SessionsOrNone /\ current \in SessionsOrNone /\ replacement \in SessionsOrNone
    /\ switch \in {"idle", "recover", "close", "commit", "bind"}
    /\ runs \in [EntryRuns -> RunRecords]
    /\ entries \subseteq EntryRuns /\ journals \subseteq EntryRuns
    /\ compactors \subseteq EntryRuns /\ extracting \subseteq EntryRuns
    /\ stopped \in BOOLEAN
    /\ selected \in [model : Models, mode : {"default", "plan"}] /\ composed \in Models
    /\ providers \subseteq Models /\ switches \in Nat
    /\ closer \in Ends

Undecided == closer.st \in {"idle", "wait"}

\* Until the composition is complete nothing but the first session exists.
Composition ==
    /\ stage # Ready =>
        /\ \A r \in EntryRuns : runs[r] = NotRun
        /\ \A s \in EntrySessions : pending[s] = NoRun
        /\ entries = {} /\ journals = {} /\ compactors = {} /\ extracting = {}
        /\ switch = "idle" /\ closer.st = "idle" /\ bound = NoSession /\ current = NoSession
        /\ selected.model = FirstModel /\ composed = FirstModel
    /\ stage \in 1..4 => \A s \in EntrySessions : services[s] = "none"
    /\ stage = 5 => \A s \in EntrySessions : services[s] = IF s = 1 THEN "open" ELSE "none"
    /\ stage = 5 => lease[1]
    /\ stage = Broken => \A s \in EntrySessions : services[s] # "open"
    /\ stage \in 3..5 \/ (stage = 2 /\ entry = "autodev") => FirstModel \in providers

\* What is open, and by whom it is held.
Sessions ==
    /\ \A s \in EntrySessions : services[s] = "open" => lease[s]
    /\ \A s \in EntrySessions : lease[s] => services[s] # "none"
    /\ stage = Ready => bound \in EntrySessions /\ services[bound] # "none"
    /\ Undecided => closer.session = NoSession
    /\ ~Undecided => closer.session \in EntrySessions
    /\ NoSessionIsLost

\* /new, which nothing but the end overlaps.
Replacing ==
    /\ switch = "idle" => replacement = NoSession
    /\ switch # "idle" =>
        /\ entry = "tui" /\ stage = Ready /\ NoRunIsActive
        /\ replacement \in EntrySessions \ {bound} /\ services[replacement] # "none"
        /\ Undecided => services[replacement] = "open"
    /\ switch \in {"commit", "bind"} => ~lease[bound]
    /\ entry = "tui" /\ stage = Ready =>
        /\ current \in {IF switch = "bind" THEN replacement ELSE bound, NoSession}
        /\ Undecided => current # NoSession
    /\ entry # "tui" => current = NoSession /\ bound \in {NoSession, 1}

\* The session that prompts are run in.
Binding ==
    stage = Ready /\ switch \in {"idle", "recover"} /\ Undecided =>
        /\ services[bound] = "closed" => pending[bound] # NoRun
        /\ lease[bound] /\ pending[bound] = NoRun => services[bound] = "open"

Assembled == {"tools", "context", "engine"}
Holding   == {"journals", "model", "finish"} \cup Assembled

RunsHold ==
    /\ \A r \in EntryRuns : InProgress(r) => runs[r].session = bound
    /\ \A r \in EntryRuns : runs[r].st \in Holding =>
        /\ lease[bound] /\ gate[bound] = r
        /\ closer.st = "idle" => services[bound] = "open"
    /\ entry # "tui" /\ closer.st # "idle" => NoRunIsActive
    /\ entry = "cli" => \A r \in EntryRuns : r # 1 => runs[r].st = "none"

Resources ==
    /\ \A r \in EntryRuns : runs[r].st \in {"none", "begin", "journals"} =>
           r \notin entries \cup journals \cup compactors
    /\ \A r \in EntryRuns : runs[r].st \in Assembled =>
        /\ r \in journals /\ (entry # "cli" => r \in compactors)
        /\ entry = "autodev" \/ (entry = "tui" /\ runs[r].st # "tools") => r \in entries
    /\ entry = "tui" => \A r \in entries \cup journals \cup compactors : InProgress(r)

Extractions ==
    /\ \A r \in extracting : runs[r].st = "done" /\ runs[r].result
           /\ (runs[r].plan => runs[r].approved)
    /\ ~Undecided => stopped
    /\ ~Undecided /\ entry # "tui" /\ ~closer.failed => extracting = {}

Selections == stage = Ready => composed = selected.model
      /\ (entry # "cli" => composed \in providers)

SessionFacts == Composition /\ Sessions /\ Replacing /\ Binding
RunFacts     == RunsHold /\ Resources /\ Extractions

IInv == EntryTypeOK /\ SessionFacts /\ RunFacts /\ Selections

-----------------------------------------------------------------------------

\* Session 1 is the session the composition opens.
LEMMA FirstSession == 1 \in EntrySessions /\ NoSession \notin EntrySessions
  BY EntryAssumption DEF EntrySessions, NoSession

\* Before the composition nothing is open, chosen or running.
LEMMA InitEstablishes == EntryInit => IInv
<1> SUFFICES ASSUME EntryInit PROVE IInv
  OBVIOUS
<1>1. \A r \in EntryRuns : runs[r] = NotRun
  BY DEF EntryInit
<1>2. EntryTypeOK
  <2>1. NotRun \in RunRecords
    BY DEF NotRun, RunRecords, RunStates, Models, SessionsOrNone
  <2>2. runs \in [EntryRuns -> RunRecords]
    BY <2>1 DEF EntryInit
  <2>3. closer \in Ends
    BY DEF EntryInit, Ends, SessionsOrNone
  <2>4. selected \in [model : Models, mode : {"default", "plan"}] /\ composed \in Models
    BY DEF EntryInit, Models
  <2>5. /\ lease \in [EntrySessions -> BOOLEAN] /\ services \in [EntrySessions -> ServiceStates]
        /\ pending \in [EntrySessions -> RunsOrNone] /\ gate \in [EntrySessions -> RunsOrNone]
    BY DEF EntryInit, ServiceStates, RunsOrNone
  <2>6. bound \in SessionsOrNone /\ current \in SessionsOrNone /\ replacement \in SessionsOrNone
    BY DEF EntryInit, SessionsOrNone
  <2>7. /\ entry \in {"tui", "cli", "autodev"} /\ stage \in 0..6 /\ switches \in Nat
        /\ switch \in {"idle", "recover", "close", "commit", "bind"}
    BY DEF EntryInit
  <2>9. stopped \in BOOLEAN
    BY DEF EntryInit
  <2>8. /\ entries \subseteq EntryRuns /\ journals \subseteq EntryRuns
               /\ compactors \subseteq EntryRuns
        /\ extracting \subseteq EntryRuns /\ providers \subseteq Models
    BY DEF EntryInit
  <2> QED
    BY <2>2, <2>3, <2>4, <2>5, <2>6, <2>7, <2>8, <2>9 DEF EntryTypeOK
<1>3. SessionFacts
  BY DEF EntryInit, SessionFacts, Composition, Sessions, Replacing, Binding, Undecided,
     NoSessionIsLost, Ready, Broken
<1>4. RunFacts /\ Selections
  BY <1>1 DEF EntryInit, RunFacts, RunsHold, Resources, Extractions, Selections, Undecided,
     InProgress, NoRunIsActive, Holding, Assembled, NotRun, Ready
<1> QED
  BY <1>2, <1>3, <1>4 DEF IInv

-----------------------------------------------------------------------------
(* The composition.                                                          *)

LEMMA StageNames ==
  ASSUME EntryTypeOK, stage \in 1..5
  PROVE  /\ Stages[entry][stage] = "open" <=> stage = 4
         /\ Stages[entry][stage] = "compose" <=> stage = 5
         /\ Stages[entry][stage] = "provider" <=> stage = IF entry = "autodev" THEN 1 ELSE 2
  BY DEF EntryTypeOK, Stages, TuiStages, CliStages, ItemStages

LEMMA ComposedPreserves == IInv /\ Composed => IInv'
<1> SUFFICES ASSUME IInv, Composed PROVE IInv'
  OBVIOUS
<1>1. lease' \in [EntrySessions -> BOOLEAN] /\ services' \in [EntrySessions -> ServiceStates]
  <2>1. \/ Opened(1)
        \/ UNCHANGED <<lease, services>>
    BY DEF Composed
  <2> QED
    BY <2>1 DEF IInv, EntryTypeOK, ServiceStates, Opened
<1>2. stage' \in 0..6 /\ providers' \subseteq Models
  BY DEF Composed, IInv, EntryTypeOK, Models
<1>3. bound' \in SessionsOrNone /\ current' \in SessionsOrNone
  BY FirstSession DEF Composed, IInv, EntryTypeOK, SessionsOrNone
<1>4. EntryTypeOK'
  BY <1>1, <1>2, <1>3 DEF IInv, EntryTypeOK, Composed, runVars
<1>5. stage \in 1..5 /\ stage' = stage + 1
  BY DEF Composed
<1>6. CASE stage \in 1..3
  <2>1. /\ UNCHANGED <<bound, current, lease, services>> /\ providers \subseteq providers'
        /\ stage = (IF entry = "autodev" THEN 1 ELSE 2) => FirstModel \in providers'
    BY <1>6, StageNames DEF Composed, IInv
  <2>2. SessionFacts'
    BY <1>6, <2>1 DEF IInv, EntryTypeOK, SessionFacts, Composition, Sessions, Replacing, Binding,
       Undecided, NoSessionIsLost, Composed, runVars, Ready, Broken
  <2>3. RunFacts' /\ Selections'
    BY <1>6, <2>1 DEF IInv, EntryTypeOK, SessionFacts, Composition, RunFacts, RunsHold, Resources,
       Extractions, Selections, Undecided, InProgress, NoRunIsActive, Holding, Assembled, NotRun,
       Ready, Composed, runVars
  <2> QED
    BY <1>4, <2>2, <2>3 DEF IInv
<1>7. CASE stage = 4
  <2>1. UNCHANGED <<bound, current>> /\ Opened(1) /\ providers \subseteq providers'
    BY <1>7, StageNames DEF Composed, IInv
  <2>2. SessionFacts'
    BY <1>7, <2>1, FirstSession DEF IInv, EntryTypeOK, SessionFacts, Composition, Sessions,
       Replacing, Binding, Undecided, NoSessionIsLost, Composed, Opened, runVars, Ready, Broken
  <2>3. RunFacts' /\ Selections'
    BY <1>7, <2>1 DEF IInv, EntryTypeOK, SessionFacts, Composition, RunFacts, RunsHold, Resources,
       Extractions, Selections, Undecided, InProgress, NoRunIsActive, Holding, Assembled, NotRun,
       Ready, Composed, runVars
  <2> QED
    BY <1>4, <2>2, <2>3 DEF IInv
<1>8. CASE stage = 5
  <2>1. bound' = 1 /\ current' = (IF entry = "tui" THEN 1 ELSE current)
            /\ UNCHANGED <<lease, services>> /\ providers \subseteq providers'
    BY <1>8, StageNames DEF Composed, IInv
  <2>2. SessionFacts'
    BY <1>8, <2>1, FirstSession DEF IInv, EntryTypeOK, SessionFacts, Composition, Sessions,
       Replacing, Binding, Undecided, NoSessionIsLost, Composed, runVars, Ready, Broken, NoSession
  <2>3. RunFacts' /\ Selections'
    BY <1>8, <2>1 DEF IInv, EntryTypeOK, SessionFacts, Composition, RunFacts, RunsHold, Resources,
       Extractions, Selections, Undecided, InProgress, NoRunIsActive, Holding, Assembled, NotRun,
       Ready, Composed, runVars
  <2> QED
    BY <1>4, <2>2, <2>3 DEF IInv
<1> QED
  BY <1>5, <1>6, <1>7, <1>8

\* A stage that fails leaves nothing open.
LEMMA CompositionFailsPreserves == IInv /\ CompositionFails => IInv'
<1> SUFFICES ASSUME IInv, CompositionFails PROVE IInv'
  OBVIOUS
<1>1. stage \in 1..5 /\ stage' = Broken /\ stopped' \in BOOLEAN
  BY DEF CompositionFails
<1>2. CASE stage = 5
  <2>0. lease' = [lease EXCEPT ![1] = FALSE]
    BY <1>2, StageNames DEF CompositionFails, IInv
  <2>1. PICK how \in {"closed", "error"} : services' = [services EXCEPT ![1] = how]
    BY <1>2, StageNames DEF CompositionFails, IInv
  <2>2. EntryTypeOK'
    BY <1>1, <2>0, <2>1, FirstSession DEF IInv, EntryTypeOK, ServiceStates, CompositionFails,
       switchVars, runVars, chosenVars, Broken
  <2>3. SessionFacts'
    BY <1>1, <1>2, <2>0, <2>1, FirstSession
    DEF IInv, EntryTypeOK, SessionFacts, Composition, Sessions, Replacing, Binding, Undecided,
        NoSessionIsLost, CompositionFails, switchVars, runVars, chosenVars, Ready, Broken
  <2> QED
    BY <1>1, <1>2, <2>2, <2>3 DEF IInv, EntryTypeOK, SessionFacts, Composition, RunFacts,
       RunsHold, Resources, Extractions, Selections, Undecided, InProgress, NoRunIsActive,
       Holding, Assembled, NotRun, Ready, Broken, CompositionFails, switchVars, runVars,
       chosenVars
<1>3. CASE stage \in 1..4
  <2>0. UNCHANGED <<lease, services>>
    BY <1>3, StageNames DEF CompositionFails, IInv
  <2>2. EntryTypeOK'
    BY <1>1, <2>0 DEF IInv, EntryTypeOK, CompositionFails, switchVars, runVars, chosenVars, Broken
  <2>3. SessionFacts'
    BY <1>1, <1>3, <2>0 DEF IInv, EntryTypeOK, SessionFacts, Composition, Sessions, Replacing,
       Binding, Undecided, NoSessionIsLost, CompositionFails, switchVars, runVars, chosenVars,
       Ready, Broken
  <2> QED
    BY <1>1, <1>3, <2>2, <2>3 DEF IInv, EntryTypeOK, SessionFacts, Composition, RunFacts,
       RunsHold, Resources, Extractions, Selections, Undecided, InProgress, NoRunIsActive,
       Holding, Assembled, NotRun, Ready, Broken, CompositionFails, switchVars, runVars,
       chosenVars
<1> QED
  BY <1>1, <1>2, <1>3

-----------------------------------------------------------------------------
(* A run.                                                                    *)

LEMMA NewState ==
  ASSUME NEW r \in EntryRuns, NEW st \in RunStates, runs \in [EntryRuns -> RunRecords]
  PROVE  [runs EXCEPT ![r].st = st] \in [EntryRuns -> RunRecords]
  BY DEF RunRecords

\* The facts about sessions and selections do not mention what a run is doing, except that
\* nothing runs while the session is replaced.
LEMMA RunFrame ==
  ASSUME IInv, NEW r \in EntryRuns, stage = Ready, switch = "idle",
         UNCHANGED <<entry, stage, lease, services, switchVars, closer>>,
         \A s \in EntrySessions : pending'[s] = NoRun => pending[s] = NoRun
  PROVE  SessionFacts'
  BY DEF IInv, EntryTypeOK, SessionFacts, Composition, Sessions, Replacing, Binding, Undecided,
     NoSessionIsLost, switchVars, Ready, Broken, InProgress, NoRunIsActive

LEMMA ActiveRun ==
  ASSUME IInv, NEW r \in EntryRuns, InProgress(r)
  PROVE  /\ stage = Ready /\ switch = "idle" /\ bound \in EntrySessions /\ runs[r].session = bound
         /\ entry # "tui" => closer.st = "idle"
         /\ r \notin extracting
  BY DEF IInv, EntryTypeOK, SessionFacts, Composition, Sessions, Replacing, RunFacts, RunsHold,
     Extractions, InProgress, NoRunIsActive, NotRun

LEMMA StartRunPreserves ==
  ASSUME IInv, NEW r \in EntryRuns, StartRun(r)
  PROVE  IInv'
<1>1. PICK st \in {"begin", "done"} :
        runs' = [runs EXCEPT ![r] = [NotRun EXCEPT !.st = st, !.session = bound,
            !.model = selected.model,
                                                   !.plan = selected.mode = "plan"]]
  BY DEF StartRun
<1> DEFINE new == [NotRun EXCEPT !.st = st, !.session = bound, !.model = selected.model,
                                 !.plan = selected.mode = "plan"]
<1>2. new \in RunRecords
  BY DEF IInv, EntryTypeOK, RunRecords, NotRun, RunStates, Models, SessionsOrNone
<1>3. runs' \in [EntryRuns -> RunRecords]
  BY <1>1, <1>2 DEF IInv, EntryTypeOK
<1>4. EntryTypeOK'
  BY <1>3 DEF IInv, EntryTypeOK, StartRun, sessionVars, switchVars, chosenVars
<1>5. stage = Ready /\ switch = "idle" /\ runs[r].st = "none"
  BY DEF StartRun, MayRun
<1>6. SessionFacts'
  BY <1>5, RunFrame DEF StartRun, sessionVars, switchVars
<1>7. runs'[r].st = st /\ runs'[r].session = bound
          /\ \A q \in EntryRuns : q # r => runs'[q] = runs[q]
  BY <1>1, <1>2 DEF IInv, EntryTypeOK, NotRun
<1>8. RunFacts'
  BY <1>5, <1>7 DEF IInv, RunFacts, RunsHold, Resources, Extractions, InProgress, NoRunIsActive,
     Holding, Assembled, Undecided, StartRun, MayRun, sessionVars, switchVars, chosenVars
<1> QED
  BY <1>4, <1>6, <1>8 DEF IInv, Selections, StartRun, chosenVars

LEMMA AdmitRunPreserves ==
  ASSUME IInv, NEW r \in EntryRuns, AdmitRun(r)
  PROVE  IInv'
<1> DEFINE s == runs[r].session
<1>1. InProgress(r) /\ runs[r].st = "begin" /\ gate[s] = NoRun
  BY DEF AdmitRun, InProgress
<1>2. s \in EntrySessions /\ s = bound /\ stage = Ready /\ switch = "idle"
  BY <1>1, ActiveRun
<1>3. SessionFacts' /\ Selections'
  BY <1>2, RunFrame DEF AdmitRun, sessionVars, switchVars, chosenVars, IInv, Selections
<1>4. CASE At(r, "done") /\ UNCHANGED gate
  <2>1. EntryTypeOK'
    BY <1>4, NewState DEF IInv, EntryTypeOK, AdmitRun, At, RunStates, sessionVars, switchVars,
       chosenVars
  <2>2. runs'[r].st = "done" /\ \A q \in EntryRuns : q # r => runs'[q] = runs[q]
    BY <1>4 DEF At, IInv, EntryTypeOK, RunRecords
  <2>3. UNCHANGED <<entry, lease, services, gate, bound, entries, journals, compactors,
            extracting, stopped, closer>>
    BY <1>4 DEF AdmitRun, sessionVars, switchVars
  <2>4. RunsHold'
    BY <1>1, <2>2, <2>3 DEF IInv, RunFacts, RunsHold, InProgress, NoRunIsActive, Holding, Assembled
  <2>5. Resources'
    BY <1>1, <2>2, <2>3 DEF IInv, EntryTypeOK, RunFacts, Resources, InProgress, Assembled
  <2>6. Extractions'
    BY <1>1, <2>2, <2>3 DEF IInv, EntryTypeOK, RunFacts, Extractions, InProgress, Undecided
  <2> QED
    BY <1>3, <2>1, <2>4, <2>5, <2>6 DEF IInv, RunFacts
<1>5. CASE lease[s] /\ pending[s] = NoRun /\ At(r, "journals") /\ gate' = [gate EXCEPT ![s] = r]
  <2>1. EntryTypeOK'
    BY <1>2, <1>5, NewState DEF IInv, EntryTypeOK, AdmitRun, At, RunStates, RunsOrNone,
       sessionVars, switchVars, chosenVars
  <2>2. runs'[r] = [runs[r] EXCEPT !.st = "journals"]
            /\ \A q \in EntryRuns : q # r => runs'[q] = runs[q]
    BY <1>5 DEF At, IInv, EntryTypeOK, RunRecords
  <2>3. runs'[r].st = "journals" /\ runs'[r].session = bound /\ r # NoRun
    BY <1>2, <2>2 DEF IInv, EntryTypeOK, RunRecords, EntryRuns, NoRun
  <2>4. closer.st = "idle" => services[bound] = "open"
    BY <1>2, <1>5 DEF IInv, SessionFacts, Binding, Undecided
  <2>5. UNCHANGED <<entry, lease, services, bound, entries, journals, compactors, extracting,
            stopped, closer>>
    BY DEF AdmitRun, sessionVars, switchVars
  <2>6. RunsHold'
    <3>1. \A q \in EntryRuns : q # r /\ runs[q].st \in Holding => FALSE
      BY <1>1, <1>2 DEF IInv, RunFacts, RunsHold, NoRun, EntryRuns
    <3>2. gate'[bound] = r
      BY <1>2, <1>5 DEF IInv, EntryTypeOK
    <3>3. \A q \in EntryRuns : InProgress(q)' => runs'[q].session = bound'
      <4>1. \A q \in EntryRuns : InProgress(q) => runs[q].session = bound
        BY DEF IInv, RunFacts, RunsHold
      <4> QED
        BY <2>2, <2>3, <2>5, <4>1 DEF InProgress
    <3>4. \A q \in EntryRuns : runs'[q].st \in Holding =>
            lease'[bound'] /\ gate'[bound'] = q
                /\ (closer'.st = "idle" => services'[bound'] = "open")
      BY <1>2, <1>5, <2>2, <2>4, <2>5, <3>1, <3>2
    <3>5. closer.st = "idle" \/ entry = "tui"
      BY <1>1, ActiveRun
    <3>6. entry = "cli" => r = 1
      BY <1>1 DEF IInv, RunFacts, RunsHold
    <3> QED
      BY <2>2, <2>5, <3>3, <3>4, <3>5, <3>6 DEF IInv, RunFacts, RunsHold
  <2>7. Resources'
    BY <1>1, <2>2, <2>3, <2>5 DEF IInv, EntryTypeOK, RunFacts, Resources, InProgress, Assembled
  <2>8. Extractions'
    BY <1>1, <2>2, <2>3, <2>5 DEF IInv, EntryTypeOK, RunFacts, Extractions, InProgress, Undecided
  <2> QED
    BY <1>3, <2>1, <2>6, <2>7, <2>8 DEF IInv, RunFacts
<1> QED
  BY <1>4, <1>5 DEF AdmitRun

\* The steps between admission and finish change the run's own state and resources alone.
LEMMA AssemblyPreserves ==
  ASSUME IInv, NEW r \in EntryRuns, NEW st \in Holding \ {"journals"}, At(r, st), Assembling(r),
         runs[r].st \in Holding,
         entries \subseteq entries', entries' \subseteq entries \cup {r},
         journals \subseteq journals', journals' \subseteq journals \cup {r},
         compactors \subseteq compactors', compactors' \subseteq compactors \cup {r},
         providers \subseteq providers', providers' \subseteq Models,
         st \in Assembled =>
            /\ r \in journals' /\ (entry # "cli" => r \in compactors')
            /\ entry = "autodev" \/ (entry = "tui" /\ st # "tools") => r \in entries'
  PROVE  IInv'
<1>1. InProgress(r) /\ st \in RunStates
  BY DEF InProgress, Holding, Assembled, RunStates
<1>2. EntryTypeOK'
  BY <1>1, NewState DEF IInv, EntryTypeOK, At, Assembling, sessionVars, switchVars
<1>3. SessionFacts'
  BY <1>1, ActiveRun, RunFrame DEF Assembling, sessionVars, switchVars
<1>4. Selections'
  BY DEF IInv, Selections, Assembling, switchVars
<1>5. /\ runs'[r].st = st /\ runs'[r].session = runs[r].session
      /\ runs'[r].result = runs[r].result /\ runs'[r].plan = runs[r].plan
             /\ runs'[r].approved = runs[r].approved
      /\ \A q \in EntryRuns : q # r => runs'[q] = runs[q]
  BY DEF At, IInv, EntryTypeOK, RunRecords
<1>6. UNCHANGED <<entry, lease, services, gate, bound, extracting, stopped, closer>>
  BY DEF Assembling, sessionVars, switchVars
<1>7. RunsHold'
  <2>1. \A q \in EntryRuns : InProgress(q) => runs[q].session = bound
    BY DEF IInv, RunFacts, RunsHold
  <2>2. \A q \in EntryRuns : InProgress(q)' => runs'[q].session = bound'
    BY <1>1, <1>5, <1>6, <2>1 DEF InProgress
  <2>3. \A q \in EntryRuns : runs'[q].st \in Holding => runs[q].st \in Holding
    BY <1>5
  <2>4. ~NoRunIsActive /\ (entry = "cli" => r = 1)
    BY <1>1 DEF NoRunIsActive, InProgress, IInv, RunFacts, RunsHold
  <2> QED
    BY <1>5, <1>6, <2>2, <2>3, <2>4 DEF IInv, RunFacts, RunsHold
<1>8. Resources'
  <2>1. \A q \in EntryRuns : runs'[q].st \in {"none", "begin", "journals"} => q # r
    BY <1>5 DEF Holding, Assembled
  <2>2. InProgress(r)' /\ \A q \in EntryRuns : InProgress(q) => InProgress(q)'
    BY <1>1, <1>5 DEF InProgress, Holding, Assembled
  <2> QED
    BY <1>5, <1>6, <2>1, <2>2 DEF IInv, EntryTypeOK, RunFacts, Resources
<1>9. Extractions'
  BY <1>1, <1>5, <1>6, ActiveRun DEF IInv, EntryTypeOK, RunFacts, Extractions, Undecided
<1> QED
  BY <1>2, <1>3, <1>4, <1>7, <1>8, <1>9 DEF IInv, RunFacts

LEMMA AssembleJournalsPreserves ==
  ASSUME IInv, NEW r \in EntryRuns, AssembleJournals(r)
  PROVE  IInv'
  BY AssemblyPreserves DEF AssembleJournals, Assets, Holding, Assembled, IInv, EntryTypeOK

LEMMA AssembleTuiModelPreserves ==
  ASSUME IInv, NEW r \in EntryRuns, AssembleTuiModel(r)
  PROVE  IInv'
<1>1. runs[r].model \in Models
  BY DEF IInv, EntryTypeOK, RunRecords
<1> QED
  BY <1>1, AssemblyPreserves DEF AssembleTuiModel, Holding, Assembled, IInv, EntryTypeOK

LEMMA AssembleModelPreserves ==
  ASSUME IInv, NEW r \in EntryRuns, AssembleModel(r)
  PROVE  IInv'
  BY AssemblyPreserves DEF AssembleModel, Assets, Holding, Assembled, IInv, EntryTypeOK

LEMMA AssembleToolsPreserves ==
  ASSUME IInv, NEW r \in EntryRuns, AssembleTools(r)
  PROVE  IInv'
  BY AssemblyPreserves DEF AssembleTools, Holding, Assembled, IInv, EntryTypeOK, RunFacts, Resources

LEMMA AssembleContextPreserves ==
  ASSUME IInv, NEW r \in EntryRuns, AssembleContext(r)
  PROVE  IInv'
  BY AssemblyPreserves DEF AssembleContext, Holding, Assembled, IInv, EntryTypeOK, RunFacts,
     Resources

LEMMA ApprovePlanPreserves ==
  ASSUME IInv, NEW r \in EntryRuns, ApprovePlan(r)
  PROVE  IInv'
<1>1. InProgress(r) /\ runs[r].st = "engine"
  BY DEF ApprovePlan, InProgress
<1>2. runs' \in [EntryRuns -> RunRecords]
  <2>1. \A x \in RunRecords : [x EXCEPT !.approved = TRUE] \in RunRecords
    BY DEF RunRecords
  <2> QED
    BY <2>1 DEF ApprovePlan, IInv, EntryTypeOK
<1>3. EntryTypeOK' /\ Selections'
  BY <1>2 DEF ApprovePlan, IInv, EntryTypeOK, Selections, sessionVars, switchVars
<1>4. SessionFacts'
  BY <1>1, ActiveRun, RunFrame DEF ApprovePlan, sessionVars, switchVars
<1>5. /\ \A q \in EntryRuns : runs'[q].st = runs[q].st /\ runs'[q].session = runs[q].session
      /\ \A q \in EntryRuns : q # r => runs'[q] = runs[q]
  BY DEF ApprovePlan, IInv, EntryTypeOK, RunRecords
<1>6. UNCHANGED <<entry, lease, services, gate, bound, entries, journals, compactors, extracting,
          stopped, closer>>
  BY DEF ApprovePlan, sessionVars, switchVars
<1>7. RunFacts'
  BY <1>1, <1>5, <1>6, ActiveRun DEF IInv, EntryTypeOK, RunFacts, RunsHold, Resources,
     Extractions, InProgress, NoRunIsActive, Undecided
<1> QED
  BY <1>3, <1>4, <1>7 DEF IInv

LEMMA EngineEndsPreserves ==
  ASSUME IInv, NEW r \in EntryRuns, EngineEnds(r)
  PROVE  IInv'
<1>1. InProgress(r) /\ runs[r].st = "engine"
  BY DEF EngineEnds, InProgress
<1>2. PICK result \in BOOLEAN : runs' = [runs EXCEPT ![r].st = "finish", ![r].result = result]
  BY DEF EngineEnds
<1>3. \A x \in RunRecords : [[x EXCEPT !.st = "finish"] EXCEPT !.result = result] \in RunRecords
  BY DEF RunRecords, RunStates
<1>4. runs' \in [EntryRuns -> RunRecords]
  BY <1>2, <1>3 DEF IInv, EntryTypeOK
<1>5. EntryTypeOK' /\ Selections'
  BY <1>4 DEF EngineEnds, Assembling, IInv, EntryTypeOK, Selections, sessionVars, switchVars
<1>6. SessionFacts'
  BY <1>1, ActiveRun, RunFrame DEF EngineEnds, Assembling, sessionVars, switchVars
<1>7. /\ runs'[r].st = "finish" /\ runs'[r].session = runs[r].session
      /\ \A q \in EntryRuns : q # r => runs'[q] = runs[q]
  BY <1>2 DEF IInv, EntryTypeOK, RunRecords
<1>8. UNCHANGED <<entry, lease, services, gate, bound, entries, journals, compactors, extracting,
          stopped, closer>>
  BY DEF EngineEnds, Assembling, sessionVars, switchVars
<1>9. RunFacts'
  BY <1>1, <1>7, <1>8, ActiveRun DEF IInv, EntryTypeOK, RunFacts, RunsHold, Resources,
     Extractions, InProgress, NoRunIsActive, Undecided, Holding, Assembled
<1> QED
  BY <1>5, <1>6, <1>9 DEF IInv

\* A finish gives the gate back, and a finish that failed is left to the recovery.
LEMMA FinishRunPreserves ==
  ASSUME IInv, NEW r \in EntryRuns, FinishRun(r)
  PROVE  IInv'
<1>1. InProgress(r) /\ runs[r].st = "finish" /\ runs[r].session = bound /\ r # NoRun
  BY ActiveRun DEF FinishRun, InProgress, EntryRuns, NoRun
<1>2. EntryTypeOK'
  <2>1. runs' \in [EntryRuns -> RunRecords]
    BY NewState DEF FinishRun, At, RunStates, IInv, EntryTypeOK
  <2>2. gate' \in [EntrySessions -> RunsOrNone]
    BY DEF FinishRun, RunsOrNone, IInv, EntryTypeOK
  <2>3. pending' \in [EntrySessions -> RunsOrNone]
    BY DEF FinishRun, RunsOrNone, IInv, EntryTypeOK
  <2> QED
    BY <2>1, <2>2, <2>3 DEF FinishRun, IInv, EntryTypeOK, switchVars, chosenVars
<1>3. SessionFacts' /\ Selections'
  BY <1>1, ActiveRun, RunFrame DEF FinishRun, IInv, EntryTypeOK, Selections, switchVars, chosenVars
<1>4. /\ runs'[r].st = "after" /\ runs'[r].session = runs[r].session
      /\ \A q \in EntryRuns : q # r => runs'[q] = runs[q]
  BY DEF FinishRun, At, IInv, EntryTypeOK, RunRecords
<1>5. UNCHANGED <<entry, lease, services, bound, entries, journals, compactors, extracting,
          stopped, closer>>
  BY DEF FinishRun, switchVars
<1>6. \A q \in EntryRuns : runs[q].st \in Holding => q = r
  BY <1>1 DEF IInv, RunFacts, RunsHold, Holding
<1>7. RunFacts'
  BY <1>1, <1>4, <1>5, <1>6, ActiveRun DEF IInv, EntryTypeOK, RunFacts, RunsHold, Resources,
     Extractions, InProgress, NoRunIsActive, Undecided, Holding, Assembled
<1> QED
  BY <1>2, <1>3, <1>7 DEF IInv

LEMMA AfterRunPreserves ==
  ASSUME IInv, NEW r \in EntryRuns, AfterRun(r)
  PROVE  IInv'
<1>1. InProgress(r) /\ runs[r].st = "after"
  BY DEF AfterRun, InProgress
<1>2. EntryTypeOK'
  BY NewState DEF AfterRun, At, Released, RunStates, IInv, EntryTypeOK, sessionVars, switchVars,
     chosenVars
<1>3. SessionFacts' /\ Selections'
  BY <1>1, ActiveRun, RunFrame DEF AfterRun, IInv, Selections, sessionVars, switchVars, chosenVars
<1>4. /\ runs'[r].st = "done" /\ runs'[r].result = runs[r].result
      /\ runs'[r].plan = runs[r].plan /\ runs'[r].approved = runs[r].approved
      /\ \A q \in EntryRuns : q # r => runs'[q] = runs[q]
  BY DEF AfterRun, At, IInv, EntryTypeOK, RunRecords
<1>5. /\ UNCHANGED <<entry, lease, services, gate, bound, stopped, closer>>
      /\ extracting' = IF Extracts(r) THEN extracting \cup {r} ELSE extracting
  BY DEF AfterRun, sessionVars, switchVars
<1>6. RunsHold'
  BY <1>1, <1>4, <1>5, ActiveRun DEF IInv, EntryTypeOK, RunFacts, RunsHold, InProgress,
     NoRunIsActive, Holding, Assembled
<1>7. Resources'
  BY <1>1, <1>4, <1>5 DEF AfterRun, Released, IInv, EntryTypeOK, RunFacts, Resources, InProgress,
     Assembled
<1>8. Extractions'
  BY <1>1, <1>4, <1>5, ActiveRun DEF Extracts, IInv, EntryTypeOK, RunFacts, Extractions, Undecided
<1> QED
  BY <1>2, <1>3, <1>6, <1>7, <1>8 DEF IInv, RunFacts

LEMMA ExtractionEndsPreserves ==
  ASSUME IInv, NEW r \in EntryRuns, ExtractionEnds(r)
  PROVE  IInv'
<1>1. EntryTypeOK' /\ Selections'
  BY DEF ExtractionEnds, IInv, EntryTypeOK, Selections, sessionVars, switchVars, chosenVars
<1>2. SessionFacts'
  BY DEF ExtractionEnds, IInv, SessionFacts, Composition, Sessions, Replacing, Binding, Undecided,
     NoSessionIsLost, NoRunIsActive, InProgress, sessionVars, switchVars, chosenVars
<1>3. RunFacts'
  BY DEF ExtractionEnds, IInv, RunFacts, RunsHold, Resources, Extractions, InProgress,
     NoRunIsActive, Undecided, sessionVars, switchVars
<1> QED
  BY <1>1, <1>2, <1>3 DEF IInv

-----------------------------------------------------------------------------
(* Changes of the model and the mode.                                        *)

LEMMA ChoicePreserves ==
  ASSUME IInv, Choosing, EntryTypeOK', Selections', stage = Ready
  PROVE  IInv'
<1>1. SessionFacts'
  BY DEF Choosing, IInv, SessionFacts, Composition, Sessions, Replacing, Binding, Undecided,
     NoSessionIsLost, NoRunIsActive, InProgress, sessionVars, switchVars, runVars, Ready
<1>2. RunFacts'
  BY DEF Choosing, IInv, RunFacts, RunsHold, Resources, Extractions, InProgress, NoRunIsActive,
     Undecided, sessionVars, switchVars, runVars
<1> QED
  BY <1>1, <1>2 DEF IInv

LEMMA ChangeModelPreserves ==
  ASSUME IInv, NEW m \in OtherModels, ChangeModel(m) \/ SetModel(m)
  PROVE  IInv'
<1>1. selected' \in [model : Models, mode : {"default", "plan"}] /\ composed' \in Models
          /\ providers' \subseteq Models
  BY DEF ChangeModel, SetModel, Takes, IInv, EntryTypeOK, Models
<1>2. EntryTypeOK'
  BY <1>1 DEF ChangeModel, SetModel, Choosing, IInv, EntryTypeOK, sessionVars, switchVars, runVars
<1>3. Selections'
  BY DEF ChangeModel, SetModel, Takes, Choosing, IInv, EntryTypeOK, Selections
<1> QED
  BY <1>2, <1>3, ChoicePreserves DEF ChangeModel, SetModel

LEMMA ChangeModePreserves ==
  ASSUME IInv, NEW mode \in {"default", "plan"}, ChangeMode(mode)
  PROVE  IInv'
<1>1. selected' \in [model : Models, mode : {"default", "plan"}] /\ selected'.model = selected.model
  BY DEF ChangeMode, IInv, EntryTypeOK
<1>2. EntryTypeOK'
  BY <1>1 DEF ChangeMode, Choosing, IInv, EntryTypeOK, sessionVars, switchVars, runVars
<1>3. Selections'
  BY <1>1 DEF ChangeMode, Choosing, IInv, Selections
<1> QED
  BY <1>2, <1>3, ChoicePreserves DEF ChangeMode

-----------------------------------------------------------------------------
(* The replacement of the session.                                           *)

\* What closing a session may come to.
LEMMA ClosingOutcomes ==
  ASSUME EntryTypeOK, NEW s \in EntrySessions, NEW o \in CloseOutcomes(s),
         services[s] = "open" => lease[s]
  PROVE  /\ o.lease \in BOOLEAN /\ o.failed \in BOOLEAN /\ o.services \in ServiceStates \ {"open"}
         /\ o.services = "none" => services[s] = "none"
         /\ o.lease => o.failed /\ lease[s] /\ pending[s] # NoRun
         /\ o.failed => o.services = "error" \/ pending[s] # NoRun
<1>1. services[s] \in ServiceStates
  BY DEF EntryTypeOK
<1>2. CASE ~lease[s]
  <2>1. o = [lease |-> FALSE, services |-> services[s], failed |-> FALSE]
    BY <1>2 DEF CloseOutcomes
  <2> QED
    BY <1>1, <1>2, <2>1
<1>3. CASE lease[s]
  <2>1. PICK how \in IF services[s] = "open" THEN {"closed", "error"} ELSE {services[s]} :
           o = [lease |-> pending[s] # NoRun, services |-> how,
               failed |-> pending[s] # NoRun \/ how = "error"]
    BY <1>3 DEF CloseOutcomes
  <2> QED
    BY <1>1, <1>3, <2>1 DEF ServiceStates
<1> QED
  BY <1>2, <1>3

\* What a run does and has does not depend on the session while none is active.
LEMMA QuietFrame ==
  ASSUME IInv, NoRunIsActive, UNCHANGED <<entry, runVars, stopped, closer>>
  PROVE  RunFacts' /\ NoRunIsActive'
  BY DEF IInv, EntryTypeOK, RunFacts, RunsHold, Resources, Extractions, NoRunIsActive, InProgress,
     Holding, Assembled, Undecided, runVars

LEMMA BeginSwitchPreserves ==
  ASSUME IInv, NEW s \in EntrySessions, BeginSwitch(s)
  PROVE  IInv'
<1>1. EntryTypeOK' /\ Selections'
  BY DEF BeginSwitch, Opened, Switching, IInv, EntryTypeOK, ServiceStates, SessionsOrNone,
     Selections, runVars
<1>2. RunFacts' /\ NoRunIsActive'
  BY QuietFrame DEF BeginSwitch, Switching
<1>3. SessionFacts'
  BY <1>2, FirstSession DEF BeginSwitch, Opened, Switching, IInv, EntryTypeOK, SessionFacts,
     Composition, Sessions, Replacing, Binding, Undecided, NoSessionIsLost, Ready, Broken
<1> QED
  BY <1>1, <1>2, <1>3 DEF IInv

LEMMA RecoverPreviousPreserves ==
  ASSUME IInv, RecoverPrevious
  PROVE  IInv'
<1>1. EntryTypeOK' /\ Selections'
  BY DEF RecoverPrevious, Recover, Switching, IInv, EntryTypeOK, RunsOrNone, Selections, runVars
<1>2. stage = Ready /\ NoRunIsActive
  BY DEF RecoverPrevious, IInv, SessionFacts, Replacing
<1>3. RunFacts' /\ NoRunIsActive'
  BY <1>2, QuietFrame DEF RecoverPrevious, Switching
<1>4. SessionFacts'
  BY <1>2, <1>3 DEF RecoverPrevious, Switching, IInv, EntryTypeOK, SessionFacts, Composition,
     Sessions, Replacing, Binding, Undecided, NoSessionIsLost, Ready, Broken
<1> QED
  BY <1>1, <1>3, <1>4 DEF IInv

LEMMA ClosePreviousPreserves ==
  ASSUME IInv, ClosePrevious
  PROVE  IInv'
<1>1. PICK o \in CloseOutcomes(bound), how \in {"closed", "error"} :
       /\ lease' = [lease EXCEPT ![bound] = o.lease, ![replacement] = ~o.failed]
       /\ services' = [services EXCEPT ![bound] = o.services,
              ![replacement] = IF o.failed THEN how ELSE @]
       /\ switch' = IF o.failed THEN "idle" ELSE "commit"
       /\ replacement' = IF o.failed THEN NoSession ELSE replacement
  BY DEF ClosePrevious
<1>2. /\ stage = Ready /\ entry = "tui" /\ NoRunIsActive /\ switch = "close"
      /\ bound \in EntrySessions /\ replacement \in EntrySessions \ {bound}
  BY DEF IInv, SessionFacts, Replacing, Sessions, ClosePrevious
<1>3. /\ o.lease \in BOOLEAN /\ o.failed \in BOOLEAN /\ o.services \in ServiceStates \ {"open"}
      /\ o.services = "none" => services[bound] = "none"
      /\ o.lease => o.failed /\ lease[bound] /\ pending[bound] # NoRun
      /\ o.failed => o.services = "error" \/ pending[bound] # NoRun
  BY <1>2, ClosingOutcomes DEF IInv, SessionFacts, Sessions
<1>4. /\ lease'[bound] = o.lease /\ lease'[replacement] = ~o.failed
      /\ services'[bound] = o.services
      /\ services'[replacement] = IF o.failed THEN how ELSE services[replacement]
      /\ \A s \in EntrySessions \ {bound, replacement} : lease'[s] = lease[s]
             /\ services'[s] = services[s]
  BY <1>1, <1>2 DEF IInv, EntryTypeOK
<1>5. UNCHANGED <<entry, stage, pending, bound, current, selected, composed, providers, closer,
          stopped, switches>>
  BY DEF ClosePrevious, Switching
<1>6. lease' \in [EntrySessions -> BOOLEAN] /\ services' \in [EntrySessions -> ServiceStates]
  BY <1>1, <1>3 DEF IInv, EntryTypeOK, ServiceStates
<1>7. EntryTypeOK' /\ Selections'
  BY <1>1, <1>3, <1>5, <1>6 DEF IInv, EntryTypeOK, ClosePrevious, Switching, SessionsOrNone,
     Selections, runVars
<1>8. RunFacts' /\ NoRunIsActive'
  BY <1>2, QuietFrame DEF ClosePrevious, Switching
<1>9. SessionFacts'
  <2> USE DEF IInv, EntryTypeOK, SessionFacts, Composition, Replacing, Sessions, Binding,
          NoSessionIsLost, Undecided, Ready, Broken
  <2>1. CASE o.failed
    <3>1. switch' = "idle" /\ replacement' = NoSession /\ services'[replacement] = how
      BY <1>1, <1>4, <2>1
    <3>2. ~lease'[replacement]
      BY <1>4, <2>1
    <3> QED
      BY <1>2, <1>3, <1>4, <1>5, <1>8, <2>1, <3>1, <3>2
  <2>2. CASE ~o.failed
    <3>1. switch' = "commit" /\ UNCHANGED replacement /\ lease'[replacement]
              /\ services'[replacement] = services[replacement]
      BY <1>1, <1>4, <2>2
    <3> QED
      BY <1>2, <1>3, <1>4, <1>5, <1>8, <2>2, <3>1
  <2> QED
    BY <2>1, <2>2
<1> QED
  BY <1>7, <1>8, <1>9 DEF IInv

LEMMA CommitSwitchPreserves ==
  ASSUME IInv, CommitSwitch
  PROVE  IInv'
<1>1. EntryTypeOK' /\ Selections'
  BY DEF CommitSwitch, Switching, IInv, EntryTypeOK, Selections, sessionVars, runVars
<1>2. stage = Ready /\ NoRunIsActive /\ switch = "commit" /\ switch' = "bind"
          /\ current' = replacement
  BY DEF CommitSwitch, IInv, SessionFacts, Replacing
<1>3. RunFacts' /\ NoRunIsActive'
  BY <1>2, QuietFrame DEF CommitSwitch, Switching
<1>4. SessionFacts'
  BY <1>2, <1>3 DEF CommitSwitch, Switching, IInv, EntryTypeOK, SessionFacts, Composition,
     Sessions, Replacing, Binding, Undecided, NoSessionIsLost, Ready, Broken, sessionVars,
     NoSession, EntrySessions
<1> QED
  BY <1>1, <1>3, <1>4 DEF IInv

LEMMA BindNextPreserves ==
  ASSUME IInv, BindNext
  PROVE  IInv'
<1>1. selected' \in [model : Models, mode : {"default", "plan"}] /\ selected'.model = selected.model
  BY DEF BindNext, IInv, EntryTypeOK
<1>2. EntryTypeOK' /\ Selections'
  BY <1>1 DEF BindNext, Switching, IInv, EntryTypeOK, Selections, SessionsOrNone, sessionVars,
     runVars
<1>3. stage = Ready /\ NoRunIsActive /\ switch = "bind" /\ switch' = "idle" /\ bound' = replacement
  BY DEF BindNext, IInv, SessionFacts, Replacing
<1>4. RunFacts' /\ NoRunIsActive'
  BY <1>3, QuietFrame DEF BindNext, Switching
<1>5. SessionFacts'
  BY <1>3, <1>4 DEF BindNext, Switching, IInv, EntryTypeOK, SessionFacts, Composition, Sessions,
     Replacing, Binding, Undecided, NoSessionIsLost, Ready, Broken, sessionVars
<1> QED
  BY <1>2, <1>4, <1>5 DEF IInv

-----------------------------------------------------------------------------
(* The end.                                                                  *)

LEMMA BeginClosePreserves ==
  ASSUME IInv, BeginClose
  PROVE  IInv'
<1>1. closer' \in Ends /\ closer'.st = "wait" /\ closer'.session = closer.session
  BY DEF BeginClose, IInv, EntryTypeOK, Ends
<1>2. EntryTypeOK' /\ Selections'
  BY <1>1 DEF BeginClose, Closing, IInv, EntryTypeOK, Selections, sessionVars, runVars, chosenVars
<1>3. SessionFacts'
  BY <1>1 DEF BeginClose, Closing, IInv, EntryTypeOK, SessionFacts, Composition, Sessions,
     Replacing, Binding, Undecided, NoSessionIsLost, NoRunIsActive, InProgress, Ready, Broken,
     sessionVars, runVars, chosenVars
<1>4. entry # "tui" => NoRunIsActive
  BY DEF BeginClose, IInv, EntryTypeOK, RunFacts, RunsHold, NoRunIsActive, InProgress
<1>5. RunFacts'
  BY <1>1, <1>4 DEF BeginClose, Closing, IInv, EntryTypeOK, RunFacts, RunsHold, Resources,
     Extractions, InProgress, NoRunIsActive, Undecided, sessionVars, runVars
<1> QED
  BY <1>2, <1>3, <1>5 DEF IInv

LEMMA WaitEndsPreserves ==
  ASSUME IInv, WaitEnds
  PROVE  IInv'
<1> DEFINE taken == IF entry = "tui" THEN current ELSE 1
<1>0. stage = Ready
  BY DEF WaitEnds, IInv, SessionFacts, Composition
<1>1. taken \in EntrySessions
  BY <1>0, FirstSession DEF WaitEnds, IInv, EntryTypeOK, SessionFacts, Replacing, Undecided,
     SessionsOrNone
<1>2. closer' = [st |-> "recover", session |-> taken, failed |-> extracting # {}]
  BY DEF WaitEnds
<1>3. closer' \in Ends
  BY <1>1, <1>2 DEF Ends, SessionsOrNone
<1>4. EntryTypeOK' /\ Selections'
  BY <1>3 DEF WaitEnds, Closing, IInv, EntryTypeOK, SessionsOrNone, Selections, sessionVars,
     runVars, chosenVars
<1>5. SessionFacts'
  BY <1>0, <1>1, <1>2 DEF WaitEnds, Closing, IInv, EntryTypeOK, SessionFacts, Composition,
     Sessions, Replacing, Binding, Undecided, NoSessionIsLost, NoRunIsActive, InProgress, Ready,
     Broken, sessionVars, runVars, chosenVars
<1>6. closer'.st = "recover" /\ (closer'.failed <=> extracting # {})
  BY <1>2
<1>7. RunFacts'
  BY <1>6 DEF WaitEnds, Closing, IInv, EntryTypeOK, RunFacts, RunsHold, Resources, Extractions,
     InProgress, NoRunIsActive, Undecided, sessionVars, runVars
<1> QED
  BY <1>4, <1>5, <1>7 DEF IInv

LEMMA CloserRecoversPreserves ==
  ASSUME IInv, CloserRecovers
  PROVE  IInv'
<1>1. stage = Ready /\ closer.session \in EntrySessions
  BY DEF CloserRecovers, IInv, SessionFacts, Composition, Sessions, Undecided
<1>2. pending' \in [EntrySessions -> RunsOrNone]
  BY DEF CloserRecovers, Recover, RunsOrNone, IInv, EntryTypeOK
<1>3. closer' \in Ends /\ closer'.st = "close" /\ closer'.session = closer.session
          /\ (closer.failed => closer'.failed)
  BY DEF CloserRecovers, IInv, EntryTypeOK, Ends
<1>4. EntryTypeOK' /\ Selections'
  BY <1>2, <1>3 DEF CloserRecovers, Closing, IInv, EntryTypeOK, Selections, runVars, chosenVars
<1>5. SessionFacts'
  BY <1>1, <1>3 DEF CloserRecovers, Closing, IInv, EntryTypeOK, SessionFacts, Composition,
     Sessions, Replacing, Binding, Undecided, NoSessionIsLost, NoRunIsActive, InProgress, Ready,
     Broken, runVars, chosenVars
<1>6. RunFacts'
  BY <1>3 DEF CloserRecovers, Closing, IInv, EntryTypeOK, RunFacts, RunsHold, Resources,
     Extractions, InProgress, NoRunIsActive, Undecided, runVars
<1> QED
  BY <1>4, <1>5, <1>6 DEF IInv

LEMMA CloserClosesPreserves ==
  ASSUME IInv, CloserCloses
  PROVE  IInv'
<1> DEFINE s == closer.session
<1>1. PICK o \in CloseOutcomes(s) :
        /\ lease' = [lease EXCEPT ![s] = o.lease]
        /\ services' = [services EXCEPT ![s] = o.services]
        /\ closer' = [closer EXCEPT !.st = "done", !.failed = @ \/ o.failed]
  BY DEF CloserCloses
<1>2. stage = Ready /\ s \in EntrySessions /\ gate[s] = NoRun /\ closer.st = "close"
  BY DEF CloserCloses, IInv, SessionFacts, Composition, Sessions, Undecided
<1>3. /\ o.lease \in BOOLEAN /\ o.failed \in BOOLEAN /\ o.services \in ServiceStates \ {"open"}
      /\ o.services = "none" => services[s] = "none"
      /\ o.lease => o.failed /\ lease[s]
  BY <1>2, ClosingOutcomes DEF IInv, SessionFacts, Sessions
<1>4. /\ lease'[s] = o.lease /\ services'[s] = o.services
      /\ \A t \in EntrySessions \ {s} : lease'[t] = lease[t] /\ services'[t] = services[t]
  BY <1>1, <1>2 DEF IInv, EntryTypeOK
<1>5. closer' \in Ends /\ closer'.st = "done" /\ closer'.session = s
          /\ closer'.failed = (closer.failed \/ o.failed)
  BY <1>1, <1>3 DEF IInv, EntryTypeOK, Ends
<1>6. UNCHANGED <<entry, stage, pending, bound, current, switch, replacement, runVars,
          chosenVars, stopped>>
  BY DEF CloserCloses, Closing
<1>7. lease' \in [EntrySessions -> BOOLEAN] /\ services' \in [EntrySessions -> ServiceStates]
  BY <1>1, <1>3 DEF IInv, EntryTypeOK, ServiceStates
<1>8. EntryTypeOK' /\ Selections'
  BY <1>5, <1>6, <1>7 DEF IInv, EntryTypeOK, Selections, runVars, chosenVars
<1>9. SessionFacts'
  BY <1>2, <1>3, <1>4, <1>5, <1>6 DEF IInv, EntryTypeOK, SessionFacts, Composition, Sessions,
     Replacing, Binding, Undecided, NoSessionIsLost, NoRunIsActive, InProgress, Ready, Broken,
     runVars, chosenVars
<1>10. \A r \in EntryRuns : runs[r].st \in Holding => bound # s
  BY <1>2 DEF IInv, RunFacts, RunsHold, EntryRuns, NoRun
<1>11. bound \in EntrySessions
  BY <1>2 DEF IInv, SessionFacts, Sessions
<1>12. RunFacts'
  BY <1>2, <1>4, <1>5, <1>6, <1>10, <1>11
  DEF IInv, EntryTypeOK, RunFacts, RunsHold, Resources, Extractions, InProgress, NoRunIsActive,
      Undecided, runVars
<1> QED
  BY <1>8, <1>9, <1>12 DEF IInv

-----------------------------------------------------------------------------

LEMMA NextPreserves ==
  ASSUME IInv, EntryNext
  PROVE  IInv'
<1>1. ASSUME NEW r \in EntryRuns,
             \/ StartRun(r) \/ AdmitRun(r) \/ AssembleJournals(r) \/ AssembleTuiModel(r)
             \/ AssembleModel(r) \/ AssembleTools(r) \/ AssembleContext(r) \/ ApprovePlan(r)
             \/ EngineEnds(r) \/ FinishRun(r) \/ AfterRun(r) \/ ExtractionEnds(r)
      PROVE  IInv'
  BY <1>1, StartRunPreserves, AdmitRunPreserves, AssembleJournalsPreserves,
     AssembleTuiModelPreserves, AssembleModelPreserves, AssembleToolsPreserves,
     AssembleContextPreserves, ApprovePlanPreserves, EngineEndsPreserves, FinishRunPreserves,
     AfterRunPreserves, ExtractionEndsPreserves
<1> QED
  BY <1>1, ComposedPreserves, CompositionFailsPreserves, ChangeModelPreserves, ChangeModePreserves,
     BeginSwitchPreserves, RecoverPreviousPreserves, ClosePreviousPreserves, CommitSwitchPreserves,
     BindNextPreserves, BeginClosePreserves, WaitEndsPreserves, CloserRecoversPreserves,
     CloserClosesPreserves
  DEF EntryNext

\* Sessions, selections, runs and extractions fit together in every reachable state.
THEOREM Invariance == EntrySpec => []IInv
<1>1. IInv /\ UNCHANGED entryVars => IInv'
  BY DEF entryVars, sessionVars, switchVars, runVars, chosenVars, IInv, EntryTypeOK, SessionFacts,
     Composition, Sessions, Replacing, Binding, RunFacts, RunsHold, Resources, Extractions,
     Selections, Undecided, NoSessionIsLost, NoRunIsActive, InProgress
<1> QED
  BY <1>1, InitEstablishes, NextPreserves, PTL DEF EntrySpec

\* The variables of the entry points keep their types (tui_runtime.go, cli_runtime.go,
\* autodev_runtime.go).
THEOREM TypeCorrect == EntrySpec => []EntryTypeOK
  BY Invariance, PTL DEF IInv

\* No session is lost, prompts, reviews and forks agree on session and model, runs keep
\* their resources and extractions their owner, for any number of sessions and runs.
THEOREM EntriesStayExact == EntrySpec => []EntriesAreExact
<1>1. IInv => SelectionsAgree
  BY DEF IInv, EntryTypeOK, SessionFacts, Replacing, Selections, SelectionsAgree, Undecided
<1>2. IInv => BoundSessionIsOpen
  BY DEF IInv, SessionFacts, Binding, BoundSessionIsOpen, Undecided
<1>3. IInv => ResourcesFollowRuns
  BY DEF IInv, EntryTypeOK, RunFacts, RunsHold, Resources, ResourcesFollowRuns, InProgress,
     Holding, Assembled
<1>4. IInv => ExtractionIsOwned
  BY DEF IInv, EntryTypeOK, RunFacts, Extractions, ExtractionIsOwned, Undecided
<1>5. IInv => NoSessionIsLost
  BY DEF IInv, SessionFacts, Sessions
<1> QED
  BY <1>1, <1>2, <1>3, <1>4, <1>5, Invariance, PTL DEF EntriesAreExact

-----------------------------------------------------------------------------
(* The terminal.                                                              *)

OpStages  == {"none", "lock", "admission", "turn", "waiting", "shell", "prep", "sent", "done"}
Results == {"ok", "failed", "cancelled"}
Operations == [st : OpStages, cancelled : BOOLEAN, asks : Nat]
Commands == [kind : {"none", "compact", "new"}, st : {"none", "waiting", "ok", "failed"}]
Restores == [gen : Nat, st : {"scheduled", "current", "picked", "over"}, target : Nat, in : Nat]

Request(k, o) == [type |-> "request", kind |-> k, op |-> o]
Requests(k)   == {msg \in mail : msg.type = "request" /\ msg.kind = k}

\* The messages that an operation sends when it is over.
Endings == [type : {"finished"}, op : Ops, res : Results]
           \cup [type : {"shell"}, op : Ops]
           \cup [type : {"ready"}, op : Ops, res : {"over", "inline"}]

IsOver(o) == op[o].st \in {"none", "done"}

ScreenTypeOK ==
    /\ TypeOK
    /\ op \in [Ops -> Operations]
    /\ mail \subseteq [type : {"request"}, kind : Kinds, op : Ops] \cup Endings
    /\ command \in Commands /\ restores \subseteq Restores
    /\ session \in Nat /\ inputs \in Nat /\ takenOver \in BOOLEAN

\* Operations are numbered in turn, and there is a number for each queued prompt.
NumbersFit ==
    /\ opSeq + Len(queue) <= inputs /\ inputs <= MaxInputs
    /\ \A o \in Ops : o > opSeq => op[o].st = "none"

\* The three places where the reader of a bridge can be.
OneReaderEach ==
    \A k \in Kinds :
        \/ listening[k] /\ form[k] = None /\ Requests(k) = {}
        \/ ~listening[k] /\ form[k] # None /\ Requests(k) = {}
        \/ ~listening[k] /\ form[k] = None /\ \E o \in Ops : Requests(k) = {Request(k, o)}

\* An operation has sent its message once, and does nothing while it is on its way.
MailFits ==
    /\ \A msg \in mail : msg.type # "request" => op[msg.op].st = "sent"
    /\ \A msg, other \in mail :
          msg.type # "request" /\ other.type # "request" /\ msg.op = other.op => msg = other

\* Locks are held by operations that will give them back.
LocksFit ==
    /\ runMu # None => op[runMu].st \in {"admission", "turn", "waiting"}
    /\ sessionGate # None => op[sessionGate].st \in {"turn", "waiting"}

\* Unless a prompt command took the screen over, only the active operation does
\* anything, and nothing does while the screen is idle or a command is under way.
OnlyActiveRuns ==
    ~takenOver =>
        /\ \A o \in Ops : o # active => IsOver(o)
        /\ ~running => command.st = "none" /\ \A o \in Ops : IsOver(o)
        /\ active # None /\ ~IsOver(active) => command.st = "none"

ScreenInv ==
    /\ ScreenTypeOK /\ NumbersFit /\ OneReaderEach /\ MailFits /\ LocksFit
    /\ RunningWillEnd /\ OnlyActiveRuns

USE BoundsAssumption DEF None, Ops

\* The bounds are numbers, and no operation is numbered 0.
LEMMA BoundsFit == MaxInputs \in Nat /\ MaxAsks \in Nat /\ None \notin Ops
  BY SMT

\* Changes of one operation keep the table well formed.
LEMMA OneOperation ==
    ASSUME NEW ops \in [Ops -> Operations], NEW o \in Ops, NEW st \in OpStages
    PROVE  /\ [ops EXCEPT ![o] = Operation(st)] \in [Ops -> Operations]
           /\ [ops EXCEPT ![o] = Operation(st)][o].st = st
           /\ [ops EXCEPT ![o].st = st] \in [Ops -> Operations]
           /\ [ops EXCEPT ![o].st = st][o].st = st
           /\ [ops EXCEPT ![o].cancelled = TRUE] \in [Ops -> Operations]
           /\ [ops EXCEPT ![o].cancelled = TRUE][o].st = ops[o].st
<1>1. Operation(st) \in Operations /\ Operation(st).st = st
  BY DEF Operations, Operation
<1>2. ops[o] \in Operations
  OBVIOUS
<1>3. [ops[o] EXCEPT !.st = st] \in Operations /\ [ops[o] EXCEPT !.st = st].st = st
  BY <1>2 DEF Operations
<1>4. [ops[o] EXCEPT !.cancelled = TRUE] \in Operations /\ [ops[o] EXCEPT !.cancelled = TRUE].st = ops[o].st
  BY <1>2 DEF Operations
<1>5. QED
  BY <1>1, <1>3, <1>4

\* What an operation did to the others: at most, it let them stop waiting for the user.
OthersGoOn(ops, o) ==
    /\ ops \in [Ops -> Operations]
    /\ \A p \in Ops \ {o} : \/ ops[p].st = op[p].st
                            \/ op[p].st = "waiting" /\ ops[p].st = "turn"

LEMMA EndedFacts ==
    ASSUME ScreenTypeOK, NEW o \in Ops
    PROVE  OthersGoOn(Ended(op, o), o) /\ Ended(op, o)[o].st = "done"
<1>1. op \in [Ops -> Operations] /\ "done" \in OpStages
  BY DEF ScreenTypeOK, OpStages
<1>2. Ended(op, o) \in [Ops -> Operations] /\ Ended(op, o)[o].st = "done"
  BY <1>1, OneOperation DEF Ended
<1>3. \A p \in Ops \ {o} : Ended(op, o)[p] = op[p]
  BY <1>1 DEF Ended
<1>4. QED
  BY <1>2, <1>3 DEF OthersGoOn

LEMMA AnsweredFacts ==
    ASSUME NEW ops \in [Ops -> Operations], NEW kinds
    PROVE  /\ Answered(ops, kinds) \in [Ops -> Operations]
           /\ \A p \in Ops : \/ Answered(ops, kinds)[p].st = ops[p].st
                             \/ ops[p].st = "waiting" /\ Answered(ops, kinds)[p].st = "turn"
<1>1. ASSUME NEW p \in Ops
      PROVE  /\ [ops[p] EXCEPT !.st = "turn"] \in Operations
             /\ [ops[p] EXCEPT !.st = "turn"].st = "turn"
  BY DEF Operations, OpStages
<1>2. QED
  BY <1>1 DEF Answered

LEMMA BegunFacts ==
    ASSUME NEW ops \in [Ops -> Operations], NEW st \in OpStages, opSeq + 1 \in Ops
    PROVE  /\ Begun(ops, st) \in [Ops -> Operations]
           /\ Begun(ops, st)[opSeq + 1].st = st
           /\ \A p \in Ops : p # opSeq + 1 => Begun(ops, st)[p] = ops[p]
  BY OneOperation DEF Begun

\* The requests on their way are the same when only other messages come and go.
LEMMA SameRequests ==
    ASSUME \A msg : msg.type = "request" => (msg \in mail' <=> msg \in mail)
    PROVE  \A k : Requests(k)' = Requests(k)
  BY DEF Requests

LEMMA SameReaders ==
    ASSUME OneReaderEach, UNCHANGED <<listening, form>>, \A k : Requests(k)' = Requests(k)
    PROVE  OneReaderEach'
  BY DEF OneReaderEach, Request

\* An operation begins while nothing runs, or a prompt command takes the screen over.
LEMMA BeginningKeeps ==
    ASSUME ScreenInv, NEW ops, OthersGoOn(ops, None), NEW st \in {"lock", "shell", "prep"},
           BeginOperation, op' = Begun(ops, st), takenOver' = (takenOver \/ running),
           opSeq' + Len(queue') <= inputs', inputs' <= MaxInputs, Len(queue') \in Nat, inputs' \in Nat,
           UNCHANGED <<mail, command, runMu, sessionGate>>
    PROVE  NumbersFit' /\ MailFits' /\ LocksFit' /\ RunningWillEnd' /\ OnlyActiveRuns'
<1>0. opSeq + 1 \in Ops /\ opSeq' = opSeq + 1 /\ st \in OpStages
  BY DEF ScreenInv, ScreenTypeOK, TypeOK, BeginOperation, OpStages
<1>a. opSeq \in Nat /\ MaxInputs \in Nat
  BY BoundsFit DEF ScreenInv, ScreenTypeOK, TypeOK
<1>b. op'[opSeq + 1].st = st
  BY <1>0, BegunFacts DEF OthersGoOn
<1>c. op[opSeq + 1].st = "none"
  BY <1>0, <1>a DEF ScreenInv, NumbersFit
<1>1. op'[opSeq + 1].st = st /\ op[opSeq + 1].st = "none"
  BY <1>b, <1>c
<1>2. \A p \in Ops : p # opSeq + 1 => \/ op'[p].st = op[p].st
                                      \/ op[p].st = "waiting" /\ op'[p].st = "turn"
  BY <1>0, BegunFacts DEF OthersGoOn
<1>3. NumbersFit'
  <2>1. ASSUME NEW p \in Ops, p > opSeq' PROVE op'[p].st = "none"
    <3>1. p # opSeq + 1 /\ p > opSeq
      BY <1>0, <1>a, <2>1
    <3>2. op[p].st = "none"
      BY <3>1 DEF ScreenInv, NumbersFit
    <3>3. QED
      BY <1>2, <3>1, <3>2
  <2>2. QED
    BY <2>1 DEF NumbersFit
<1>4. MailFits'
  BY <1>1, <1>2 DEF MailFits, ScreenInv, ScreenTypeOK, Endings
<1>5. LocksFit'
  BY <1>1, <1>2 DEF LocksFit, ScreenInv, ScreenTypeOK, TypeOK
<1>6. RunningWillEnd'
  BY <1>0, <1>1 DEF RunningWillEnd, BeginOperation
<1>7. OnlyActiveRuns'
  BY <1>0, <1>1, <1>2 DEF OnlyActiveRuns, IsOver, BeginOperation, ScreenInv
<1>8. QED
  BY <1>3, <1>4, <1>5, <1>6, <1>7

\* The active operation's message is received, and the next queued prompt starts or none.
LEMMA EndingKeeps ==
    ASSUME ScreenInv, NEW o \in Ops, active = o, NEW msg \in mail, msg.type # "request", msg.op = o,
           mail' = mail \ {msg}, NEW ops, OthersGoOn(ops, o), ops[o].st = "done",
           \/ op' = ops /\ running' = FALSE /\ active' = None /\ cancelRun' = None
              /\ UNCHANGED <<opSeq, queue>>
           \/ queue # <<>> /\ queue' = Tail(queue) /\ BeginOperation /\ op' = Begun(ops, "lock"),
           UNCHANGED <<command, runMu, sessionGate, inputs, takenOver>>
    PROVE  NumbersFit' /\ MailFits' /\ LocksFit' /\ RunningWillEnd' /\ OnlyActiveRuns'
<1>1. op[o].st = "sent"
  BY DEF ScreenInv, MailFits
<1>2. o <= opSeq
  BY <1>1 DEF ScreenInv, NumbersFit, ScreenTypeOK, TypeOK
<1>a. opSeq \in Nat /\ MaxInputs \in Nat
  BY BoundsFit DEF ScreenInv, ScreenTypeOK, TypeOK
<1>3. \A other \in mail' : other.type # "request" => other.op # o /\ other.op \in Ops
  BY DEF ScreenInv, MailFits, ScreenTypeOK, Endings
<1>4. command.st = "none" \/ takenOver
  BY <1>1 DEF ScreenInv, OnlyActiveRuns, IsOver
<1>5. CASE op' = ops /\ running' = FALSE /\ active' = None /\ cancelRun' = None
              /\ UNCHANGED <<opSeq, queue>>
  <2>1. NumbersFit'
    <3>1. ASSUME NEW p \in Ops, p > opSeq PROVE ops[p].st = "none"
      BY <1>2, <1>a, <3>1 DEF NumbersFit, ScreenInv, OthersGoOn
    <3>2. QED
      BY <1>5, <3>1 DEF NumbersFit, ScreenInv
  <2>2. MailFits'
    BY <1>3, <1>5 DEF MailFits, ScreenInv, OthersGoOn
  <2>3. LocksFit'
    BY <1>1, <1>5 DEF LocksFit, ScreenInv, ScreenTypeOK, TypeOK, OthersGoOn
  <2>4. RunningWillEnd'
    BY <1>5 DEF RunningWillEnd
  <2>5. OnlyActiveRuns'
    BY <1>4, <1>5 DEF OnlyActiveRuns, IsOver, ScreenInv, OthersGoOn
  <2>6. QED
    BY <2>1, <2>2, <2>3, <2>4, <2>5
<1>6. CASE queue # <<>> /\ queue' = Tail(queue) /\ BeginOperation /\ op' = Begun(ops, "lock")
  <2>0. Len(queue') = Len(queue) - 1 /\ Len(queue) \in Nat /\ Len(queue) > 0
    BY <1>6 DEF ScreenInv, ScreenTypeOK, TypeOK
  <2>1. opSeq + 1 \in Ops /\ opSeq' = opSeq + 1
    BY <1>6, <2>0 DEF ScreenInv, NumbersFit, ScreenTypeOK, TypeOK, BeginOperation
  <2>2. op'[opSeq + 1].st = "lock" /\ op[opSeq + 1].st = "none"
    <3>1. op'[opSeq + 1].st = "lock"
      BY <1>6, <2>1, BegunFacts DEF OthersGoOn, OpStages
    <3>2. op[opSeq + 1].st = "none"
      BY <1>a, <2>1 DEF ScreenInv, NumbersFit
    <3>3. QED
      BY <3>1, <3>2
  <2>3. op'[o].st = "done"
    <3>1. o # opSeq + 1
      BY <1>2, <1>a
    <3>2. Begun(ops, "lock")[o] = ops[o]
      BY <2>1, <3>1, BegunFacts DEF OthersGoOn, OpStages
    <3>3. QED
      BY <1>6, <3>2
  <2>4. \A p \in Ops : p # opSeq + 1 /\ p # o => \/ op'[p].st = op[p].st
                                                 \/ op[p].st = "waiting" /\ op'[p].st = "turn"
    BY <1>6, <2>1, BegunFacts DEF OthersGoOn, OpStages
  <2>5. NumbersFit'
    <3>1. ASSUME NEW p \in Ops, p > opSeq' PROVE op'[p].st = "none"
      <4>1. p # opSeq + 1 /\ p # o /\ p > opSeq
        BY <1>2, <1>a, <2>1, <3>1
      <4>2. op[p].st = "none"
        BY <4>1 DEF ScreenInv, NumbersFit
      <4>3. QED
        BY <2>4, <4>1, <4>2
    <3>2. opSeq' + Len(queue') <= inputs' /\ inputs' <= MaxInputs
      <4>1. opSeq + Len(queue) <= inputs /\ inputs <= MaxInputs /\ inputs \in Nat
        BY DEF ScreenInv, NumbersFit, ScreenTypeOK
      <4>2. QED
        BY <1>a, <2>0, <2>1, <4>1
    <3>3. QED
      BY <3>1, <3>2 DEF NumbersFit
  <2>6. MailFits'
    BY <1>3, <2>2, <2>4 DEF MailFits, ScreenInv
  <2>7. LocksFit'
    BY <1>1, <2>2, <2>4 DEF LocksFit, ScreenInv, ScreenTypeOK, TypeOK
  <2>8. RunningWillEnd'
    BY <1>6, <2>1, <2>2 DEF RunningWillEnd, BeginOperation
  <2>9. OnlyActiveRuns'
    BY <1>4, <1>6, <2>1, <2>3, <2>4 DEF OnlyActiveRuns, IsOver, BeginOperation, ScreenInv
  <2>10. QED
    BY <2>5, <2>6, <2>7, <2>8, <2>9
<1>7. QED
  BY <1>5, <1>6

\* A withdrawn request leaves requests.
LEMMA WithdrawnType ==
    ASSUME NEW requests \in Seq(Ops), NEW o
    PROVE  Withdrawn(requests, o) \in Seq(Ops)
<1>1. CASE \E i \in DOMAIN requests : requests[i] = o
  <2> DEFINE i == CHOOSE j \in DOMAIN requests : requests[j] = o
  <2>1. i \in 1..Len(requests)
    BY <1>1
  <2> HIDE DEF i
  <2>a. Len(requests) \in Nat /\ \A j \in 1..Len(requests) : requests[j] \in Ops
    BY LenProperties, ElementOfSeq
  <2>b. i - 1 \in Int /\ i + 1 \in Int /\ \A j \in 1..(i - 1) : j \in 1..Len(requests)
    BY <2>1, <2>a
  <2>c. \A j \in (i + 1)..Len(requests) : j \in 1..Len(requests)
    BY <2>1, <2>a
  <2>d. SubSeq(requests, 1, i - 1) \in Seq(Ops)
    BY <2>a, <2>b, SubSeqProperties
  <2>e. SubSeq(requests, i + 1, Len(requests)) \in Seq(Ops)
    BY <2>a, <2>b, <2>c, SubSeqProperties
  <2>2. SubSeq(requests, 1, i - 1) \in Seq(Ops) /\ SubSeq(requests, i + 1, Len(requests)) \in Seq(Ops)
    BY <2>d, <2>e
  <2>3. SubSeq(requests, 1, i - 1) \o SubSeq(requests, i + 1, Len(requests)) \in Seq(Ops)
    BY <2>2
  <2>4. QED
    BY <1>1, <2>3 DEF Withdrawn, i
<1>2. CASE ~\E i \in DOMAIN requests : requests[i] = o
  BY <1>2 DEF Withdrawn
<1>3. QED
  BY <1>1, <1>2

\* The log keeps its form when its last prompt is answered.
LEMMA AnsweredLog ==
    ASSUME NEW s \in Seq([op : Ops, answered : BOOLEAN])
    PROVE  [s EXCEPT ![Len(s)].answered = TRUE] \in Seq([op : Ops, answered : BOOLEAN])
<1>1. s \in [1..Len(s) -> [op : Ops, answered : BOOLEAN]] /\ Len(s) \in Nat
  BY LenProperties
<1>2. [s EXCEPT ![Len(s)].answered = TRUE] \in [1..Len(s) -> [op : Ops, answered : BOOLEAN]]
  BY <1>1
<1>3. QED
  BY <1>1, <1>2

LEMMA SubmitPromptStep ==
    ASSUME ScreenInv, SubmitPrompt
    PROVE  ScreenInv'
<1>1. inputs + 1 \in 1..MaxInputs /\ inputs' = inputs + 1 /\ Len(queue) \in Nat
  BY BoundsFit DEF SubmitPrompt, ScreenInv, ScreenTypeOK, TypeOK
<1>2. UNCHANGED <<mail, command, restores, runMu, sessionGate, session, log, form, answered, dialog, listening,
                  bridge, takenOver>>
  BY DEF SubmitPrompt, store
<1>3. OneReaderEach'
  BY <1>2 DEF ScreenInv, OneReaderEach, Requests, Request
<1>4. CASE running
  <2>1. queue' = Append(queue, inputs + 1) /\ UNCHANGED <<running, active, opSeq, cancelRun, restoring, op>>
    BY <1>4 DEF SubmitPrompt
  <2>2. queue' \in Seq(1..MaxInputs) /\ Len(queue') = Len(queue) + 1
    BY <1>1, <2>1 DEF ScreenInv, ScreenTypeOK, TypeOK
  <2>3. ScreenTypeOK'
    BY <1>1, <1>2, <2>1, <2>2 DEF ScreenInv, ScreenTypeOK, TypeOK
  <2>4. NumbersFit'
    BY <1>1, <2>1, <2>2, BoundsFit DEF NumbersFit, ScreenInv, ScreenTypeOK, TypeOK
  <2>5. MailFits' /\ LocksFit' /\ RunningWillEnd' /\ OnlyActiveRuns'
    BY <1>2, <2>1 DEF ScreenInv, MailFits, LocksFit, RunningWillEnd, OnlyActiveRuns, IsOver
  <2>6. QED
    BY <1>3, <2>3, <2>4, <2>5 DEF ScreenInv
<1>5. CASE ~running
  <2>1. opSeq + 1 \in Ops /\ opSeq \in Nat
    BY <1>1, BoundsFit DEF ScreenInv, ScreenTypeOK, TypeOK, NumbersFit
  <2>2. op' = Begun(op, "lock") /\ BeginOperation /\ restoring' = FALSE /\ queue' = queue
    BY <1>5 DEF SubmitPrompt, StartPrompt
  <2>3. op' \in [Ops -> Operations]
    BY <2>1, <2>2, BegunFacts DEF OpStages, ScreenInv, ScreenTypeOK
  <2>4. ScreenTypeOK'
    <3>1. TypeOK'
      BY <1>2, <2>1, <2>2 DEF BeginOperation, ScreenInv, ScreenTypeOK, TypeOK
    <3>2. inputs' \in Nat
      BY <1>1, BoundsFit
    <3>3. QED
      BY <1>2, <2>3, <3>1, <3>2 DEF ScreenInv, ScreenTypeOK
  <2>5. OthersGoOn(op, None) /\ takenOver' = (takenOver \/ running)
    BY <1>2, <1>5 DEF OthersGoOn, ScreenInv, ScreenTypeOK
  <2>6. opSeq' + Len(queue') <= inputs' /\ inputs' <= MaxInputs /\ inputs' \in Nat
    BY <1>1, <2>1, <2>2, BoundsFit DEF BeginOperation, ScreenInv, ScreenTypeOK, NumbersFit
  <2>7. NumbersFit' /\ MailFits' /\ LocksFit' /\ RunningWillEnd' /\ OnlyActiveRuns'
    BY <1>1, <1>2, <2>2, <2>5, <2>6, BeginningKeeps
  <2>8. QED
    BY <1>3, <2>4, <2>7 DEF ScreenInv
<1>6. QED
  BY <1>4, <1>5

LEMMA SubmitShellStep ==
    ASSUME ScreenInv, SubmitShell
    PROVE  ScreenInv'
<1>1. opSeq + 1 \in Ops /\ opSeq \in Nat
  BY BoundsFit DEF SubmitShell, ScreenInv, ScreenTypeOK, TypeOK, NumbersFit
<1>2. op' = Begun(op, "shell") /\ BeginOperation /\ UNCHANGED <<mail, command, runMu, sessionGate>>
  BY DEF SubmitShell, StartPrompt, store
<1>3. op' \in [Ops -> Operations]
  BY <1>1, <1>2, BegunFacts DEF OpStages, ScreenInv, ScreenTypeOK
<1>4. ScreenTypeOK'
  <2>1. TypeOK'
    BY <1>1 DEF SubmitShell, BeginOperation, store, ScreenInv, ScreenTypeOK, TypeOK
  <2>2. inputs' \in Nat /\ takenOver' \in BOOLEAN
    BY DEF SubmitShell, ScreenInv, ScreenTypeOK, TypeOK
  <2>3. QED
    BY <1>3, <2>1, <2>2 DEF SubmitShell, store, ScreenInv, ScreenTypeOK
<1>5. OneReaderEach'
  BY DEF SubmitShell, ScreenInv, OneReaderEach, Requests, Request
<1>6. NumbersFit' /\ MailFits' /\ LocksFit' /\ RunningWillEnd' /\ OnlyActiveRuns'
  <2>1. OthersGoOn(op, None)
    BY DEF OthersGoOn, ScreenInv, ScreenTypeOK
  <2>2. takenOver' = (takenOver \/ running)
    BY DEF SubmitShell, ScreenInv, ScreenTypeOK
  <2>3. opSeq' + Len(queue') <= inputs' /\ inputs' <= MaxInputs /\ Len(queue') \in Nat /\ inputs' \in Nat
    BY <1>1, BoundsFit DEF SubmitShell, BeginOperation, ScreenInv, ScreenTypeOK, TypeOK, NumbersFit
  <2>4. QED
    BY <1>2, <2>1, <2>2, <2>3, BeginningKeeps
<1>7. QED
  BY <1>4, <1>5, <1>6 DEF ScreenInv

LEMMA SubmitSkillStep ==
    ASSUME ScreenInv, SubmitSkill
    PROVE  ScreenInv'
<1>1. opSeq + 1 \in Ops /\ opSeq \in Nat
  BY BoundsFit DEF SubmitSkill, ScreenInv, ScreenTypeOK, TypeOK, NumbersFit
<1>2. op' = Begun(op, "prep") /\ BeginOperation /\ UNCHANGED <<mail, command, runMu, sessionGate>>
  BY DEF SubmitSkill, StartPrompt, store
<1>3. op' \in [Ops -> Operations]
  BY <1>1, <1>2, BegunFacts DEF OpStages, ScreenInv, ScreenTypeOK
<1>4. ScreenTypeOK'
  <2>1. TypeOK'
    BY <1>1 DEF SubmitSkill, BeginOperation, store, ScreenInv, ScreenTypeOK, TypeOK
  <2>2. inputs' \in Nat /\ takenOver' \in BOOLEAN
    BY DEF SubmitSkill, ScreenInv, ScreenTypeOK, TypeOK
  <2>3. QED
    BY <1>3, <2>1, <2>2 DEF SubmitSkill, store, ScreenInv, ScreenTypeOK
<1>5. OneReaderEach'
  BY DEF SubmitSkill, ScreenInv, OneReaderEach, Requests, Request
<1>6. NumbersFit' /\ MailFits' /\ LocksFit' /\ RunningWillEnd' /\ OnlyActiveRuns'
  <2>1. OthersGoOn(op, None)
    BY DEF OthersGoOn, ScreenInv, ScreenTypeOK
  <2>2. takenOver' = (takenOver \/ running)
    BY DEF SubmitSkill, ScreenInv, ScreenTypeOK
  <2>3. opSeq' + Len(queue') <= inputs' /\ inputs' <= MaxInputs /\ Len(queue') \in Nat /\ inputs' \in Nat
    BY <1>1, BoundsFit DEF SubmitSkill, BeginOperation, ScreenInv, ScreenTypeOK, TypeOK, NumbersFit
  <2>4. QED
    BY <1>2, <2>1, <2>2, <2>3, BeginningKeeps
<1>7. QED
  BY <1>4, <1>5, <1>6 DEF ScreenInv

LEMMA SubmitCommandStep ==
    ASSUME ScreenInv, NEW kind \in {"compact", "new"}, SubmitCommand(kind)
    PROVE  ScreenInv'
<1>1. ScreenTypeOK'
  BY DEF ScreenInv, SubmitCommand, store, InputFocused, ScreenTypeOK, TypeOK, Commands
<1>2. NumbersFit'
  BY DEF ScreenInv, SubmitCommand, store, InputFocused, NumbersFit, ScreenTypeOK, TypeOK
<1>3. OneReaderEach'
  BY DEF ScreenInv, SubmitCommand, store, OneReaderEach, Requests, Request
<1>4. MailFits'
  BY DEF ScreenInv, SubmitCommand, store, MailFits
<1>5. LocksFit'
  BY DEF ScreenInv, SubmitCommand, store, LocksFit
<1>6. RunningWillEnd'
  BY DEF ScreenInv, SubmitCommand, store, InputFocused, RunningWillEnd
<1>7. OnlyActiveRuns'
  BY DEF ScreenInv, SubmitCommand, store, InputFocused, OnlyActiveRuns, IsOver, ScreenTypeOK,
     TypeOK, Commands
<1>8. QED
  BY <1>1, <1>2, <1>3, <1>4, <1>5, <1>6, <1>7 DEF ScreenInv

LEMMA CtrlCStep ==
    ASSUME ScreenInv, CtrlC
    PROVE  ScreenInv'
<1>1. ScreenTypeOK'
  <2>1. op' \in [Ops -> Operations]
    BY OneOperation DEF CtrlC, ScreenInv, ScreenTypeOK, TypeOK, OpStages
  <2>2. TypeOK'
    BY BoundsFit DEF CtrlC, store, ScreenInv, ScreenTypeOK, TypeOK
  <2>3. mail' \subseteq [type : {"request"}, kind : Kinds, op : Ops] \cup Endings
    BY DEF CtrlC, store, ScreenInv, ScreenTypeOK, Endings, Results
  <2>4. QED
    BY <2>1, <2>2, <2>3 DEF CtrlC, store, ScreenInv, ScreenTypeOK
<1>2. NumbersFit'
  BY DEF ScreenInv, CtrlC, store, NumbersFit, ScreenTypeOK, TypeOK
<1>3. OneReaderEach'
  BY DEF ScreenInv, CtrlC, store, OneReaderEach, Requests, Request
<1>4. MailFits'
  BY DEF ScreenInv, CtrlC, store, MailFits, ScreenTypeOK, Endings
<1>5. LocksFit'
  BY DEF ScreenInv, CtrlC, store, LocksFit, ScreenTypeOK, TypeOK
<1>6. RunningWillEnd'
  BY DEF ScreenInv, CtrlC, store, RunningWillEnd
<1>7. OnlyActiveRuns'
  BY DEF ScreenInv, CtrlC, store, OnlyActiveRuns, IsOver
<1>8. QED
  BY <1>1, <1>2, <1>3, <1>4, <1>5, <1>6, <1>7 DEF ScreenInv

LEMMA EscapeStep ==
    ASSUME ScreenInv, Escape
    PROVE  ScreenInv'
<1>1. ScreenTypeOK'
  <2>1. op' \in [Ops -> Operations]
    BY OneOperation DEF Escape, ScreenInv, ScreenTypeOK, TypeOK, OpStages
  <2>2. TypeOK'
    BY BoundsFit DEF Escape, screen, store, ScreenInv, ScreenTypeOK, TypeOK
  <2>3. mail' \subseteq [type : {"request"}, kind : Kinds, op : Ops] \cup Endings
    BY DEF Escape, screen, store, ScreenInv, ScreenTypeOK, Endings, Results
  <2>4. QED
    BY <2>1, <2>2, <2>3 DEF Escape, screen, store, ScreenInv, ScreenTypeOK
<1>2. NumbersFit'
  BY DEF ScreenInv, Escape, screen, store, NumbersFit, ScreenTypeOK, TypeOK
<1>3. OneReaderEach'
  BY DEF ScreenInv, Escape, screen, store, OneReaderEach, Requests, Request
<1>4. MailFits'
  BY DEF ScreenInv, Escape, screen, store, MailFits, ScreenTypeOK, Endings
<1>5. LocksFit'
  BY DEF ScreenInv, Escape, screen, store, LocksFit, ScreenTypeOK, TypeOK
<1>6. RunningWillEnd'
  BY DEF ScreenInv, Escape, screen, store, RunningWillEnd
<1>7. OnlyActiveRuns'
  BY DEF ScreenInv, Escape, screen, store, OnlyActiveRuns, IsOver
<1>8. QED
  BY <1>1, <1>2, <1>3, <1>4, <1>5, <1>6, <1>7 DEF ScreenInv

LEMMA OpenSettingsStep ==
    ASSUME ScreenInv, OpenSettings
    PROVE  ScreenInv'
<1>1. ScreenTypeOK'
  BY DEF ScreenInv, OpenSettings, workers, store, ScreenTypeOK, TypeOK
<1>2. NumbersFit'
  BY DEF ScreenInv, OpenSettings, workers, store, NumbersFit
<1>3. OneReaderEach'
  BY DEF ScreenInv, OpenSettings, workers, store, OneReaderEach, Requests, Request
<1>4. MailFits'
  BY DEF ScreenInv, OpenSettings, workers, store, MailFits
<1>5. LocksFit'
  BY DEF ScreenInv, OpenSettings, workers, store, LocksFit
<1>6. RunningWillEnd'
  BY DEF ScreenInv, OpenSettings, workers, store, RunningWillEnd
<1>7. OnlyActiveRuns'
  BY DEF ScreenInv, OpenSettings, workers, store, OnlyActiveRuns, IsOver
<1>8. QED
  BY <1>1, <1>2, <1>3, <1>4, <1>5, <1>6, <1>7 DEF ScreenInv

LEMMA OpenRewindSelectorStep ==
    ASSUME ScreenInv, OpenRewindSelector
    PROVE  ScreenInv'
<1>1. ScreenTypeOK'
  BY DEF ScreenInv, OpenRewindSelector, workers, store, ScreenTypeOK, TypeOK
<1>2. NumbersFit'
  BY DEF ScreenInv, OpenRewindSelector, workers, store, NumbersFit
<1>3. OneReaderEach'
  BY DEF ScreenInv, OpenRewindSelector, workers, store, OneReaderEach, Requests, Request
<1>4. MailFits'
  BY DEF ScreenInv, OpenRewindSelector, workers, store, MailFits
<1>5. LocksFit'
  BY DEF ScreenInv, OpenRewindSelector, workers, store, LocksFit
<1>6. RunningWillEnd'
  BY DEF ScreenInv, OpenRewindSelector, workers, store, RunningWillEnd
<1>7. OnlyActiveRuns'
  BY DEF ScreenInv, OpenRewindSelector, workers, store, OnlyActiveRuns, IsOver
<1>8. QED
  BY <1>1, <1>2, <1>3, <1>4, <1>5, <1>6, <1>7 DEF ScreenInv

LEMMA CloseSettingsStep ==
    ASSUME ScreenInv, CloseSettings
    PROVE  ScreenInv'
<1>1. ScreenTypeOK'
  BY DEF ScreenInv, CloseSettings, workers, store, counters, ScreenTypeOK, TypeOK
<1>2. NumbersFit'
  BY DEF ScreenInv, CloseSettings, workers, store, counters, NumbersFit
<1>3. OneReaderEach'
  BY DEF ScreenInv, CloseSettings, workers, store, counters, OneReaderEach, Requests, Request
<1>4. MailFits'
  BY DEF ScreenInv, CloseSettings, workers, store, counters, MailFits
<1>5. LocksFit'
  BY DEF ScreenInv, CloseSettings, workers, store, counters, LocksFit
<1>6. RunningWillEnd'
  BY DEF ScreenInv, CloseSettings, workers, store, counters, RunningWillEnd
<1>7. OnlyActiveRuns'
  BY DEF ScreenInv, CloseSettings, workers, store, counters, OnlyActiveRuns, IsOver
<1>8. QED
  BY <1>1, <1>2, <1>3, <1>4, <1>5, <1>6, <1>7 DEF ScreenInv

LEMMA CloseRewindSelectorStep ==
    ASSUME ScreenInv, CloseRewindSelector
    PROVE  ScreenInv'
<1>1. ScreenTypeOK'
  BY DEF ScreenInv, CloseRewindSelector, workers, store, counters, ScreenTypeOK, TypeOK
<1>2. NumbersFit'
  BY DEF ScreenInv, CloseRewindSelector, workers, store, counters, NumbersFit
<1>3. OneReaderEach'
  BY DEF ScreenInv, CloseRewindSelector, workers, store, counters, OneReaderEach, Requests, Request
<1>4. MailFits'
  BY DEF ScreenInv, CloseRewindSelector, workers, store, counters, MailFits
<1>5. LocksFit'
  BY DEF ScreenInv, CloseRewindSelector, workers, store, counters, LocksFit
<1>6. RunningWillEnd'
  BY DEF ScreenInv, CloseRewindSelector, workers, store, counters, RunningWillEnd
<1>7. OnlyActiveRuns'
  BY DEF ScreenInv, CloseRewindSelector, workers, store, counters, OnlyActiveRuns, IsOver
<1>8. QED
  BY <1>1, <1>2, <1>3, <1>4, <1>5, <1>6, <1>7 DEF ScreenInv

LEMMA SelectRewindStep ==
    ASSUME ScreenInv, SelectRewind
    PROVE  ScreenInv'
<1>1. ScreenTypeOK'
  BY DEF ScreenInv, SelectRewind, workers, store, counters, ScreenTypeOK, TypeOK
<1>2. NumbersFit'
  BY DEF ScreenInv, SelectRewind, workers, store, counters, NumbersFit
<1>3. OneReaderEach'
  BY DEF ScreenInv, SelectRewind, workers, store, counters, OneReaderEach, Requests, Request
<1>4. MailFits'
  BY DEF ScreenInv, SelectRewind, workers, store, counters, MailFits
<1>5. LocksFit'
  BY DEF ScreenInv, SelectRewind, workers, store, counters, LocksFit
<1>6. RunningWillEnd'
  BY DEF ScreenInv, SelectRewind, workers, store, counters, RunningWillEnd
<1>7. OnlyActiveRuns'
  BY DEF ScreenInv, SelectRewind, workers, store, counters, OnlyActiveRuns, IsOver
<1>8. QED
  BY <1>1, <1>2, <1>3, <1>4, <1>5, <1>6, <1>7 DEF ScreenInv

LEMMA RewindConversationStep ==
    ASSUME ScreenInv, RewindConversation
    PROVE  ScreenInv'
<1>1. ScreenTypeOK'
  <2>1. TypeOK'
    <3>1. PICK i \in 1..(Len(log) + 1) : log' = SubSeq(log, 1, i - 1)
      BY DEF RewindConversation
    <3>2. log' \in Seq([op : Ops, answered : BOOLEAN])
      <4>1. log \in Seq([op : Ops, answered : BOOLEAN]) /\ i - 1 \in 0..Len(log)
        BY <3>1 DEF ScreenInv, ScreenTypeOK, TypeOK
      <4>2. \A j \in 1..(i - 1) : log[j] \in [op : Ops, answered : BOOLEAN]
        <5>1. TAKE j \in 1..(i - 1)
        <5>2. j \in 1..Len(log)
          BY <4>1
        <5>3. QED
          BY <4>1, <5>2, ElementOfSeq
      <4>3. QED
        BY <3>1, <4>1, <4>2, SubSeqProperties
    <3>3. QED
      BY <3>2 DEF RewindConversation, workers, counters, ScreenInv, ScreenTypeOK, TypeOK
  <2>2. QED
    BY <2>1 DEF RewindConversation, workers, counters, ScreenInv, ScreenTypeOK
<1>2. NumbersFit'
  BY DEF ScreenInv, RewindConversation, workers, counters, NumbersFit
<1>3. OneReaderEach'
  BY DEF ScreenInv, RewindConversation, workers, counters, OneReaderEach, Requests, Request
<1>4. MailFits'
  BY DEF ScreenInv, RewindConversation, workers, counters, MailFits
<1>5. LocksFit'
  BY DEF ScreenInv, RewindConversation, workers, counters, LocksFit
<1>6. RunningWillEnd'
  BY DEF ScreenInv, RewindConversation, workers, counters, RunningWillEnd
<1>7. OnlyActiveRuns'
  BY DEF ScreenInv, RewindConversation, workers, counters, OnlyActiveRuns, IsOver
<1>8. QED
  BY <1>1, <1>2, <1>3, <1>4, <1>5, <1>6, <1>7 DEF ScreenInv

LEMMA AnswerFormStep ==
    ASSUME ScreenInv, NEW k \in Kinds, AnswerForm(k)
    PROVE  ScreenInv'
<1>1. ScreenTypeOK'
  BY DEF ScreenInv, AnswerForm, workers, store, counters, ScreenTypeOK, TypeOK
<1>2. NumbersFit'
  BY DEF ScreenInv, AnswerForm, workers, store, counters, NumbersFit
<1>3. OneReaderEach'
  BY DEF ScreenInv, AnswerForm, workers, store, counters, OneReaderEach, Requests, Request
<1>4. MailFits'
  BY DEF ScreenInv, AnswerForm, workers, store, counters, MailFits
<1>5. LocksFit'
  BY DEF ScreenInv, AnswerForm, workers, store, counters, LocksFit
<1>6. RunningWillEnd'
  BY DEF ScreenInv, AnswerForm, workers, store, counters, RunningWillEnd
<1>7. OnlyActiveRuns'
  BY DEF ScreenInv, AnswerForm, workers, store, counters, OnlyActiveRuns, IsOver
<1>8. QED
  BY <1>1, <1>2, <1>3, <1>4, <1>5, <1>6, <1>7 DEF ScreenInv

LEMMA HandleDoneStep ==
    ASSUME ScreenInv, NEW k \in Kinds, HandleDone(k)
    PROVE  ScreenInv'
<1>1. UNCHANGED <<mail, command, restores, runMu, sessionGate, session, log, dialog, bridge, inputs, takenOver>>
  BY DEF HandleDone, store, counters
<1>2. answered' \in [Kinds -> BOOLEAN]
  BY DEF HandleDone, ScreenInv, ScreenTypeOK, TypeOK
<1>3. CASE form[k] = None
  <2>1. UNCHANGED <<running, active, opSeq, cancelRun, restoring, queue, form, listening, op>>
    BY <1>3 DEF HandleDone
  <2>2. QED
    <3>1. ScreenTypeOK'
      BY <1>1, <1>2, <2>1 DEF ScreenInv, ScreenTypeOK, TypeOK
    <3>2. NumbersFit' /\ OneReaderEach'
      BY <1>1, <2>1 DEF ScreenInv, NumbersFit, OneReaderEach, Requests, Request
    <3>3. MailFits' /\ LocksFit' /\ RunningWillEnd' /\ OnlyActiveRuns'
      BY <1>1, <2>1 DEF ScreenInv, MailFits, LocksFit, RunningWillEnd, OnlyActiveRuns, IsOver
    <3>4. QED
      BY <3>1, <3>2, <3>3 DEF ScreenInv
<1>4. CASE form[k] # None
  <2>a. form' = [form EXCEPT ![k] = None] /\ listening' = [listening EXCEPT ![k] = TRUE]
    BY <1>4 DEF HandleDone
  <2>b. form' \in [Kinds -> Ops \cup {None}] /\ listening' \in [Kinds -> BOOLEAN]
    BY <2>a DEF ScreenInv, ScreenTypeOK, TypeOK
  <2>c. OneReaderEach'
    <3>1. form'[k] = None /\ listening'[k] /\ Requests(k) = {}
      BY <1>4, <2>a DEF ScreenInv, ScreenTypeOK, TypeOK, OneReaderEach
    <3>2. \A j \in Kinds : j # k => form'[j] = form[j] /\ listening'[j] = listening[j]
      BY <2>a DEF ScreenInv, ScreenTypeOK, TypeOK
    <3>3. \A j : Requests(j)' = Requests(j)
      BY <1>1 DEF Requests
    <3>4. QED
      BY <3>1, <3>2, <3>3 DEF OneReaderEach, ScreenInv, Request
  <2>d. OthersGoOn(Answered(op, {k}), None)
    BY AnsweredFacts DEF OthersGoOn, ScreenInv, ScreenTypeOK
  <2>e. CASE op' = Answered(op, {k}) /\ UNCHANGED <<running, active, opSeq, cancelRun, restoring, queue>>
    <3>1. op' \in [Ops -> Operations]
          /\ \A p \in Ops : op'[p].st = op[p].st \/ (op[p].st = "waiting" /\ op'[p].st = "turn")
      BY <2>d, <2>e, BoundsFit DEF OthersGoOn
    <3>2. ScreenTypeOK'
      BY <1>1, <1>2, <2>b, <2>e, <3>1 DEF ScreenInv, ScreenTypeOK, TypeOK
    <3>3. NumbersFit' /\ LocksFit' /\ RunningWillEnd' /\ OnlyActiveRuns'
      BY <1>1, <2>e, <3>1 DEF ScreenInv, ScreenTypeOK, TypeOK, NumbersFit, LocksFit, RunningWillEnd,
         OnlyActiveRuns, IsOver
    <3>4. MailFits'
      <4>1. \A msg \in mail : msg.type # "request" => msg.op \in Ops
        BY DEF ScreenInv, ScreenTypeOK, Endings
      <4>2. QED
        BY <1>1, <3>1, <4>1 DEF ScreenInv, MailFits
    <3>5. QED
      BY <2>c, <3>2, <3>3, <3>4 DEF ScreenInv
  <2>f. CASE queue # <<>> /\ ~running /\ StartNextQueuedPrompt(Answered(op, {k}))
    <3>1. Len(queue) \in Nat /\ Len(queue) > 0 /\ queue' \in Seq(1..MaxInputs)
          /\ Len(queue') = Len(queue) - 1 /\ Len(queue') \in Nat
      BY <2>f DEF StartNextQueuedPrompt, ScreenInv, ScreenTypeOK, TypeOK
    <3>2. opSeq + 1 \in Ops /\ opSeq \in Nat
      BY <3>1, BoundsFit DEF ScreenInv, ScreenTypeOK, TypeOK, NumbersFit
    <3>3. op' = Begun(Answered(op, {k}), "lock") /\ BeginOperation /\ restoring' = FALSE /\ queue' = Tail(queue)
      BY <2>f DEF StartNextQueuedPrompt, StartPrompt
    <3>4. op' \in [Ops -> Operations]
      BY <2>d, <3>2, <3>3, BegunFacts DEF OpStages, OthersGoOn
    <3>5. ScreenTypeOK'
      BY <1>1, <1>2, <2>b, <3>1, <3>2, <3>3, <3>4
      DEF BeginOperation, ScreenInv, ScreenTypeOK, TypeOK
    <3>6. opSeq' + Len(queue') <= inputs' /\ inputs' <= MaxInputs /\ inputs' \in Nat
      BY <1>1, <3>1, <3>2, <3>3, BoundsFit DEF BeginOperation, ScreenInv, ScreenTypeOK, NumbersFit
    <3>7. takenOver' = (takenOver \/ running)
      BY <1>1, <2>f DEF ScreenInv, ScreenTypeOK
    <3>8. NumbersFit' /\ MailFits' /\ LocksFit' /\ RunningWillEnd' /\ OnlyActiveRuns'
      BY <1>1, <2>d, <3>1, <3>3, <3>6, <3>7, BeginningKeeps
    <3>9. QED
      BY <2>c, <3>5, <3>8 DEF ScreenInv
  <2>g. \/ op' = Answered(op, {k}) /\ UNCHANGED <<running, active, opSeq, cancelRun, restoring, queue>>
        \/ queue # <<>> /\ ~running /\ StartNextQueuedPrompt(Answered(op, {k}))
    BY <1>4 DEF HandleDone
  <2>h. QED
    BY <2>e, <2>f, <2>g
<1>5. QED
  BY <1>3, <1>4

LEMMA ReceiveRequestStep ==
    ASSUME ScreenInv, NEW k \in Kinds, NEW o \in Ops, ReceiveRequest(k, o)
    PROVE  ScreenInv'
<1>1. ScreenTypeOK'
  BY DEF ScreenInv, ReceiveRequest, store, counters, ScreenTypeOK, TypeOK
<1>2. NumbersFit'
  BY DEF ScreenInv, ReceiveRequest, store, counters, NumbersFit
<1>3. OneReaderEach'
  <2>1. ~listening[k] /\ form[k] = None /\ Requests(k) = {Request(k, o)}
    BY DEF ReceiveRequest, ScreenInv, OneReaderEach, Requests, Request
  <2>2. Requests(k)' = {}
    BY <2>1 DEF ReceiveRequest, Requests, Request
  <2>3. \A j \in Kinds : j # k => Requests(j)' = Requests(j)
    BY DEF ReceiveRequest, Requests
  <2>4. form' = [form EXCEPT ![k] = o] /\ form \in [Kinds -> Ops \cup {None}] /\ listening' = listening
    BY DEF ReceiveRequest, ScreenInv, ScreenTypeOK, TypeOK
  <2>5. ~listening'[k] /\ form'[k] # None
    BY <2>1, <2>4
  <2>6. QED
    BY <2>2, <2>3, <2>4, <2>5 DEF OneReaderEach, ScreenInv, Request
<1>4. MailFits'
  BY DEF ScreenInv, ReceiveRequest, store, counters, MailFits, ScreenTypeOK, Endings
<1>5. LocksFit'
  BY DEF ScreenInv, ReceiveRequest, store, counters, LocksFit
<1>6. RunningWillEnd'
  BY DEF ScreenInv, ReceiveRequest, store, counters, RunningWillEnd
<1>7. OnlyActiveRuns'
  BY DEF ScreenInv, ReceiveRequest, store, counters, OnlyActiveRuns, IsOver
<1>8. QED
  BY <1>1, <1>2, <1>3, <1>4, <1>5, <1>6, <1>7 DEF ScreenInv

LEMMA DropStaleStep ==
    ASSUME ScreenInv, NEW o \in Ops, DropStale(o)
    PROVE  ScreenInv'
<1>1. ScreenTypeOK'
  BY DEF ScreenInv, DropStale, screen, store, counters, Ended, Operation, Receive, ScreenTypeOK,
     TypeOK, Operations, OpStages, Endings
<1>2. NumbersFit'
  <2>1. op[o].st = "sent"
    BY DEF DropStale, Receive, ScreenInv, MailFits
  <2>2. \A p \in Ops : p > opSeq => op'[p] = op[p]
    BY <2>1 DEF DropStale, Ended, ScreenInv, ScreenTypeOK, NumbersFit
  <2>3. QED
    BY <2>2 DEF DropStale, screen, counters, NumbersFit, ScreenInv
<1>3. OneReaderEach'
  <2>1. \A k : Requests(k)' = Requests(k)
    BY SameRequests DEF DropStale, screen, store, counters, Ended, Operation, Receive, Finished
  <2>2. QED
    BY <2>1, SameReaders DEF ScreenInv, DropStale, screen, store, counters
<1>4. MailFits'
  BY DEF ScreenInv, DropStale, screen, store, counters, Ended, Operation, Receive, MailFits,
     ScreenTypeOK, Endings
<1>5. LocksFit'
  <2>1. op[o].st = "sent"
    BY DEF DropStale, Receive, ScreenInv, MailFits
  <2>2. \A p \in Ops : p # o => op'[p] = op[p]
    BY DEF DropStale, Ended, ScreenInv, ScreenTypeOK
  <2>3. QED
    BY <2>1, <2>2 DEF DropStale, store, LocksFit, ScreenInv, ScreenTypeOK, TypeOK
<1>6. RunningWillEnd'
  BY DEF ScreenInv, DropStale, screen, store, counters, Ended, Operation, Receive, RunningWillEnd
<1>7. OnlyActiveRuns'
  BY DEF ScreenInv, DropStale, screen, store, counters, Ended, Operation, Receive, OnlyActiveRuns,
     IsOver
<1>8. QED
  BY <1>1, <1>2, <1>3, <1>4, <1>5, <1>6, <1>7 DEF ScreenInv

LEMMA RunCancelledStep ==
    ASSUME ScreenInv, NEW o \in Ops, RunCancelled(o)
    PROVE  ScreenInv'
<1>1. /\ Finished(o, "cancelled") \in mail /\ mail' = mail \ {Finished(o, "cancelled")}
      /\ Finished(o, "cancelled").op = o /\ active = o
      /\ Finished(o, "cancelled").type # "request"
  BY DEF RunCancelled, Receive, Finished
<1>2. UNCHANGED <<command, runMu, sessionGate, session, log, answered, dialog, bridge, inputs, takenOver>>
  BY DEF RunCancelled, store, counters
<1>3. OthersGoOn(Answered(Ended(op, o), Kinds), o) /\ Answered(Ended(op, o), Kinds)[o].st = "done"
  <2>1. OthersGoOn(Ended(op, o), o) /\ Ended(op, o)[o].st = "done"
    BY EndedFacts DEF ScreenInv
  <2>2. QED
    BY <2>1, AnsweredFacts DEF OthersGoOn
<1>4. \/ NotStarted(Answered(Ended(op, o), Kinds), restoring') /\ restoring' \in BOOLEAN
      \/ queue # <<>> /\ StartNextQueuedPrompt(Answered(Ended(op, o), Kinds))
  BY DEF RunCancelled, StartQueuedPromptIfReady, NotStarted, ScreenInv, ScreenTypeOK, TypeOK
<1>5. form' \in [Kinds -> Ops \cup {None}] /\ listening' \in [Kinds -> BOOLEAN]
  BY DEF RunCancelled, Rearmed, ScreenInv, ScreenTypeOK, TypeOK
<1>6. restores' \subseteq Restores
  <2>1. opSeq \in Nat /\ session \in Nat
    BY BoundsFit DEF ScreenInv, ScreenTypeOK, TypeOK
  <2>2. [gen |-> opSeq, st |-> "scheduled", target |-> 0, in |-> session] \in Restores
    BY <2>1 DEF Restores
  <2>3. QED
    BY <2>2 DEF RunCancelled, ScreenInv, ScreenTypeOK
<1>7. OneReaderEach'
  <2>1. \A k : Requests(k)' = Requests(k)
    BY <1>1, SameRequests
  <2>2. form' = [k \in Kinds |-> None] /\ listening' = [k \in Kinds |-> listening[k] \/ form[k] # None]
    BY DEF RunCancelled, Rearmed
  <2>3. QED
    BY <2>1, <2>2 DEF OneReaderEach, ScreenInv, Request
<1>8. ScreenTypeOK'
  <2>1. mail' \subseteq [type : {"request"}, kind : Kinds, op : Ops] \cup Endings
    BY <1>1 DEF ScreenInv, ScreenTypeOK
  <2>2. CASE NotStarted(Answered(Ended(op, o), Kinds), restoring') /\ restoring' \in BOOLEAN
    BY <1>2, <1>3, <1>5, <1>6, <2>1, <2>2
    DEF NotStarted, OthersGoOn, ScreenInv, ScreenTypeOK, TypeOK
  <2>3. CASE queue # <<>> /\ StartNextQueuedPrompt(Answered(Ended(op, o), Kinds))
    <3>1. Len(queue) \in Nat /\ Len(queue) > 0 /\ queue' \in Seq(1..MaxInputs)
      BY <2>3 DEF StartNextQueuedPrompt, ScreenInv, ScreenTypeOK, TypeOK
    <3>2. opSeq + 1 \in Ops /\ opSeq \in Nat
      BY <3>1, BoundsFit DEF ScreenInv, ScreenTypeOK, TypeOK, NumbersFit
    <3>3. op' \in [Ops -> Operations]
      BY <1>3, <2>3, <3>2, BegunFacts DEF StartNextQueuedPrompt, StartPrompt, OpStages, OthersGoOn
    <3>4. QED
      BY <1>2, <1>5, <1>6, <2>1, <2>3, <3>1, <3>2, <3>3 DEF StartNextQueuedPrompt, StartPrompt,
         BeginOperation, ScreenInv, ScreenTypeOK, TypeOK
  <2>4. QED
    BY <1>4, <2>2, <2>3
<1>9. NumbersFit' /\ MailFits' /\ LocksFit' /\ RunningWillEnd' /\ OnlyActiveRuns'
  <2>1. \/ Answered(Ended(op, o), Kinds) = op' /\ running' = FALSE /\ active' = None /\ cancelRun' = None
           /\ UNCHANGED <<opSeq, queue>>
        \/ queue # <<>> /\ queue' = Tail(queue) /\ BeginOperation /\ op' = Begun(Answered(Ended(op, o), Kinds), "lock")
    BY <1>4 DEF NotStarted, StartNextQueuedPrompt, StartPrompt
  <2>2. QED
    BY <1>1, <1>2, <1>3, <2>1, EndingKeeps
<1>10. QED
  BY <1>7, <1>8, <1>9 DEF ScreenInv

LEMMA ShellFinishedStep ==
    ASSUME ScreenInv, NEW o \in Ops, ShellFinished(o)
    PROVE  ScreenInv'
<1>1. /\ [type |-> "shell", op |-> o] \in mail /\ mail' = mail \ {[type |-> "shell", op |-> o]}
      /\ [type |-> "shell", op |-> o].op = o /\ active = o
      /\ [type |-> "shell", op |-> o].type # "request"
  BY DEF ShellFinished, Receive
<1>2. UNCHANGED <<command, runMu, sessionGate, session, log, answered, dialog, bridge, inputs, takenOver>>
  BY DEF ShellFinished, store, counters
<1>3. OthersGoOn(Ended(op, o), o) /\ Ended(op, o)[o].st = "done"
  BY EndedFacts DEF ScreenInv
<1>4. \/ NotStarted(Ended(op, o), restoring') /\ restoring' \in BOOLEAN
      \/ queue # <<>> /\ StartNextQueuedPrompt(Ended(op, o))
  BY DEF ShellFinished, StartQueuedPromptIfReady, NotStarted, ScreenInv, ScreenTypeOK, TypeOK
<1>5. form' \in [Kinds -> Ops \cup {None}] /\ listening' \in [Kinds -> BOOLEAN]
  BY DEF ShellFinished, ScreenInv, ScreenTypeOK, TypeOK
<1>6. restores' \subseteq Restores
  BY DEF ShellFinished, ScreenInv, ScreenTypeOK
<1>7. OneReaderEach'
  <2>1. \A k : Requests(k)' = Requests(k)
    BY <1>1, SameRequests
  <2>2. UNCHANGED <<listening, form>>
    BY DEF ShellFinished
  <2>3. QED
    BY <2>1, <2>2, SameReaders DEF ScreenInv
<1>8. ScreenTypeOK'
  <2>1. mail' \subseteq [type : {"request"}, kind : Kinds, op : Ops] \cup Endings
    BY <1>1 DEF ScreenInv, ScreenTypeOK
  <2>2. CASE NotStarted(Ended(op, o), restoring') /\ restoring' \in BOOLEAN
    BY <1>2, <1>3, <1>5, <1>6, <2>1, <2>2
    DEF NotStarted, OthersGoOn, ScreenInv, ScreenTypeOK, TypeOK
  <2>3. CASE queue # <<>> /\ StartNextQueuedPrompt(Ended(op, o))
    <3>1. Len(queue) \in Nat /\ Len(queue) > 0 /\ queue' \in Seq(1..MaxInputs)
      BY <2>3 DEF StartNextQueuedPrompt, ScreenInv, ScreenTypeOK, TypeOK
    <3>2. opSeq + 1 \in Ops /\ opSeq \in Nat
      BY <3>1, BoundsFit DEF ScreenInv, ScreenTypeOK, TypeOK, NumbersFit
    <3>3. op' \in [Ops -> Operations]
      BY <1>3, <2>3, <3>2, BegunFacts DEF StartNextQueuedPrompt, StartPrompt, OpStages, OthersGoOn
    <3>4. QED
      BY <1>2, <1>5, <1>6, <2>1, <2>3, <3>1, <3>2, <3>3 DEF StartNextQueuedPrompt, StartPrompt,
         BeginOperation, ScreenInv, ScreenTypeOK, TypeOK
  <2>4. QED
    BY <1>4, <2>2, <2>3
<1>9. NumbersFit' /\ MailFits' /\ LocksFit' /\ RunningWillEnd' /\ OnlyActiveRuns'
  <2>1. \/ Ended(op, o) = op' /\ running' = FALSE /\ active' = None /\ cancelRun' = None
           /\ UNCHANGED <<opSeq, queue>>
        \/ queue # <<>> /\ queue' = Tail(queue) /\ BeginOperation /\ op' = Begun(Ended(op, o), "lock")
    BY <1>4 DEF NotStarted, StartNextQueuedPrompt, StartPrompt
  <2>2. QED
    BY <1>1, <1>2, <1>3, <2>1, EndingKeeps
<1>10. QED
  BY <1>7, <1>8, <1>9 DEF ScreenInv

LEMMA SkillOverStep ==
    ASSUME ScreenInv, NEW o \in Ops, SkillOver(o)
    PROVE  ScreenInv'
<1>1. /\ [type |-> "ready", op |-> o, res |-> "over"] \in mail /\ mail' = mail \ {[type |-> "ready", op |-> o, res |-> "over"]}
      /\ [type |-> "ready", op |-> o, res |-> "over"].op = o /\ active = o
      /\ [type |-> "ready", op |-> o, res |-> "over"].type # "request"
  BY DEF SkillOver, Receive
<1>2. UNCHANGED <<command, runMu, sessionGate, session, log, answered, dialog, bridge, inputs, takenOver>>
  BY DEF SkillOver, store, counters
<1>3. OthersGoOn(Ended(op, o), o) /\ Ended(op, o)[o].st = "done"
  BY EndedFacts DEF ScreenInv
<1>4. \/ NotStarted(Ended(op, o), restoring') /\ restoring' \in BOOLEAN
      \/ queue # <<>> /\ StartNextQueuedPrompt(Ended(op, o))
  BY DEF SkillOver, StartQueuedPromptIfReady, NotStarted, ScreenInv, ScreenTypeOK, TypeOK
<1>5. form' \in [Kinds -> Ops \cup {None}] /\ listening' \in [Kinds -> BOOLEAN]
  BY DEF SkillOver, ScreenInv, ScreenTypeOK, TypeOK
<1>6. restores' \subseteq Restores
  BY DEF SkillOver, ScreenInv, ScreenTypeOK
<1>7. OneReaderEach'
  <2>1. \A k : Requests(k)' = Requests(k)
    BY <1>1, SameRequests
  <2>2. UNCHANGED <<listening, form>>
    BY DEF SkillOver
  <2>3. QED
    BY <2>1, <2>2, SameReaders DEF ScreenInv
<1>8. ScreenTypeOK'
  <2>1. mail' \subseteq [type : {"request"}, kind : Kinds, op : Ops] \cup Endings
    BY <1>1 DEF ScreenInv, ScreenTypeOK
  <2>2. CASE NotStarted(Ended(op, o), restoring') /\ restoring' \in BOOLEAN
    BY <1>2, <1>3, <1>5, <1>6, <2>1, <2>2
    DEF NotStarted, OthersGoOn, ScreenInv, ScreenTypeOK, TypeOK
  <2>3. CASE queue # <<>> /\ StartNextQueuedPrompt(Ended(op, o))
    <3>1. Len(queue) \in Nat /\ Len(queue) > 0 /\ queue' \in Seq(1..MaxInputs)
      BY <2>3 DEF StartNextQueuedPrompt, ScreenInv, ScreenTypeOK, TypeOK
    <3>2. opSeq + 1 \in Ops /\ opSeq \in Nat
      BY <3>1, BoundsFit DEF ScreenInv, ScreenTypeOK, TypeOK, NumbersFit
    <3>3. op' \in [Ops -> Operations]
      BY <1>3, <2>3, <3>2, BegunFacts DEF StartNextQueuedPrompt, StartPrompt, OpStages, OthersGoOn
    <3>4. QED
      BY <1>2, <1>5, <1>6, <2>1, <2>3, <3>1, <3>2, <3>3 DEF StartNextQueuedPrompt, StartPrompt,
         BeginOperation, ScreenInv, ScreenTypeOK, TypeOK
  <2>4. QED
    BY <1>4, <2>2, <2>3
<1>9. NumbersFit' /\ MailFits' /\ LocksFit' /\ RunningWillEnd' /\ OnlyActiveRuns'
  <2>1. \/ Ended(op, o) = op' /\ running' = FALSE /\ active' = None /\ cancelRun' = None
           /\ UNCHANGED <<opSeq, queue>>
        \/ queue # <<>> /\ queue' = Tail(queue) /\ BeginOperation /\ op' = Begun(Ended(op, o), "lock")
    BY <1>4 DEF NotStarted, StartNextQueuedPrompt, StartPrompt
  <2>2. QED
    BY <1>1, <1>2, <1>3, <2>1, EndingKeeps
<1>10. QED
  BY <1>7, <1>8, <1>9 DEF ScreenInv

LEMMA RunInlineStep ==
    ASSUME ScreenInv, NEW o \in Ops, RunInline(o)
    PROVE  ScreenInv'
<1>1. ScreenTypeOK'
  <2>1. op' \in [Ops -> Operations]
    <3>1. op' = [op EXCEPT ![o] = Operation("lock")] \/ op' = [op EXCEPT ![o] = Operation("done")]
      BY DEF RunInline, Ended
    <3>2. op \in [Ops -> Operations] /\ "lock" \in OpStages /\ "done" \in OpStages
      BY DEF ScreenInv, ScreenTypeOK, OpStages
    <3>3. [op EXCEPT ![o] = Operation("lock")] \in [Ops -> Operations]
      BY <3>2, OneOperation
    <3>4. [op EXCEPT ![o] = Operation("done")] \in [Ops -> Operations]
      BY <3>2, OneOperation
    <3>5. QED
      BY <3>1, <3>3, <3>4
  <2>2. TypeOK'
    BY BoundsFit DEF RunInline, Receive, Ended, store, counters, ScreenInv, ScreenTypeOK, TypeOK
  <2>3. mail' \subseteq [type : {"request"}, kind : Kinds, op : Ops] \cup Endings
    BY DEF RunInline, Receive, Ended, store, counters, ScreenInv, ScreenTypeOK, Endings, Results
  <2>4. QED
    BY <2>1, <2>2, <2>3 DEF RunInline, Receive, Ended, store, counters, ScreenInv, ScreenTypeOK
<1>2. NumbersFit'
  <2>1. op[o].st = "sent"
    BY DEF RunInline, Receive, ScreenInv, MailFits
  <2>2. \A p \in Ops : p > opSeq => op'[p] = op[p]
    BY <2>1 DEF RunInline, Ended, ScreenInv, ScreenTypeOK, NumbersFit
  <2>3. QED
    BY <2>2 DEF RunInline, counters, NumbersFit, ScreenInv
<1>3. OneReaderEach'
  <2>1. \A k : Requests(k)' = Requests(k)
    BY SameRequests DEF RunInline, store, counters, Ended, Receive, Operation
  <2>2. QED
    BY <2>1, SameReaders DEF ScreenInv, RunInline, store, counters
<1>4. MailFits'
  BY DEF ScreenInv, RunInline, store, counters, Ended, Receive, Operation, MailFits, ScreenTypeOK,
     Endings
<1>5. LocksFit'
  <2>1. op[o].st = "sent"
    BY DEF RunInline, Receive, ScreenInv, MailFits
  <2>2. \A p \in Ops : p # o => op'[p] = op[p]
    BY DEF RunInline, Ended, ScreenInv, ScreenTypeOK
  <2>3. QED
    BY <2>1, <2>2 DEF RunInline, store, LocksFit, ScreenInv, ScreenTypeOK, TypeOK
<1>6. RunningWillEnd'
  BY DEF ScreenInv, RunInline, store, counters, Ended, Receive, Operation, RunningWillEnd,
     ScreenTypeOK, TypeOK, Operations, OpStages, Endings
<1>7. OnlyActiveRuns'
  <2>1. op[o].st = "sent"
    BY DEF RunInline, Receive, ScreenInv, MailFits
  <2>2. \A p \in Ops : p # o => op'[p] = op[p]
    BY DEF RunInline, Ended, ScreenInv, ScreenTypeOK
  <2>3. running' = running \/ op'[o].st = "done"
    <3>1. op \in [Ops -> Operations] /\ "done" \in OpStages
      BY DEF ScreenInv, ScreenTypeOK, OpStages
    <3>2. Ended(op, o)[o].st = "done"
      BY <3>1, OneOperation DEF Ended
    <3>3. QED
      BY <3>2 DEF RunInline
  <2>4. QED
    BY <2>1, <2>2, <2>3 DEF RunInline, counters, OnlyActiveRuns, IsOver, ScreenInv
<1>8. QED
  BY <1>1, <1>2, <1>3, <1>4, <1>5, <1>6, <1>7 DEF ScreenInv

LEMMA RunFinishedStep ==
    ASSUME ScreenInv, NEW o \in Ops, NEW res \in {"ok", "failed"}, RunFinished(o, res)
    PROVE  ScreenInv'
<1>1. /\ Finished(o, res) \in mail /\ mail' = mail \ {Finished(o, res)}
      /\ Finished(o, res).op = o /\ active = o
      /\ Finished(o, res).type # "request"
  BY DEF RunFinished, Receive, Finished
<1>2. UNCHANGED <<command, runMu, sessionGate, session, log, answered, dialog, bridge, inputs, takenOver>>
  BY DEF RunFinished, store, counters
<1>3. OthersGoOn(Ended(op, o), o) /\ Ended(op, o)[o].st = "done"
  BY EndedFacts DEF ScreenInv
<1>4. \/ NotStarted(Ended(op, o), restoring') /\ restoring' \in BOOLEAN
      \/ queue # <<>> /\ StartNextQueuedPrompt(Ended(op, o))
  BY DEF RunFinished, StartQueuedPromptIfReady, NotStarted, ScreenInv, ScreenTypeOK, TypeOK
<1>5. form' \in [Kinds -> Ops \cup {None}] /\ listening' \in [Kinds -> BOOLEAN]
  BY DEF RunFinished, ScreenInv, ScreenTypeOK, TypeOK
<1>6. restores' \subseteq Restores
  BY DEF RunFinished, ScreenInv, ScreenTypeOK
<1>7. OneReaderEach'
  <2>1. \A k : Requests(k)' = Requests(k)
    BY <1>1, SameRequests
  <2>2. UNCHANGED <<listening, form>>
    BY DEF RunFinished
  <2>3. QED
    BY <2>1, <2>2, SameReaders DEF ScreenInv
<1>8. ScreenTypeOK'
  <2>1. mail' \subseteq [type : {"request"}, kind : Kinds, op : Ops] \cup Endings
    BY <1>1 DEF ScreenInv, ScreenTypeOK
  <2>2. CASE NotStarted(Ended(op, o), restoring') /\ restoring' \in BOOLEAN
    BY <1>2, <1>3, <1>5, <1>6, <2>1, <2>2
    DEF NotStarted, OthersGoOn, ScreenInv, ScreenTypeOK, TypeOK
  <2>3. CASE queue # <<>> /\ StartNextQueuedPrompt(Ended(op, o))
    <3>1. Len(queue) \in Nat /\ Len(queue) > 0 /\ queue' \in Seq(1..MaxInputs)
      BY <2>3 DEF StartNextQueuedPrompt, ScreenInv, ScreenTypeOK, TypeOK
    <3>2. opSeq + 1 \in Ops /\ opSeq \in Nat
      BY <3>1, BoundsFit DEF ScreenInv, ScreenTypeOK, TypeOK, NumbersFit
    <3>3. op' \in [Ops -> Operations]
      BY <1>3, <2>3, <3>2, BegunFacts DEF StartNextQueuedPrompt, StartPrompt, OpStages, OthersGoOn
    <3>4. QED
      BY <1>2, <1>5, <1>6, <2>1, <2>3, <3>1, <3>2, <3>3 DEF StartNextQueuedPrompt, StartPrompt,
         BeginOperation, ScreenInv, ScreenTypeOK, TypeOK
  <2>4. QED
    BY <1>4, <2>2, <2>3
<1>9. NumbersFit' /\ MailFits' /\ LocksFit' /\ RunningWillEnd' /\ OnlyActiveRuns'
  <2>1. \/ Ended(op, o) = op' /\ running' = FALSE /\ active' = None /\ cancelRun' = None
           /\ UNCHANGED <<opSeq, queue>>
        \/ queue # <<>> /\ queue' = Tail(queue) /\ BeginOperation /\ op' = Begun(Ended(op, o), "lock")
    BY <1>4 DEF NotStarted, StartNextQueuedPrompt, StartPrompt
  <2>2. QED
    BY <1>1, <1>2, <1>3, <2>1, EndingKeeps
<1>10. QED
  BY <1>7, <1>8, <1>9 DEF ScreenInv

LEMMA CommandFinishedStep ==
    ASSUME ScreenInv, CommandFinished
    PROVE  ScreenInv'
<1>1. ScreenTypeOK'
  <2>1. queue' \in Seq(1..MaxInputs)
    BY EmptySeq DEF CommandFinished, ScreenInv, ScreenTypeOK, TypeOK
  <2>2. TypeOK'
    BY <2>1 DEF CommandFinished, store, counters, ScreenInv, ScreenTypeOK, TypeOK
  <2>3. QED
    BY <2>2 DEF CommandFinished, store, counters, ScreenInv, ScreenTypeOK, Commands
<1>2. NumbersFit'
  BY DEF ScreenInv, CommandFinished, store, counters, NumbersFit, ScreenTypeOK, TypeOK
<1>3. OneReaderEach'
  BY DEF ScreenInv, CommandFinished, store, counters, OneReaderEach, Requests, Request
<1>4. MailFits'
  BY DEF ScreenInv, CommandFinished, store, counters, MailFits
<1>5. LocksFit'
  BY DEF ScreenInv, CommandFinished, store, counters, LocksFit
<1>6. RunningWillEnd'
  BY DEF ScreenInv, CommandFinished, store, counters, RunningWillEnd
<1>7. OnlyActiveRuns'
  BY DEF ScreenInv, CommandFinished, store, counters, OnlyActiveRuns, IsOver
<1>8. QED
  BY <1>1, <1>2, <1>3, <1>4, <1>5, <1>6, <1>7 DEF ScreenInv

LEMMA CancelRestoreFinishedStep ==
    ASSUME ScreenInv, NEW r \in restores, CancelRestoreFinished(r)
    PROVE  ScreenInv'
<1>1. UNCHANGED <<mail, command, runMu, sessionGate, session, log, form, answered, dialog, listening, bridge,
                  inputs, takenOver>> /\ restores' \subseteq Restores
  BY DEF CancelRestoreFinished, store, counters, ScreenInv, ScreenTypeOK
<1>2. OneReaderEach'
  BY <1>1 DEF ScreenInv, OneReaderEach, Requests, Request
<1>3. OthersGoOn(op, None)
  BY DEF OthersGoOn, ScreenInv, ScreenTypeOK
<1>4. CASE UNCHANGED <<running, active, opSeq, cancelRun, queue, op>> /\ restoring' \in BOOLEAN
  <2>1. ScreenTypeOK'
    BY <1>1, <1>4 DEF ScreenInv, ScreenTypeOK, TypeOK
  <2>2. NumbersFit' /\ MailFits' /\ LocksFit' /\ RunningWillEnd' /\ OnlyActiveRuns'
    BY <1>1, <1>4 DEF ScreenInv, NumbersFit, MailFits, LocksFit, RunningWillEnd, OnlyActiveRuns,
       IsOver
  <2>3. QED
    BY <1>2, <2>1, <2>2 DEF ScreenInv
<1>5. CASE queue # <<>> /\ ~running /\ StartNextQueuedPrompt(op)
  <2>1. Len(queue) \in Nat /\ Len(queue) > 0 /\ queue' \in Seq(1..MaxInputs)
        /\ Len(queue') = Len(queue) - 1 /\ Len(queue') \in Nat
    BY <1>5 DEF StartNextQueuedPrompt, ScreenInv, ScreenTypeOK, TypeOK
  <2>2. opSeq + 1 \in Ops /\ opSeq \in Nat
    BY <2>1, BoundsFit DEF ScreenInv, ScreenTypeOK, TypeOK, NumbersFit
  <2>3. op' = Begun(op, "lock") /\ BeginOperation /\ restoring' = FALSE /\ queue' = Tail(queue)
    BY <1>5 DEF StartNextQueuedPrompt, StartPrompt
  <2>4. op' \in [Ops -> Operations]
    BY <1>3, <2>2, <2>3, BegunFacts DEF OpStages, OthersGoOn
  <2>5. ScreenTypeOK'
    BY <1>1, <2>1, <2>2, <2>3, <2>4 DEF BeginOperation, ScreenInv, ScreenTypeOK, TypeOK
  <2>6. opSeq' + Len(queue') <= inputs' /\ inputs' <= MaxInputs /\ inputs' \in Nat
    BY <1>1, <2>1, <2>2, <2>3, BoundsFit DEF BeginOperation, ScreenInv, ScreenTypeOK, NumbersFit
  <2>7. takenOver' = (takenOver \/ running)
    BY <1>1, <1>5 DEF ScreenInv, ScreenTypeOK
  <2>8. NumbersFit' /\ MailFits' /\ LocksFit' /\ RunningWillEnd' /\ OnlyActiveRuns'
    BY <1>1, <1>3, <2>1, <2>3, <2>6, <2>7, BeginningKeeps
  <2>9. QED
    BY <1>2, <2>5, <2>8 DEF ScreenInv
<1>6. QED
  <2>1. \/ UNCHANGED <<running, active, opSeq, cancelRun, queue, op>> /\ restoring' \in BOOLEAN
        \/ queue # <<>> /\ ~running /\ StartNextQueuedPrompt(op)
    BY DEF CancelRestoreFinished, ScreenInv, ScreenTypeOK, TypeOK
  <2>2. QED
    BY <1>4, <1>5, <2>1

LEMMA TakeRunLockStep ==
    ASSUME ScreenInv, NEW o \in Ops, TakeRunLock(o)
    PROVE  ScreenInv'
<1>1. ScreenTypeOK'
  <2>1. op' \in [Ops -> Operations]
    <3>1. op \in [Ops -> Operations] /\ "admission" \in OpStages /\ op' = [op EXCEPT ![o].st = "admission"]
      BY DEF TakeRunLock, ScreenInv, ScreenTypeOK, OpStages
    <3>2. QED
      BY <3>1, OneOperation
  <2>2. TypeOK'
    BY BoundsFit DEF TakeRunLock, screen, counters, ScreenInv, ScreenTypeOK, TypeOK
  <2>3. mail' \subseteq [type : {"request"}, kind : Kinds, op : Ops] \cup Endings
    BY DEF TakeRunLock, screen, counters, ScreenInv, ScreenTypeOK, Endings, Results
  <2>4. QED
    BY <2>1, <2>2, <2>3 DEF TakeRunLock, screen, counters, ScreenInv, ScreenTypeOK
<1>2. NumbersFit'
  BY DEF ScreenInv, TakeRunLock, screen, counters, NumbersFit, ScreenTypeOK, TypeOK
<1>3. OneReaderEach'
  BY DEF ScreenInv, TakeRunLock, screen, counters, OneReaderEach, Requests, Request
<1>4. MailFits'
  BY DEF ScreenInv, TakeRunLock, screen, counters, MailFits, ScreenTypeOK, Endings
<1>5. LocksFit'
  BY DEF ScreenInv, TakeRunLock, screen, counters, LocksFit, ScreenTypeOK, TypeOK
<1>6. RunningWillEnd'
  BY DEF ScreenInv, TakeRunLock, screen, counters, RunningWillEnd
<1>7. OnlyActiveRuns'
  BY DEF ScreenInv, TakeRunLock, screen, counters, OnlyActiveRuns, IsOver
<1>8. QED
  BY <1>1, <1>2, <1>3, <1>4, <1>5, <1>6, <1>7 DEF ScreenInv

LEMMA EnterSessionStep ==
    ASSUME ScreenInv, NEW o \in Ops, EnterSession(o)
    PROVE  ScreenInv'
<1>1. ScreenTypeOK'
  <2>1. op' \in [Ops -> Operations]
    <3>1. op \in [Ops -> Operations] /\ "turn" \in OpStages /\ op' = [op EXCEPT ![o].st = "turn"]
      BY DEF EnterSession, ScreenInv, ScreenTypeOK, OpStages
    <3>2. QED
      BY <3>1, OneOperation
  <2>2. TypeOK'
    <3>1. log \in Seq([op : Ops, answered : BOOLEAN]) /\ [op |-> o, answered |-> FALSE] \in [op : Ops, answered : BOOLEAN]
      BY DEF ScreenInv, ScreenTypeOK, TypeOK
    <3>2. log' \in Seq([op : Ops, answered : BOOLEAN])
      BY <3>1, AppendProperties DEF EnterSession
    <3>3. QED
      BY <3>2 DEF EnterSession, screen, counters, ScreenInv, ScreenTypeOK, TypeOK
  <2>3. mail' \subseteq [type : {"request"}, kind : Kinds, op : Ops] \cup Endings
    BY DEF EnterSession, screen, counters, ScreenInv, ScreenTypeOK, Endings, Results
  <2>4. QED
    BY <2>1, <2>2, <2>3 DEF EnterSession, screen, counters, ScreenInv, ScreenTypeOK
<1>2. NumbersFit'
  BY DEF ScreenInv, EnterSession, screen, counters, NumbersFit, ScreenTypeOK, TypeOK
<1>3. OneReaderEach'
  BY DEF ScreenInv, EnterSession, screen, counters, OneReaderEach, Requests, Request
<1>4. MailFits'
  BY DEF ScreenInv, EnterSession, screen, counters, MailFits, ScreenTypeOK, Endings
<1>5. LocksFit'
  BY DEF ScreenInv, EnterSession, screen, counters, LocksFit, ScreenTypeOK, TypeOK
<1>6. RunningWillEnd'
  BY DEF ScreenInv, EnterSession, screen, counters, RunningWillEnd
<1>7. OnlyActiveRuns'
  BY DEF ScreenInv, EnterSession, screen, counters, OnlyActiveRuns, IsOver
<1>8. QED
  BY <1>1, <1>2, <1>3, <1>4, <1>5, <1>6, <1>7 DEF ScreenInv

LEMMA StopWaitingStep ==
    ASSUME ScreenInv, NEW o \in Ops, StopWaiting(o)
    PROVE  ScreenInv'
<1>1. ScreenTypeOK'
  <2>1. op' \in [Ops -> Operations]
    <3>1. op \in [Ops -> Operations] /\ "turn" \in OpStages /\ op' = [op EXCEPT ![o].st = "turn"]
      BY DEF StopWaiting, ScreenInv, ScreenTypeOK, OpStages
    <3>2. QED
      BY <3>1, OneOperation
  <2>2. TypeOK'
    BY BoundsFit, WithdrawnType DEF StopWaiting, screen, store, counters, ScreenInv, ScreenTypeOK,
       TypeOK
  <2>3. mail' \subseteq [type : {"request"}, kind : Kinds, op : Ops] \cup Endings
    BY DEF StopWaiting, screen, store, counters, ScreenInv, ScreenTypeOK, Endings, Results
  <2>4. QED
    BY <2>1, <2>2, <2>3 DEF StopWaiting, screen, store, counters, ScreenInv, ScreenTypeOK
<1>2. NumbersFit'
  BY DEF ScreenInv, StopWaiting, screen, store, counters, NumbersFit, ScreenTypeOK, TypeOK
<1>3. OneReaderEach'
  BY DEF ScreenInv, StopWaiting, screen, store, counters, OneReaderEach, Requests, Request
<1>4. MailFits'
  BY DEF ScreenInv, StopWaiting, screen, store, counters, MailFits, ScreenTypeOK, Endings
<1>5. LocksFit'
  BY DEF ScreenInv, StopWaiting, screen, store, counters, LocksFit, ScreenTypeOK, TypeOK
<1>6. RunningWillEnd'
  BY DEF ScreenInv, StopWaiting, screen, store, counters, RunningWillEnd
<1>7. OnlyActiveRuns'
  BY DEF ScreenInv, StopWaiting, screen, store, counters, OnlyActiveRuns, IsOver
<1>8. QED
  BY <1>1, <1>2, <1>3, <1>4, <1>5, <1>6, <1>7 DEF ScreenInv

LEMMA AskStep ==
    ASSUME ScreenInv, NEW o \in Ops, NEW k \in Kinds, Ask(o, k)
    PROVE  ScreenInv'
<1>1. ScreenTypeOK'
  <2>1. op' \in [Ops -> Operations]
    <3>1. op[o] \in Operations
      BY DEF ScreenInv, ScreenTypeOK
    <3>2. [op[o] EXCEPT !.st = "waiting", !.asks = @ + 1] \in Operations
      <4>1. ASSUME NEW r \in Operations PROVE [[r EXCEPT !.st = "waiting"] EXCEPT !.asks = r.asks + 1] \in Operations
        <5>1. r.asks + 1 \in Nat
          BY DEF Operations
        <5>2. [r EXCEPT !.st = "waiting"] \in Operations
          BY DEF Operations, OpStages
        <5>3. ASSUME NEW q \in Operations, NEW n \in Nat PROVE [q EXCEPT !.asks = n] \in Operations
          BY DEF Operations
        <5>4. QED
          BY <5>1, <5>2, <5>3
      <4>2. QED
        BY <3>1, <4>1
    <3>3. op' = [op EXCEPT ![o] = [op[o] EXCEPT !.st = "waiting", !.asks = @ + 1]]
      BY DEF Ask
    <3>4. QED
      BY <3>2, <3>3 DEF ScreenInv, ScreenTypeOK
  <2>2. TypeOK'
    <3>1. bridge' \in [Kinds -> Seq(Ops)]
      BY DEF Ask, ScreenInv, ScreenTypeOK, TypeOK
    <3>2. QED
      BY <3>1 DEF Ask, screen, store, counters, ScreenInv, ScreenTypeOK, TypeOK
  <2>3. mail' \subseteq [type : {"request"}, kind : Kinds, op : Ops] \cup Endings
    BY DEF Ask, screen, store, counters, ScreenInv, ScreenTypeOK, Endings, Results
  <2>4. QED
    BY <2>1, <2>2, <2>3 DEF Ask, screen, store, counters, ScreenInv, ScreenTypeOK
<1>2. NumbersFit'
  BY DEF ScreenInv, Ask, screen, store, counters, NumbersFit, ScreenTypeOK, TypeOK
<1>3. OneReaderEach'
  BY DEF ScreenInv, Ask, screen, store, counters, OneReaderEach, Requests, Request
<1>4. MailFits'
  BY DEF ScreenInv, Ask, screen, store, counters, MailFits, ScreenTypeOK, Endings
<1>5. LocksFit'
  <2>1. op[o].st = "turn" /\ op'[o].st = "waiting" /\ \A p \in Ops : p # o => op'[p] = op[p]
    BY DEF Ask, ScreenInv, ScreenTypeOK, Operations
  <2>2. QED
    BY <2>1 DEF Ask, store, LocksFit, ScreenInv, ScreenTypeOK, TypeOK
<1>6. RunningWillEnd'
  BY DEF ScreenInv, Ask, screen, store, counters, RunningWillEnd, ScreenTypeOK, TypeOK, Operations
<1>7. OnlyActiveRuns'
  BY DEF ScreenInv, Ask, screen, store, counters, OnlyActiveRuns, IsOver, ScreenTypeOK, TypeOK,
     Operations
<1>8. QED
  BY <1>1, <1>2, <1>3, <1>4, <1>5, <1>6, <1>7 DEF ScreenInv

LEMMA EndRunStep ==
    ASSUME ScreenInv, NEW o \in Ops, NEW res \in Results, NEW output \in BOOLEAN, EndRun(o, res, output)
    PROVE  ScreenInv'
<1>1. ScreenTypeOK'
  <2>1. op' \in [Ops -> Operations]
    <3>1. op' = [op EXCEPT ![o] = Operation("sent")]
      BY DEF EndRun
    <3>2. op \in [Ops -> Operations] /\ "sent" \in OpStages
      BY DEF ScreenInv, ScreenTypeOK, OpStages
    <3>3. QED
      BY <3>1, <3>2, OneOperation
  <2>2. TypeOK'
    BY BoundsFit, AnsweredLog DEF EndRun, Finished, screen, counters, ScreenInv, ScreenTypeOK,
       TypeOK
  <2>3. mail' \subseteq [type : {"request"}, kind : Kinds, op : Ops] \cup Endings
    BY DEF EndRun, Finished, screen, counters, ScreenInv, ScreenTypeOK, Endings, Results
  <2>4. QED
    BY <2>1, <2>2, <2>3 DEF EndRun, Finished, screen, counters, ScreenInv, ScreenTypeOK
<1>2. NumbersFit'
  BY DEF ScreenInv, EndRun, screen, counters, Finished, Operation, NumbersFit, ScreenTypeOK, TypeOK
<1>3. OneReaderEach'
  <2>1. \A k : Requests(k)' = Requests(k)
    BY SameRequests DEF EndRun, screen, counters, Finished, Operation
  <2>2. QED
    BY <2>1, SameReaders DEF ScreenInv, EndRun, screen, counters
<1>4. MailFits'
  <2>1. op'[o].st = "sent" /\ \A p \in Ops : p # o => op'[p] = op[p]
    <3>1. op \in [Ops -> Operations] /\ "sent" \in OpStages /\ op' = [op EXCEPT ![o] = Operation("sent")]
      BY DEF EndRun, ScreenInv, ScreenTypeOK, OpStages
    <3>2. QED
      BY <3>1, OneOperation
  <2>2. \A msg \in mail : msg.type # "request" => msg.op # o /\ msg.op \in Ops
    BY DEF EndRun, ScreenInv, MailFits, ScreenTypeOK, Endings
  <2>3. mail' = mail \cup {Finished(o, res)} /\ Finished(o, res).op = o
    BY DEF EndRun, Finished
  <2>4. QED
    BY <2>1, <2>2, <2>3 DEF MailFits, ScreenInv
<1>5. LocksFit'
  BY DEF ScreenInv, EndRun, screen, counters, Finished, Operation, LocksFit, ScreenTypeOK, TypeOK
<1>6. RunningWillEnd'
  BY DEF ScreenInv, EndRun, screen, counters, Finished, Operation, RunningWillEnd
<1>7. OnlyActiveRuns'
  BY DEF ScreenInv, EndRun, screen, counters, Finished, Operation, OnlyActiveRuns, IsOver
<1>8. QED
  BY <1>1, <1>2, <1>3, <1>4, <1>5, <1>6, <1>7 DEF ScreenInv

LEMMA ShellEndsStep ==
    ASSUME ScreenInv, NEW o \in Ops, ShellEnds(o)
    PROVE  ScreenInv'
<1>1. ScreenTypeOK'
  <2>1. op' \in [Ops -> Operations]
    <3>1. op \in [Ops -> Operations] /\ "sent" \in OpStages /\ op' = [op EXCEPT ![o] = Operation("sent")]
      BY DEF ShellEnds, ScreenInv, ScreenTypeOK, OpStages
    <3>2. QED
      BY <3>1, OneOperation
  <2>2. TypeOK'
    BY BoundsFit DEF ShellEnds, screen, store, counters, ScreenInv, ScreenTypeOK, TypeOK
  <2>3. mail' \subseteq [type : {"request"}, kind : Kinds, op : Ops] \cup Endings
    BY DEF ShellEnds, screen, store, counters, ScreenInv, ScreenTypeOK, Endings, Results
  <2>4. QED
    BY <2>1, <2>2, <2>3 DEF ShellEnds, screen, store, counters, ScreenInv, ScreenTypeOK
<1>2. NumbersFit'
  BY DEF ScreenInv, ShellEnds, screen, store, counters, Operation, NumbersFit, ScreenTypeOK, TypeOK
<1>3. OneReaderEach'
  <2>1. \A k : Requests(k)' = Requests(k)
    BY SameRequests DEF ShellEnds, screen, store, counters, Operation
  <2>2. QED
    BY <2>1, SameReaders DEF ScreenInv, ShellEnds, screen, store, counters
<1>4. MailFits'
  BY DEF ScreenInv, ShellEnds, screen, store, counters, Operation, MailFits, ScreenTypeOK, Endings
<1>5. LocksFit'
  BY DEF ScreenInv, ShellEnds, screen, store, counters, Operation, LocksFit, ScreenTypeOK, TypeOK
<1>6. RunningWillEnd'
  BY DEF ScreenInv, ShellEnds, screen, store, counters, Operation, RunningWillEnd
<1>7. OnlyActiveRuns'
  BY DEF ScreenInv, ShellEnds, screen, store, counters, Operation, OnlyActiveRuns, IsOver
<1>8. QED
  BY <1>1, <1>2, <1>3, <1>4, <1>5, <1>6, <1>7 DEF ScreenInv

LEMMA SkillReadyStep ==
    ASSUME ScreenInv, NEW o \in Ops, NEW res \in {"over", "inline"}, SkillReady(o, res)
    PROVE  ScreenInv'
<1>1. ScreenTypeOK'
  <2>1. op' \in [Ops -> Operations]
    <3>1. op \in [Ops -> Operations] /\ "sent" \in OpStages /\ op' = [op EXCEPT ![o] = Operation("sent")]
      BY DEF SkillReady, ScreenInv, ScreenTypeOK, OpStages
    <3>2. QED
      BY <3>1, OneOperation
  <2>2. TypeOK'
    BY BoundsFit DEF SkillReady, screen, store, counters, ScreenInv, ScreenTypeOK, TypeOK
  <2>3. mail' \subseteq [type : {"request"}, kind : Kinds, op : Ops] \cup Endings
    BY DEF SkillReady, screen, store, counters, ScreenInv, ScreenTypeOK, Endings, Results
  <2>4. QED
    BY <2>1, <2>2, <2>3 DEF SkillReady, screen, store, counters, ScreenInv, ScreenTypeOK
<1>2. NumbersFit'
  BY DEF ScreenInv, SkillReady, screen, store, counters, Operation, NumbersFit, ScreenTypeOK, TypeOK
<1>3. OneReaderEach'
  <2>1. \A k : Requests(k)' = Requests(k)
    BY SameRequests DEF SkillReady, screen, store, counters, Operation
  <2>2. QED
    BY <2>1, SameReaders DEF ScreenInv, SkillReady, screen, store, counters
<1>4. MailFits'
  BY DEF ScreenInv, SkillReady, screen, store, counters, Operation, MailFits, ScreenTypeOK, Endings
<1>5. LocksFit'
  BY DEF ScreenInv, SkillReady, screen, store, counters, Operation, LocksFit, ScreenTypeOK, TypeOK
<1>6. RunningWillEnd'
  BY DEF ScreenInv, SkillReady, screen, store, counters, Operation, RunningWillEnd
<1>7. OnlyActiveRuns'
  BY DEF ScreenInv, SkillReady, screen, store, counters, Operation, OnlyActiveRuns, IsOver
<1>8. QED
  BY <1>1, <1>2, <1>3, <1>4, <1>5, <1>6, <1>7 DEF ScreenInv

LEMMA ListenStep ==
    ASSUME ScreenInv, NEW k \in Kinds, Listen(k)
    PROVE  ScreenInv'
<1>1. ScreenTypeOK'
  <2>1. Head(bridge[k]) \in Ops /\ Tail(bridge[k]) \in Seq(Ops)
    <3>1. bridge[k] \in Seq(Ops) /\ bridge[k] # <<>>
      BY DEF Listen, ScreenInv, ScreenTypeOK, TypeOK
    <3>2. QED
      BY <3>1, HeadTailProperties
  <2>2. TypeOK'
    BY <2>1 DEF Listen, store, counters, ScreenInv, ScreenTypeOK, TypeOK
  <2>3. mail' \subseteq [type : {"request"}, kind : Kinds, op : Ops] \cup Endings
    BY <2>1 DEF Listen, ScreenInv, ScreenTypeOK
  <2>4. QED
    BY <2>2, <2>3 DEF Listen, store, counters, ScreenInv, ScreenTypeOK
<1>2. NumbersFit'
  BY DEF ScreenInv, Listen, store, counters, NumbersFit
<1>3. OneReaderEach'
  <2>1. listening[k] /\ form[k] = None /\ Requests(k) = {}
    BY DEF Listen, ScreenInv, OneReaderEach
  <2>2. Head(bridge[k]) \in Ops
    <3>1. bridge[k] \in Seq(Ops) /\ bridge[k] # <<>>
      BY DEF Listen, ScreenInv, ScreenTypeOK, TypeOK
    <3>2. QED
      BY <3>1, HeadTailProperties
  <2>3. Requests(k)' = {Request(k, Head(bridge[k]))}
    BY <2>1 DEF Listen, Requests, Request
  <2>4. \A j \in Kinds : j # k => Requests(j)' = Requests(j)
    BY DEF Listen, Requests
  <2>5. listening' = [listening EXCEPT ![k] = FALSE] /\ listening \in [Kinds -> BOOLEAN] /\ form' = form
    BY DEF Listen, ScreenInv, ScreenTypeOK, TypeOK
  <2>6. ~listening'[k] /\ \A j \in Kinds : j # k => listening'[j] = listening[j]
    BY <2>5
  <2>7. QED
    BY <2>1, <2>2, <2>3, <2>4, <2>5, <2>6 DEF OneReaderEach, ScreenInv, Request
<1>4. MailFits'
  BY DEF ScreenInv, Listen, store, counters, MailFits, ScreenTypeOK, Endings
<1>5. LocksFit'
  BY DEF ScreenInv, Listen, store, counters, LocksFit
<1>6. RunningWillEnd'
  BY DEF ScreenInv, Listen, store, counters, RunningWillEnd
<1>7. OnlyActiveRuns'
  BY DEF ScreenInv, Listen, store, counters, OnlyActiveRuns, IsOver
<1>8. QED
  BY <1>1, <1>2, <1>3, <1>4, <1>5, <1>6, <1>7 DEF ScreenInv

LEMMA CompactStep ==
    ASSUME ScreenInv, NEW res \in {"ok", "failed"}, Compact(res)
    PROVE  ScreenInv'
<1>1. ScreenTypeOK'
  BY DEF ScreenInv, Compact, screen, store, counters, ScreenTypeOK, TypeOK, Commands
<1>2. NumbersFit'
  BY DEF ScreenInv, Compact, screen, store, counters, NumbersFit
<1>3. OneReaderEach'
  BY DEF ScreenInv, Compact, screen, store, counters, OneReaderEach, Requests, Request
<1>4. MailFits'
  BY DEF ScreenInv, Compact, screen, store, counters, MailFits
<1>5. LocksFit'
  BY DEF ScreenInv, Compact, screen, store, counters, LocksFit
<1>6. RunningWillEnd'
  BY DEF ScreenInv, Compact, screen, store, counters, RunningWillEnd
<1>7. OnlyActiveRuns'
  BY DEF ScreenInv, Compact, screen, store, counters, OnlyActiveRuns, IsOver
<1>8. QED
  BY <1>1, <1>2, <1>3, <1>4, <1>5, <1>6, <1>7 DEF ScreenInv

LEMMA NewSessionStep ==
    ASSUME ScreenInv, NEW res \in {"ok", "failed"}, NewSession(res)
    PROVE  ScreenInv'
<1>1. ScreenTypeOK'
  <2>1. TypeOK'
    <3>1. TypeOK
      BY DEF ScreenInv, ScreenTypeOK
    <3>2. log' \in Seq([op : Ops, answered : BOOLEAN])
      BY <3>1, EmptySeq DEF NewSession, TypeOK
    <3>3. UNCHANGED <<screen, bridge, runMu, sessionGate>>
      BY DEF NewSession
    <3>4. QED
      BY <3>1, <3>2, <3>3 DEF screen, TypeOK
  <2>2. command' \in Commands
    BY DEF NewSession, Commands
  <2>3. QED
    BY <2>1, <2>2 DEF NewSession, screen, counters, ScreenInv, ScreenTypeOK
<1>2. NumbersFit'
  BY DEF ScreenInv, NewSession, screen, counters, NumbersFit
<1>3. OneReaderEach'
  BY DEF ScreenInv, NewSession, screen, counters, OneReaderEach, Requests, Request
<1>4. MailFits'
  BY DEF ScreenInv, NewSession, screen, counters, MailFits
<1>5. LocksFit'
  BY DEF ScreenInv, NewSession, screen, counters, LocksFit
<1>6. RunningWillEnd'
  BY DEF ScreenInv, NewSession, screen, counters, RunningWillEnd
<1>7. OnlyActiveRuns'
  BY DEF ScreenInv, NewSession, screen, counters, OnlyActiveRuns, IsOver
<1>8. QED
  BY <1>1, <1>2, <1>3, <1>4, <1>5, <1>6, <1>7 DEF ScreenInv

LEMMA CheckGenerationStep ==
    ASSUME ScreenInv, NEW r \in restores, CheckGeneration(r)
    PROVE  ScreenInv'
<1>1. ScreenTypeOK'
  <2>1. restores' \subseteq Restores
    BY DEF CheckGeneration, ScreenInv, ScreenTypeOK, TypeOK, Restores
  <2>2. TypeOK'
    BY DEF CheckGeneration, screen, store, counters, ScreenInv, ScreenTypeOK, TypeOK
  <2>3. QED
    BY <2>1, <2>2 DEF CheckGeneration, screen, store, counters, ScreenInv, ScreenTypeOK
<1>2. NumbersFit'
  BY DEF ScreenInv, CheckGeneration, screen, store, counters, NumbersFit
<1>3. OneReaderEach'
  BY DEF ScreenInv, CheckGeneration, screen, store, counters, OneReaderEach, Requests, Request
<1>4. MailFits'
  BY DEF ScreenInv, CheckGeneration, screen, store, counters, MailFits
<1>5. LocksFit'
  BY DEF ScreenInv, CheckGeneration, screen, store, counters, LocksFit
<1>6. RunningWillEnd'
  BY DEF ScreenInv, CheckGeneration, screen, store, counters, RunningWillEnd
<1>7. OnlyActiveRuns'
  BY DEF ScreenInv, CheckGeneration, screen, store, counters, OnlyActiveRuns, IsOver
<1>8. QED
  BY <1>1, <1>2, <1>3, <1>4, <1>5, <1>6, <1>7 DEF ScreenInv

LEMMA PickTargetStep ==
    ASSUME ScreenInv, NEW r \in restores, PickTarget(r)
    PROVE  ScreenInv'
<1>1. ScreenTypeOK'
  <2>1. restores' \subseteq Restores
    <3>1. r \in Restores /\ Len(log) \in Nat
      BY DEF ScreenInv, ScreenTypeOK, TypeOK
    <3>2. [r EXCEPT !.st = "picked", !.target = Len(log)] \in Restores /\ [r EXCEPT !.st = "over"] \in Restores
      BY <3>1 DEF Restores
    <3>3. QED
      BY <3>2 DEF PickTarget, ScreenInv, ScreenTypeOK
  <2>2. TypeOK'
    BY DEF PickTarget, screen, store, counters, ScreenInv, ScreenTypeOK, TypeOK
  <2>3. QED
    BY <2>1, <2>2 DEF PickTarget, screen, store, counters, ScreenInv, ScreenTypeOK
<1>2. NumbersFit'
  BY DEF ScreenInv, PickTarget, screen, store, counters, NumbersFit
<1>3. OneReaderEach'
  BY DEF ScreenInv, PickTarget, screen, store, counters, OneReaderEach, Requests, Request
<1>4. MailFits'
  BY DEF ScreenInv, PickTarget, screen, store, counters, MailFits
<1>5. LocksFit'
  BY DEF ScreenInv, PickTarget, screen, store, counters, LocksFit
<1>6. RunningWillEnd'
  BY DEF ScreenInv, PickTarget, screen, store, counters, RunningWillEnd
<1>7. OnlyActiveRuns'
  BY DEF ScreenInv, PickTarget, screen, store, counters, OnlyActiveRuns, IsOver
<1>8. QED
  BY <1>1, <1>2, <1>3, <1>4, <1>5, <1>6, <1>7 DEF ScreenInv

LEMMA RestoreStep ==
    ASSUME ScreenInv, NEW r \in restores, Restore(r)
    PROVE  ScreenInv'
<1>1. ScreenTypeOK'
  <2>1. restores' \subseteq Restores
    BY DEF Restore, ScreenInv, ScreenTypeOK, Restores
  <2>2. r.target \in Nat
    BY DEF ScreenInv, ScreenTypeOK, Restores
  <2>3. log' \in Seq([op : Ops, answered : BOOLEAN])
    <3>1. log \in Seq([op : Ops, answered : BOOLEAN])
      BY DEF ScreenInv, ScreenTypeOK, TypeOK
    <3>2. CASE r.target = 0
      <4>1. SubSeq(log, 1, r.target - 1) = <<>>
        BY <3>1, <3>2
      <4>2. QED
        BY <3>1, <4>1, EmptySeq DEF Restore
    <3>3. CASE r.target # 0
      BY <2>2, <3>1, <3>3 DEF Restore
    <3>4. QED
      BY <3>2, <3>3
  <2>4. TypeOK'
    BY <2>3 DEF Restore, screen, counters, ScreenInv, ScreenTypeOK, TypeOK
  <2>5. QED
    BY <2>1, <2>4 DEF Restore, screen, counters, ScreenInv, ScreenTypeOK
<1>2. NumbersFit'
  BY DEF ScreenInv, Restore, screen, counters, NumbersFit
<1>3. OneReaderEach'
  BY DEF ScreenInv, Restore, screen, counters, OneReaderEach, Requests, Request
<1>4. MailFits'
  BY DEF ScreenInv, Restore, screen, counters, MailFits
<1>5. LocksFit'
  BY DEF ScreenInv, Restore, screen, counters, LocksFit
<1>6. RunningWillEnd'
  BY DEF ScreenInv, Restore, screen, counters, RunningWillEnd
<1>7. OnlyActiveRuns'
  BY DEF ScreenInv, Restore, screen, counters, OnlyActiveRuns, IsOver
<1>8. QED
  BY <1>1, <1>2, <1>3, <1>4, <1>5, <1>6, <1>7 DEF ScreenInv

LEMMA ScreenStart == Init => ScreenInv
<1> SUFFICES ASSUME Init PROVE ScreenInv
  OBVIOUS
<1>1. ScreenTypeOK
  BY EmptySeq DEF Init, ScreenTypeOK, TypeOK, Operation, Operations, OpStages, Commands
<1>2. NumbersFit
  BY EmptySeq, BoundsFit DEF Init, NumbersFit, Operation
<1>3. OneReaderEach
  BY DEF Init, OneReaderEach, Requests
<1>4. MailFits /\ LocksFit /\ RunningWillEnd /\ OnlyActiveRuns
  BY DEF Init, MailFits, LocksFit, RunningWillEnd, OnlyActiveRuns, IsOver, Operation
<1>5. QED
  BY <1>1, <1>2, <1>3, <1>4 DEF ScreenInv

LEMMA ScreenSteps == ScreenInv /\ [Next]_vars => ScreenInv'
<1> SUFFICES ASSUME ScreenInv, [Next]_vars PROVE ScreenInv'
  OBVIOUS
<1>1. CASE User
  BY <1>1, SubmitPromptStep, SubmitShellStep, SubmitSkillStep, SubmitCommandStep, CtrlCStep,
     EscapeStep, OpenSettingsStep, OpenRewindSelectorStep
  DEF User
<1>2. CASE Dismiss
  BY <1>2, CloseSettingsStep, CloseRewindSelectorStep, SelectRewindStep DEF Dismiss
<1>3. CASE Update
  BY <1>3, HandleDoneStep, ReceiveRequestStep, DropStaleStep, RunCancelledStep, ShellFinishedStep,
     SkillOverStep, RunInlineStep, RunFinishedStep, CommandFinishedStep,
     CancelRestoreFinishedStep, RewindConversationStep
  DEF Update
<1>4. CASE Background
  BY <1>4, ListenStep, CompactStep, NewSessionStep, CheckGenerationStep, PickTargetStep,
     RestoreStep DEF Background
<1>5. ASSUME NEW k \in Kinds, AnswerForm(k) PROVE ScreenInv'
  BY <1>5, AnswerFormStep
<1>6. ASSUME NEW o \in Ops, RunStep(o) PROVE ScreenInv'
  BY <1>6, TakeRunLockStep, EnterSessionStep, StopWaitingStep, AskStep, EndRunStep, ShellEndsStep,
     SkillReadyStep DEF RunStep, Results
<1>7. CASE UNCHANGED vars
  <2>1. ScreenTypeOK'
    BY <1>7 DEF vars, screen, workers, store, counters, ScreenInv, ScreenTypeOK, TypeOK
  <2>2. NumbersFit' /\ OneReaderEach' /\ MailFits'
    BY <1>7 DEF vars, screen, workers, counters, ScreenInv, NumbersFit, OneReaderEach, Requests,
       Request, MailFits
  <2>3. LocksFit' /\ RunningWillEnd' /\ OnlyActiveRuns'
    BY <1>7 DEF vars, screen, workers, store, counters, ScreenInv, LocksFit, RunningWillEnd,
       OnlyActiveRuns, IsOver
  <2>4. QED
    BY <2>1, <2>2, <2>3 DEF ScreenInv
<1>8. QED
  BY <1>1, <1>2, <1>3, <1>4, <1>5, <1>6, <1>7 DEF Next

LEMMA ReadersAreCounted == ScreenInv => OneReader
<1> SUFFICES ASSUME ScreenInv, NEW k \in Kinds
             PROVE  Cardinality(Requests(k)) + (IF listening[k] THEN 1 ELSE 0)
                      + (IF form[k] # None THEN 1 ELSE 0) = 1
  BY DEF OneReader, Requests, ScreenInv, ScreenTypeOK
<1>1. Cardinality({}) = 0 /\ \A o : Cardinality({Request(k, o)}) = 1
  BY FS_EmptySet, FS_Singleton
<1>2. CASE Requests(k) = {}
  <2>1. Cardinality(Requests(k)) = 0
    BY <1>1, <1>2
  <2>2. \/ listening[k] /\ form[k] = None
        \/ ~listening[k] /\ form[k] # None
    BY <1>2 DEF ScreenInv, OneReaderEach
  <2>3. QED
    BY <2>1, <2>2
<1>3. CASE \E o \in Ops : Requests(k) = {Request(k, o)}
  <2>1. Cardinality(Requests(k)) = 1
    BY <1>1, <1>3
  <2>2. ~listening[k] /\ form[k] = None
    BY <1>3 DEF ScreenInv, OneReaderEach
  <2>3. QED
    BY <2>1, <2>2
<1>4. QED
  BY <1>2, <1>3 DEF ScreenInv, OneReaderEach

LEMMA IdleFollows == ScreenInv => IdleIsTrue
<1> SUFFICES ASSUME ScreenInv, ~running, ~takenOver
             PROVE  /\ \A o \in Ops : op[o].st \in {"none", "done"}
                    /\ command.st = "none" /\ runMu = None /\ sessionGate = None
  BY DEF IdleIsTrue
<1>1. command.st = "none" /\ \A o \in Ops : op[o].st \in {"none", "done"}
  BY DEF ScreenInv, OnlyActiveRuns, IsOver
<1>2. runMu = None /\ sessionGate = None
  BY <1>1 DEF ScreenInv, ScreenTypeOK, TypeOK, LocksFit
<1>3. QED
  BY <1>1, <1>2

\* The variables of the terminal keep their types (model.go, the fields of Model and its messages).
THEOREM ScreenTypeCorrect == Spec => []TypeOK
<1>1. ScreenInv => TypeOK
  BY DEF ScreenInv, ScreenTypeOK
<1>2. QED
  BY <1>1, ScreenStart, ScreenSteps, PTL DEF Spec

\* Whatever is typed, cancelled, asked, rewound or restored, and in whatever order the messages of
\* the goroutines arrive: every bridge keeps its one reader, a screen that shows a run will be told
\* of its end, and an idle screen means that nothing runs (model.go, Update).
THEOREM ScreenStaysTrue == Spec => []ScreenIsTrue
<1>1. ScreenInv => ScreenIsTrue
  BY ReadersAreCounted, IdleFollows DEF ScreenIsTrue, ScreenInv
<1>2. QED
  BY <1>1, ScreenStart, ScreenSteps, PTL DEF Spec

-----------------------------------------------------------------------------
(* Unattended development: the sequences, the stages and the records.        *)

(* Sequences, the order of the stages and the records of a ledger.            *)

\* A sequence is one over what it holds.
LEMMA InItsRange ==
    ASSUME NEW S, NEW s \in Seq(S)
    PROVE  s \in Seq(Range(s)) /\ DOMAIN s = 1..Len(s) /\ Len(s) \in Nat
<1>1. DOMAIN s = 1..Len(s) /\ Len(s) \in Nat /\ s \in [1..Len(s) -> S]
    OBVIOUS
<1>2. s \in [1..Len(s) -> Range(s)]
    BY <1>1 DEF Range
<1> QED
    BY <1>1, <1>2

\* A function over 1..n is a sequence.
LEMMA FunctionIsSeq ==
    ASSUME NEW n \in Nat, NEW S, NEW r \in [1..n -> S]
    PROVE  r \in Seq(S)
OBVIOUS

\* RecordReplaced one element leaves the others.
LEMMA Replaced ==
    ASSUME NEW s, s \in Seq(Range(s)), NEW i \in DOMAIN s, NEW x, NEW r, r = [s EXCEPT ![i] = x]
    PROVE  /\ r \in Seq(Range(r)) /\ DOMAIN r = DOMAIN s /\ Len(r) = Len(s) /\ r[i] = x
           /\ \A j \in DOMAIN s : j # i => r[j] = s[j]
<1>1. DOMAIN s = 1..Len(s) /\ Len(s) \in Nat
    BY InItsRange
<1>2. /\ DOMAIN r = DOMAIN s /\ r[i] = x
      /\ \A j \in DOMAIN s : j # i => r[j] = s[j]
    OBVIOUS
<1>3. r \in [1..Len(s) -> Range(r)]
    BY <1>1, <1>2 DEF Range
<1>4. r \in Seq(Range(r))
    BY <1>1, <1>3, FunctionIsSeq
<1> QED
    BY <1>1, <1>2, <1>4, InItsRange

\* Appending leaves what there was.
LEMMA Appended ==
    ASSUME NEW s, s \in Seq(Range(s)), NEW x
    PROVE  /\ Append(s, x) \in Seq(Range(Append(s, x)))
           /\ DOMAIN Append(s, x) = 1..(Len(s) + 1) /\ Len(Append(s, x)) = Len(s) + 1
           /\ DOMAIN s = 1..Len(s) /\ Len(s) \in Nat
           /\ \A j \in DOMAIN s : Append(s, x)[j] = s[j]
           /\ Append(s, x)[Len(s) + 1] = x
<1> DEFINE S == Range(s) \cup {x}
<1>1. s \in Seq(S) /\ x \in S
    OBVIOUS
<1>2. DOMAIN s = 1..Len(s) /\ Len(s) \in Nat
    BY InItsRange
<1> HIDE DEF S
<1>3. /\ Append(s, x) \in Seq(S) /\ Len(Append(s, x)) = Len(s) + 1
      /\ \A j \in 1..Len(s) : Append(s, x)[j] = s[j]
      /\ Append(s, x)[Len(s) + 1] = x
    BY <1>1
<1> QED
    BY <1>2, <1>3, InItsRange

\* A set of numbers has a least one.
LEMMA LeastOf ==
    ASSUME NEW I \in SUBSET Nat, I # {}
    PROVE  \E m \in I : \A j \in I : m <= j
<1> DEFINE R == {ss \in Nat \X Nat : ss[1] < ss[2]}
<1>1. IsWellFoundedOn(R, Nat)
    BY NatLessThanWellFounded DEF OpToRel
<1>2. I \subseteq Nat
    OBVIOUS
<1>3. \A j, k \in Nat : j < k => <<j, k>> \in R
    OBVIOUS
<1> HIDE DEF R
<1>4. PICK m \in I : \A j \in I : <<j, m>> \notin R
    BY <1>1, <1>2, WFMin
<1>5. ASSUME NEW j \in I PROVE m <= j
    <2>1. j \in Nat /\ m \in Nat /\ ~(j < m)
        BY <1>2, <1>3, <1>4
    <2> QED
        BY <2>1
<1> QED
    BY <1>5

\* Where the elements of two joined sequences are.
LEMMA Joined ==
    ASSUME NEW S, NEW s \in Seq(S), NEW t \in Seq(S)
    PROVE  /\ s \o t \in Seq(S) /\ Len(s \o t) = Len(s) + Len(t)
           /\ Len(s) \in Nat /\ Len(t) \in Nat
           /\ \A k \in 1..Len(s) : (s \o t)[k] = s[k]
           /\ \A k \in 1..Len(t) : (s \o t)[Len(s) + k] = t[k]
<1>1. s \o t \in Seq(S) /\ Len(s \o t) = Len(s) + Len(t) /\ Len(s) \in Nat /\ Len(t) \in Nat
    OBVIOUS
<1>2. \A k \in 1..Len(s) : (s \o t)[k] = s[k]
    OBVIOUS
<1>3. \A k \in 1..Len(t) : (s \o t)[Len(s) + k] = t[k]
    OBVIOUS
<1> QED
    BY <1>1, <1>2, <1>3

-----------------------------------------------------------------------------
\* Where the stages stand: the pipeline first, then "publish", the publishing steps, "done".
PL == Len(Pipeline)
RL == Len(RemoteSteps)

\* The pipeline comes first, then "publish", the publishing steps and "done".
LEMMA StagesAre ==
    /\ PL \in Nat \ {0} /\ RL \in Nat
    /\ DOMAIN WorkflowStages = 1..(PL + RL + 2)
    /\ DOMAIN Pipeline = 1..PL /\ DOMAIN RemoteSteps = 1..RL
    /\ \A k \in 1..RL : RemoteSteps[k] \in Publications
    /\ \A k \in 1..PL : WorkflowStages[k] = Pipeline[k]
    /\ WorkflowStages[PL + 1] = "publish"
    /\ \A k \in 1..RL : WorkflowStages[PL + 1 + k] = RemoteSteps[k]
    /\ WorkflowStages[PL + RL + 2] = "done"
<1> DEFINE U == Range(Pipeline) \cup Range(RemoteSteps) \cup {"publish", "done"}
<1>1. /\ Pipeline \in Seq(Range(Pipeline)) /\ RemoteSteps \in Seq(Range(RemoteSteps))
      /\ Pipeline # <<>> /\ DOMAIN Pipeline = 1..PL /\ DOMAIN RemoteSteps = 1..RL
      /\ PL \in Nat /\ RL \in Nat
      /\ \A k \in 1..RL : RemoteSteps[k] \in Publications
    BY WorkflowAssumption, InItsRange DEF PL, RL
<1>2. /\ Pipeline \in Seq(U) /\ RemoteSteps \in Seq(U)
      /\ <<"publish">> \in Seq(U) /\ <<"done">> \in Seq(U)
    BY <1>1
<1> HIDE DEF U
<1>3. PL \in Nat \ {0}
    BY <1>1 DEF PL
<1> DEFINE A == Pipeline \o <<"publish">>
           B == A \o RemoteSteps
<1>4. /\ A \in Seq(U) /\ Len(A) = PL + 1
      /\ \A k \in 1..PL : A[k] = Pipeline[k]
      /\ A[PL + 1] = "publish"
    BY <1>1, <1>2, <1>3 DEF PL
<1> HIDE DEF A
<1>5. /\ B \in Seq(U) /\ Len(B) = PL + 1 + RL
      /\ \A k \in 1..(PL + 1) : B[k] = A[k]
      /\ \A k \in 1..RL : B[PL + 1 + k] = RemoteSteps[k]
    <2>1. /\ B \in Seq(U) /\ Len(B) = Len(A) + Len(RemoteSteps)
          /\ \A k \in 1..Len(A) : B[k] = A[k]
          /\ \A k \in 1..Len(RemoteSteps) : B[Len(A) + k] = RemoteSteps[k]
        <3>1. A \in Seq(U) /\ RemoteSteps \in Seq(U)
            BY <1>2, <1>4
        <3>2. \A s, t \in Seq(U) :
                  /\ s \o t \in Seq(U) /\ Len(s \o t) = Len(s) + Len(t)
                  /\ \A k \in 1..Len(s) : (s \o t)[k] = s[k]
                  /\ \A k \in 1..Len(t) : (s \o t)[Len(s) + k] = t[k]
            <4> HIDE DEF B
            <4> QED
                BY Joined
        <3> QED
            BY <3>1, <3>2, Zenon
    <2> HIDE DEF B
    <2> QED
        BY <1>4, <2>1 DEF RL
<1> HIDE DEF B
<1>6. WorkflowStages = B \o <<"done">>
    BY DEF WorkflowStages, A, B
<1>7. /\ WorkflowStages \in Seq(U) /\ Len(WorkflowStages) = PL + RL + 2
      /\ \A k \in 1..(PL + 1 + RL) : WorkflowStages[k] = B[k]
      /\ WorkflowStages[PL + RL + 2] = "done"
    <2>1. /\ B \o <<"done">> \in Seq(U) /\ Len(B \o <<"done">>) = Len(B) + 1
          /\ \A k \in 1..Len(B) : (B \o <<"done">>)[k] = B[k]
          /\ (B \o <<"done">>)[Len(B) + 1] = "done"
        BY <1>2, <1>5
    <2>2. Len(B) = PL + 1 + RL /\ Len(B) + 1 = PL + RL + 2
        BY <1>1, <1>5
    <2> QED
        BY <1>6, <2>1, <2>2
<1>8. DOMAIN WorkflowStages = 1..(PL + RL + 2)
    BY <1>7
<1> QED
    BY <1>1, <1>3, <1>4, <1>5, <1>7, <1>8

\* A stage's rank is its place.
LEMMA RankAt ==
    ASSUME NEW k \in DOMAIN WorkflowStages
    PROVE  Rank(WorkflowStages[k]) = k
<1>1. \A i, j \in DOMAIN WorkflowStages : WorkflowStages[i] = WorkflowStages[j] => i = j
    BY WorkflowAssumption DEF IsInjective
<1>2. Position(WorkflowStages, WorkflowStages[k]) = k
    BY <1>1 DEF Position
<1>3. WorkflowStages[k] \in DOMAIN StageRanks
    BY DEF StageRanks, ToSet
<1> QED
    BY <1>2, <1>3 DEF Rank, StageRanks

\* Ranks order the stages, and nothing else has one (remote.go, remoteStageRank).
LEMMA Ranks ==
    /\ PL \in Nat \ {0} /\ RL \in Nat
    /\ \A k \in 1..PL : Rank(Pipeline[k]) = k
    /\ Rank("publish") = PL + 1
    /\ \A k \in 1..RL : Rank(RemoteSteps[k]) = PL + 1 + k
    /\ Rank("done") = PL + RL + 2
    /\ Rank("none") = 0
    /\ \A s \in ToSet(WorkflowStages) : Rank(s) \in 1..(PL + RL + 2)
    /\ \A s, t \in ToSet(WorkflowStages) : Rank(s) = Rank(t) => s = t
    /\ \A s : Rank(s) # 0 => s \in ToSet(WorkflowStages)
    /\ \A s : s \notin ToSet(WorkflowStages) => Rank(s) = 0
<1> USE StagesAre
<1>1. \A k \in 1..PL : Rank(Pipeline[k]) = k
    <2> SUFFICES ASSUME NEW k \in 1..PL PROVE Rank(Pipeline[k]) = k
        OBVIOUS
    <2>1. k \in DOMAIN WorkflowStages /\ WorkflowStages[k] = Pipeline[k]
        OBVIOUS
    <2> QED
        BY <2>1, RankAt
<1>2. Rank("publish") = PL + 1
    <2>1. PL + 1 \in DOMAIN WorkflowStages /\ WorkflowStages[PL + 1] = "publish"
        OBVIOUS
    <2> QED
        BY <2>1, RankAt
<1>3. \A k \in 1..RL : Rank(RemoteSteps[k]) = PL + 1 + k
    <2> SUFFICES ASSUME NEW k \in 1..RL PROVE Rank(RemoteSteps[k]) = PL + 1 + k
        OBVIOUS
    <2>1. PL + 1 + k \in DOMAIN WorkflowStages /\ WorkflowStages[PL + 1 + k] = RemoteSteps[k]
        OBVIOUS
    <2> QED
        BY <2>1, RankAt
<1>4. Rank("done") = PL + RL + 2
    <2>1. PL + RL + 2 \in DOMAIN WorkflowStages /\ WorkflowStages[PL + RL + 2] = "done"
        OBVIOUS
    <2> QED
        BY <2>1, RankAt
<1>5. \A s : s \notin ToSet(WorkflowStages) => Rank(s) = 0
    BY DEF Rank, StageRanks
<1>6. Rank("none") = 0
    BY <1>5, WorkflowAssumption
<1>7. \A s \in ToSet(WorkflowStages) : \E k \in 1..(PL + RL + 2) : s = WorkflowStages[k] /\ Rank(s) = k
    <2> SUFFICES ASSUME NEW s \in ToSet(WorkflowStages)
                 PROVE  \E k \in 1..(PL + RL + 2) : s = WorkflowStages[k] /\ Rank(s) = k
        OBVIOUS
    <2>1. PICK k \in DOMAIN WorkflowStages : s = WorkflowStages[k]
        BY DEF ToSet
    <2> QED
        BY <2>1, RankAt
<1> QED
    BY <1>1, <1>2, <1>3, <1>4, <1>5, <1>6, <1>7

\* Every step of the two loops can be carried out, and is no "done".
LEMMA StepsAre ==
    /\ \A k \in 1..PL : Pipeline[k] \in ExecutableStages /\ Pipeline[k] # "publish" /\ Pipeline[k] # "none"
                        /\ Pipeline[k] \notin Publications
    /\ \A k \in 1..RL : RemoteSteps[k] \in ExecutableStages /\ Publishing(RemoteSteps[k])
                        /\ RemoteSteps[k] # "publish" /\ RemoteSteps[k] # "none"
    /\ "publish" \in ExecutableStages /\ Publishing("publish")
    /\ "none" \notin ToSet(WorkflowStages) /\ "done" \in ToSet(WorkflowStages)
    /\ \A s : Executable(s) /\ ~Publishing(s) => \E k \in 1..PL : s = Pipeline[k]
    /\ \A s : Publishing(s) => s = "publish" \/ \E k \in 1..RL : s = RemoteSteps[k]
<1> USE StagesAre, Ranks
<1>1. /\ \A k \in 1..PL : Pipeline[k] \in ToSet(WorkflowStages)
      /\ \A k \in 1..RL : RemoteSteps[k] \in ToSet(WorkflowStages)
      /\ "publish" \in ToSet(WorkflowStages) /\ "done" \in ToSet(WorkflowStages)
    <2>1. \A k \in DOMAIN WorkflowStages : WorkflowStages[k] \in ToSet(WorkflowStages)
        BY DEF ToSet
    <2> QED
        BY <2>1
<1>2. \A k \in 1..PL : Pipeline[k] \notin Publications
    BY WorkflowAssumption DEF ToSet, PL
<1>3. "none" \notin ToSet(WorkflowStages)
    BY WorkflowAssumption
<1>4. \A k \in 1..PL : Pipeline[k] # "done" /\ Pipeline[k] # "publish" /\ Pipeline[k] # "none"
    BY <1>1, <1>3
<1>5. \A k \in 1..RL : RemoteSteps[k] # "done" /\ RemoteSteps[k] # "publish" /\ RemoteSteps[k] # "none"
    BY <1>1, <1>3
<1>6. \A s \in ToSet(WorkflowStages) : s # "done" =>
          \/ \E k \in 1..PL : s = Pipeline[k]
          \/ s = "publish"
          \/ \E k \in 1..RL : s = RemoteSteps[k]
    <2> SUFFICES ASSUME NEW s \in ToSet(WorkflowStages), s # "done"
                 PROVE  \/ \E k \in 1..PL : s = Pipeline[k]
                        \/ s = "publish"
                        \/ \E k \in 1..RL : s = RemoteSteps[k]
        OBVIOUS
    <2>1. PICK k \in 1..(PL + RL + 2) : s = WorkflowStages[k]
        BY DEF ToSet
    <2>2. CASE k \in 1..PL
        BY <2>1, <2>2
    <2>3. CASE k = PL + 1
        BY <2>1, <2>3
    <2>4. CASE k \in (PL + 2)..(PL + 1 + RL)
        <3>1. k - PL - 1 \in 1..RL /\ PL + 1 + (k - PL - 1) = k
            BY <2>4
        <3>2. WorkflowStages[PL + 1 + (k - PL - 1)] = RemoteSteps[k - PL - 1]
            BY <3>1
        <3> QED
            BY <2>1, <3>1, <3>2
    <2>5. CASE k = PL + RL + 2
        BY <2>1, <2>5
    <2> QED
        BY <2>2, <2>3, <2>4, <2>5
<1>7. \A k \in 1..RL : RemoteSteps[k] \in ExecutableStages /\ Publishing(RemoteSteps[k])
    BY <1>1, <1>5 DEF Publishing, Executable, ExecutableStages, PL
<1>8. "publish" \in ExecutableStages /\ Publishing("publish")
    BY <1>1 DEF Publishing, Executable, ExecutableStages, PL
<1>9. \A s : Executable(s) /\ ~Publishing(s) => \E k \in 1..PL : s = Pipeline[k]
    BY <1>6, <1>7, <1>8 DEF Executable, ExecutableStages
<1>10. \A s : Publishing(s) => s = "publish" \/ \E k \in 1..RL : s = RemoteSteps[k]
    <2> SUFFICES ASSUME NEW s, Publishing(s)
                 PROVE  s = "publish" \/ \E k \in 1..RL : s = RemoteSteps[k]
        OBVIOUS
    <2>1. s \in ToSet(WorkflowStages) /\ s # "done" /\ Rank(s) > PL
        BY DEF Publishing, Executable, ExecutableStages, PL
    <2>2. ASSUME NEW k \in 1..PL, s = Pipeline[k] PROVE FALSE
        <3>1. Rank(s) = k /\ k <= PL
            BY <2>2
        <3> QED
            BY <2>1, <3>1
    <2> QED
        BY <1>6, <2>1, <2>2, ZenonT(30)
<1>11. \A k \in 1..PL : Pipeline[k] \in ExecutableStages
    BY <1>1, <1>4 DEF ExecutableStages
<1>12. /\ \A k \in 1..PL : Pipeline[k] \in ExecutableStages /\ Pipeline[k] # "publish" /\ Pipeline[k] # "none"
                            /\ Pipeline[k] \notin Publications
       /\ \A k \in 1..RL : RemoteSteps[k] \in ExecutableStages /\ Publishing(RemoteSteps[k])
                            /\ RemoteSteps[k] # "publish" /\ RemoteSteps[k] # "none"
    BY <1>2, <1>4, <1>5, <1>7, <1>11, ZenonT(30)
<1> QED
    BY <1>1, <1>3, <1>8, <1>9, <1>10, <1>12, ZenonT(30)

-----------------------------------------------------------------------------
(* Records and ledgers.                                                       *)

Sound(r) == Shaped(r) /\ ValidAttempts(r) /\ ValidStatus(r) /\ ValidLegacy(r) /\ ValidOutbox(r)

\* What ValidChange lets a step change.
LEMMA SameKey ==
    ASSUME NEW a, NEW b, ValidChange(a, b)
    PROVE  /\ a.id = b.id /\ a.src = b.src /\ a.slug = b.slug /\ a.title = b.title /\ a.desc = b.desc
           /\ a.source = b.source /\ a.legacy = b.legacy /\ a.prio = b.prio
           /\ b.frozen = (a.frozen \/ (a.status = "pending" /\ b.status # "pending"))
<1>1. \A f \in {"id", "src", "slug", "title", "desc", "prio", "source", "order", "legacy"} : a[f] = b[f]
    BY DEF ValidChange
<1>2. b.frozen = (a.frozen \/ (a.status = "pending" /\ b.status # "pending"))
    BY DEF ValidChange
<1> QED
    BY <1>1, <1>2

\* A slug finds its record (ledger.go, Get).
LEMMA SlotIs ==
    ASSUME NEW led, WellFormed(led), NEW c, \E i \in DOMAIN led : led[i].slug = c
    PROVE  /\ Slot(led, c) \in DOMAIN led /\ led[Slot(led, c)].slug = c
           /\ \A i \in DOMAIN led : led[i].slug = c => Slot(led, c) = i
    BY DEF WellFormed, Slot

\* A record is written: what a ledger must be to be loaded again.
Keyed(led) ==
    \A i, j \in DOMAIN led : i # j => /\ led[i].slug # led[j].slug /\ led[i].id # led[j].id
                                      /\ led[i].src # Unset => led[i].src # led[j].src

\* A ledger is good exactly when its records are, one by one and in pairs.
LEMMA LeftBehindIs ==
    ASSUME NEW led
    PROVE  LeftBehind(led) <=>
             /\ led \in Seq(Range(led)) /\ Keyed(led)
             /\ \A i \in DOMAIN led : Sound(led[i])
             /\ \A i, j \in DOMAIN led :
                    led[i].status = "in-progress" /\ led[j].status = "in-progress" => i = j
             /\ \A i \in DOMAIN led : led[i].issue = 0 => led[i].outbox = <<>>
    BY Zenon DEF LeftBehind, WellFormed, ValidLedger, Sound, Keyed

\* One record changed the way validation accepts leaves a good ledger.
LEMMA RewrittenBy ==
    ASSUME NEW led, LeftBehind(led), NEW k \in DOMAIN led, NEW r, Sound(r), ValidChange(led[k], r),
           r.issue = 0 => r.outbox = <<>>,
           r.status = "in-progress" => \A j \in DOMAIN led : led[j].status = "in-progress" => j = k,
           NEW new, new \in Seq(Range(new)), DOMAIN new = DOMAIN led, new[k] = r,
           \A j \in DOMAIN led : j # k => new[j] = led[j]
    PROVE  LeftBehind(new)
<1>1. led[k].id = r.id /\ led[k].src = r.src /\ led[k].slug = r.slug
    BY SameKey
<1>2. /\ \A i \in DOMAIN led : Sound(led[i])
      /\ Keyed(led)
      /\ \A i, j \in DOMAIN led :
            led[i].status = "in-progress" /\ led[j].status = "in-progress" => i = j
      /\ \A i \in DOMAIN led : led[i].issue = 0 => led[i].outbox = <<>>
    BY LeftBehindIs
<1>3. \A i \in DOMAIN new : Sound(new[i])
    BY <1>2
<1>4. Keyed(new)
    BY <1>1, <1>2 DEF Keyed
<1>5. \A i, j \in DOMAIN new :
            new[i].status = "in-progress" /\ new[j].status = "in-progress" => i = j
    BY <1>2
<1>6. \A i \in DOMAIN new : new[i].issue = 0 => new[i].outbox = <<>>
    BY <1>2
<1> QED
    BY <1>3, <1>4, <1>5, <1>6, LeftBehindIs

\* The same, for the replacement as the code writes it.
LEMMA Rewritten ==
    ASSUME NEW led, LeftBehind(led), NEW k \in DOMAIN led, NEW r, Sound(r), ValidChange(led[k], r),
           r.issue = 0 => r.outbox = <<>>,
           r.status = "in-progress" => \A j \in DOMAIN led : led[j].status = "in-progress" => j = k,
           NEW new, new = [led EXCEPT ![k] = r]
    PROVE  /\ LeftBehind(new) /\ DOMAIN new = DOMAIN led /\ new[k] = r
           /\ \A j \in DOMAIN led : j # k => new[j] = led[j]
<1>1. led \in Seq(Range(led))
    BY LeftBehindIs
<1>2. /\ new \in Seq(Range(new)) /\ DOMAIN new = DOMAIN led /\ new[k] = r
      /\ \A j \in DOMAIN led : j # k => new[j] = led[j]
    BY <1>1, Replaced
<1> QED
    BY <1>2, RewrittenBy

-----------------------------------------------------------------------------
(* The attempts of a record.                                                  *)

\* The attempts of a record are numbered records.
LEMMA AttemptsAre ==
    ASSUME NEW r, Shaped(r)
    PROVE  /\ r.attempts \in Seq(CoreAttempts) /\ DOMAIN r.attempts = 1..Len(r.attempts)
           /\ Len(r.attempts) \in Nat
           /\ \A i \in 1..Len(r.attempts) : /\ r.attempts[i] \in CoreAttempts
                                            /\ r.attempts[i].ordinal \in Nat
<1>1. r.attempts \in Seq(CoreAttempts)
    BY DEF Shaped
<1>2. \A i \in 1..Len(r.attempts) : r.attempts[i] \in CoreAttempts
    BY <1>1
<1>3. \A c \in CoreAttempts : c.ordinal \in Nat
    BY DEF CoreAttempts
<1> QED
    BY <1>1, <1>2, <1>3

\* Ordinals rise, so the last one is the greatest.
LEMMA LastIsGreatest ==
    ASSUME NEW r, Shaped(r), ValidAttempts(r)
    PROVE  /\ LastOrdinal(r) \in Nat
           /\ \A i \in DOMAIN r.attempts : r.attempts[i].ordinal <= LastOrdinal(r)
           /\ \A i \in DOMAIN r.attempts : i # Len(r.attempts) => r.attempts[i].ordinal < LastOrdinal(r)
<1> DEFINE a == r.attempts
<1>1. a \in Seq(CoreAttempts) /\ DOMAIN a = 1..Len(a) /\ Len(a) \in Nat
    BY AttemptsAre
<1>2. \A i \in 1..Len(a) : a[i].ordinal \in Nat
    BY AttemptsAre
<1>3. \A i \in 1..Len(a) : i > 1 => a[i].ordinal > a[i - 1].ordinal
    BY <1>1 DEF ValidAttempts
<1>4. LastOrdinal(r) = IF a = <<>> THEN 0 ELSE a[Len(a)].ordinal
    BY DEF LastOrdinal
<1>5. a = <<>> => Len(a) = 0
    BY <1>1
<1> HIDE DEF a
<1>6. ASSUME NEW i \in 1..Len(a), i # Len(a)
      PROVE  a[i].ordinal < a[Len(a)].ordinal
    <2> DEFINE Low == {j \in 1..Len(a) : i < j /\ ~(a[i].ordinal < a[j].ordinal)}
    <2>1. CASE Low = {}
        <3>1. Len(a) \in 1..Len(a) /\ i < Len(a)
            <4>1. Len(a) \in Nat /\ i \in 1..Len(a) /\ i # Len(a)
                BY <1>1, <1>6
            <4> QED
                BY <4>1
        <3>2. Len(a) \notin Low
            BY <2>1
        <3> QED
            BY <3>1, <3>2
    <2>2. CASE Low # {}
        <3>1. Low \in SUBSET Nat
            BY <1>1
        <3>2. PICK m \in Low : \A j \in Low : m <= j
            BY <2>2, <3>1, LeastOf
        <3>3. m \in 1..Len(a) /\ i < m /\ ~(a[i].ordinal < a[m].ordinal) /\ m > 1
            BY <3>2, <1>1
        <3>4. a[m].ordinal > a[m - 1].ordinal /\ m - 1 \in 1..Len(a)
            BY <3>3, <1>1, <1>3
        <3>5. m - 1 = i \/ (i < m - 1 /\ a[i].ordinal < a[m - 1].ordinal)
            <4>1. m - 1 \notin Low
                BY <3>2, <3>3, <1>1
            <4> QED
                BY <4>1, <3>3, <3>4, <1>1
        <3>6. a[i].ordinal \in Nat /\ a[m].ordinal \in Nat /\ a[m - 1].ordinal \in Nat
            BY <1>2, <3>3, <3>4
        <3>7. CASE m - 1 = i
            BY <3>3, <3>4, <3>6, <3>7
        <3>8. CASE i < m - 1 /\ a[i].ordinal < a[m - 1].ordinal
            BY <3>3, <3>4, <3>6, <3>8
        <3> QED
            BY <3>5, <3>7, <3>8
    <2> QED
        BY <2>1, <2>2
<1>7. \A i \in 1..Len(a) : a # <<>>
    BY <1>1, <1>5
<1>8. LastOrdinal(r) \in Nat
    <2>1. CASE a = <<>>
        BY <2>1, <1>4
    <2>2. CASE a # <<>>
        <3>1. Len(a) \in 1..Len(a)
            BY <2>2, <1>1
        <3> QED
            BY <2>2, <3>1, <1>2, <1>4
    <2> QED
        BY <2>1, <2>2
<1>9. \A i \in 1..Len(a) : a[i].ordinal <= LastOrdinal(r)
    BY <1>2, <1>4, <1>6, <1>7, <1>8
<1>10. \A i \in 1..Len(a) : i # Len(a) => a[i].ordinal < LastOrdinal(r)
    BY <1>4, <1>6, <1>7
<1> QED
    BY <1>1, <1>8, <1>9, <1>10 DEF a

\* Recording the next ordinal appends an attempt (core_outcome.go, newCoreAttempt).
LEMMA NewAttempt ==
    ASSUME NEW r, Shaped(r), ValidAttempts(r), NEW st, NEW w,
           w = WithAttempt(r, st, LastOrdinal(r) + 1, "running")
    PROVE  w = [r EXCEPT !.attempts = Append(@, [stage |-> st, ordinal |-> LastOrdinal(r) + 1,
                                                state |-> "running"])]
<1>1. \A i \in DOMAIN r.attempts : r.attempts[i].ordinal # LastOrdinal(r) + 1
    <2>1. LastOrdinal(r) \in Nat /\ \A i \in DOMAIN r.attempts : r.attempts[i].ordinal <= LastOrdinal(r)
        BY LastIsGreatest
    <2>2. \A i \in DOMAIN r.attempts : r.attempts[i].ordinal \in Nat
        BY AttemptsAre
    <2> QED
        BY <2>1, <2>2
<1>2. {i \in DOMAIN r.attempts : r.attempts[i].stage = st
                               /\ r.attempts[i].ordinal = LastOrdinal(r) + 1} = {}
    BY <1>1
<1> QED
    BY <1>2, Zenon DEF WithAttempt

\* Recording the last ordinal again ends its attempt (core_outcome.go, bindCoreAttemptRecorder).
LEMMA EndedAttempt ==
    ASSUME NEW r, Shaped(r), ValidAttempts(r), r.attempts # <<>>, NEW st,
           r.attempts[Len(r.attempts)].stage = st,
           NEW w, w = WithAttempt(r, st, LastOrdinal(r), "terminal")
    PROVE  w = [r EXCEPT !.attempts[Len(r.attempts)].state = "terminal"]
<1> DEFINE n == Len(r.attempts)
           known == {i \in DOMAIN r.attempts : r.attempts[i].stage = st
                                             /\ r.attempts[i].ordinal = LastOrdinal(r)}
<1>1. n \in DOMAIN r.attempts
    BY DEF Shaped
<1>2. LastOrdinal(r) = r.attempts[n].ordinal
    BY DEF LastOrdinal
<1>3. \A i \in DOMAIN r.attempts : i # n => r.attempts[i].ordinal < LastOrdinal(r)
    BY LastIsGreatest
<1>4. \A i \in DOMAIN r.attempts : r.attempts[i].ordinal \in Nat
    BY AttemptsAre
<1>5. known = {n}
    BY <1>1, <1>2, <1>3, <1>4
<1>6. known # {} /\ (CHOOSE i \in known : TRUE) = n
    BY <1>5
<1>7. w = IF known = {}
          THEN [r EXCEPT !.attempts = Append(@, [stage |-> st, ordinal |-> LastOrdinal(r), state |-> "terminal"])]
          ELSE [r EXCEPT !.attempts[CHOOSE i \in known : TRUE].state = "terminal"]
    BY Zenon DEF WithAttempt
<1> HIDE DEF known, n
<1>8. w = [r EXCEPT !.attempts[n].state = "terminal"]
    BY <1>6, <1>7
<1> QED
    BY <1>8 DEF n

-----------------------------------------------------------------------------
(* The reconciliation with the backlog.                                       *)

\* The suffixes never run out: a new item's slug is taken by no record (slug.go, Slug).
LEMMA SlugIsFree ==
    ASSUME NEW title, NEW taken, IsFiniteSet(taken)
    PROVE  FreeSlug(title, taken) \notin taken
<1>1. CASE <<title>> \notin taken
    BY <1>1 DEF FreeSlug
<1>2. CASE <<title>> \in taken
    <2> DEFINE C == Cardinality(taken)
               Unused == {n \in 2..(C + 2) : <<title, n>> \notin taken}
               f == [n \in 2..(C + 2) |-> <<title, n>>]
    <2>1. C \in Nat
        BY FS_CardinalityType
    <2>2. IsFiniteSet(2..(C + 2)) /\ Cardinality(2..(C + 2)) = C + 1
        <3>1. 2 \in Int /\ C + 2 \in Int
            BY <2>1
        <3>2. /\ IsFiniteSet(2..(C + 2))
              /\ Cardinality(2..(C + 2)) = IF 2 > C + 2 THEN 0 ELSE (C + 2) - 2 + 1
            <4> HIDE DEF C
            <4> QED
                BY <3>1, FS_Interval
        <3> HIDE DEF C, Unused, f
        <3> QED
            BY <2>1, <3>2
    <2>3. Unused # {}
        <3> SUFFICES ASSUME Unused = {} PROVE FALSE
            OBVIOUS
        <3>1. f \in [2..(C + 2) -> taken]
            OBVIOUS
        <3>2. Cardinality(taken) < Cardinality(2..(C + 2))
            BY <2>1, <2>2
        <3> DEFINE D == 2..(C + 2)
        <3>3. PICK x, y \in D : x # y /\ f[x] = f[y]
            <4>1. /\ IsFiniteSet(D) /\ IsFiniteSet(taken) /\ f \in [D -> taken]
                  /\ Cardinality(taken) < Cardinality(D)
                BY <2>2, <3>1, <3>2
            <4> HIDE DEF f, D
            <4> QED
                BY <4>1, FS_PigeonHole
        <3>4. <<title, x>> = <<title, y>>
            BY <3>3 DEF f
        <3> QED
            BY <3>3, <3>4
    <2>4. Unused \in SUBSET Nat
        BY <2>1
    <2>5. PICK m \in Unused : \A j \in Unused : m <= j
        BY <2>3, <2>4, LeastOf
    <2>6. m \in 2..(C + 2) /\ <<title, m>> \notin taken
        BY <2>5
    <2>7. \A j \in 2..(m - 1) : <<title, j>> \in taken
        BY <2>1, <2>5, <2>6
    <2> DEFINE Q(n) == /\ <<title, n>> \notin taken
                       /\ \A j \in 2..n - 1 : <<title, j>> \in taken
    <2>8. \E n \in 2..Cardinality(taken) + 2 : Q(n)
        BY <2>6, <2>7
    <2>9. Q(CHOOSE n \in 2..Cardinality(taken) + 2 : Q(n))
        <3> HIDE DEF Q
        <3> QED
            BY <2>8
    <2>10. FreeSlug(title, taken) = <<title, CHOOSE n \in 2..Cardinality(taken) + 2 : Q(n)>>
        BY <1>2 DEF FreeSlug
    <2> QED
        BY <2>9, <2>10
<1> QED
    BY <1>1, <1>2

Fresh(r) ==
    /\ Shaped(r) /\ r.status = "pending" /\ r.stage = "none" /\ ~r.frozen
    /\ r.issue = 0 /\ r.pr = 0 /\ r.branch = Unset /\ r.outbox = <<>> /\ r.attempts = <<>>

\* A new record starts from nothing.
LEMMA NewIsFresh ==
    ASSUME NEW request, NEW order, NEW taken
    PROVE  Fresh(NewItem(request, order, taken)) /\ NewItem(request, order, taken).slug = FreeSlug(request.title, taken)
<1> DEFINE r == NewItem(request, order, taken)
<1>1. /\ DOMAIN r = ItemFields /\ r.status = "pending" /\ r.stage = "none" /\ r.frozen = FALSE
      /\ r.legacy = FALSE /\ r.issue = 0 /\ r.pr = 0 /\ r.feature = 0
      /\ r.branch = Unset /\ r.outbox = <<>> /\ r.attempts = <<>>
      /\ r.slug = FreeSlug(request.title, taken)
    BY DEF NewItem, ItemFields
<1> HIDE DEF r
<1>2. <<>> \in Seq(Events) /\ <<>> \in Seq(CoreAttempts)
    OBVIOUS
<1>3. /\ {r.frozen, r.legacy} \subseteq BOOLEAN /\ {r.feature, r.issue, r.pr} \subseteq Nat
      /\ r.status \in {"pending", "in-progress", "done"}
    <2>1. r.frozen \in BOOLEAN /\ r.legacy \in BOOLEAN
        BY <1>1, Zenon
    <2>2. r.feature \in Nat /\ r.issue \in Nat /\ r.pr \in Nat
        BY <1>1
    <2>3. r.status \in {"pending", "in-progress", "done"}
        BY <1>1, Zenon
    <2> QED
        BY <2>1, <2>2, <2>3, Zenon
<1>4. r.outbox \in Seq(Events) /\ r.attempts \in Seq(CoreAttempts)
    BY <1>1, <1>2, Zenon
<1>5. Shaped(r)
    BY <1>1, <1>3, <1>4, Zenon DEF Shaped
<1>6. ~r.frozen
    BY <1>1
<1> QED
    BY <1>1, <1>5, <1>6 DEF Fresh, r

\* A ledger with new records behind the ones it had.
Grown(led, s) ==
    /\ s \in Seq(Range(s)) /\ Len(led) <= Len(s)
    /\ \A i \in DOMAIN led : i \in DOMAIN s /\ s[i] = led[i]
    /\ \A i \in DOMAIN s \ DOMAIN led : Fresh(s[i])
    /\ \A i, j \in DOMAIN s : i # j => s[i].slug # s[j].slug

SlugsOf(s) == {s[k].slug : k \in DOMAIN s}

\* Adding a new item keeps a grown ledger grown.
LEMMA GrowsByOne ==
    ASSUME NEW led, led \in Seq(Range(led)), NEW s, Grown(led, s), NEW request, NEW order
    PROVE  Grown(led, Append(s, NewItem(request, order, SlugsOf(s))))
<1> DEFINE x == NewItem(request, order, SlugsOf(s))
           t == Append(s, x)
<1>1. /\ s \in Seq(Range(s)) /\ DOMAIN s = 1..Len(s) /\ Len(s) \in Nat /\ Len(led) <= Len(s)
      /\ DOMAIN led = 1..Len(led) /\ Len(led) \in Nat
    BY InItsRange DEF Grown
<1>2. IsFiniteSet(SlugsOf(s))
    <2> DEFINE g == [k \in DOMAIN s |-> s[k].slug]
    <2>1. g \in Surjection(DOMAIN s, SlugsOf(s))
        BY DEF Surjection, SlugsOf
    <2>2. IsFiniteSet(DOMAIN s)
        BY <1>1, FS_Interval
    <2> HIDE DEF g
    <2> QED
        BY <2>1, <2>2, FS_Surjection
<1>3. Fresh(x) /\ x.slug \notin SlugsOf(s)
    BY <1>2, NewIsFresh, SlugIsFree
<1> HIDE DEF x
<1>4. /\ t \in Seq(Range(t)) /\ DOMAIN t = 1..(Len(s) + 1) /\ Len(t) = Len(s) + 1
      /\ \A j \in DOMAIN s : t[j] = s[j]
      /\ t[Len(s) + 1] = x
    BY <1>1, Appended
<1> HIDE DEF t
<1>5. \A i \in DOMAIN t : i \in DOMAIN s \/ i = Len(s) + 1
    BY <1>1, <1>4
<1>6. \A i \in DOMAIN led : i \in DOMAIN t /\ t[i] = led[i]
    BY <1>1, <1>4 DEF Grown
<1>7. \A i \in DOMAIN t \ DOMAIN led : Fresh(t[i])
    BY <1>3, <1>4, <1>5 DEF Grown
<1>8. \A i, j \in DOMAIN t : i # j => t[i].slug # t[j].slug
    BY <1>3, <1>4, <1>5 DEF Grown, SlugsOf
<1>9. Grown(led, t)
    BY <1>1, <1>4, <1>6, <1>7, <1>8 DEF Grown
<1> QED
    BY <1>9 DEF t, x

\* The recursion that adds the new records, up to the entry n.
IsAdding(led, list, matches, g, m) ==
    g = [n \in 0..m |->
            IF n = 0 THEN led
            ELSE IF matches[n] # 0 THEN g[n - 1]
            ELSE Append(g[n - 1], NewItem(list[n], n, {g[n - 1][k].slug : k \in DOMAIN g[n - 1]}))]

\* The items are added one after the other: the recursion has a solution.
LEMMA AddingExists ==
    ASSUME NEW led, NEW list, NEW matches, NEW m \in Nat
    PROVE  \E g : IsAdding(led, list, matches, g, m)
<1> DEFINE Bad == {n \in Nat : ~\E g : IsAdding(led, list, matches, g, n)}
<1> SUFFICES ASSUME Bad # {} PROVE FALSE
    OBVIOUS
<1>1. PICK n \in Bad : \A j \in Bad : n <= j
    BY LeastOf
<1>2. CASE n = 0
    <2> DEFINE g == [k \in 0..0 |-> led]
    <2>1. IsAdding(led, list, matches, g, 0)
        BY DEF IsAdding
    <2> QED
        BY <1>1, <1>2, <2>1
<1>3. CASE n # 0
    <2>1. n \in Nat /\ n - 1 \in Nat /\ n - 1 \notin Bad
        BY <1>1, <1>3
    <2>2. PICK g : IsAdding(led, list, matches, g, n - 1)
        BY <2>1
    <2> DEFINE Step(h, k) ==
                  IF k = 0 THEN led
                  ELSE IF matches[k] # 0 THEN h[k - 1]
                  ELSE Append(h[k - 1], NewItem(list[k], k, {h[k - 1][l].slug : l \in DOMAIN h[k - 1]}))
               h == [k \in 0..n |-> IF k = n THEN Step(g, n) ELSE g[k]]
    <2>3. \A k \in 0..(n - 1) : h[k] = g[k] /\ g[k] = Step(g, k)
        <3>1. g = [k \in 0..(n - 1) |-> Step(g, k)]
            BY <2>2 DEF IsAdding
        <3> HIDE DEF Step
        <3>2. \A k \in 0..(n - 1) : g[k] = Step(g, k)
            BY <3>1
        <3> QED
            BY <2>1, <3>2
    <2>4. \A k \in 0..n : k # 0 => k - 1 \in 0..(n - 1) /\ h[k - 1] = g[k - 1]
        BY <2>1, <2>3
    <2>5. \A k \in 0..n : Step(h, k) = Step(g, k)
        <3> SUFFICES ASSUME NEW k \in 0..n PROVE Step(h, k) = Step(g, k)
            OBVIOUS
        <3>1. CASE k = 0
            BY <3>1
        <3>2. CASE k # 0
            <4>1. h[k - 1] = g[k - 1]
                BY <2>4, <3>2
            <4> HIDE DEF h
            <4> QED
                BY <4>1, Zenon
        <3> QED
            BY <3>1, <3>2
    <2>6. \A k \in 0..n : h[k] = Step(h, k)
        <3> SUFFICES ASSUME NEW k \in 0..n PROVE h[k] = Step(h, k)
            OBVIOUS
        <3>1. CASE k = n
            <4>1. h[k] = Step(g, n)
                BY <3>1
            <4> HIDE DEF h, Step
            <4> QED
                BY <3>1, <4>1, <2>5
        <3>2. CASE k # n
            <4>1. k \in 0..(n - 1)
                BY <3>2, <2>1
            <4> HIDE DEF h, Step
            <4> QED
                BY <4>1, <2>3, <2>5
        <3> QED
            BY <3>1, <3>2
    <2>7. h = [k \in 0..n |-> Step(h, k)]
        <3>1. DOMAIN h = 0..n /\ h = [k \in 0..n |-> h[k]]
            OBVIOUS
        <3> HIDE DEF h, Step
        <3> QED
            BY <3>1, <2>6
    <2>8. IsAdding(led, list, matches, h, n)
        <3> HIDE DEF h
        <3> QED
            BY <2>7 DEF IsAdding
    <2> QED
        BY <1>1, <2>8
<1> QED
    BY <1>2, <1>3

\* Seeding appends fresh records and touches no other (ledger.go, Seed).
LEMMA WithNewGrows ==
    ASSUME NEW led, led \in Seq(Range(led)), \A i, j \in DOMAIN led : i # j => led[i].slug # led[j].slug,
           NEW list, list \in Seq(Range(list)), NEW matches
    PROVE  Grown(led, WithNew(led, list, matches))
<1> DEFINE N == Len(list)
           g == CHOOSE f : IsAdding(led, list, matches, f, N)
<1>1. N \in Nat
    BY InItsRange
<1>2. IsAdding(led, list, matches, g, N)
    BY <1>1, AddingExists
<1>3. WithNew(led, list, matches) = g[N]
    BY Zenon DEF WithNew, IsAdding
<1> HIDE DEF g, N
<1>4. /\ g[0] = led
      /\ \A n \in 1..N : \/ g[n] = g[n - 1]
                         \/ g[n] = Append(g[n - 1], NewItem(list[n], n, SlugsOf(g[n - 1])))
    <2> DEFINE Step(n) == IF n = 0 THEN led
                          ELSE IF matches[n] # 0 THEN g[n - 1]
                          ELSE Append(g[n - 1], NewItem(list[n], n, {g[n - 1][k].slug : k \in DOMAIN g[n - 1]}))
    <2>1. g = [n \in 0..N |-> Step(n)]
        BY <1>2 DEF IsAdding
    <2> HIDE DEF Step
    <2>2. \A n \in 0..N : g[n] = Step(n)
        BY <2>1
    <2>3. 0 \in 0..N /\ \A n \in 1..N : n \in 0..N /\ n # 0
        BY <1>1
    <2>4. g[0] = Step(0) /\ \A n \in 1..N : g[n] = Step(n)
        BY <2>2, <2>3
    <2> QED
        BY <2>3, <2>4 DEF Step, SlugsOf
<1>5. Grown(led, led)
    BY InItsRange DEF Grown
<1> DEFINE Bad == {n \in 0..N : ~Grown(led, g[n])}
<1>6. Bad = {}
    <2> SUFFICES ASSUME Bad # {} PROVE FALSE
        OBVIOUS
    <2>1. Bad \in SUBSET Nat
        BY <1>1
    <2>2. PICK n \in Bad : \A j \in Bad : n <= j
        BY <2>1, LeastOf
    <2>3. n \in 0..N /\ ~Grown(led, g[n])
        BY <2>2
    <2>4. n # 0
        BY <2>3, <1>4, <1>5
    <2>5. n \in 1..N /\ n - 1 \in 0..N /\ n - 1 \notin Bad
        BY <1>1, <2>2, <2>3, <2>4
    <2>6. Grown(led, g[n - 1])
        BY <2>5
    <2>7. Grown(led, Append(g[n - 1], NewItem(list[n], n, SlugsOf(g[n - 1]))))
        BY <2>6, GrowsByOne
    <2> QED
        BY <1>4, <2>3, <2>5, <2>6, <2>7
<1> QED
    BY <1>1, <1>3, <1>6

\* What the reconciliation leaves of a record.
Kept(a, b) ==
    /\ a.id = b.id /\ a.slug = b.slug /\ a.status = b.status /\ a.stage = b.stage /\ a.state = b.state
    /\ a.branch = b.branch /\ a.issue = b.issue /\ a.pr = b.pr /\ a.outbox = b.outbox
    /\ a.attempts = b.attempts /\ a.feature = b.feature
    /\ a.frozen /\ ~a.legacy => b.frozen /\ a.title = b.title /\ a.desc = b.desc

\* A change of the fields that come from the backlog.
Redescribed(a, b) ==
    /\ DOMAIN b = DOMAIN a
    /\ \A f \in DOMAIN a \ {"order", "title", "desc", "prio", "src", "source", "legacy", "frozen"} : b[f] = a[f]
    /\ {b.frozen, b.legacy} \subseteq BOOLEAN
    /\ a.frozen /\ ~a.legacy => b.frozen /\ a.title = b.title /\ a.desc = b.desc

\* A record that is only described anew keeps its work.
LEMMA RedescribedKeeps ==
    ASSUME NEW a, NEW b, Shaped(a), Redescribed(a, b)
    PROVE  Shaped(b) /\ Kept(a, b)
<1>1. \A f \in ItemFields \ {"order", "title", "desc", "prio", "src", "source", "legacy", "frozen"} : b[f] = a[f]
    BY DEF Redescribed, Shaped
<1>2. /\ a.id = b.id /\ a.slug = b.slug /\ a.status = b.status /\ a.stage = b.stage /\ a.state = b.state
      /\ a.branch = b.branch /\ a.issue = b.issue /\ a.pr = b.pr /\ a.outbox = b.outbox
      /\ a.attempts = b.attempts /\ a.feature = b.feature
    BY <1>1 DEF ItemFields
<1>3. Kept(a, b)
    BY <1>2, Zenon DEF Kept, Redescribed
<1>4. DOMAIN b = ItemFields /\ {b.frozen, b.legacy} \subseteq BOOLEAN
    BY Zenon DEF Redescribed, Shaped
<1>5. Shaped(b)
    BY <1>2, <1>4, Zenon DEF Shaped
<1> QED
    BY <1>3, <1>5

\* A record whose item left the backlog keeps its work.
LEMMA MissingKeeps ==
    ASSUME NEW r, Shaped(r)
    PROVE  Redescribed(r, Missing(r))
<1>1. /\ DOMAIN Missing(r) = DOMAIN r
      /\ \A f \in DOMAIN r \ {"source"} : Missing(r)[f] = r[f]
    BY DEF Missing
<1>2. {"frozen", "legacy", "title", "desc"} \subseteq DOMAIN r \ {"source"}
    BY DEF Shaped, ItemFields
<1>3. /\ Missing(r).frozen = r.frozen /\ Missing(r).legacy = r.legacy
      /\ Missing(r).title = r.title /\ Missing(r).desc = r.desc
    BY <1>1, <1>2
<1>4. {Missing(r).frozen, Missing(r).legacy} \subseteq BOOLEAN
    BY <1>3, Zenon DEF Shaped
<1> QED
    BY <1>1, <1>3, <1>4 DEF Redescribed

\* A reconciled record keeps its work (ledger.go, reconcileMatchedItem).
LEMMA ReconciledKeeps ==
    ASSUME NEW r, Shaped(r), ValidStatus(r), NEW request, NEW order, NEW b, b = Reconciled(r, request, order)
    PROVE  /\ Redescribed(r, b)
           /\ r.legacy \/ ~Edited(r, request) => b.source = "current"
<1>1. DOMAIN r = ItemFields /\ r.frozen \in BOOLEAN /\ r.legacy \in BOOLEAN
    BY DEF Shaped
<1>2. r.status = "pending" => ~r.frozen
    BY DEF ValidStatus
<1>3. CASE r.legacy
    <2>1. b = [r EXCEPT !.order = order, !.title = request.title, !.desc = request.desc, !.prio = request.prio,
                        !.src = request.src, !.source = "current", !.legacy = FALSE,
                        !.frozen = r.status # "pending"]
        BY <1>3 DEF Reconciled
    <2>2. /\ DOMAIN b = DOMAIN r
          /\ \A f \in DOMAIN r \ {"order", "title", "desc", "prio", "src", "source", "legacy", "frozen"} : b[f] = r[f]
          /\ b.source = "current" /\ b.legacy = FALSE /\ b.frozen = (r.status # "pending")
        BY <1>1, <2>1 DEF ItemFields
    <2>3. {b.frozen, b.legacy} \subseteq BOOLEAN
        BY <2>2
    <2> QED
        BY <1>3, <2>2, <2>3 DEF Redescribed
<1>4. CASE ~r.legacy /\ Edited(r, request)
    <2>1. b = [r EXCEPT !.order = order, !.source = "blocked"]
        BY <1>4 DEF Reconciled
    <2>2. /\ DOMAIN b = DOMAIN r
          /\ \A f \in DOMAIN r \ {"order", "source"} : b[f] = r[f]
        BY <1>1, <2>1
    <2>3. b.frozen = r.frozen /\ b.legacy = r.legacy /\ b.title = r.title /\ b.desc = r.desc
        BY <1>1, <2>2 DEF ItemFields
    <2>4. {b.frozen, b.legacy} \subseteq BOOLEAN
        BY <1>1, <2>3
    <2> QED
        BY <1>4, <2>2, <2>3, <2>4 DEF Redescribed
<1>5. CASE ~r.legacy /\ ~Edited(r, request) /\ r.status = "pending"
    <2>1. b = [r EXCEPT !.order = order, !.src = IF @ = Unset THEN request.src ELSE @, !.source = "current",
                        !.title = request.title, !.desc = request.desc, !.prio = request.prio]
        BY <1>5 DEF Reconciled
    <2>2. /\ DOMAIN b = DOMAIN r
          /\ \A f \in DOMAIN r \ {"order", "source", "src", "title", "desc", "prio"} : b[f] = r[f]
          /\ b.source = "current"
        BY <1>1, <2>1 DEF ItemFields
    <2>3. b.frozen = r.frozen /\ b.legacy = r.legacy
        BY <1>1, <2>2 DEF ItemFields
    <2>4. {b.frozen, b.legacy} \subseteq BOOLEAN
        BY <1>1, <2>3
    <2> QED
        BY <1>2, <1>5, <2>2, <2>4 DEF Redescribed
<1>6. CASE ~r.legacy /\ ~Edited(r, request) /\ r.status # "pending"
    <2>1. b = [r EXCEPT !.order = order, !.src = IF @ = Unset THEN request.src ELSE @, !.source = "current"]
        BY <1>6 DEF Reconciled
    <2>2. /\ DOMAIN b = DOMAIN r
          /\ \A f \in DOMAIN r \ {"order", "source", "src"} : b[f] = r[f]
          /\ b.source = "current"
        BY <1>1, <2>1 DEF ItemFields
    <2>3. b.frozen = r.frozen /\ b.legacy = r.legacy /\ b.title = r.title /\ b.desc = r.desc
        BY <1>1, <2>2 DEF ItemFields
    <2>4. {b.frozen, b.legacy} \subseteq BOOLEAN
        BY <1>1, <2>3
    <2> QED
        BY <2>2, <2>3, <2>4 DEF Redescribed
<1> QED
    BY <1>3, <1>4, <1>5, <1>6

-----------------------------------------------------------------------------
\* What Seed leaves behind, given that it can be loaded again.
Seeded(led, new) ==
    /\ LeftBehind(new)
    /\ \A i \in DOMAIN led : i \in DOMAIN new /\ Kept(led[i], new[i])

AllCurrent(led) == \A i \in DOMAIN led : led[i].status = "in-progress" => led[i].source = "current"

\* The records Seed has before it adds the new ones.
LEMMA GrownIsSeeded ==
    ASSUME NEW led, LeftBehind(led), NEW known, known \in [DOMAIN led -> Range(known)],
           \A k \in DOMAIN led : Redescribed(led[k], known[k]),
           NEW new, Grown(known, new), ValidLedger(new)
    PROVE  Seeded(led, new) /\ (AllCurrent(known) => AllCurrent(new))
<1>1. /\ DOMAIN known = DOMAIN led
      /\ \A k \in DOMAIN led : Shaped(led[k]) /\ Shaped(known[k]) /\ Kept(led[k], known[k])
    BY RedescribedKeeps, LeftBehindIs DEF Sound
<1>2. /\ \A i \in DOMAIN led : i \in DOMAIN new /\ new[i] = known[i]
      /\ \A i \in DOMAIN new \ DOMAIN led : Fresh(new[i])
      /\ new \in Seq(Range(new))
      /\ \A i, j \in DOMAIN new : i # j => new[i].slug # new[j].slug
    BY <1>1, Zenon DEF Grown
<1>3. \A i \in DOMAIN led : i \in DOMAIN new /\ Kept(led[i], new[i])
    BY <1>1, <1>2
<1>4. \A i \in DOMAIN new : Shaped(new[i])
    BY <1>1, <1>2, Zenon DEF Fresh
<1>5. WellFormed(new)
    BY <1>2, <1>4, Zenon DEF WellFormed
<1>6. \A i \in DOMAIN new : new[i].status = "in-progress" => i \in DOMAIN led /\ led[i].status = "in-progress"
    <2> SUFFICES ASSUME NEW i \in DOMAIN new, new[i].status = "in-progress"
                 PROVE  i \in DOMAIN led /\ led[i].status = "in-progress"
        OBVIOUS
    <2>1. i \in DOMAIN led
        BY <1>2 DEF Fresh
    <2> QED
        BY <2>1, <1>3 DEF Kept
<1>7. \A i, j \in DOMAIN new : new[i].status = "in-progress" /\ new[j].status = "in-progress" => i = j
    BY <1>6, LeftBehindIs
<1>8. \A i \in DOMAIN new : new[i].issue = 0 => new[i].outbox = <<>>
    <2> SUFFICES ASSUME NEW i \in DOMAIN new, new[i].issue = 0 PROVE new[i].outbox = <<>>
        OBVIOUS
    <2>1. CASE i \in DOMAIN led
        BY <2>1, <1>3, LeftBehindIs DEF Kept
    <2>2. CASE i \notin DOMAIN led
        BY <2>2, <1>2 DEF Fresh
    <2> QED
        BY <2>1, <2>2
<1>9. LeftBehind(new)
    BY <1>5, <1>7, <1>8, Zenon DEF LeftBehind
<1>10. ASSUME AllCurrent(known) PROVE AllCurrent(new)
    BY <1>1, <1>2, <1>6, <1>10 DEF AllCurrent
<1> QED
    BY <1>3, <1>9, <1>10 DEF Seeded

\* A ledger that Seed leaves valid keeps all its work, whatever the backlog says.
LEMMA SeedKeeps ==
    ASSUME NEW led, LeftBehind(led), NEW list, list \in Seq(Range(list)), NEW s, s = Seed(led, list),
           ValidLedger(s.ledger)
    PROVE  Seeded(led, s.ledger) /\ (~s.conflict => AllCurrent(s.ledger))
<1> DEFINE m == Matches(led, list)
           entryOf(k) == CHOOSE n \in DOMAIN list : m[n] = k
           blocked == \E k \in DOMAIN led :
                        IF k \in ToSet(m) THEN ~led[k].legacy /\ Edited(led[k], list[entryOf(k)])
                        ELSE led[k].status = "in-progress"
           known == [k \in DOMAIN led |->
                       IF k \in ToSet(m) THEN Reconciled(led[k], list[entryOf(k)], entryOf(k)) ELSE Missing(led[k])]
           refused == ~ValidSource(list) \/ Ambiguous(led) \in ToSet(m) \/ Indistinct(led, list, m)
<1>1. s = IF refused THEN [ledger |-> led, conflict |-> TRUE]
          ELSE [ledger |-> WithNew(known, list, m), conflict |-> blocked]
    BY Zenon DEF Seed
<1>2. \A k \in DOMAIN led : Shaped(led[k]) /\ ValidStatus(led[k])
    BY LeftBehindIs DEF Sound
<1>3. \A k \in DOMAIN led : /\ Redescribed(led[k], known[k])
                            /\ (k \in ToSet(m) /\ (led[k].legacy \/ ~Edited(led[k], list[entryOf(k)]))
                                   => known[k].source = "current")
    <2> SUFFICES ASSUME NEW k \in DOMAIN led
                 PROVE  /\ Redescribed(led[k], known[k])
                        /\ (k \in ToSet(m) /\ (led[k].legacy \/ ~Edited(led[k], list[entryOf(k)]))
                                   => known[k].source = "current")
        OBVIOUS
    <2> DEFINE e == list[entryOf(k)]  o == entryOf(k)
    <2>1. CASE k \in ToSet(m)
        <3>1. known[k] = Reconciled(led[k], e, o)
            BY <2>1
        <3>2. Shaped(led[k]) /\ ValidStatus(led[k])
            BY <1>2
        <3> HIDE DEF e, o, known, m
        <3>3. Redescribed(led[k], known[k]) /\ (led[k].legacy \/ ~Edited(led[k], e) => known[k].source = "current")
            BY <3>1, <3>2, ReconciledKeeps
        <3> QED
            BY <3>3 DEF e
    <2>2. CASE k \notin ToSet(m)
        <3>1. known[k] = Missing(led[k])
            BY <2>2
        <3> QED
            BY <2>2, <3>1, <1>2, MissingKeeps
    <2> QED
        BY <2>1, <2>2
<1>4. led \in Seq(Range(led)) /\ DOMAIN known = DOMAIN led /\ known \in [DOMAIN led -> Range(known)]
    BY LeftBehindIs DEF Range
<1>5. ~refused /\ ~blocked => AllCurrent(known)
    <2> SUFFICES ASSUME ~blocked, NEW k \in DOMAIN known, known[k].status = "in-progress"
                 PROVE  known[k].source = "current"
        BY DEF AllCurrent
    <2>1. k \in DOMAIN led /\ led[k].status = "in-progress"
        <3>1. Kept(led[k], known[k])
            BY <1>2, <1>3, <1>4, RedescribedKeeps
        <3> QED
            BY <1>4, <3>1 DEF Kept
    <2>2. k \in ToSet(m) /\ (led[k].legacy \/ ~Edited(led[k], list[entryOf(k)]))
        BY <2>1
    <2> QED
        BY <1>3, <2>1, <2>2
<1> HIDE DEF known, blocked, refused, m
<1>6. CASE refused
    <2>1. s.ledger = led /\ s.conflict = TRUE
        BY <1>1, <1>6
    <2>2. \A i \in DOMAIN led : Kept(led[i], led[i])
        BY DEF Kept
    <2> QED
        BY <2>1, <2>2 DEF Seeded
<1>7. CASE ~refused
    <2>1. s.ledger = WithNew(known, list, m) /\ s.conflict = blocked
        BY <1>1, <1>7
    <2>2. DOMAIN led = 1..Len(led) /\ Len(led) \in Nat
        BY <1>4, InItsRange
    <2>3. known \in Seq(Range(known))
        BY <1>4, <2>2, FunctionIsSeq
    <2>4. \A i, j \in DOMAIN known : i # j => known[i].slug # known[j].slug
        <3>1. \A k \in DOMAIN led : known[k].slug = led[k].slug
            BY <1>2, <1>3, RedescribedKeeps DEF Kept
        <3> QED
            BY <1>4, <3>1, LeftBehindIs DEF Keyed
    <2>5. Grown(known, s.ledger)
        BY <2>1, <2>3, <2>4, WithNewGrows
    <2>6. Seeded(led, s.ledger) /\ (AllCurrent(known) => AllCurrent(s.ledger))
        BY <1>3, <1>4, <2>5, GrownIsSeeded
    <2> QED
        BY <1>5, <1>7, <2>1, <2>6
<1> QED
    BY <1>6, <1>7

-----------------------------------------------------------------------------
(* A step of the workflow on one record: what it may change, and how record   *)
(* and stage context fit together where the process is.                       *)

\* The ledger takes the change of a record r to k, and no work is taken back.
Acceptable(r, k) ==
    /\ Sound(k) /\ ValidChange(r, k)
    /\ k.issue = 0 => k.outbox = <<>>
    /\ Rank(r.stage) <= Rank(k.stage) /\ r.status # "done"

\* A record as every ledger holds it.
Held(r) == Sound(r) /\ (r.issue = 0 => r.outbox = <<>>)

CtxFields == {"phase", "pos", "feature", "issue", "pr", "verifyFirst", "exit", "status", "retry"}
StepsOf(c) == IF c.phase = "sdd" THEN Pipeline ELSE RemoteSteps
StepOf(c) == StepsOf(c)[c.pos]

CtxShaped(c) ==
    /\ DOMAIN c = CtxFields /\ c.phase \in {"sdd", "remote"}
    /\ c.pos \in 1..(Len(StepsOf(c)) + 1)
    /\ {c.feature, c.issue, c.pr} \subseteq Nat

\* Within a step it is recorded as running.
InStep(r, c) ==
    /\ c.pos \in 1..Len(StepsOf(c)) /\ r.stage = StepOf(c) /\ r.state = "running"

\* Between two steps the record is where the loop goes on.
InLoop(r, c) ==
    IF c.phase = "sdd"
    THEN \/ r.stage = "none" /\ c.pos = 1
         \/ InStep(r, c)
         \/ c.pos - 1 \in 1..PL /\ r.stage = Pipeline[c.pos - 1] /\ r.state = "verified"
         \/ c.pos = PL + 1 /\ Publishing(r.stage)
    ELSE \/ r.stage = "publish" /\ c.pos = 1
         \/ InStep(r, c)
         \/ c.pos - 1 \in 1..RL /\ r.stage = RemoteSteps[c.pos - 1] /\ r.state = "verified"

\* The numbers of the context are those of the record, but for what was just verified.
SameNumbers(r, c) ==
    IF c.phase = "sdd" THEN c.issue = 0 /\ c.pr = 0 ELSE c.issue = r.issue /\ c.pr = r.pr

FoundNumbers(r, c) ==
    IF c.phase = "sdd" THEN c.issue = 0 /\ c.pr = 0
    ELSE /\ IF r.issue # 0 \/ StepOf(c) # "issue" THEN c.issue = r.issue ELSE c.issue # 0
         /\ IF r.pr # 0 \/ StepOf(c) # "pr" THEN c.pr = r.pr ELSE c.pr # 0
         /\ StepOf(c) = "issue" => c.issue # 0
         /\ StepOf(c) = "pr" => c.pr # 0

AttemptRuns(r, c) ==
    /\ r.attempts # <<>>
    /\ r.attempts[Len(r.attempts)].stage = StepOf(c)
    /\ r.attempts[Len(r.attempts)].state = "running"

InSteps == {"step", "attempt", "core", "settle", "verified"}
InLoops == {"stage", "deliver", "mark"}
AtWork == InSteps \cup InLoops

Fits(label, r, c) ==
    /\ CtxShaped(c) /\ r.status = "in-progress"
    /\ label \in InSteps => InStep(r, c)
    /\ label \in InLoops => InLoop(r, c)
    /\ label \in {"deliver", "mark"} => r.stage # "none"
    /\ IF label = "verified" THEN FoundNumbers(r, c) ELSE SameNumbers(r, c)
    /\ label \in {"core", "settle"} => AttemptRuns(r, c)
    /\ label = "mark" => \E e \in DOMAIN r.outbox : ~r.outbox[e].delivered

-----------------------------------------------------------------------------
\* What stays of a record.

SameAttempts(r, k) == k.attempts = r.attempts
SameOutbox(r, k) == k.outbox = r.outbox

\* A change that leaves the attempts alone is one validation accepts of them.
LEMMA AttemptsStay ==
    ASSUME NEW r, NEW k, Sound(r), SameAttempts(r, k)
    PROVE  ValidAttempts(k) /\ ValidAttemptChange(r, k) /\ k.attempts \in Seq(CoreAttempts)
<1>1. ValidAttempts(r) /\ r.attempts \in Seq(CoreAttempts)
    BY Zenon DEF Sound, Shaped
<1>2. ValidAttempts(k) /\ k.attempts \in Seq(CoreAttempts)
    BY <1>1, Zenon DEF ValidAttempts, SameAttempts
<1>3. {i \in 1..Len(r.attempts) : r.attempts[i] # k.attempts[i]} = {}
    BY DEF SameAttempts
<1>4. Len(k.attempts) = Len(r.attempts) /\ Len(r.attempts) \in Nat
    BY <1>1 DEF SameAttempts
<1>5. Cardinality({}) = 0
    BY FS_EmptySet
<1> DEFINE n == Len(r.attempts)
           changed == {i \in 1..n : r.attempts[i] # k.attempts[i]}
<1>6. /\ Len(k.attempts) \in {n, n + 1} /\ Len(k.attempts) # n + 1
      /\ Cardinality(changed) <= 1
      /\ \A i \in changed : FALSE
    <2>1. changed = {}
        BY <1>3
    <2> HIDE DEF changed
    <2>2. Cardinality(changed) = 0
        BY <2>1, <1>5
    <2>3. Len(k.attempts) \in {n, n + 1} /\ Len(k.attempts) # n + 1
        BY <1>4
    <2> QED
        BY <2>1, <2>2, <2>3
<1>7. ValidAttemptChange(r, k)
    <2> HIDE DEF n, changed
    <2>1. \A i \in changed : /\ r.attempts[i].state = "running"
                            /\ k.attempts[i] = [r.attempts[i] EXCEPT !.state = "terminal"]
        BY <1>6
    <2> QED
        BY <1>6, <2>1, Zenon DEF ValidAttemptChange, n, changed
<1> QED
    BY <1>2, <1>7

\* A change that leaves the events alone is one validation accepts of them.
LEMMA OutboxStays ==
    ASSUME NEW r, NEW k, Sound(r), SameOutbox(r, k)
    PROVE  ValidOutbox(k) /\ ValidOutboxChange(r, k) /\ k.outbox \in Seq(Events)
<1>1. ValidOutbox(r) /\ r.outbox \in Seq(Events)
    BY Zenon DEF Sound, Shaped
<1>2. ValidOutbox(k) /\ k.outbox \in Seq(Events)
    BY <1>1, Zenon DEF ValidOutbox, SameOutbox
<1>3. Len(k.outbox) = Len(r.outbox) /\ Len(r.outbox) \in Nat
    BY <1>1 DEF SameOutbox
<1>4. ValidOutboxChange(r, k)
    BY <1>3 DEF ValidOutboxChange, SameOutbox
<1> QED
    BY <1>2, <1>4

\* The fields a step never changes.
SameIdentity(r, k) ==
    /\ k.id = r.id /\ k.src = r.src /\ k.slug = r.slug /\ k.title = r.title /\ k.desc = r.desc
    /\ k.prio = r.prio /\ k.source = r.source /\ k.order = r.order /\ k.legacy = r.legacy

\* A record in progress that goes on from one stage to another, or to its end.
GoesOn(r, k) ==
    /\ DOMAIN k = ItemFields /\ SameIdentity(r, k) /\ k.frozen = r.frozen
    /\ r.status = "in-progress"
    /\ \/ k.status = "in-progress" /\ Executable(k.stage) /\ k.state \in {"running", "verified"}
       \/ k.status = "done" /\ k.stage = "done" /\ k.state = "verified" /\ r.source = "current"
    /\ k.stage = "issue" /\ k.state = "verified" => k.issue > 0
    /\ k.stage = "pr" /\ k.state = "verified" => k.pr > 0
    /\ {k.feature, k.issue, k.pr} \subseteq Nat
    /\ r.issue > 0 => k.issue = r.issue
    /\ k.issue = 0 => k.outbox = <<>>
    /\ Rank(r.stage) <= Rank(k.stage)
    /\ r.issue = 0 /\ k.issue > 0 /\ k.stage = "issue" /\ k.state = "verified"
         => [number |-> k.issue, delivered |-> FALSE] \in ToSet(k.outbox)

\* A record that goes on along the stages is accepted, and takes no work back.
LEMMA GoesOnIsAcceptable ==
    ASSUME NEW r, NEW k, Sound(r), GoesOn(r, k),
           ValidAttempts(k), ValidAttemptChange(r, k), k.attempts \in Seq(CoreAttempts),
           ValidOutbox(k), ValidOutboxChange(r, k), k.outbox \in Seq(Events)
    PROVE  Acceptable(r, k)
<1>1. /\ r.frozen \in BOOLEAN /\ r.legacy \in BOOLEAN /\ ValidStatus(r) /\ ValidLegacy(r)
    BY DEF Sound, Shaped
<1>2. r.frozen /\ r.source \in {"current", "blocked"}
    BY <1>1 DEF ValidStatus, GoesOn
<1>3. k.frozen = TRUE /\ k.source \in {"current", "blocked"} /\ k.legacy \in BOOLEAN
    BY <1>1, <1>2 DEF GoesOn, SameIdentity
<1>4. k.status \in {"pending", "in-progress", "done"}
    BY DEF GoesOn
<1>5. {k.frozen, k.legacy} \subseteq BOOLEAN
    BY <1>3
<1>6. Shaped(k)
    BY <1>4, <1>5, Zenon DEF Shaped, GoesOn
<1>7. k.stage # "none" \/ k.status = "done"
    BY StepsAre DEF GoesOn, Executable, ExecutableStages
<1>8. ValidStatus(k)
    <2>1. CASE k.status = "in-progress"
        <3>1. k.stage # "none" /\ Executable(k.stage) /\ k.state \in {"running", "verified"}
            BY <1>7, <2>1 DEF GoesOn
        <3> QED
            BY <1>3, <2>1, <3>1 DEF ValidStatus, GoesOn
    <2>2. CASE k.status = "done"
        <3>1. k.stage = "done" /\ k.state = "verified" /\ k.source = "current"
            BY <2>2 DEF GoesOn, SameIdentity
        <3> QED
            BY <1>3, <2>2, <3>1 DEF ValidStatus
    <2> QED
        BY <2>1, <2>2 DEF GoesOn
<1>9. ValidLegacy(k)
    <2>1. CASE ~k.legacy
        BY <2>1 DEF ValidLegacy
    <2>2. CASE k.legacy
        <3>1. r.legacy /\ r.src = Unset /\ r.source = "blocked" /\ r.status = "in-progress"
            BY <1>1, <2>2 DEF ValidLegacy, GoesOn, SameIdentity
        <3>2. k.status = "in-progress" /\ k.src = Unset /\ k.source = "blocked"
            BY <3>1 DEF GoesOn, SameIdentity
        <3> QED
            BY <3>2 DEF ValidLegacy
    <2> QED
        BY <2>1, <2>2
<1>10. Sound(k)
    BY <1>6, <1>8, <1>9 DEF Sound
<1>11. \A f \in {"id", "src", "slug", "title", "desc", "prio", "source", "order", "legacy"} : r[f] = k[f]
    BY DEF GoesOn, SameIdentity
<1>12. k.frozen = (r.frozen \/ (r.status = "pending" /\ k.status # "pending"))
    BY <1>2, <1>3
<1>13. ValidChange(r, k)
    BY <1>11, <1>12, Zenon DEF ValidChange, GoesOn
<1> QED
    BY <1>10, <1>13 DEF Acceptable, GoesOn

\* What a step writes keeps the record's other fields.
Other(r, k, fields) == DOMAIN k = ItemFields /\ \A f \in ItemFields \ fields : k[f] = r[f]

\* What a change of some fields leaves alone.
LEMMA OtherIs ==
    ASSUME NEW r, NEW k, NEW fields,
           fields \subseteq {"status", "stage", "state", "branch", "feature", "issue", "pr", "outbox", "attempts"},
           Other(r, k, fields)
    PROVE  /\ DOMAIN k = ItemFields /\ SameIdentity(r, k) /\ k.frozen = r.frozen
           /\ "attempts" \notin fields => SameAttempts(r, k)
           /\ "outbox" \notin fields => SameOutbox(r, k)
           /\ "status" \notin fields => k.status = r.status
           /\ "stage" \notin fields => k.stage = r.stage
           /\ "state" \notin fields => k.state = r.state
           /\ "branch" \notin fields => k.branch = r.branch
           /\ "feature" \notin fields => k.feature = r.feature
           /\ "issue" \notin fields => k.issue = r.issue
           /\ "pr" \notin fields => k.pr = r.pr
BY DEF Other, ItemFields, SameIdentity, SameAttempts, SameOutbox

\* The numbers of a good record, and what its stage says of them.
LEMMA RecordNumbers ==
    ASSUME NEW r, Sound(r)
    PROVE  /\ DOMAIN r = ItemFields /\ r.feature \in Nat /\ r.issue \in Nat /\ r.pr \in Nat
           /\ r.outbox \in Seq(Events)
           /\ (r.status = "in-progress" =>
                 /\ r.stage # "none" => Executable(r.stage) /\ r.state \in {"running", "verified"}
                 /\ r.stage = "issue" /\ r.state = "verified" => r.issue > 0
                 /\ r.stage = "pr" /\ r.state = "verified" => r.pr > 0)
<1>1. DOMAIN r = ItemFields /\ {r.feature, r.issue, r.pr} \subseteq Nat /\ ValidStatus(r) /\ r.outbox \in Seq(Events)
    BY Zenon DEF Sound, Shaped
<1>2. r.status = "in-progress" =>
         /\ r.stage # "none" => Executable(r.stage) /\ r.state \in {"running", "verified"}
         /\ r.stage = "issue" /\ r.state = "verified" => r.issue > 0
         /\ r.stage = "pr" /\ r.state = "verified" => r.pr > 0
    BY <1>1 DEF ValidStatus
<1> QED
    BY <1>1, <1>2

-----------------------------------------------------------------------------
(* The steps, one by one, on a record and a stage context.                    *)

\* Only a pending record is frozen by a change.
LEMMA NotFrozen ==
    ASSUME NEW r, NEW k, r.status # "pending"
    PROVE  Freeze(r, k) = k
BY DEF Freeze

\* BeginItem: a pending record is frozen, any is set to work where its stages stand.
SetToWork(r, name, k) == k = Freeze(r, [r EXCEPT !.status = "in-progress", !.branch = name])

\* Setting an item to work is accepted (orchestrator.go, processItem).
LEMMA BegunIsAcceptable ==
    ASSUME NEW r, Held(r), r.status \in {"pending", "in-progress"}, r.source = "current", NEW name,
           NEW k, SetToWork(r, name, k)
    PROVE  Acceptable(r, k) /\ k.status = "in-progress" /\ k.branch = name /\ k.source = "current"
           /\ k.stage = r.stage /\ k.state = r.state /\ k.issue = r.issue
           /\ (k.stage # "none" => Executable(k.stage) /\ k.state \in {"running", "verified"})
<1>1. /\ DOMAIN r = ItemFields /\ r.frozen \in BOOLEAN /\ r.legacy \in BOOLEAN
      /\ {r.feature, r.issue, r.pr} \subseteq Nat
      /\ ValidStatus(r) /\ ValidLegacy(r) /\ Sound(r)
    BY Zenon DEF Held, Sound, Shaped
<1>2. /\ DOMAIN k = ItemFields /\ k.status = "in-progress" /\ k.branch = name /\ k.frozen = (r.frozen \/ r.status = "pending")
      /\ \A f \in ItemFields \ {"status", "branch", "frozen"} : k[f] = r[f]
    <2>1. CASE r.status = "pending"
        <3>1. k = [r EXCEPT !.status = "in-progress", !.branch = name, !.frozen = TRUE]
            BY <1>1, <2>1 DEF SetToWork, Freeze, ItemFields
        <3> QED
            BY <1>1, <2>1, <3>1 DEF ItemFields
    <2>2. CASE r.status # "pending"
        <3>1. k = [r EXCEPT !.status = "in-progress", !.branch = name]
            BY <2>2, NotFrozen DEF SetToWork
        <3> QED
            BY <1>1, <2>2, <3>1 DEF ItemFields
    <2> QED
        BY <2>1, <2>2
<1>3. /\ SameIdentity(r, k) /\ SameAttempts(r, k) /\ SameOutbox(r, k)
      /\ k.stage = r.stage /\ k.state = r.state /\ k.issue = r.issue /\ k.pr = r.pr /\ k.feature = r.feature
    BY <1>2 DEF ItemFields, SameIdentity, SameAttempts, SameOutbox
<1>4. ~r.legacy /\ ~k.legacy /\ k.source = "current"
    BY <1>1, <1>3 DEF ValidLegacy, SameIdentity
<1>5. k.frozen = TRUE
    BY <1>1, <1>2 DEF ValidStatus
<1>6. /\ ValidAttempts(k) /\ ValidAttemptChange(r, k) /\ k.attempts \in Seq(CoreAttempts)
      /\ ValidOutbox(k) /\ ValidOutboxChange(r, k) /\ k.outbox \in Seq(Events)
    BY <1>1, <1>3, AttemptsStay, OutboxStays
<1>7. /\ k.status \in {"pending", "in-progress", "done"} /\ {k.frozen, k.legacy} \subseteq BOOLEAN
      /\ {k.feature, k.issue, k.pr} \subseteq Nat
    <2>1. k.status \in {"pending", "in-progress", "done"}
        BY <1>2
    <2>2. k.legacy = r.legacy
        BY <1>3 DEF SameIdentity
    <2>3. {k.frozen, k.legacy} \subseteq BOOLEAN
        BY <1>1, <1>5, <2>2, Zenon
    <2>4. {k.feature, k.issue, k.pr} \subseteq Nat
        BY <1>1, <1>3
    <2> QED
        BY <2>1, <2>3, <2>4
<1>8. Shaped(k)
    BY <1>2, <1>6, <1>7, Zenon DEF Shaped
<1>9. IF r.stage = "none" THEN r.state = "pending"
      ELSE /\ Executable(r.stage) /\ r.state \in {"running", "verified"}
           /\ r.stage = "issue" /\ r.state = "verified" => r.issue > 0
           /\ r.stage = "pr" /\ r.state = "verified" => r.pr > 0
    BY <1>1 DEF ValidStatus
<1>10. ValidStatus(k)
    BY <1>2, <1>3, <1>4, <1>5, <1>9 DEF ValidStatus
<1>11. Sound(k)
    BY <1>4, <1>6, <1>8, <1>10 DEF Sound, ValidLegacy
<1>12. \A f \in {"id", "src", "slug", "title", "desc", "prio", "source", "order", "legacy"} : r[f] = k[f]
    BY <1>3 DEF SameIdentity
<1>13. k.frozen = (r.frozen \/ (r.status = "pending" /\ k.status # "pending"))
    BY <1>2
<1>14. ValidChange(r, k)
    <2>1. ~(r.issue = 0 /\ k.issue > 0) /\ (r.issue > 0 => k.issue = r.issue)
        BY <1>3
    <2> QED
        BY <1>6, <1>12, <1>13, <2>1, Zenon DEF ValidChange
<1>15. k.issue = 0 => k.outbox = <<>>
    BY <1>3 DEF Held, SameOutbox
<1>16. Rank(r.stage) <= Rank(k.stage)
    <2>1. Rank(r.stage) \in Nat
        BY Ranks
    <2> QED
        BY <1>3, <2>1
<1> QED
    BY <1>2, <1>3, <1>4, <1>9, <1>11, <1>14, <1>15, <1>16 DEF Acceptable

\* A stage is of the pipeline exactly when it has a position there.
LEMMA PositionIs ==
    ASSUME NEW name
    PROVE  \/ Position(Pipeline, name) = 0 /\ \A i \in 1..PL : Pipeline[i] # name
           \/ Position(Pipeline, name) \in 1..PL /\ Pipeline[Position(Pipeline, name)] = name
BY StagesAre DEF Position

\* The loop starts where the record stands (orchestrator.go, resumeIndex).
LEMMA BegunFits ==
    ASSUME NEW r, NEW k, Sound(k), k.status = "in-progress", k.stage = r.stage, k.state = r.state,
           (k.stage # "none" => Executable(k.stage) /\ k.state \in {"running", "verified"}), r.feature \in Nat,
           NEW c, c = [Idle EXCEPT !.pos = IF r.stage = "none" THEN 1
                                           ELSE IF Position(Pipeline, r.stage) = 0 THEN Len(Pipeline) + 1
                                           ELSE Position(Pipeline, r.stage)
                                                + (IF r.state = "verified" THEN 1 ELSE 0),
                                   !.feature = r.feature]
    PROVE  Fits("stage", k, c)
<1> DEFINE p == Position(Pipeline, r.stage)
<1>1. /\ DOMAIN c = CtxFields /\ c.phase = "sdd" /\ c.issue = 0 /\ c.pr = 0 /\ c.feature = r.feature
      /\ c.pos = IF r.stage = "none" THEN 1 ELSE IF p = 0 THEN PL + 1
                 ELSE p + (IF r.state = "verified" THEN 1 ELSE 0)
    BY DEF Idle, CtxFields, PL
<1>2. PL \in Nat \ {0} /\ (p = 0 \/ p \in 1..PL)
    BY StagesAre, PositionIs
<1>3. StepsOf(c) = Pipeline /\ Len(StepsOf(c)) = PL
    BY <1>1 DEF StepsOf, PL
<1>4. c.pos \in 1..(PL + 1)
    BY <1>1, <1>2
<1>5. CtxShaped(c)
    <2>1. {c.feature, c.issue, c.pr} \subseteq Nat /\ c.phase \in {"sdd", "remote"}
        BY <1>1
    <2> QED
        BY <1>1, <1>3, <1>4, <2>1, Zenon DEF CtxShaped
<1>6. InLoop(k, c)
    <2>1. CASE r.stage = "none"
        BY <1>1, <2>1 DEF InLoop
    <2>2. CASE r.stage # "none" /\ p = 0
        <3>1. \A i \in 1..PL : Pipeline[i] # k.stage
            BY <2>2, PositionIs
        <3>2. Publishing(k.stage)
            BY <2>2, <3>1, StepsAre
        <3>3. c.pos = PL + 1
            BY <1>1, <2>2
        <3> QED
            BY <1>1, <3>2, <3>3 DEF InLoop
    <2>3. CASE r.stage # "none" /\ p # 0
        <3>1. p \in 1..PL /\ Pipeline[p] = k.stage
            BY <2>3, PositionIs
        <3>2. CASE k.state = "running"
            <4>1. c.pos = p
                BY <1>1, <1>2, <2>3, <3>2
            <4>2. InStep(k, c)
                BY <1>3, <3>1, <3>2, <4>1 DEF InStep, StepOf
            <4> QED
                BY <1>1, <4>2 DEF InLoop
        <3>3. CASE k.state = "verified"
            <4>1. c.pos = p + 1 /\ c.pos - 1 = p
                BY <1>1, <1>2, <2>3, <3>3
            <4> QED
                BY <1>1, <3>1, <3>3, <4>1 DEF InLoop
        <3> QED
            BY <2>3, <3>2, <3>3
    <2> QED
        BY <2>1, <2>2, <2>3
<1>7. SameNumbers(k, c)
    BY <1>1 DEF SameNumbers
<1> QED
    BY <1>5, <1>6, <1>7 DEF Fits, InSteps

-----------------------------------------------------------------------------
SameCtx(c, d) ==
    /\ DOMAIN d = DOMAIN c /\ d.phase = c.phase /\ d.pos = c.pos /\ d.feature = c.feature
    /\ d.issue = c.issue /\ d.pr = c.pr

\* What only the outcome of a step changes moves no step.
LEMMA CtxAlike ==
    ASSUME NEW c, NEW d, SameCtx(c, d)
    PROVE  StepsOf(d) = StepsOf(c) /\ StepOf(d) = StepOf(c) /\ (CtxShaped(c) => CtxShaped(d))
<1>1. StepsOf(d) = StepsOf(c)
    BY DEF SameCtx, StepsOf
<1> QED
    BY <1>1 DEF SameCtx, StepOf, CtxShaped

\* Record and context go on fitting together.
LEMMA FitsAlike ==
    ASSUME NEW c, NEW d, NEW r, NEW l, SameCtx(c, d), Fits(l, r, c)
    PROVE  Fits(l, r, d)
<1>1. StepsOf(d) = StepsOf(c) /\ StepOf(d) = StepOf(c) /\ CtxShaped(d)
    BY CtxAlike DEF Fits
<1>2. InStep(r, c) => InStep(r, d)
    BY <1>1 DEF InStep, SameCtx
<1>3. InLoop(r, c) => InLoop(r, d)
    BY <1>1, <1>2 DEF InLoop, SameCtx
<1>4. SameNumbers(r, c) => SameNumbers(r, d)
    BY DEF SameNumbers, SameCtx
<1>5. FoundNumbers(r, c) => FoundNumbers(r, d)
    BY <1>1 DEF FoundNumbers, SameCtx
<1>6. AttemptRuns(r, c) => AttemptRuns(r, d)
    BY <1>1 DEF AttemptRuns
<1> QED
    BY <1>1, <1>2, <1>3, <1>4, <1>5, <1>6 DEF Fits

\* What changes of a context leaves its place in the loop.
LEMMA CtxChanged ==
    ASSUME NEW c, DOMAIN c = CtxFields, NEW d, NEW v, NEW w, NEW x
    PROVE  /\ d = [c EXCEPT !.verifyFirst = v] => SameCtx(c, d)
           /\ d = [c EXCEPT !.status = v, !.retry = w] => SameCtx(c, d)
           /\ d = [c EXCEPT !.exit = x, !.status = v, !.retry = w] => SameCtx(c, d)
BY DEF SameCtx, CtxFields

\* The step at hand, and where it stands.
LEMMA StepIs ==
    ASSUME NEW c, CtxShaped(c), c.pos \in 1..Len(StepsOf(c))
    PROVE  /\ StepOf(c) \in ExecutableStages /\ StepOf(c) \in ToSet(WorkflowStages)
           /\ StepOf(c) # "none" /\ StepOf(c) # "done"
           /\ c.phase = "sdd" => /\ c.pos \in 1..PL /\ StepOf(c) = Pipeline[c.pos]
                                 /\ Rank(StepOf(c)) = c.pos /\ StepOf(c) \notin Publications
           /\ c.phase = "remote" => /\ c.pos \in 1..RL /\ StepOf(c) = RemoteSteps[c.pos]
                                    /\ Rank(StepOf(c)) = PL + 1 + c.pos /\ Publishing(StepOf(c))
<1>1. CASE c.phase = "sdd"
    <2>1. c.pos \in 1..PL /\ StepOf(c) = Pipeline[c.pos]
        BY <1>1 DEF StepsOf, StepOf, PL
    <2>2. Rank(StepOf(c)) = c.pos
        BY <2>1, Ranks
    <2>3. StepOf(c) \in ExecutableStages /\ StepOf(c) # "none" /\ StepOf(c) \notin Publications
        BY <2>1, StepsAre, ZenonT(30)
    <2> QED
        BY <1>1, <2>1, <2>2, <2>3 DEF ExecutableStages
<1>2. CASE c.phase = "remote"
    <2>1. c.pos \in 1..RL /\ StepOf(c) = RemoteSteps[c.pos]
        BY <1>2 DEF StepsOf, StepOf, RL
    <2>2. Rank(StepOf(c)) = PL + 1 + c.pos
        BY <2>1, Ranks
    <2>3. StepOf(c) \in ExecutableStages /\ StepOf(c) # "none" /\ Publishing(StepOf(c))
        BY <2>1, StepsAre, ZenonT(30)
    <2> QED
        BY <1>2, <2>1, <2>2, <2>3 DEF ExecutableStages
<1> QED
    BY <1>1, <1>2 DEF CtxShaped

-----------------------------------------------------------------------------
\* What a good record has.
LEMMA HeldIs ==
    ASSUME NEW r, Held(r)
    PROVE  /\ Sound(r) /\ Shaped(r) /\ ValidAttempts(r) /\ ValidOutbox(r) /\ DOMAIN r = ItemFields
           /\ r.feature \in Nat /\ r.issue \in Nat /\ r.pr \in Nat /\ r.outbox \in Seq(Events)
           /\ (r.issue = 0 => r.outbox = <<>>)
           /\ Rank(r.stage) \in Nat
<1>1. Sound(r) /\ (r.issue = 0 => r.outbox = <<>>)
    BY Zenon DEF Held
<1>2. Shaped(r) /\ ValidAttempts(r) /\ ValidOutbox(r)
    BY <1>1, Zenon DEF Sound
<1>3. Rank(r.stage) \in Nat
    BY Ranks
<1> QED
    BY <1>1, <1>2, <1>3, RecordNumbers

\* Stage: the intent of a step is recorded before the step is taken.
LEMMA IntentIs ==
    ASSUME NEW r, Held(r), NEW c, Fits("stage", r, c), c.pos <= Len(StepsOf(c)), ~InStep(r, c),
           NEW k, k = [r EXCEPT !.stage = StepOf(c), !.state = "running"],
           NEW d, SameCtx(c, d)
    PROVE  Acceptable(r, k) /\ Fits("step", k, d) /\ k.branch = r.branch
<1>1. /\ CtxShaped(c) /\ r.status = "in-progress" /\ InLoop(r, c) /\ SameNumbers(r, c)
    BY DEF Fits, InLoops
<1>2. c.pos \in 1..Len(StepsOf(c))
    BY <1>1 DEF CtxShaped
<1>3. DOMAIN r = ItemFields
    BY HeldIs
<1>4. Other(r, k, {"stage", "state"}) /\ k.stage = StepOf(c) /\ k.state = "running"
    BY <1>3 DEF Other, ItemFields
<1>5. /\ DOMAIN k = ItemFields /\ SameIdentity(r, k) /\ k.frozen = r.frozen
      /\ SameAttempts(r, k) /\ SameOutbox(r, k) /\ k.status = r.status /\ k.branch = r.branch
      /\ k.feature = r.feature /\ k.issue = r.issue /\ k.pr = r.pr
    <2> DEFINE F == {"stage", "state"}
    <2>1. /\ F \subseteq {"status", "stage", "state", "branch", "feature", "issue", "pr", "outbox", "attempts"}
          /\ \A f \in {"attempts", "outbox", "status", "branch", "feature", "issue", "pr"} : f \notin F
        OBVIOUS
    <2>2. Other(r, k, F)
        BY <1>4
    <2> HIDE DEF F
    <2> QED
        BY <2>1, <2>2, OtherIs, ZenonT(30)
<1>6. Rank(r.stage) <= Rank(StepOf(c))
    <2>1. CASE c.phase = "sdd"
        <3>1. c.pos \in 1..PL /\ Rank(StepOf(c)) = c.pos
            BY <1>1, <1>2, <2>1, StepIs
        <3>2. \/ r.stage = "none"
              \/ c.pos - 1 \in 1..PL /\ r.stage = Pipeline[c.pos - 1]
            BY <1>1, <2>1, <3>1, StagesAre DEF InLoop
        <3>3. r.stage = "none" => Rank(r.stage) = 0
            BY Ranks
        <3>4. c.pos - 1 \in 1..PL /\ r.stage = Pipeline[c.pos - 1] => Rank(r.stage) = c.pos - 1
            BY Ranks
        <3>5. PL \in Nat
            BY Ranks
        <3> QED
            BY <3>1, <3>2, <3>3, <3>4, <3>5
    <2>2. CASE c.phase = "remote"
        <3>1. c.pos \in 1..RL /\ Rank(StepOf(c)) = PL + 1 + c.pos
            BY <1>1, <1>2, <2>2, StepIs
        <3>2. \/ r.stage = "publish"
              \/ c.pos - 1 \in 1..RL /\ r.stage = RemoteSteps[c.pos - 1]
            BY <1>1, <2>2, <3>1 DEF InLoop
        <3>3. r.stage = "publish" => Rank(r.stage) = PL + 1
            BY Ranks
        <3>4. c.pos - 1 \in 1..RL /\ r.stage = RemoteSteps[c.pos - 1] => Rank(r.stage) = PL + 1 + (c.pos - 1)
            BY Ranks
        <3>5. PL \in Nat /\ RL \in Nat
            BY Ranks
        <3> QED
            BY <3>1, <3>2, <3>3, <3>4, <3>5
    <2> QED
        BY <1>1, <2>1, <2>2 DEF CtxShaped
<1>7. StepOf(c) \in ExecutableStages
    BY <1>1, <1>2, StepIs
<1>8. GoesOn(r, k)
    <2>1. k.issue = 0 => k.outbox = <<>>
        BY <1>5, HeldIs DEF SameOutbox
    <2>2. {k.feature, k.issue, k.pr} \subseteq Nat
        BY <1>5, HeldIs
    <2>3. Executable(k.stage) /\ k.state = "running" /\ k.status = "in-progress"
        BY <1>1, <1>4, <1>5, <1>7 DEF Executable
    <2> QED
        BY <1>1, <1>4, <1>5, <1>6, <2>1, <2>2, <2>3 DEF GoesOn
<1>9. Acceptable(r, k)
    BY <1>5, <1>8, HeldIs, AttemptsStay, OutboxStays, GoesOnIsAcceptable
<1>10. Fits("step", k, c)
    <2>1. InStep(k, c)
        BY <1>2, <1>4 DEF InStep
    <2>2. SameNumbers(k, c)
        BY <1>1, <1>5 DEF SameNumbers
    <2> QED
        BY <1>1, <1>5, <2>1, <2>2 DEF Fits, InSteps, InLoops
<1> QED
    BY <1>5, <1>9, <1>10, FitsAlike

\* Stage: a step found running is taken up again.
LEMMA ResumedIs ==
    ASSUME NEW r, NEW c, Fits("stage", r, c), InStep(r, c), NEW d, SameCtx(c, d)
    PROVE  Fits("step", r, d)
<1>1. Fits("step", r, c)
    BY DEF Fits, InSteps, InLoops
<1> QED
    BY <1>1, FitsAlike

\* A prompted step is ready for its attempt.
LEMMA PromptedIs ==
    ASSUME NEW r, NEW c, Fits("step", r, c)
    PROVE  Fits("attempt", r, c)
BY DEF Fits, InSteps, InLoops

\* A step is found done: the number it looked for is noted.
LEMMA FoundIs ==
    ASSUME NEW r, NEW c, NEW l \in {"step", "attempt", "settle"}, Fits(l, r, c),
           NEW fi, NEW fp, NEW d,
           StepOf(c) = "issue" => fi \in Nat \ {0} /\ (c.issue # 0 => fi = c.issue),
           StepOf(c) = "pr" => fp \in Nat \ {0} /\ (c.pr # 0 => fp = c.pr),
           DOMAIN d = CtxFields, d.phase = c.phase, d.pos = c.pos, d.feature = c.feature,
           d.issue = (IF StepOf(c) = "issue" THEN fi ELSE c.issue),
           d.pr = (IF StepOf(c) = "pr" THEN fp ELSE c.pr)
    PROVE  Fits("verified", r, d)
<1>1. CtxShaped(c) /\ r.status = "in-progress" /\ InStep(r, c) /\ SameNumbers(r, c)
    BY DEF Fits, InSteps
<1>2. StepsOf(d) = StepsOf(c)
    BY DEF StepsOf
<1>3. StepOf(d) = StepOf(c)
    BY <1>2 DEF StepOf
<1>4. c.feature \in Nat /\ c.issue \in Nat /\ c.pr \in Nat
    BY <1>1 DEF CtxShaped
<1>5. {d.feature, d.issue, d.pr} \subseteq Nat
    BY <1>4
<1>6. CtxShaped(d)
    BY <1>1, <1>2, <1>5 DEF CtxShaped
<1>7. InStep(r, d)
    BY <1>1, <1>2, <1>3 DEF InStep
<1>8. c.phase = "sdd" => StepOf(c) \notin Publications
    BY <1>1, StepIs DEF InStep
<1>9. FoundNumbers(r, d)
    <2>1. CASE c.phase = "sdd"
        <3>1. StepOf(c) # "issue" /\ StepOf(c) # "pr"
            BY <1>8, <2>1 DEF Publications
        <3> QED
            BY <1>1, <2>1, <3>1 DEF SameNumbers, FoundNumbers
    <2>2. CASE c.phase # "sdd"
        <3>1. c.issue = r.issue /\ c.pr = r.pr
            BY <1>1, <2>2 DEF SameNumbers
        <3> QED
            BY <1>3, <2>2, <3>1 DEF FoundNumbers
    <2> QED
        BY <2>1, <2>2
<1> QED
    BY <1>1, <1>6, <1>7, <1>9 DEF Fits, InSteps, InLoops

\* materializeRequirements: the directory is noted.
LEMMA MaterializedIs ==
    ASSUME NEW r, NEW c, Fits("step", r, c), StepOf(c) \notin Publications, NEW dir \in Nat,
           NEW d, d = [c EXCEPT !.feature = dir]
    PROVE  Fits("verified", r, d)
<1>1. CtxShaped(c) /\ r.status = "in-progress" /\ InStep(r, c) /\ SameNumbers(r, c)
    BY DEF Fits, InSteps
<1>2. /\ DOMAIN d = CtxFields /\ d.phase = c.phase /\ d.pos = c.pos /\ d.feature = dir
      /\ d.issue = c.issue /\ d.pr = c.pr
    BY <1>1 DEF CtxShaped, CtxFields
<1>3. StepsOf(d) = StepsOf(c)
    BY <1>2 DEF StepsOf
<1>4. StepOf(d) = StepOf(c)
    BY <1>2, <1>3 DEF StepOf
<1>5. CtxShaped(d)
    <2>1. {d.feature, d.issue, d.pr} \subseteq Nat
        BY <1>1, <1>2 DEF CtxShaped
    <2> QED
        BY <1>1, <1>2, <1>3, <2>1 DEF CtxShaped
<1>6. InStep(r, d)
    BY <1>1, <1>2, <1>3, <1>4 DEF InStep
<1>7. StepOf(c) # "issue" /\ StepOf(c) # "pr"
    BY DEF Publications
<1>8. FoundNumbers(r, d)
    BY <1>1, <1>2, <1>4, <1>7 DEF FoundNumbers, SameNumbers
<1> QED
    BY <1>1, <1>5, <1>6, <1>8 DEF Fits, InSteps, InLoops

-----------------------------------------------------------------------------
\* Which fields of a record a step writes.
Written == {"status", "stage", "state", "branch", "feature", "issue", "pr", "outbox", "attempts"}

\* Which fields a change of some fields leaves.
LEMMA NothingElse ==
    ASSUME NEW r, NEW k, NEW fields, fields \subseteq Written, Other(r, k, fields)
    PROVE  /\ DOMAIN k = ItemFields /\ SameIdentity(r, k) /\ k.frozen = r.frozen
           /\ \A f \in Written : f \notin fields => k[f] = r[f]
BY DEF Other, ItemFields, SameIdentity, Written

\* A next attempt is accepted by validation.
LEMMA AttemptAdded ==
    ASSUME NEW r, Shaped(r), ValidAttempts(r), NEW st \in ExecutableStages,
           NEW e, e = [stage |-> st, ordinal |-> LastOrdinal(r) + 1, state |-> "running"],
           NEW k, k.attempts = Append(r.attempts, e)
    PROVE  /\ ValidAttempts(k) /\ ValidAttemptChange(r, k) /\ k.attempts \in Seq(CoreAttempts)
           /\ k.attempts # <<>> /\ k.attempts[Len(k.attempts)] = e
<1> DEFINE n == Len(r.attempts)
           changed == {i \in 1..n : r.attempts[i] # k.attempts[i]}
<1>1. /\ r.attempts \in Seq(CoreAttempts) /\ DOMAIN r.attempts = 1..n /\ n \in Nat
      /\ LastOrdinal(r) \in Nat
      /\ \A i \in 1..n : r.attempts[i].ordinal \in Nat /\ r.attempts[i].ordinal <= LastOrdinal(r)
    BY AttemptsAre, LastIsGreatest
<1>2. e \in CoreAttempts /\ e.stage = st /\ e.ordinal = LastOrdinal(r) + 1 /\ e.state = "running"
    BY <1>1 DEF CoreAttempts, ExecutableStages
<1>3. /\ k.attempts \in Seq(CoreAttempts) /\ Len(k.attempts) = n + 1 /\ DOMAIN k.attempts = 1..(n + 1)
      /\ \A i \in 1..n : k.attempts[i] = r.attempts[i]
      /\ k.attempts[n + 1] = e /\ k.attempts # <<>>
    BY <1>1, <1>2
<1>4. ValidAttempts(k)
    <2>1. ASSUME NEW i \in 1..(n + 1)
          PROVE  /\ Executable(k.attempts[i].stage)
                 /\ i > 1 => k.attempts[i].ordinal > k.attempts[i - 1].ordinal
        <3>1. CASE i \in 1..n
            <4>1. i > 1 => i - 1 \in 1..n
                BY <1>1, <3>1
            <4> QED
                BY <1>1, <1>3, <3>1, <4>1 DEF ValidAttempts
        <3>2. CASE i = n + 1
            <4>1. i > 1 => n \in 1..n /\ i - 1 = n
                BY <1>1, <3>2
            <4>2. Executable(k.attempts[i].stage)
                BY <1>2, <1>3, <3>2 DEF Executable
            <4>3. ASSUME i > 1 PROVE k.attempts[i].ordinal > k.attempts[i - 1].ordinal
                <5>1. k.attempts[i].ordinal = LastOrdinal(r) + 1
                    BY <1>2, <1>3, <3>2
                <5>2. k.attempts[i - 1] = r.attempts[n] /\ r.attempts[n].ordinal <= LastOrdinal(r)
                      /\ r.attempts[n].ordinal \in Nat
                    BY <1>1, <1>3, <4>1, <4>3
                <5>3. k.attempts[i - 1].ordinal = r.attempts[n].ordinal
                    BY <5>2
                <5>4. \A x, y \in Nat : y <= x => x + 1 > y
                    OBVIOUS
                <5>5. LastOrdinal(r) + 1 > r.attempts[n].ordinal
                    BY <1>1, <5>2, <5>4, Zenon
                <5> QED
                    BY <5>1, <5>3, <5>5, Zenon
            <4> QED
                BY <4>2, <4>3
        <3> QED
            BY <1>1, <3>1, <3>2
    <2> QED
        BY <1>3, <2>1 DEF ValidAttempts
<1>5. changed = {}
    BY <1>3
<1>6. k.attempts[n + 1].state = "running" /\ Len(k.attempts) \in {n, n + 1} /\ Len(k.attempts) = n + 1
    BY <1>2, <1>3
<1>7. ValidAttemptChange(r, k)
    <2> HIDE DEF n, changed
    <2>1. \A i \in changed : /\ r.attempts[i].state = "running"
                            /\ k.attempts[i] = [r.attempts[i] EXCEPT !.state = "terminal"]
        BY <1>5
    <2> QED
        BY <1>5, <1>6, <2>1, Zenon DEF ValidAttemptChange, n, changed
<1> QED
    BY <1>3, <1>4, <1>7

\* An ended attempt is an attempt.
LEMMA TerminalIs ==
    ASSUME NEW a \in CoreAttempts, NEW e, e = [a EXCEPT !.state = "terminal"]
    PROVE  e \in CoreAttempts /\ e.stage = a.stage /\ e.ordinal = a.ordinal
BY DEF CoreAttempts

\* Ending the running attempt is accepted by validation.
LEMMA AttemptEnded ==
    ASSUME NEW r, Shaped(r), ValidAttempts(r), r.attempts # <<>>,
           r.attempts[Len(r.attempts)].state = "running",
           NEW k, k.attempts = [r.attempts EXCEPT ![Len(r.attempts)].state = "terminal"]
    PROVE  ValidAttempts(k) /\ ValidAttemptChange(r, k) /\ k.attempts \in Seq(CoreAttempts)
<1> DEFINE n == Len(r.attempts)
           changed == {i \in 1..n : r.attempts[i] # k.attempts[i]}
           e == [r.attempts[n] EXCEPT !.state = "terminal"]
<1>1. /\ r.attempts \in Seq(CoreAttempts) /\ DOMAIN r.attempts = 1..n /\ n \in Nat \ {0}
      /\ \A i \in 1..n : r.attempts[i] \in CoreAttempts
    BY AttemptsAre
<1>2. k.attempts = [r.attempts EXCEPT ![n] = e]
    BY <1>1
<1>3. e \in CoreAttempts /\ e.stage = r.attempts[n].stage /\ e.ordinal = r.attempts[n].ordinal
    <2>1. r.attempts[n] \in CoreAttempts
        BY <1>1
    <2> QED
        BY <2>1, TerminalIs
<1> HIDE DEF e
<1>4. /\ DOMAIN k.attempts = 1..n /\ k.attempts[n] = e
      /\ \A i \in 1..n : i # n => k.attempts[i] = r.attempts[i]
    BY <1>1, <1>2
<1>5. k.attempts \in [1..n -> CoreAttempts]
    BY <1>1, <1>2, <1>3
<1>6. k.attempts \in Seq(CoreAttempts) /\ Len(k.attempts) = n
    BY <1>1, <1>4, <1>5, FunctionIsSeq
<1>7. \A i \in 1..n : /\ k.attempts[i].stage = r.attempts[i].stage
                      /\ k.attempts[i].ordinal = r.attempts[i].ordinal
    BY <1>3, <1>4
<1>8. ValidAttempts(k)
    <2>1. ASSUME NEW i \in 1..n
          PROVE  /\ Executable(k.attempts[i].stage)
                 /\ i > 1 => k.attempts[i].ordinal > k.attempts[i - 1].ordinal
        <3>1. ValidAttempts(r) /\ DOMAIN r.attempts = 1..n /\ n \in Nat
            BY <1>1
        <3> HIDE DEF n
        <3>2. i > 1 => i - 1 \in 1..n
            BY <3>1
        <3> QED
            BY <1>7, <3>1, <3>2 DEF ValidAttempts
    <2> QED
        BY <1>4, <2>1 DEF ValidAttempts
<1>9. changed \subseteq {n}
    BY <1>4
<1>10. Cardinality(changed) <= 1
    <2>1. changed = {} \/ changed = {n}
        BY <1>9
    <2>2. Cardinality({}) = 0 /\ Cardinality({n}) = 1
        BY FS_EmptySet, FS_Singleton
    <2> HIDE DEF changed, n
    <2>3. 0 <= 1 /\ 1 <= 1
        OBVIOUS
    <2> QED
        BY <2>1, <2>2, <2>3
<1>11. \A i \in changed : /\ r.attempts[i].state = "running"
                          /\ k.attempts[i] = [r.attempts[i] EXCEPT !.state = "terminal"]
    BY <1>4, <1>9 DEF e
<1>12. Len(k.attempts) \in {n, n + 1} /\ Len(k.attempts) # n + 1
    BY <1>1, <1>6
<1>13. ValidAttemptChange(r, k)
    <2> HIDE DEF n, changed
    <2> QED
        BY <1>10, <1>11, <1>12, Zenon DEF ValidAttemptChange, n, changed
<1> QED
    BY <1>6, <1>8, <1>13

\* An attempt is counted, or closed: nothing else of the record changes.
Counts(r, k) == Other(r, k, {"attempts"})

\* A record that only counts an attempt stays where it is.
LEMMA CountingIs ==
    ASSUME NEW r, Held(r), NEW k, Counts(r, k), r.status = "in-progress", r.stage # "none",
           ValidAttempts(k), ValidAttemptChange(r, k), k.attempts \in Seq(CoreAttempts)
    PROVE  /\ Acceptable(r, k) /\ k.branch = r.branch /\ k.stage = r.stage /\ k.state = r.state
           /\ k.status = r.status /\ k.issue = r.issue /\ k.pr = r.pr /\ k.outbox = r.outbox
<1> DEFINE F == {"attempts"}
<1>1. F \subseteq Written /\ \A f \in Written : f # "attempts" => f \notin F
    BY DEF Written
<1>2. Other(r, k, F)
    BY DEF Counts
<1> HIDE DEF F
<1>3. /\ DOMAIN k = ItemFields /\ SameIdentity(r, k) /\ k.frozen = r.frozen
      /\ \A f \in Written : f # "attempts" => k[f] = r[f]
    BY <1>1, <1>2, NothingElse
<1>4. /\ k.branch = r.branch /\ k.stage = r.stage /\ k.state = r.state /\ k.status = r.status
      /\ k.issue = r.issue /\ k.pr = r.pr /\ k.outbox = r.outbox /\ k.feature = r.feature
    BY <1>3 DEF Written
<1>5. GoesOn(r, k)
    <2>1. /\ Executable(r.stage) /\ r.state \in {"running", "verified"}
          /\ r.stage = "issue" /\ r.state = "verified" => r.issue > 0
          /\ r.stage = "pr" /\ r.state = "verified" => r.pr > 0
        BY HeldIs, RecordNumbers
    <2>2. {k.feature, k.issue, k.pr} \subseteq Nat /\ (k.issue = 0 => k.outbox = <<>>)
        BY <1>4, HeldIs
    <2>3. Rank(r.stage) <= Rank(k.stage) /\ ~(r.issue = 0 /\ k.issue > 0)
        BY <1>4, HeldIs
    <2> QED
        BY <1>3, <1>4, <2>1, <2>2, <2>3 DEF GoesOn
<1>6. SameOutbox(r, k)
    BY <1>4 DEF SameOutbox
<1> QED
    BY <1>4, <1>5, <1>6, HeldIs, OutboxStays, GoesOnIsAcceptable

\* InSteps: where the record says no more than before, it fits as before.
LEMMA CountedFits ==
    ASSUME NEW r, NEW k, NEW c, k.stage = r.stage, k.state = r.state, k.status = r.status,
           k.issue = r.issue, k.pr = r.pr
    PROVE  /\ InStep(r, c) => InStep(k, c)
           /\ SameNumbers(r, c) => SameNumbers(k, c)
           /\ FoundNumbers(r, c) => FoundNumbers(k, c)
<1>1. InStep(r, c) => InStep(k, c)
    BY DEF InStep
<1>2. SameNumbers(r, c) => SameNumbers(k, c)
    BY DEF SameNumbers
<1>3. FoundNumbers(r, c) => FoundNumbers(k, c)
    BY DEF FoundNumbers
<1> QED
    BY <1>1, <1>2, <1>3

\* Within a step the record names the step.
LEMMA StageAtWork ==
    ASSUME NEW r, NEW c, CtxShaped(c), InStep(r, c)
    PROVE  r.stage \in ExecutableStages /\ r.stage # "none" /\ r.stage = StepOf(c)
BY StepIs DEF InStep

\* The attempt is accepted, and the core may start (core_outcome.go, newCoreAttempt).
LEMMA AttemptedIs ==
    ASSUME NEW r, Held(r), NEW c, Fits("attempt", r, c),
           NEW k, k = WithAttempt(r, StepOf(c), LastOrdinal(r) + 1, "running")
    PROVE  Acceptable(r, k) /\ Fits("core", k, c) /\ k.branch = r.branch
<1> DEFINE e == [stage |-> StepOf(c), ordinal |-> LastOrdinal(r) + 1, state |-> "running"]
<1>1. CtxShaped(c) /\ r.status = "in-progress" /\ InStep(r, c) /\ SameNumbers(r, c)
    BY DEF Fits, InSteps
<1>2. StepOf(c) \in ExecutableStages /\ r.stage # "none"
    BY <1>1, StageAtWork
<1>3. Shaped(r) /\ ValidAttempts(r) /\ DOMAIN r = ItemFields
    BY HeldIs
<1>4. k = [r EXCEPT !.attempts = Append(@, e)]
    BY <1>3, NewAttempt
<1>5. e.stage = StepOf(c) /\ e.state = "running"
    OBVIOUS
<1> HIDE DEF e
<1>6. Counts(r, k) /\ k.attempts = Append(r.attempts, e)
    BY <1>3, <1>4 DEF Counts, Other, ItemFields
<1>7. /\ ValidAttempts(k) /\ ValidAttemptChange(r, k) /\ k.attempts \in Seq(CoreAttempts)
      /\ k.attempts # <<>> /\ k.attempts[Len(k.attempts)] = e
    BY <1>2, <1>3, <1>6, AttemptAdded DEF e
<1>8. /\ Acceptable(r, k) /\ k.branch = r.branch /\ k.stage = r.stage /\ k.state = r.state
      /\ k.status = r.status /\ k.issue = r.issue /\ k.pr = r.pr
    BY <1>1, <1>2, <1>6, <1>7, CountingIs
<1>9. InStep(k, c) /\ SameNumbers(k, c)
    BY <1>1, <1>8, CountedFits
<1>10. AttemptRuns(k, c)
    BY <1>5, <1>7 DEF AttemptRuns
<1> QED
    BY <1>1, <1>8, <1>9, <1>10 DEF Fits, InSteps, InLoops

\* What the core did leaves the record to be settled.
LEMMA CoreRanIs ==
    ASSUME NEW r, NEW c, Fits("core", r, c), NEW d, SameCtx(c, d)
    PROVE  Fits("settle", r, d)
<1>1. Fits("settle", r, c)
    BY DEF Fits, InSteps, InLoops
<1> QED
    BY <1>1, FitsAlike

\* The attempt is over; the work goes on with the step, or the step is done.
LEMMA SettledIs ==
    ASSUME NEW r, Held(r), NEW c, Fits("settle", r, c),
           NEW k, k = WithAttempt(r, StepOf(c), LastOrdinal(r), "terminal")
    PROVE  /\ Acceptable(r, k) /\ Fits("attempt", k, c) /\ k.branch = r.branch
           /\ k.issue = r.issue /\ k.pr = r.pr
<1>1. /\ CtxShaped(c) /\ r.status = "in-progress" /\ InStep(r, c) /\ SameNumbers(r, c)
      /\ AttemptRuns(r, c)
    BY DEF Fits, InSteps
<1>2. r.stage # "none"
    BY <1>1, StageAtWork
<1>3. Shaped(r) /\ ValidAttempts(r) /\ DOMAIN r = ItemFields
    BY HeldIs
<1>4. /\ r.attempts # <<>> /\ r.attempts[Len(r.attempts)].stage = StepOf(c)
      /\ r.attempts[Len(r.attempts)].state = "running"
    BY <1>1 DEF AttemptRuns
<1>5. k = [r EXCEPT !.attempts[Len(r.attempts)].state = "terminal"]
    BY <1>3, <1>4, EndedAttempt
<1>6. Counts(r, k) /\ k.attempts = [r.attempts EXCEPT ![Len(r.attempts)].state = "terminal"]
    BY <1>3, <1>5 DEF Counts, Other, ItemFields
<1>7. ValidAttempts(k) /\ ValidAttemptChange(r, k) /\ k.attempts \in Seq(CoreAttempts)
    BY <1>3, <1>4, <1>6, AttemptEnded
<1>8. /\ Acceptable(r, k) /\ k.branch = r.branch /\ k.stage = r.stage /\ k.state = r.state
      /\ k.status = r.status /\ k.issue = r.issue /\ k.pr = r.pr
    BY <1>1, <1>2, <1>6, <1>7, CountingIs
<1>9. InStep(k, c) /\ SameNumbers(k, c)
    BY <1>1, <1>8, CountedFits
<1> QED
    BY <1>1, <1>8, <1>9 DEF Fits, InSteps, InLoops

-----------------------------------------------------------------------------
\* What the record of a verified step leaves alone.
LEMMA OnlyVerified ==
    ASSUME NEW r, NEW k, Other(r, k, {"stage", "state", "feature", "issue", "pr", "outbox"})
    PROVE  /\ DOMAIN k = ItemFields /\ SameIdentity(r, k) /\ k.frozen = r.frozen
           /\ k.status = r.status /\ k.branch = r.branch /\ SameAttempts(r, k)
<1> DEFINE F == {"stage", "state", "feature", "issue", "pr", "outbox"}
<1>1. F \subseteq Written /\ "status" \notin F /\ "branch" \notin F /\ "attempts" \notin F
    BY DEF Written
<1>2. Other(r, k, F)
    OBVIOUS
<1> HIDE DEF F
<1>3. /\ DOMAIN k = ItemFields /\ SameIdentity(r, k) /\ k.frozen = r.frozen
      /\ \A f \in Written : f \notin F => k[f] = r[f]
    BY <1>1, <1>2, NothingElse
<1> QED
    BY <1>1, <1>3 DEF Written, SameAttempts

\* The event of a new issue is the outbox's first (ledger.go, validateWorkflowMutation).
LEMMA FirstEvent ==
    ASSUME NEW r, NEW k, r.outbox = <<>>, NEW n \in Nat \ {0},
           k.outbox = Append(r.outbox, [number |-> n, delivered |-> FALSE]), r.issue = 0, k.issue = n
    PROVE  /\ ValidOutbox(k) /\ ValidOutboxChange(r, k) /\ k.outbox \in Seq(Events)
           /\ [number |-> k.issue, delivered |-> FALSE] \in ToSet(k.outbox)
<1> DEFINE e == [number |-> n, delivered |-> FALSE]
<1>1. e \in Events /\ e.number = n
    BY DEF Events
<1>2. k.outbox = <<e>>
    OBVIOUS
<1> HIDE DEF e
<1>3. Len(k.outbox) = 1 /\ DOMAIN k.outbox = {1} /\ k.outbox[1] = e /\ Len(r.outbox) = 0 /\ DOMAIN r.outbox = {}
    BY <1>2
<1>4. k.outbox \in Seq(Events)
    BY <1>1, <1>2
<1>5. ValidOutbox(k)
    BY <1>1, <1>3 DEF ValidOutbox
<1>6. ValidOutboxChange(r, k)
    BY <1>3 DEF ValidOutboxChange
<1>7. e \in ToSet(k.outbox)
    BY <1>3 DEF ToSet
<1>8. e = [number |-> k.issue, delivered |-> FALSE]
    BY DEF e
<1> QED
    BY <1>4, <1>5, <1>6, <1>7, <1>8

\* RecordVerified: what the record of a verified step says.
Notes(r, c, found, k) ==
    /\ Other(r, k, {"stage", "state", "feature", "issue", "pr", "outbox"})
    /\ k.stage = StepOf(c) /\ k.state = "verified"
    /\ k.feature = IF c.phase = "sdd" /\ c.feature # 0 THEN c.feature ELSE r.feature
    /\ k.issue = IF found THEN c.issue ELSE r.issue
    /\ k.pr = IF c.pr # 0 THEN c.pr ELSE r.pr
    /\ k.outbox = IF found THEN Append(r.outbox, [number |-> c.issue, delivered |-> FALSE]) ELSE r.outbox

\* A verified step is accepted, and the loop goes on behind it.
LEMMA NotedRecordIs ==
    ASSUME NEW r, Held(r), NEW c, Fits("verified", r, c),
           NEW found, found = (c.issue # 0 /\ c.issue # r.issue),
           NEW k, Notes(r, c, found, k),
           NEW d, d = [c EXCEPT !.pos = @ + 1, !.exit = FALSE]
    PROVE  Acceptable(r, k) /\ Fits("stage", k, d) /\ Fits("deliver", k, d) /\ k.branch = r.branch
<1>1. CtxShaped(c) /\ r.status = "in-progress" /\ InStep(r, c) /\ FoundNumbers(r, c)
    BY DEF Fits, InSteps
<1>2. /\ DOMAIN r = ItemFields /\ r.feature \in Nat /\ r.issue \in Nat /\ r.pr \in Nat
      /\ (r.issue = 0 => r.outbox = <<>>) /\ Rank(r.stage) \in Nat
    BY HeldIs
<1>3. c.feature \in Nat /\ c.issue \in Nat /\ c.pr \in Nat /\ DOMAIN c = CtxFields
    BY <1>1 DEF CtxShaped
<1>4. /\ StepOf(c) \in ExecutableStages /\ StepOf(c) # "none" /\ r.stage = StepOf(c)
      /\ c.pos \in 1..Len(StepsOf(c))
    BY <1>1, StepIs DEF InStep
<1>5. /\ Other(r, k, {"stage", "state", "feature", "issue", "pr", "outbox"})
      /\ k.stage = StepOf(c) /\ k.state = "verified"
      /\ k.feature = IF c.phase = "sdd" /\ c.feature # 0 THEN c.feature ELSE r.feature
      /\ k.issue = IF found THEN c.issue ELSE r.issue
      /\ k.pr = IF c.pr # 0 THEN c.pr ELSE r.pr
      /\ k.outbox = IF found THEN Append(r.outbox, [number |-> c.issue, delivered |-> FALSE]) ELSE r.outbox
    BY DEF Notes
<1>7. /\ DOMAIN k = ItemFields /\ SameIdentity(r, k) /\ k.frozen = r.frozen
      /\ k.status = r.status /\ k.branch = r.branch /\ SameAttempts(r, k)
    BY <1>5, OnlyVerified
<1>8. found => StepOf(c) = "issue" /\ r.issue = 0 /\ c.phase # "sdd"
    BY <1>5, <1>1 DEF FoundNumbers
<1>9. /\ ValidOutbox(k) /\ ValidOutboxChange(r, k) /\ k.outbox \in Seq(Events)
      /\ (r.issue = 0 /\ k.issue > 0 /\ k.stage = "issue" /\ k.state = "verified"
            => [number |-> k.issue, delivered |-> FALSE] \in ToSet(k.outbox))
    <2>1. CASE found
        <3>1. r.outbox = <<>> /\ r.issue = 0 /\ c.issue \in Nat \ {0} /\ k.issue = c.issue
            BY <1>5, <1>2, <1>3, <1>8, <2>1
        <3>2. k.outbox = Append(r.outbox, [number |-> c.issue, delivered |-> FALSE])
            BY <1>5, <2>1
        <3> QED
            BY <3>1, <3>2, FirstEvent
    <2>2. CASE ~found
        <3>1. SameOutbox(r, k)
            BY <1>5, <2>2 DEF SameOutbox
        <3>2. ~(r.issue = 0 /\ k.issue > 0)
            BY <1>5, <2>2
        <3> QED
            BY <3>1, <3>2, HeldIs, OutboxStays
    <2> QED
        BY <1>5, <2>1, <2>2
<1>10. SameAttempts(r, k)
    BY <1>5, <1>7
<1>11. k.feature \in Nat /\ k.issue \in Nat /\ k.pr \in Nat
    BY <1>5, <1>2, <1>3
<1>12. k.stage = "issue" => k.issue > 0
    <2>1. SUFFICES ASSUME k.stage = "issue" PROVE k.issue # 0
        BY <1>5, <1>11
    <2>2. c.phase # "sdd" /\ c.issue # 0
        <3>1. StepOf(c) = "issue" /\ StepOf(c) \in Publications
            BY <1>5, <2>1 DEF Publications
        <3>2. c.phase # "sdd"
            BY <1>5, <1>1, <1>4, <3>1, StepIs
        <3> QED
            BY <1>5, <1>1, <3>1, <3>2 DEF FoundNumbers
    <2> QED
        BY <1>5, <2>2
<1>13. k.stage = "pr" => k.pr > 0
    <2>1. SUFFICES ASSUME k.stage = "pr" PROVE k.pr # 0
        BY <1>5, <1>11
    <2>2. c.phase # "sdd" /\ c.pr # 0
        <3>1. StepOf(c) = "pr" /\ StepOf(c) \in Publications
            BY <1>5, <2>1 DEF Publications
        <3>2. c.phase # "sdd"
            BY <1>5, <1>1, <1>4, <3>1, StepIs
        <3> QED
            BY <1>5, <1>1, <3>1, <3>2 DEF FoundNumbers
    <2> QED
        BY <1>5, <2>2
<1>14. GoesOn(r, k)
    <2>1. k.status = "in-progress" /\ Executable(k.stage) /\ k.state = "verified"
        BY <1>5, <1>1, <1>4, <1>7 DEF Executable
    <2>2. {k.feature, k.issue, k.pr} \subseteq Nat
        BY <1>5, <1>11
    <2>3. Rank(r.stage) <= Rank(k.stage)
        BY <1>5, <1>2, <1>4
    <2>4. r.issue > 0 => k.issue = r.issue
        BY <1>5, <1>8
    <2>5. k.issue = 0 => k.outbox = <<>>
        BY <1>5, <1>2
    <2> QED
        BY <1>5, <1>1, <1>7, <1>9, <1>12, <1>13, <2>1, <2>2, <2>3, <2>4, <2>5 DEF GoesOn
<1>15. Acceptable(r, k)
    <2>1. Sound(r)
        BY HeldIs
    <2>2. ValidAttempts(k) /\ ValidAttemptChange(r, k) /\ k.attempts \in Seq(CoreAttempts)
        BY <1>5, <1>10, <2>1, AttemptsStay, Zenon
    <2> QED
        BY <1>5, <1>9, <1>14, <2>1, <2>2, GoesOnIsAcceptable, Zenon
<1>16. /\ DOMAIN d = CtxFields /\ d.phase = c.phase /\ d.pos = c.pos + 1 /\ d.feature = c.feature
       /\ d.issue = c.issue /\ d.pr = c.pr
    BY <1>5, <1>3 DEF CtxFields
<1>17. CtxShaped(d)
    <2>1. StepsOf(d) = StepsOf(c)
        BY <1>5, <1>16 DEF StepsOf
    <2>2. Len(StepsOf(c)) \in Nat
        BY StagesAre DEF StepsOf, PL, RL
    <2>3. d.pos \in 1..(Len(StepsOf(d)) + 1)
        BY <1>5, <1>4, <1>16, <2>1, <2>2
    <2>4. {d.feature, d.issue, d.pr} \subseteq Nat
        BY <1>5, <1>3, <1>16
    <2> QED
        BY <1>5, <1>1, <1>16, <2>3, <2>4 DEF CtxShaped
<1>18. InLoop(k, d)
    <2>1. CASE c.phase = "sdd"
        <3>1. c.pos \in 1..PL /\ StepOf(c) = Pipeline[c.pos] /\ d.pos - 1 = c.pos
            BY <1>5, <1>1, <1>4, <1>16, <2>1, StepIs
        <3> QED
            BY <1>5, <1>16, <2>1, <3>1 DEF InLoop
    <2>2. CASE c.phase = "remote"
        <3>1. c.pos \in 1..RL /\ StepOf(c) = RemoteSteps[c.pos] /\ d.pos - 1 = c.pos
            BY <1>5, <1>1, <1>4, <1>16, <2>2, StepIs
        <3> QED
            BY <1>5, <1>16, <2>2, <3>1 DEF InLoop
    <2> QED
        BY <1>5, <1>1, <2>1, <2>2 DEF CtxShaped
<1>19. SameNumbers(k, d)
    <2>1. CASE c.phase = "sdd"
        BY <1>5, <1>1, <1>16, <2>1 DEF SameNumbers, FoundNumbers
    <2>2. CASE c.phase # "sdd"
        <3>1. c.issue = k.issue
            BY <1>5, <1>1, <2>2 DEF FoundNumbers
        <3>2. c.pr = k.pr
            BY <1>5, <1>1, <2>2 DEF FoundNumbers
        <3> QED
            BY <1>5, <1>16, <2>2, <3>1, <3>2 DEF SameNumbers
    <2> QED
        BY <1>5, <2>1, <2>2
<1> QED
    BY <1>4, <1>5, <1>1, <1>7, <1>15, <1>17, <1>18, <1>19 DEF Fits, InSteps, InLoops

\* RecordVerified notes what its record says.
LEMMA VerifiedNotes ==
    ASSUME NEW r, DOMAIN r = ItemFields, NEW c, NEW found,
           NEW k, k = [r EXCEPT !.stage = StepOf(c), !.state = "verified",
                        !.feature = IF c.phase = "sdd" /\ c.feature # 0 THEN c.feature ELSE @,
                        !.issue = IF found THEN c.issue ELSE @,
                        !.pr = IF c.pr # 0 THEN c.pr ELSE @,
                        !.outbox = IF found THEN Append(@, [number |-> c.issue, delivered |-> FALSE])
                                   ELSE @]
    PROVE  Notes(r, c, found, k)
BY DEF Notes, Other, ItemFields

-----------------------------------------------------------------------------
\* Publish: the stages are done, the publishing steps begin where the record stands.
LEMMA ResumePosition ==
    ASSUME NEW i
    PROVE  LET later == {m \in DOMAIN RemoteSteps :
                            IF i.state = "verified" THEN Rank(RemoteSteps[m]) > Rank(i.stage)
                            ELSE Rank(RemoteSteps[m]) >= Rank(i.stage)}
           IN  \/ later = {} /\ RemoteResume(i) = RL + 1
               \/ RemoteResume(i) \in later /\ \A m \in later : RemoteResume(i) <= m
<1> DEFINE later == {m \in DOMAIN RemoteSteps :
                        IF i.state = "verified" THEN Rank(RemoteSteps[m]) > Rank(i.stage)
                        ELSE Rank(RemoteSteps[m]) >= Rank(i.stage)}
<1>1. RemoteResume(i) = IF later = {} THEN RL + 1 ELSE CHOOSE k \in later : \A m \in later : k <= m
    BY DEF RemoteResume, RL
<1>2. later \in SUBSET Nat
    BY StagesAre
<1> HIDE DEF later
<1>3. later # {} => \E k \in later : \A m \in later : k <= m
    BY <1>2, LeastOf
<1>4. \/ later = {} /\ RemoteResume(i) = RL + 1
      \/ RemoteResume(i) \in later /\ \A m \in later : RemoteResume(i) <= m
    BY <1>1, <1>3
<1> QED
    BY <1>4 DEF later

\* A record that is at work on the publishing steps, and where it resumes.
LEMMA ResumesAt ==
    ASSUME NEW k, Publishing(k.stage), k.state \in {"running", "verified"}, NEW p, p = RemoteResume(k)
    PROVE  /\ p \in 1..(RL + 1)
           /\ \/ k.stage = "publish" /\ p = 1
              \/ p \in 1..RL /\ k.stage = RemoteSteps[p] /\ k.state = "running"
              \/ p - 1 \in 1..RL /\ k.stage = RemoteSteps[p - 1] /\ k.state = "verified"
<1> DEFINE later == {m \in DOMAIN RemoteSteps :
                        IF k.state = "verified" THEN Rank(RemoteSteps[m]) > Rank(k.stage)
                        ELSE Rank(RemoteSteps[m]) >= Rank(k.stage)}
<1>1. \/ later = {} /\ p = RL + 1
      \/ p \in later /\ \A m \in later : p <= m
    BY ResumePosition
<1>2. /\ RL \in Nat /\ PL \in Nat /\ DOMAIN RemoteSteps = 1..RL
      /\ \A m \in 1..RL : Rank(RemoteSteps[m]) = PL + 1 + m
      /\ Rank("publish") = PL + 1
    BY StagesAre, Ranks
<1>3. CASE k.stage = "publish"
    <2>1. later = 1..RL
        BY <1>2, <1>3
    <2>2. p = 1
        <3>1. CASE RL = 0
            BY <1>1, <1>2, <2>1, <3>1
        <3>2. CASE RL # 0
            <4>1. 1 \in later
                BY <1>2, <2>1, <3>2
            <4> QED
                BY <1>1, <1>2, <2>1, <4>1
        <3> QED
            BY <3>1, <3>2
    <2> QED
        BY <1>2, <1>3, <2>2
<1>4. CASE k.stage # "publish"
    <2>1. PICK m \in 1..RL : k.stage = RemoteSteps[m]
        BY <1>4, StepsAre
    <2>2. Rank(k.stage) = PL + 1 + m
        BY <1>2, <2>1
    <2>3. CASE k.state = "running"
        <3>1. later = m..RL
            BY <1>2, <2>1, <2>2, <2>3
        <3> HIDE DEF later
        <3>2. m \in later
            BY <1>2, <2>1, <3>1
        <3>3. p = m
            <4>1. p \in m..RL /\ p <= m
                BY <1>1, <3>1, <3>2
            <4> QED
                BY <1>2, <2>1, <4>1
        <3> QED
            BY <1>2, <2>1, <2>3, <3>3
    <2>4. CASE k.state = "verified"
        <3>1. later = (m + 1)..RL
            BY <1>2, <2>1, <2>2, <2>4
        <3> HIDE DEF later
        <3>2. p = m + 1
            <4>1. CASE m = RL
                BY <1>1, <1>2, <2>1, <3>1, <4>1
            <4>2. CASE m # RL
                <5>1. m + 1 \in later
                    BY <1>2, <2>1, <3>1, <4>2
                <5>2. p \in (m + 1)..RL /\ p <= m + 1
                    BY <1>1, <3>1, <5>1
                <5> QED
                    BY <1>2, <2>1, <5>2
            <4> QED
                BY <4>1, <4>2
        <3>3. p \in 1..(RL + 1) /\ p - 1 = m
            BY <1>2, <2>1, <3>2
        <3> QED
            BY <2>1, <2>4, <3>3
    <2> QED
        BY <2>3, <2>4
<1> QED
    BY <1>3, <1>4

\* Publishing resumes behind the last verified step (remote.go, remoteResumeIndex).
LEMMA PublishedFits ==
    ASSUME NEW k, k.status = "in-progress", Publishing(k.stage), k.state \in {"running", "verified"},
           NEW r, k.issue = r.issue, k.pr = r.pr, r.issue \in Nat, r.pr \in Nat,
           NEW d, d = [Idle EXCEPT !.phase = "remote", !.pos = RemoteResume(k),
                                   !.issue = r.issue, !.pr = r.pr]
    PROVE  Fits("deliver", k, d)
<1>1. /\ DOMAIN d = CtxFields /\ d.phase = "remote" /\ d.pos = RemoteResume(k) /\ d.feature = 0
      /\ d.issue = r.issue /\ d.pr = r.pr
    BY DEF Idle, CtxFields
<1>2. StepsOf(d) = RemoteSteps /\ Len(StepsOf(d)) = RL
    BY <1>1 DEF StepsOf, RL
<1>3. /\ d.pos \in 1..(RL + 1)
      /\ \/ k.stage = "publish" /\ d.pos = 1
         \/ d.pos \in 1..RL /\ k.stage = RemoteSteps[d.pos] /\ k.state = "running"
         \/ d.pos - 1 \in 1..RL /\ k.stage = RemoteSteps[d.pos - 1] /\ k.state = "verified"
    BY <1>1, ResumesAt
<1>4. CtxShaped(d)
    <2>1. {d.feature, d.issue, d.pr} \subseteq Nat
        BY <1>1
    <2> QED
        BY <1>1, <1>2, <1>3, <2>1 DEF CtxShaped
<1>5. InLoop(k, d)
    <2>1. d.pos \in 1..RL /\ k.stage = RemoteSteps[d.pos] /\ k.state = "running" => InStep(k, d)
        BY <1>2 DEF InStep, StepOf
    <2> QED
        BY <1>1, <1>3, <2>1 DEF InLoop
<1>6. SameNumbers(k, d)
    BY <1>1 DEF SameNumbers
<1>7. k.stage # "none"
    BY StepsAre DEF Publishing, Executable, ExecutableStages
<1> QED
    BY <1>4, <1>5, <1>6, <1>7 DEF Fits, InSteps, InLoops

-----------------------------------------------------------------------------
\* At the end of the SDD stages.
LEMMA StagesDone ==
    ASSUME NEW r, Held(r), NEW c, Fits("stage", r, c), c.phase = "sdd", c.pos > Len(StepsOf(c))
    PROVE  /\ r.status = "in-progress"
           /\ Publishing(r.stage) \/ Rank(r.stage) <= PL
           /\ Publishing(r.stage) => r.state \in {"running", "verified"}
<1>1. CtxShaped(c) /\ r.status = "in-progress" /\ InLoop(r, c)
    BY DEF Fits, InLoops
<1>2. StepsOf(c) = Pipeline /\ Len(StepsOf(c)) = PL
    BY DEF StepsOf, PL
<1>3. PL \in Nat \ {0} /\ c.pos = PL + 1
    BY <1>1, <1>2, StagesAre DEF CtxShaped
<1>4. \/ Publishing(r.stage)
      \/ r.stage = Pipeline[PL]
    <2>1. ~InStep(r, c) /\ c.pos # 1 /\ c.pos - 1 = PL
        BY <1>2, <1>3 DEF InStep
    <2> QED
        BY <1>1, <2>1 DEF InLoop
<1>5. r.stage = Pipeline[PL] => Rank(r.stage) <= PL
    BY <1>3, Ranks
<1>6. Publishing(r.stage) => r.stage # "none"
    BY StepsAre DEF Publishing, Executable, ExecutableStages
<1>7. r.stage # "none" => r.state \in {"running", "verified"}
    BY <1>1, HeldIs, RecordNumbers
<1> QED
    BY <1>1, <1>4, <1>5, <1>6, <1>7

\* What a change of the stage leaves alone.
LEMMA OnlyStage ==
    ASSUME NEW r, NEW k, Other(r, k, {"stage", "state"})
    PROVE  /\ DOMAIN k = ItemFields /\ SameIdentity(r, k) /\ k.frozen = r.frozen
           /\ k.status = r.status /\ k.branch = r.branch /\ k.feature = r.feature /\ k.issue = r.issue
           /\ k.pr = r.pr /\ SameAttempts(r, k) /\ SameOutbox(r, k)
<1> DEFINE F == {"stage", "state"}
<1>1. F \subseteq Written /\ \A f \in Written : f # "stage" /\ f # "state" => f \notin F
    BY DEF Written
<1>2. Other(r, k, F)
    OBVIOUS
<1> HIDE DEF F
<1>3. /\ DOMAIN k = ItemFields /\ SameIdentity(r, k) /\ k.frozen = r.frozen
      /\ \A f \in Written : f \notin F => k[f] = r[f]
    BY <1>1, <1>2, NothingElse
<1> QED
    BY <1>1, <1>3 DEF Written, SameAttempts, SameOutbox

\* The record goes over to "publish".
LEMMA PublishIs ==
    ASSUME NEW r, Held(r), r.status = "in-progress", Rank(r.stage) <= PL,
           NEW k, k = [r EXCEPT !.stage = "publish", !.state = "running"]
    PROVE  /\ Acceptable(r, k) /\ k.branch = r.branch /\ k.status = "in-progress"
           /\ Publishing(k.stage) /\ k.state = "running" /\ k.issue = r.issue /\ k.pr = r.pr
<1>1. DOMAIN r = ItemFields
    BY HeldIs
<1>2. Other(r, k, {"stage", "state"}) /\ k.stage = "publish" /\ k.state = "running"
    BY <1>1 DEF Other, ItemFields
<1>3. /\ DOMAIN k = ItemFields /\ SameIdentity(r, k) /\ k.frozen = r.frozen
      /\ k.status = r.status /\ k.branch = r.branch /\ k.feature = r.feature /\ k.issue = r.issue
      /\ k.pr = r.pr /\ SameAttempts(r, k) /\ SameOutbox(r, k)
    BY <1>2, OnlyStage, ZenonT(30)
<1>4. Executable("publish") /\ Publishing("publish")
    BY StepsAre DEF Executable
<1>5. GoesOn(r, k)
    <2>1. {k.feature, k.issue, k.pr} \subseteq Nat /\ (k.issue = 0 => k.outbox = <<>>)
        BY <1>3, HeldIs DEF SameOutbox
    <2>2. Rank(r.stage) <= Rank(k.stage)
        BY <1>2, HeldIs, Ranks
    <2> QED
        BY <1>2, <1>3, <1>4, <2>1, <2>2 DEF GoesOn
<1>6. Acceptable(r, k)
    <2>1. Sound(r)
        BY HeldIs
    <2> QED
        BY <1>3, <1>5, <2>1, AttemptsStay, OutboxStays, GoesOnIsAcceptable
<1> QED
    BY <1>2, <1>3, <1>4, <1>6

\* deliverPendingEvents.
LEMMA DeliveringIs ==
    ASSUME NEW r, NEW c, Fits("deliver", r, c)
    PROVE  /\ Fits("stage", r, c)
           /\ (\E e \in DOMAIN r.outbox : ~r.outbox[e].delivered) => Fits("mark", r, c)
BY DEF Fits, InSteps, InLoops

\* Marking an event changes no other.
LEMMA EventMarked ==
    ASSUME NEW s \in Seq(Events), NEW n \in DOMAIN s, NEW t, t = [s EXCEPT ![n].delivered = TRUE]
    PROVE  /\ t \in Seq(Events) /\ Len(t) = Len(s) /\ DOMAIN t = DOMAIN s
           /\ \A i \in DOMAIN s : /\ t[i].number = s[i].number
                                  /\ s[i].delivered => t[i].delivered
<1> DEFINE e == [s[n] EXCEPT !.delivered = TRUE]
<1>1. DOMAIN s = 1..Len(s) /\ Len(s) \in Nat /\ \A i \in DOMAIN s : s[i] \in Events
    OBVIOUS
<1>2. e \in Events /\ e.number = s[n].number /\ e.delivered
    BY <1>1 DEF Events
<1>3. t = [s EXCEPT ![n] = e]
    OBVIOUS
<1> HIDE DEF e
<1>4. /\ DOMAIN t = DOMAIN s /\ t[n] = e /\ \A i \in DOMAIN s : i # n => t[i] = s[i]
    BY <1>3
<1>5. t \in [1..Len(s) -> Events]
    BY <1>1, <1>2, <1>3
<1>6. t \in Seq(Events) /\ Len(t) = Len(s)
    BY <1>1, <1>4, <1>5, FunctionIsSeq
<1> QED
    BY <1>2, <1>4, <1>6

\* What a change of the outbox leaves alone.
LEMMA OnlyOutbox ==
    ASSUME NEW r, NEW k, Other(r, k, {"outbox"})
    PROVE  /\ DOMAIN k = ItemFields /\ SameIdentity(r, k) /\ k.frozen = r.frozen
           /\ k.status = r.status /\ k.stage = r.stage /\ k.state = r.state /\ k.branch = r.branch
           /\ k.feature = r.feature /\ k.issue = r.issue /\ k.pr = r.pr /\ SameAttempts(r, k)
<1> DEFINE F == {"outbox"}
<1>1. F \subseteq Written /\ \A f \in Written : f # "outbox" => f \notin F
    BY DEF Written
<1>2. Other(r, k, F)
    OBVIOUS
<1> HIDE DEF F
<1>3. /\ DOMAIN k = ItemFields /\ SameIdentity(r, k) /\ k.frozen = r.frozen
      /\ \A f \in Written : f \notin F => k[f] = r[f]
    BY <1>1, <1>2, NothingElse
<1> QED
    BY <1>1, <1>3 DEF Written, SameAttempts

\* Marking an event delivered is accepted (remote.go, deliverPendingEvents).
LEMMA MarkedIs ==
    ASSUME NEW r, Held(r), NEW c, Fits("mark", r, c), NEW n \in DOMAIN r.outbox,
           NEW k, k = [r EXCEPT !.outbox[n].delivered = TRUE]
    PROVE  Acceptable(r, k) /\ Fits("deliver", k, c) /\ k.branch = r.branch
<1>1. CtxShaped(c) /\ r.status = "in-progress" /\ InLoop(r, c) /\ SameNumbers(r, c)
    BY DEF Fits, InLoops
<1>2. /\ DOMAIN r = ItemFields /\ r.outbox \in Seq(Events) /\ ValidOutbox(r) /\ Sound(r)
      /\ (r.issue = 0 => r.outbox = <<>>)
    BY HeldIs
<1>3. Other(r, k, {"outbox"}) /\ k.outbox = [r.outbox EXCEPT ![n].delivered = TRUE]
    BY <1>2 DEF Other, ItemFields
<1>4. /\ DOMAIN k = ItemFields /\ SameIdentity(r, k) /\ k.frozen = r.frozen
      /\ k.status = r.status /\ k.stage = r.stage /\ k.state = r.state /\ k.branch = r.branch
      /\ k.feature = r.feature /\ k.issue = r.issue /\ k.pr = r.pr /\ SameAttempts(r, k)
    <2>1. Other(r, k, {"outbox"})
        BY <1>3
    <2> QED
        BY <2>1, OnlyOutbox, ZenonT(30)
<1>5. k.status = r.status /\ k.stage = r.stage /\ k.state = r.state /\ k.branch = r.branch
      /\ k.feature = r.feature /\ k.issue = r.issue /\ k.pr = r.pr /\ SameAttempts(r, k)
    BY <1>4
<1>6. /\ k.outbox \in Seq(Events) /\ Len(k.outbox) = Len(r.outbox) /\ DOMAIN k.outbox = DOMAIN r.outbox
      /\ \A i \in DOMAIN r.outbox : /\ k.outbox[i].number = r.outbox[i].number
                                    /\ r.outbox[i].delivered => k.outbox[i].delivered
    BY <1>2, <1>3, EventMarked, ZenonT(30)
<1>7. ValidOutbox(k)
    BY <1>2, <1>6 DEF ValidOutbox
<1>8. ValidOutboxChange(r, k)
    <2>1. Len(r.outbox) \in Nat
        BY <1>2
    <2> QED
        BY <1>6, <2>1 DEF ValidOutboxChange
<1>9. /\ Executable(r.stage) /\ r.state \in {"running", "verified"}
      /\ r.stage = "issue" /\ r.state = "verified" => r.issue > 0
      /\ r.stage = "pr" /\ r.state = "verified" => r.pr > 0
    <2>1. r.stage # "none"
        BY DEF Fits
    <2> QED
        BY <1>1, <1>2, <2>1, RecordNumbers
<1>10. GoesOn(r, k)
    <2>1. {k.feature, k.issue, k.pr} \subseteq Nat
        BY <1>5, HeldIs
    <2>2. Rank(r.stage) <= Rank(k.stage) /\ ~(r.issue = 0 /\ k.issue > 0)
        BY <1>5, HeldIs
    <2>3. k.issue = 0 => k.outbox = <<>>
        BY <1>2, <1>5
    <2> QED
        BY <1>1, <1>4, <1>5, <1>9, <2>1, <2>2, <2>3 DEF GoesOn
<1>11. Acceptable(r, k)
    BY <1>2, <1>5, <1>6, <1>7, <1>8, <1>10, AttemptsStay, GoesOnIsAcceptable, Zenon
<1>12. InLoop(k, c) /\ SameNumbers(k, c)
    <2>1. InStep(r, c) => InStep(k, c)
        BY <1>5 DEF InStep
    <2>2. InLoop(k, c)
        BY <1>1, <1>5, <2>1 DEF InLoop
    <2> QED
        BY <1>1, <1>5, <2>2 DEF SameNumbers
<1> QED
    <2>1. r.stage # "none"
        BY DEF Fits
    <2> QED
        BY <1>1, <1>5, <1>11, <1>12, <2>1 DEF Fits, InSteps, InLoops

\* What the end of an item leaves alone.
LEMMA OnlyEnd ==
    ASSUME NEW r, NEW k, Other(r, k, {"status", "stage", "state", "issue", "pr"})
    PROVE  /\ DOMAIN k = ItemFields /\ SameIdentity(r, k) /\ k.frozen = r.frozen
           /\ k.branch = r.branch /\ k.feature = r.feature
           /\ SameAttempts(r, k) /\ SameOutbox(r, k)
<1> DEFINE F == {"status", "stage", "state", "issue", "pr"}
<1>1. F \subseteq Written /\ {"branch", "feature", "attempts", "outbox"} \cap F = {}
    BY DEF Written
<1>2. Other(r, k, F)
    OBVIOUS
<1> HIDE DEF F
<1>3. /\ DOMAIN k = ItemFields /\ SameIdentity(r, k) /\ k.frozen = r.frozen
      /\ \A f \in Written : f \notin F => k[f] = r[f]
    BY <1>1, <1>2, NothingElse
<1> QED
    BY <1>1, <1>3 DEF Written, SameAttempts, SameOutbox

\* The item is done.
LEMMA FinishedIs ==
    ASSUME NEW r, Held(r), r.source = "current", NEW c, Fits("stage", r, c), c.phase = "remote",
           NEW k, k = [r EXCEPT !.status = "done", !.stage = "done", !.state = "verified",
                                !.issue = c.issue, !.pr = c.pr]
    PROVE  Acceptable(r, k) /\ k.branch = r.branch /\ k.status = "done"
<1>1. r.status = "in-progress" /\ SameNumbers(r, c)
    BY DEF Fits, InLoops
<1>2. /\ DOMAIN r = ItemFields /\ Sound(r) /\ (r.issue = 0 => r.outbox = <<>>)
      /\ r.feature \in Nat /\ r.issue \in Nat /\ r.pr \in Nat /\ Rank(r.stage) \in Nat
    BY HeldIs
<1>3. c.issue = r.issue /\ c.pr = r.pr
    BY <1>1 DEF SameNumbers
<1>4. /\ Other(r, k, {"status", "stage", "state", "issue", "pr"})
      /\ k.status = "done" /\ k.stage = "done" /\ k.state = "verified" /\ k.issue = r.issue /\ k.pr = r.pr
    BY <1>2, <1>3 DEF Other, ItemFields
<1>5. /\ DOMAIN k = ItemFields /\ SameIdentity(r, k) /\ k.frozen = r.frozen
      /\ k.branch = r.branch /\ k.feature = r.feature /\ SameAttempts(r, k) /\ SameOutbox(r, k)
    BY <1>4, OnlyEnd, ZenonT(30)
<1>6. Rank(r.stage) <= Rank(k.stage)
    <2>1. r.stage \in ToSet(WorkflowStages) \/ Rank(r.stage) = 0
        BY Ranks
    <2> QED
        BY <1>2, <1>4, <2>1, Ranks
<1>7. GoesOn(r, k)
    <2>1. {k.feature, k.issue, k.pr} \subseteq Nat /\ (k.issue = 0 => k.outbox = <<>>)
        BY <1>2, <1>4, <1>5 DEF SameOutbox
    <2>2. k.stage # "issue" /\ k.stage # "pr"
        BY <1>4
    <2> QED
        BY <1>1, <1>4, <1>5, <1>6, <2>1, <2>2 DEF GoesOn
<1> QED
    BY <1>2, <1>4, <1>5, <1>7, AttemptsStay, OutboxStays, GoesOnIsAcceptable

-----------------------------------------------------------------------------
(* The inductive invariant.                                                   *)

IsTree(t) ==
    /\ DOMAIN t = {"dir", "features", "arts", "dirty", "staged", "head", "tip"}
    /\ t.features \in Nat

\* The disk, the remote and what they were given.
StoredWell ==
    /\ LeftBehind(ledger) /\ ~rejected /\ backlog \in Backlogs /\ resets \in Nat
    /\ issues \in Seq(Range(issues)) /\ prs \in Seq(Range(prs))
    /\ \A b \in DOMAIN trees : IsTree(trees[b])

Known(led, slug) == \E i \in DOMAIN led : led[i].slug = slug

\* An item is taken before anything of it is recorded.
Chosen(led, slug) ==
    /\ ItemOf(led, slug).status \in {"pending", "in-progress"} /\ ItemOf(led, slug).source = "current"
    /\ ItemOf(led, slug).status = "pending" => \A j \in DOMAIN led : led[j].status # "in-progress"

Labels == {"down", "next", "create", "begin", "cleanup"} \cup AtWork

\* The process: what it holds in memory fits the ledger it wrote.
ProcessWell ==
    /\ pc \in Labels /\ DOMAIN ctx = CtxFields
    /\ pc \notin {"down", "next"} => Known(ledger, cur)
    /\ pc # "down" => AllCurrent(ledger)
    /\ pc \in {"create", "begin"} => Chosen(ledger, cur)
    /\ pc = "begin" => ctx.status \in DOMAIN trees
    /\ pc \in AtWork => Fits(pc, ItemOf(ledger, cur), ctx) /\ ItemOf(ledger, cur).branch \in DOMAIN trees

AutodevInv == StoredWell /\ ProcessWell

Advances(a, b) ==
    /\ a.id = b.id /\ Rank(a.stage) <= Rank(b.stage)
    /\ a.status = "done" => b.status = "done"
    /\ a.frozen /\ ~a.legacy => b.frozen /\ a.desc = b.desc /\ a.title = b.title

Progress == \A i \in DOMAIN ledger : i \in DOMAIN ledger' /\ Advances(ledger[i], ledger'[i])

-----------------------------------------------------------------------------
\* A record that stays takes nothing back.
LEMMA Remains ==
    ASSUME NEW a
    PROVE  Advances(a, a)
BY Ranks DEF Advances

\* An accepted change takes nothing back.
LEMMA AcceptedAdvances ==
    ASSUME NEW a, NEW b, Acceptable(a, b), a.frozen \in BOOLEAN
    PROVE  Advances(a, b)
<1>1. /\ a.id = b.id /\ a.desc = b.desc /\ a.title = b.title
      /\ b.frozen = (a.frozen \/ (a.status = "pending" /\ b.status # "pending"))
    BY SameKey DEF Acceptable
<1>2. Rank(a.stage) <= Rank(b.stage) /\ a.status # "done"
    BY Zenon DEF Acceptable
<1>3. a.frozen => b.frozen
    BY <1>1
<1> QED
    BY <1>1, <1>2, <1>3 DEF Advances

\* The outcome of writing one record.
Wrote(kept, label, c) ==
    /\ LeftBehind(ledger') /\ ~rejected' /\ Progress
    /\ UNCHANGED <<backlog, trees, issues, prs, resets>>
    /\ \/ pc' = "down" /\ ctx' = Idle
       \/ /\ pc' = label /\ ctx' = c /\ cur' = cur /\ AllCurrent(ledger') /\ Known(ledger', cur)
          /\ ItemOf(ledger', cur) = kept

\* One record is replaced.
Replaces(old, k, r, new) ==
    /\ LeftBehind(new) /\ DOMAIN new = DOMAIN old /\ new[k] = r
    /\ \A j \in DOMAIN old : j # k => new[j] = old[j]

Alone(led, k) == \A j \in DOMAIN led : led[j].status = "in-progress" => j = k

\* Writing an accepted record replaces one record of the ledger.
LEMMA RecordReplaced ==
    ASSUME NEW old, LeftBehind(old), NEW k \in DOMAIN old, NEW r, Acceptable(old[k], r),
           r.status = "in-progress" => Alone(old, k),
           NEW new, new = [old EXCEPT ![k] = r]
    PROVE  Replaces(old, k, r, new)
<1>1. Sound(r) /\ ValidChange(old[k], r) /\ (r.issue = 0 => r.outbox = <<>>)
    BY DEF Acceptable
<1>2. r.status = "in-progress" => \A j \in DOMAIN old : old[j].status = "in-progress" => j = k
    BY DEF Alone
<1>3. /\ LeftBehind(new) /\ DOMAIN new = DOMAIN old /\ new[k] = r
      /\ \A j \in DOMAIN old : j # k => new[j] = old[j]
    BY <1>1, <1>2, Rewritten
<1> QED
    BY <1>3 DEF Replaces

\* The ledger with a record replaced is good, and no record lost its work.
LEMMA ReplacedIs ==
    ASSUME NEW old, LeftBehind(old), NEW c, NEW k \in DOMAIN old, old[k].slug = c, AllCurrent(old),
           old[k].source = "current", NEW r, Acceptable(old[k], r), NEW new, Replaces(old, k, r, new)
    PROVE  /\ LeftBehind(new) /\ ValidLedger(new) /\ DOMAIN new = DOMAIN old
           /\ AllCurrent(new) /\ Known(new, c) /\ ItemOf(new, c) = r
           /\ \A i \in DOMAIN old : Advances(old[i], new[i])
<1>1. /\ LeftBehind(new) /\ DOMAIN new = DOMAIN old /\ new[k] = r
      /\ \A j \in DOMAIN old : j # k => new[j] = old[j]
    BY DEF Replaces
<1>2. WellFormed(old) /\ WellFormed(new) /\ ValidLedger(new)
    BY <1>1 DEF LeftBehind
<1>3. r.slug = c /\ r.source = "current"
    BY SameKey DEF Acceptable
<1>4. k \in DOMAIN new /\ new[k].slug = c
    BY <1>1, <1>3
<1>5. Slot(new, c) = k
    BY <1>2, <1>4, SlotIs
<1>6. Known(new, c) /\ ItemOf(new, c) = r
    BY <1>1, <1>4, <1>5 DEF Known, ItemOf
<1>7. AllCurrent(new)
    BY <1>1, <1>3 DEF AllCurrent
<1>8. ASSUME NEW i \in DOMAIN old PROVE Advances(old[i], new[i])
    <2>1. CASE i = k
        <3>1. old[k].frozen \in BOOLEAN
            BY <1>2 DEF WellFormed, Shaped
        <3> QED
            BY <1>1, <2>1, <3>1, AcceptedAdvances
    <2>2. CASE i # k
        BY <1>1, <2>2, Remains
    <2> QED
        BY <2>1, <2>2
<1> QED
    BY <1>1, <1>2, <1>6, <1>7, <1>8

\* A write of an accepted record is never refused; it lands, or fails and leaves the ledger.
LEMMA RecordIs ==
    ASSUME LeftBehind(ledger), ~rejected, Known(ledger, cur), AllCurrent(ledger),
           ItemOf(ledger, cur).source = "current",
           NEW kept, Acceptable(ItemOf(ledger, cur), kept),
           kept.status = "in-progress" => Alone(ledger, Slot(ledger, cur)),
           NEW bad, NEW after, NEW label, NEW c, kept = Freeze(ItemOf(ledger, cur), after),
           Record(bad, after, label, c)
    PROVE  Wrote(kept, label, c)
<1> DEFINE led == [ledger EXCEPT ![Slot(ledger, cur)] = kept]
<1>0. /\ Slot(ledger, cur) \in DOMAIN ledger /\ ledger[Slot(ledger, cur)].slug = cur
      /\ ItemOf(ledger, cur) = ledger[Slot(ledger, cur)]
    BY SlotIs DEF LeftBehind, Known, ItemOf
<1>1. Replaces(ledger, Slot(ledger, cur), kept, led)
    BY <1>0, RecordReplaced
<1>2. /\ UNCHANGED <<backlog, world, started, repeated, reported>>
      /\ \/ ~(ValidChange(ItemOf(ledger, cur), kept) /\ ValidLedger(led))
         \/ ledger' \in {ledger, led} /\ UNCHANGED rejected /\ Stop /\ Fault
         \/ /\ ledger' = led /\ UNCHANGED rejected /\ FaultIf(bad)
            /\ IF label = "down" THEN Stop ELSE Goto(label, c)
    BY Zenon DEF Record, item
<1> HIDE DEF led
<1>a. /\ LeftBehind(led) /\ ValidLedger(led) /\ DOMAIN led = DOMAIN ledger
      /\ AllCurrent(led) /\ Known(led, cur) /\ ItemOf(led, cur) = kept
      /\ \A i \in DOMAIN ledger : Advances(ledger[i], led[i])
      /\ ValidChange(ItemOf(ledger, cur), kept)
    BY <1>0, <1>1, ReplacedIs DEF Acceptable
<1>3. UNCHANGED resets /\ UNCHANGED rejected /\ ledger' \in {ledger, led}
    BY <1>a, <1>2 DEF Fault, FaultIf, bounds
<1>4. LeftBehind(ledger') /\ ~rejected'
    BY <1>a, <1>3
<1>5. Progress
    BY <1>a, <1>3, Remains DEF Progress
<1>6. UNCHANGED <<backlog, trees, issues, prs, resets>>
    BY <1>2, <1>3 DEF world
<1>7. \/ pc' = "down" /\ ctx' = Idle
      \/ /\ pc' = label /\ ctx' = c /\ cur' = cur /\ AllCurrent(ledger') /\ Known(ledger', cur)
         /\ ItemOf(ledger', cur) = kept
    <2>1. CASE Stop
        BY <2>1 DEF Stop
    <2>2. CASE ledger' = led /\ Goto(label, c)
        BY <1>a, <2>2, Zenon DEF Goto
    <2> QED
        BY <1>a, <1>2, <2>1, <2>2
<1> QED
    BY <1>4, <1>5, <1>6, <1>7 DEF Wrote

-----------------------------------------------------------------------------
(* How the invariant is used and how it is reached.                           *)

\* What the process relies on while an item is at work.
LEMMA AtWorkHas ==
    ASSUME AutodevInv, pc \in AtWork
    PROVE  /\ LeftBehind(ledger) /\ ~rejected /\ Known(ledger, cur) /\ AllCurrent(ledger)
           /\ Held(item) /\ item.source = "current" /\ item.status = "in-progress"
           /\ Fits(pc, item, ctx) /\ item.branch \in DOMAIN trees /\ DOMAIN ctx = CtxFields
           /\ Alone(ledger, Slot(ledger, cur))
           /\ Slot(ledger, cur) \in DOMAIN ledger /\ item = ledger[Slot(ledger, cur)]
<1>1. /\ LeftBehind(ledger) /\ ~rejected
    BY DEF AutodevInv, StoredWell
<1>2. /\ Known(ledger, cur) /\ AllCurrent(ledger) /\ Fits(pc, item, ctx) /\ item.branch \in DOMAIN trees
      /\ DOMAIN ctx = CtxFields
    BY DEF AutodevInv, ProcessWell, AtWork, InSteps, InLoops, item
<1>3. item.status = "in-progress"
    BY <1>2 DEF Fits
<1>4. /\ Slot(ledger, cur) \in DOMAIN ledger /\ item = ledger[Slot(ledger, cur)]
    BY <1>1, <1>2, SlotIs DEF LeftBehind, Known, item, ItemOf
<1>5. Held(item)
    BY <1>1, <1>4, LeftBehindIs DEF Held
<1>6. item.source = "current"
    BY <1>2, <1>3, <1>4 DEF AllCurrent
<1>7. Alone(ledger, Slot(ledger, cur))
    BY <1>1, <1>3, <1>4 DEF LeftBehind, Alone
<1> QED
    BY <1>1, <1>2, <1>3, <1>4, <1>5, <1>6, <1>7

\* A step that writes nothing stored keeps what is stored.
LEMMA SameStored ==
    ASSUME StoredWell, UNCHANGED <<ledger, rejected, backlog, resets, issues, prs, trees>>
    PROVE  StoredWell' /\ Progress
<1>1. StoredWell'
    BY DEF StoredWell
<1>2. Progress
    BY Remains DEF Progress
<1> QED
    BY <1>1, <1>2

\* A stopped process keeps only what is stored.
LEMMA Stopped ==
    ASSUME StoredWell', pc' = "down", DOMAIN ctx' = CtxFields
    PROVE  AutodevInv'
BY DEF AutodevInv, ProcessWell, Labels, AtWork, InSteps, InLoops

\* The context of a fresh item.
LEMMA IdleIs ==
    DOMAIN Idle = CtxFields
BY DEF Idle, CtxFields

\* A step goes on with the record as it is.
LEMMA WorkGoesOn ==
    ASSUME AutodevInv, pc \in AtWork, StoredWell', UNCHANGED ledger, NEW label \in AtWork, NEW c,
           Goto(label, c), Fits(label, item, c), item.branch \in DOMAIN trees'
    PROVE  AutodevInv' /\ Progress
<1>1. /\ Known(ledger, cur) /\ AllCurrent(ledger)
    BY AtWorkHas
<1>2. /\ pc' = label /\ ctx' = c /\ cur' = cur /\ ledger' = ledger
    BY DEF Goto
<1>3. Known(ledger', cur') /\ AllCurrent(ledger')
    BY <1>1, <1>2
<1>4. ItemOf(ledger', cur') = item
    BY <1>2 DEF item
<1>5. pc' \in AtWork /\ pc' \notin {"down", "next", "create", "begin"}
    BY <1>2 DEF AtWork, InSteps, InLoops
<1>6. DOMAIN c = CtxFields
    BY DEF Fits, CtxShaped
<1>7. Fits(pc', ItemOf(ledger', cur'), ctx') /\ ItemOf(ledger', cur').branch \in DOMAIN trees'
    BY <1>2, <1>4
<1>8. ProcessWell'
    BY <1>2, <1>3, <1>5, <1>6, <1>7 DEF ProcessWell, Labels
<1>9. Progress
    BY <1>2, Remains DEF Progress
<1> QED
    BY <1>8, <1>9 DEF AutodevInv

\* A write keeps the stored state good and takes no work back.
LEMMA WrittenWell ==
    ASSUME StoredWell, NEW kept, NEW label, NEW c, Wrote(kept, label, c)
    PROVE  StoredWell' /\ Progress
BY DEF StoredWell, Wrote

\* A step writes the record, and goes on with it or stops.
LEMMA WorkIsWritten ==
    ASSUME AutodevInv, pc \in AtWork, NEW k, Acceptable(item, k), k.branch = item.branch,
           NEW bad, NEW label, NEW c, DOMAIN c = CtxFields, Record(bad, k, label, c),
           label = "down" \/ label = "cleanup" \/ (label \in AtWork /\ Fits(label, k, c))
    PROVE  AutodevInv' /\ Progress
<1>1. /\ LeftBehind(ledger) /\ ~rejected /\ Known(ledger, cur) /\ AllCurrent(ledger)
      /\ item.source = "current" /\ item.status = "in-progress" /\ Alone(ledger, Slot(ledger, cur))
      /\ item.branch \in DOMAIN trees
    BY AtWorkHas
<1>2. k = Freeze(item, k)
    BY <1>1, NotFrozen
<1>3. Wrote(k, label, c)
    BY <1>1, <1>2, RecordIs DEF item
<1>4. StoredWell' /\ Progress
    BY <1>3, WrittenWell DEF AutodevInv
<1>5. CASE pc' = "down" /\ ctx' = Idle
    BY <1>4, <1>5, IdleIs, Stopped
<1>6. CASE /\ pc' = label /\ ctx' = c /\ cur' = cur /\ AllCurrent(ledger') /\ Known(ledger', cur)
           /\ ItemOf(ledger', cur) = k
    <2>1. CASE label = "down"
        BY <1>4, <1>6, <2>1, Stopped
    <2>2. CASE label = "cleanup"
        BY <1>4, <1>6, <2>2 DEF AutodevInv, ProcessWell, Labels, AtWork, InSteps, InLoops
    <2>3. CASE label \in AtWork /\ Fits(label, k, c)
        <3>1. pc' \in AtWork /\ pc' \notin {"down", "next", "create", "begin"}
            BY <1>6, <2>3 DEF AtWork, InSteps, InLoops
        <3>2. trees' = trees
            BY <1>3 DEF Wrote
        <3>3. Fits(pc', ItemOf(ledger', cur'), ctx') /\ ItemOf(ledger', cur').branch \in DOMAIN trees'
            BY <1>1, <1>6, <2>3, <3>2
        <3>4. AllCurrent(ledger') /\ Known(ledger', cur') /\ DOMAIN ctx' = CtxFields
            BY <1>6
        <3>5. ProcessWell'
            BY <3>1, <3>3, <3>4 DEF ProcessWell, Labels
        <3> QED
            BY <1>4, <3>5 DEF AutodevInv
    <2> QED
        BY <2>1, <2>2, <2>3
<1> QED
    BY <1>3, <1>4, <1>5, <1>6 DEF Wrote

-----------------------------------------------------------------------------
(* One lemma per action.                                                      *)

\* The steps of the loop are those of the context's phase.
LEMMA StepNames ==
    Steps = StepsOf(ctx) /\ step = StepOf(ctx) /\ (AtEnd <=> ctx.pos > Len(StepsOf(ctx)))
BY DEF Steps, StepsOf, step, StepOf, AtEnd

\* No fault is a reset.
LEMMA BoundsKept ==
    /\ UNCHANGED bounds => UNCHANGED resets
    /\ Fault => UNCHANGED resets
    /\ \A bad : FaultIf(bad) => UNCHANGED resets
BY DEF bounds, Fault, FaultIf

\* A step within the process keeps what is stored.
LEMMA SpaceStored ==
    ASSUME StoredWell, UNCHANGED <<disk, world, ghosts>>, UNCHANGED resets
    PROVE  StoredWell' /\ Progress /\ UNCHANGED <<ledger, trees>>
BY SameStored DEF disk, world, ghosts

\* A step of the control that leaves record, world and disk alone.
LEMMA Moves ==
    ASSUME AutodevInv, pc \in AtWork, UNCHANGED <<disk, world, bounds, ghosts>>, NEW label \in AtWork, NEW c,
           Goto(label, c), Fits(label, item, c)
    PROVE  AutodevInv' /\ Progress
<1>1. StoredWell' /\ UNCHANGED <<ledger, trees>>
    BY BoundsKept, SpaceStored DEF AutodevInv
<1>2. item.branch \in DOMAIN trees'
    BY <1>1, AtWorkHas
<1> QED
    BY <1>1, <1>2, WorkGoesOn

\* A failed step ends the run and keeps the records.
LEMMA FailKeeps ==
    ASSUME AutodevInv, Fail
    PROVE  AutodevInv' /\ Progress
<1>1. UNCHANGED resets /\ pc' = "down" /\ ctx' = Idle /\ UNCHANGED <<disk, world, ghosts>>
    BY BoundsKept DEF Fail, Stop
<1>2. StoredWell' /\ Progress
    BY <1>1, SpaceStored DEF AutodevInv
<1> QED
    BY <1>1, <1>2, IdleIs, Stopped

\* The head of the loop keeps the invariant.
LEMMA StageKeeps ==
    ASSUME AutodevInv, Stage
    PROVE  AutodevInv' /\ Progress
<1>1. pc = "stage" /\ pc \in AtWork /\ "step" \in AtWork
    BY DEF Stage, AtWork, InSteps, InLoops
<1>2. Fits("stage", item, ctx) /\ Held(item) /\ DOMAIN ctx = CtxFields
    BY <1>1, AtWorkHas
<1>3. ctx.pos <= Len(StepsOf(ctx)) /\ ctx.pos \in 1..Len(StepsOf(ctx))
    <2>1. Len(StepsOf(ctx)) \in Nat
        BY StagesAre DEF StepsOf, PL, RL
    <2> QED
        BY <1>2, <2>1, StepNames DEF Stage, Fits, CtxShaped
<1>4. Resuming <=> InStep(item, ctx)
    BY <1>3, StepNames DEF Resuming, InStep
<1>5. CASE Resuming
    <2> DEFINE d == [ctx EXCEPT !.verifyFirst = TRUE]
    <2>1. Goto("step", d) /\ UNCHANGED <<disk, world, bounds, ghosts>>
        BY <1>5 DEF Stage
    <2>2. SameCtx(ctx, d)
        BY <1>2, CtxChanged
    <2> HIDE DEF d
    <2>3. Fits("step", item, d)
        BY <1>2, <1>4, <1>5, <2>2, ResumedIs
    <2> QED
        BY <1>1, <2>1, <2>3, Moves
<1>6. CASE ~Resuming
    <2> DEFINE d == [ctx EXCEPT !.verifyFirst = FALSE]
               k == [item EXCEPT !.stage = StepOf(ctx), !.state = "running"]
    <2>1. Record(FALSE, k, "step", d)
        BY <1>6, StepNames DEF Stage, Commit
    <2>2. SameCtx(ctx, d)
        BY <1>2, CtxChanged
    <2>3. Acceptable(item, k) /\ Fits("step", k, d) /\ k.branch = item.branch
        BY <1>2, <1>3, <1>4, <1>6, <2>2, IntentIs
    <2>4. DOMAIN d = CtxFields
        BY <1>2
    <2> HIDE DEF d, k
    <2> QED
        BY <1>1, <2>1, <2>3, <2>4, WorkIsWritten
<1> QED
    BY <1>5, <1>6

\* What a query of the remote finds.
LEMMA IssuesFound ==
    ASSUME StoredWell, FoundIssue # 0, ctx.issue \in Nat
    PROVE  FoundIssue \in Nat \ {0} /\ (ctx.issue # 0 => FoundIssue = ctx.issue)
<1>1. CASE ctx.issue # 0
    BY <1>1 DEF FoundIssue
<1>2. CASE ctx.issue = 0
    <2> DEFINE ns == IssuesOf(item.id)
    <2>1. ns \subseteq Nat \ {0}
        <3>1. issues \in Seq(Range(issues))
            BY DEF StoredWell
        <3>2. DOMAIN issues \subseteq Nat \ {0}
            BY <3>1
        <3> QED
            BY <3>2 DEF IssuesOf
    <2> HIDE DEF ns
    <2>2. FoundIssue = IF Cardinality(ns) = 1 THEN CHOOSE n \in ns : TRUE ELSE 0
        BY <1>2 DEF FoundIssue, ns
    <2>3. Cardinality(ns) = 1 /\ FoundIssue = CHOOSE n \in ns : TRUE
        BY <2>2
    <2>4. ns # {}
        BY <2>3, FS_EmptySet
    <2>5. FoundIssue \in ns
        BY <2>3, <2>4
    <2> QED
        BY <1>2, <2>1, <2>5
<1> QED
    BY <1>1, <1>2

\* A pull request that is found is the one already bound.
LEMMA PrsFound ==
    ASSUME StoredWell, FoundPr # 0, ctx.pr \in Nat
    PROVE  FoundPr \in Nat \ {0} /\ (ctx.pr # 0 => FoundPr = ctx.pr)
<1> DEFINE ns == IF ctx.pr # 0 THEN {ctx.pr} ELSE PrsOf(item.branch)
<1>1. ns \subseteq Nat \ {0}
    <2>1. prs \in Seq(Range(prs))
        BY DEF StoredWell
    <2>2. DOMAIN prs \subseteq Nat \ {0}
        BY <2>1
    <2> QED
        BY <2>2 DEF PrsOf
<1>2. ctx.pr # 0 => ns = {ctx.pr}
    OBVIOUS
<1>3. FoundPr = IF Cardinality(ns) = 1 /\ \A n \in ns : Linked(n) THEN CHOOSE n \in ns : TRUE ELSE 0
    BY DEF FoundPr
<1> HIDE DEF ns
<1>4. Cardinality(ns) = 1 /\ FoundPr = CHOOSE n \in ns : TRUE
    BY <1>3
<1>5. ns # {}
    BY <1>4, FS_EmptySet
<1>6. FoundPr \in ns
    BY <1>4, <1>5
<1> QED
    BY <1>1, <1>2, <1>6

\* A verified step has the number it binds, the one bound before if there was one.
LEMMA VerifiedNumbers ==
    ASSUME StoredWell, CtxShaped(ctx), Verified
    PROVE  /\ StepOf(ctx) = "issue" => FoundIssue \in Nat \ {0} /\ (ctx.issue # 0 => FoundIssue = ctx.issue)
           /\ StepOf(ctx) = "pr" => FoundPr \in Nat \ {0} /\ (ctx.pr # 0 => FoundPr = ctx.pr)
<1>1. ctx.issue \in Nat /\ ctx.pr \in Nat
    BY DEF CtxShaped
<1>2. step = "issue" => FoundIssue # 0
    <2>1. SUFFICES ASSUME step = "issue" PROVE FoundIssue # 0
        OBVIOUS
    <2>2. Verified <=> FoundIssue # 0
        BY <2>1, Zenon DEF Verified
    <2> QED
        BY <2>2
<1>3. step = "pr" => FoundPr # 0
    <2>1. SUFFICES ASSUME step = "pr" PROVE FoundPr # 0
        OBVIOUS
    <2>2. Verified <=> FoundPr # 0
        BY <2>1, Zenon DEF Verified
    <2> QED
        BY <2>2
<1> QED
    BY <1>1, <1>2, <1>3, StepNames, IssuesFound, PrsFound

-----------------------------------------------------------------------------
\* What binding a found number changes.
LEMMA BoundIs ==
    ASSUME NEW c, DOMAIN c = CtxFields, NEW d, d = Bound(c)
    PROVE  /\ DOMAIN d = CtxFields /\ d.phase = c.phase /\ d.pos = c.pos /\ d.feature = c.feature
           /\ d.issue = (IF step = "issue" THEN FoundIssue ELSE c.issue)
           /\ d.pr = (IF step = "pr" THEN FoundPr ELSE c.pr)
BY DEF Bound, CtxFields

\* A step that is found done.
LEMMA FoundFits ==
    ASSUME AutodevInv, NEW l \in {"step", "attempt", "settle"}, NEW r, NEW c, Fits(l, r, c),
           SameCtx(ctx, c), CtxShaped(ctx), StepOf(ctx) \in {"issue", "pr"} => Verified
    PROVE  Fits("verified", r, Bound(c))
<1> DEFINE d == Bound(c)
<1>1. DOMAIN c = CtxFields
    BY DEF Fits, CtxShaped
<1>2. /\ DOMAIN d = CtxFields /\ d.phase = c.phase /\ d.pos = c.pos /\ d.feature = c.feature
      /\ d.issue = (IF step = "issue" THEN FoundIssue ELSE c.issue)
      /\ d.pr = (IF step = "pr" THEN FoundPr ELSE c.pr)
    BY <1>1, BoundIs
<1>3. step = StepOf(ctx) /\ StepOf(c) = StepOf(ctx) /\ c.issue = ctx.issue /\ c.pr = ctx.pr
    BY StepNames, CtxAlike DEF SameCtx
<1>4. StoredWell
    BY DEF AutodevInv
<1>5. /\ StepOf(c) = "issue" => FoundIssue \in Nat \ {0} /\ (c.issue # 0 => FoundIssue = c.issue)
      /\ StepOf(c) = "pr" => FoundPr \in Nat \ {0} /\ (c.pr # 0 => FoundPr = c.pr)
    BY <1>3, <1>4, VerifiedNumbers
<1> HIDE DEF d
<1>6. Fits("verified", r, d)
    BY <1>2, <1>3, <1>5, FoundIs
<1> QED
    BY <1>6 DEF d

\* A step found done is taken over.
LEMMA SkipKeeps ==
    ASSUME AutodevInv, Skip
    PROVE  AutodevInv' /\ Progress
<1>1. pc = "step" /\ pc \in AtWork /\ "verified" \in AtWork
    BY DEF Skip, AtWork, InSteps, InLoops
<1>2. Fits("step", item, ctx) /\ DOMAIN ctx = CtxFields
    BY <1>1, AtWorkHas
<1>3. CtxShaped(ctx) /\ SameCtx(ctx, ctx)
    BY <1>2 DEF Fits, SameCtx
<1>4. step \in {"issue", "pr"} => Verified
    BY DEF Skip, AlreadyDone
<1>5. Fits("verified", item, Bound(ctx))
    BY <1>2, <1>3, <1>4, StepNames, FoundFits
<1>6. Goto("verified", Bound(ctx)) /\ UNCHANGED <<disk, world, bounds, ghosts>>
    BY DEF Skip
<1> QED
    BY <1>1, <1>5, <1>6, Moves

-----------------------------------------------------------------------------
\* The worktree of a branch is changed in place.
Trees(t) == \A b \in DOMAIN t : IsTree(t[b])

TreeIs(t, b, new) ==
    /\ DOMAIN new = DOMAIN t /\ \A y \in DOMAIN t : y # b => new[y] = t[y]
    /\ IsTree(new[b])

\* A change of one worktree leaves the others.
LEMMA TreeChanged ==
    ASSUME NEW t, Trees(t), NEW b \in DOMAIN t, NEW new, TreeIs(t, b, new)
    PROVE  Trees(new) /\ DOMAIN new = DOMAIN t
BY DEF Trees, TreeIs

\* The requirements are written first.
LEMMA MaterializeKeeps ==
    ASSUME AutodevInv, Materialize
    PROVE  AutodevInv' /\ Progress
<1> DEFINE dir == IF ctx.feature = 0 THEN tree.features + 1 ELSE ctx.feature
           n == IF dir > trees[item.branch].features THEN dir ELSE trees[item.branch].features
           v == trees[item.branch].arts \cup {<<step, dir>>}
           d == [ctx EXCEPT !.feature = dir]
<1>1. pc = "step" /\ pc \in AtWork /\ "verified" \in AtWork
    BY DEF Materialize, AtWork, InSteps, InLoops
<1>2. Fits("step", item, ctx) /\ item.branch \in DOMAIN trees
    BY <1>1, AtWorkHas
<1>3. Trees(trees) /\ StoredWell
    BY DEF AutodevInv, StoredWell, Trees
<1>4. trees[item.branch].features \in Nat /\ ctx.feature \in Nat
    BY <1>2, <1>3 DEF Trees, IsTree, Fits, CtxShaped
<1>5. dir \in Nat /\ n \in Nat
    BY <1>4 DEF tree
<1>6. trees' = [trees EXCEPT ![item.branch].features = n, ![item.branch].arts = v, ![item.branch].dirty = TRUE]
    BY DEF Materialize
<1>7. Goto("verified", d) /\ UNCHANGED <<disk, issues, prs, bounds, ghosts>>
    BY DEF Materialize
<1>8. StepOf(ctx) \notin Publications
    <2>1. step = "materialize-requirements"
        BY DEF Materialize
    <2> QED
        BY <2>1, StepNames DEF Publications
<1>9. dir \in Nat /\ d = [ctx EXCEPT !.feature = dir]
    BY <1>5
<1> HIDE DEF dir, n, v, d
<1>10. Trees(trees') /\ DOMAIN trees' = DOMAIN trees
    <2>1. IsTree(trees[item.branch])
        BY <1>2, <1>3 DEF Trees
    <2>2. TreeIs(trees, item.branch, trees')
        BY <1>2, <1>5, <1>6, <2>1 DEF TreeIs, IsTree
    <2> QED
        BY <1>2, <1>3, <2>2, TreeChanged
<1>11. StoredWell' /\ UNCHANGED ledger
    BY <1>3, <1>7, <1>10, BoundsKept DEF StoredWell, Trees, disk, ghosts
<1>12. Fits("verified", item, d)
    BY <1>2, <1>8, <1>9, MaterializedIs
<1> QED
    BY <1>1, <1>2, <1>7, <1>10, <1>11, <1>12, WorkGoesOn

\* The prompt is prepared.
LEMMA PromptKeeps ==
    ASSUME AutodevInv, Prompt
    PROVE  AutodevInv' /\ Progress
<1>1. pc = "step" /\ pc \in AtWork /\ "attempt" \in AtWork
    BY DEF Prompt, AtWork, InSteps, InLoops
<1>2. Fits("attempt", item, ctx)
    BY <1>1, AtWorkHas, PromptedIs
<1>3. Goto("attempt", ctx) /\ UNCHANGED <<disk, world, bounds, ghosts>>
    BY DEF Prompt
<1> QED
    BY <1>1, <1>2, <1>3, Moves

\* The attempt is recorded before the core starts.
LEMMA AttemptKeeps ==
    ASSUME AutodevInv, Attempt
    PROVE  AutodevInv' /\ Progress
<1> DEFINE k == WithAttempt(item, StepOf(ctx), LastOrdinal(item) + 1, "running")
<1>1. pc = "attempt" /\ pc \in AtWork /\ "core" \in AtWork
    BY DEF Attempt, AtWork, InSteps, InLoops
<1>2. Fits("attempt", item, ctx) /\ Held(item) /\ DOMAIN ctx = CtxFields
    BY <1>1, AtWorkHas
<1>3. Record(FALSE, k, "core", ctx)
    BY StepNames DEF Attempt, Commit
<1>4. Acceptable(item, k) /\ Fits("core", k, ctx) /\ k.branch = item.branch
    BY <1>2, AttemptedIs
<1> HIDE DEF k
<1> QED
    BY <1>1, <1>2, <1>3, <1>4, WorkIsWritten

-----------------------------------------------------------------------------
\* What a core attempt leaves: worktrees where they were, more issues and pull requests.
LEMMA EffectWell ==
    ASSUME AutodevInv, pc \in AtWork, NEW worked, Effect(worked)
    PROVE  /\ Trees(trees') /\ DOMAIN trees' = DOMAIN trees
           /\ issues' \in Seq(Range(issues')) /\ prs' \in Seq(Range(prs'))
<1> DEFINE b == item.branch
<1>1. /\ b \in DOMAIN trees /\ Trees(trees)
      /\ issues \in Seq(Range(issues)) /\ prs \in Seq(Range(prs))
    BY AtWorkHas DEF AutodevInv, StoredWell, Trees
<1>2. IsTree(trees[b])
    BY <1>1 DEF Trees
<1>3. CASE UNCHANGED world
    BY <1>1, <1>3 DEF world
<1>4. ASSUME TreeIs(trees, b, trees'), UNCHANGED <<issues, prs>>
      PROVE  /\ Trees(trees') /\ DOMAIN trees' = DOMAIN trees
             /\ issues' \in Seq(Range(issues')) /\ prs' \in Seq(Range(prs'))
    <2>1. Trees(trees') /\ DOMAIN trees' = DOMAIN trees
        BY <1>1, <1>4, TreeChanged
    <2> QED
        BY <1>1, <1>4, <2>1
<1>5. CASE worked /\ step = "stage-changes"
    <2>1. trees' = [trees EXCEPT ![b].staged = tree.dirty] /\ UNCHANGED <<issues, prs>>
        BY <1>5, Zenon DEF Effect
    <2>2. TreeIs(trees, b, trees')
        BY <1>1, <1>2, <2>1 DEF TreeIs, IsTree
    <2> QED
        BY <1>4, <2>1, <2>2
<1>6. CASE worked /\ step = "commit-staged"
    <2>1. /\ trees' = [trees EXCEPT ![b].dirty = FALSE, ![b].staged = FALSE,
                                    ![b].head = IF tree.dirty THEN @ + 1 ELSE @]
          /\ UNCHANGED <<issues, prs>>
        BY <1>6, Zenon DEF Effect
    <2>2. TreeIs(trees, b, trees')
        BY <1>1, <1>2, <2>1 DEF TreeIs, IsTree
    <2> QED
        BY <1>4, <2>1, <2>2
<1>7. CASE worked /\ step = "push"
    <2>1. trees' = [trees EXCEPT ![b].tip = tree.head] /\ UNCHANGED <<issues, prs>>
        BY <1>7, Zenon DEF Effect
    <2>2. TreeIs(trees, b, trees')
        BY <1>1, <1>2, <2>1 DEF TreeIs, IsTree
    <2> QED
        BY <1>4, <2>1, <2>2
<1>8. CASE worked /\ step = "issue"
    <2>1. issues' = Append(issues, item.id) /\ UNCHANGED <<trees, prs>>
        BY <1>8, Zenon DEF Effect
    <2>2. issues' \in Seq(Range(issues'))
        BY <1>1, <2>1, Appended
    <2> QED
        BY <1>1, <2>1, <2>2
<1>9. CASE worked /\ step = "pr"
    <2>1. /\ prs' = IF PrsOf(item.branch) = {}
                    THEN Append(prs, [branch |-> item.branch, link |-> ctx.issue])
                    ELSE [n \in DOMAIN prs |->
                            IF n \in PrsOf(item.branch) THEN [prs[n] EXCEPT !.link = ctx.issue]
                            ELSE prs[n]]
          /\ UNCHANGED <<trees, issues>>
        BY <1>9, Zenon DEF Effect
    <2>2. prs' \in Seq(Range(prs'))
        <3>1. CASE PrsOf(item.branch) = {}
            <4> DEFINE e == [branch |-> item.branch, link |-> ctx.issue]
            <4>1. prs' = Append(prs, e)
                BY <2>1, <3>1
            <4> HIDE DEF e
            <4> QED
                BY <1>1, <4>1, Appended
        <3>2. CASE PrsOf(item.branch) # {}
            <4> DEFINE f == [n \in DOMAIN prs |->
                               IF n \in PrsOf(item.branch) THEN [prs[n] EXCEPT !.link = ctx.issue]
                               ELSE prs[n]]
            <4>1. prs' = f /\ DOMAIN f = DOMAIN prs /\ f = [n \in DOMAIN prs |-> f[n]]
                BY <2>1, <3>2
            <4> HIDE DEF f
            <4>2. DOMAIN prs = 1..Len(prs) /\ Len(prs) \in Nat
                BY <1>1
            <4>3. f \in [1..Len(prs) -> Range(f)]
                BY <4>1, <4>2 DEF Range
            <4> QED
                BY <4>1, <4>2, <4>3, FunctionIsSeq
        <3> QED
            BY <3>1, <3>2
    <2> QED
        BY <1>1, <2>1, <2>2
<1>10. CASE worked /\ step \notin Publications
    <2>1. /\ trees' = [trees EXCEPT ![b].arts = @ \cup {<<step, ctx.feature>>}, ![b].dirty = TRUE]
          /\ UNCHANGED <<issues, prs>>
        <3>1. /\ step # "stage-changes" /\ step # "commit-staged" /\ step # "push"
              /\ step # "issue" /\ step # "pr"
            BY <1>10 DEF Publications
        <3> QED
            BY <1>10, <3>1, Zenon DEF Effect
    <2>2. TreeIs(trees, b, trees')
        BY <1>1, <1>2, <2>1 DEF TreeIs, IsTree
    <2> QED
        BY <1>4, <2>1, <2>2
<1>11. ~worked => UNCHANGED world
    BY Zenon DEF Effect
<1> QED
    BY <1>3, <1>5, <1>6, <1>7, <1>8, <1>9, <1>10, <1>11 DEF Publications

\* The core runs, and may do anything within its worktree and on the remote.
LEMMA CoreKeeps ==
    ASSUME AutodevInv, Core
    PROVE  AutodevInv' /\ Progress
<1>1. pc = "core" /\ pc \in AtWork /\ "settle" \in AtWork
    BY DEF Core, AtWork, InSteps, InLoops
<1>2. Fits("core", item, ctx) /\ item.branch \in DOMAIN trees /\ DOMAIN ctx = CtxFields
    BY <1>1, AtWorkHas
<1>3. PICK outcome, worked : /\ Effect(worked) /\ UNCHANGED resets
                             /\ Goto("settle", [ctx EXCEPT !.status = outcome[1], !.retry = outcome[2]])
    BY BoundsKept DEF Core
<1> DEFINE d == [ctx EXCEPT !.status = outcome[1], !.retry = outcome[2]]
<1>4. SameCtx(ctx, d)
    BY <1>2, CtxChanged
<1>5. Goto("settle", d)
    BY <1>3
<1> HIDE DEF d
<1>6. Fits("settle", item, d)
    BY <1>2, <1>4, CoreRanIs
<1>7. /\ Trees(trees') /\ DOMAIN trees' = DOMAIN trees
      /\ issues' \in Seq(Range(issues')) /\ prs' \in Seq(Range(prs'))
    BY <1>1, <1>3, EffectWell
<1>8. UNCHANGED <<disk, rejected>>
    BY DEF Core
<1>9. StoredWell' /\ UNCHANGED ledger
    BY <1>3, <1>7, <1>8 DEF AutodevInv, StoredWell, Trees, disk
<1> QED
    BY <1>1, <1>2, <1>5, <1>6, <1>7, <1>9, WorkGoesOn

\* The attempt is settled.
LEMMA SettleKeeps ==
    ASSUME AutodevInv, Settle
    PROVE  AutodevInv' /\ Progress
<1> DEFINE ran == ctx.status # "start_failed"
           ok == ran /\ Verified
           c == [ctx EXCEPT !.exit = ctx.status = "cancelled", !.status = Unset, !.retry = Unset]
           k == WithAttempt(item, StepOf(ctx), LastOrdinal(item), "terminal")
<1>1. pc = "settle" /\ pc \in AtWork
    BY DEF Settle, AtWork, InSteps, InLoops
<1>2. Fits("settle", item, ctx) /\ Held(item) /\ DOMAIN ctx = CtxFields
    BY <1>1, AtWorkHas
<1>3. SameCtx(ctx, c)
    BY <1>2, CtxChanged
<1>4. \/ Record(FALSE, k, Settled(ok), IF ok THEN Bound(c) ELSE c)
      \/ ok /\ Record(TRUE, k, Settled(FALSE), c)
      \/ Record(TRUE, k, "down", c)
    BY StepNames, Zenon DEF Settle, Commit
<1>5. /\ Acceptable(item, k) /\ Fits("attempt", k, ctx) /\ k.branch = item.branch
    BY <1>2, SettledIs
<1>6. ok => Verified
    OBVIOUS
<1>7. DOMAIN c = CtxFields
    BY <1>2
<1> HIDE DEF ok, c, k
<1>8. Fits("attempt", k, c) /\ CtxShaped(ctx)
    BY <1>3, <1>5, FitsAlike DEF Fits
<1>9. ok => Fits("verified", k, Bound(c)) /\ DOMAIN Bound(c) = CtxFields
    BY <1>3, <1>6, <1>7, <1>8, FoundFits, BoundIs
<1>10. Settled(FALSE) \in {"down", "attempt"} /\ (ok => Settled(ok) = "verified")
       /\ (~ok => Settled(ok) \in {"down", "attempt"})
    BY DEF Settled
<1>11. {"attempt", "verified"} \subseteq AtWork
    BY DEF AtWork, InSteps
<1>12. CASE Record(FALSE, k, Settled(ok), IF ok THEN Bound(c) ELSE c)
    <2>1. CASE ok
        <3>1. Record(FALSE, k, "verified", Bound(c))
            BY <1>10, <1>12, <2>1
        <3> QED
            BY <1>1, <1>5, <1>9, <1>11, <2>1, <3>1, WorkIsWritten
    <2>2. CASE ~ok
        <3>1. Record(FALSE, k, Settled(ok), c)
            BY <1>12, <2>2
        <3>2. CASE Settled(ok) = "down"
            <4>1. Record(FALSE, k, "down", c)
                BY <3>1, <3>2
            <4> QED
                BY <1>1, <1>5, <1>7, <4>1, WorkIsWritten
        <3>3. CASE Settled(ok) = "attempt"
            <4>1. Record(FALSE, k, "attempt", c)
                BY <3>1, <3>3
            <4> QED
                BY <1>1, <1>5, <1>7, <1>8, <1>11, <4>1, WorkIsWritten
        <3> QED
            BY <1>10, <2>2, <3>2, <3>3
    <2> QED
        BY <2>1, <2>2
<1>13. CASE Record(TRUE, k, Settled(FALSE), c)
    <2>1. CASE Settled(FALSE) = "down"
        <3>1. Record(TRUE, k, "down", c)
            BY <1>13, <2>1
        <3> QED
            BY <1>1, <1>5, <1>7, <3>1, WorkIsWritten
    <2>2. CASE Settled(FALSE) = "attempt"
        <3>1. Record(TRUE, k, "attempt", c)
            BY <1>13, <2>2
        <3> QED
            BY <1>1, <1>5, <1>7, <1>8, <1>11, <3>1, WorkIsWritten
    <2> QED
        BY <1>10, <2>1, <2>2
<1>14. CASE Record(TRUE, k, "down", c)
    BY <1>1, <1>5, <1>7, <1>14, WorkIsWritten
<1> QED
    BY <1>4, <1>12, <1>13, <1>14

-----------------------------------------------------------------------------
\* The verified step is recorded.
LEMMA RecordVerifiedKeeps ==
    ASSUME AutodevInv, RecordVerified
    PROVE  AutodevInv' /\ Progress
<1> DEFINE found == ctx.issue # 0 /\ ctx.issue # item.issue
           k == [item EXCEPT !.stage = StepOf(ctx), !.state = "verified",
                    !.feature = IF ctx.phase = "sdd" /\ ctx.feature # 0 THEN ctx.feature ELSE @,
                    !.issue = IF found THEN ctx.issue ELSE @,
                    !.pr = IF ctx.pr # 0 THEN ctx.pr ELSE @,
                    !.outbox = IF found THEN Append(@, [number |-> ctx.issue, delivered |-> FALSE])
                               ELSE @]
           d == [ctx EXCEPT !.pos = @ + 1, !.exit = FALSE]
           label == IF ctx.exit THEN "down" ELSE IF found THEN "deliver" ELSE "stage"
<1>1. pc = "verified" /\ pc \in AtWork /\ {"stage", "deliver"} \subseteq AtWork
    BY DEF RecordVerified, AtWork, InSteps, InLoops
<1>2. Fits("verified", item, ctx) /\ Held(item) /\ DOMAIN ctx = CtxFields /\ DOMAIN item = ItemFields
    BY <1>1, AtWorkHas, HeldIs
<1>3. Record(FALSE, k, label, d)
    BY StepNames, Zenon DEF RecordVerified, Commit
<1>4. Notes(item, ctx, found, k)
    BY <1>2, VerifiedNotes
<1>5. DOMAIN d = CtxFields
    BY <1>2
<1>6. found = (ctx.issue # 0 /\ ctx.issue # item.issue) /\ d = [ctx EXCEPT !.pos = @ + 1, !.exit = FALSE]
    OBVIOUS
<1>7. label \in {"down", "deliver", "stage"}
    OBVIOUS
<1> HIDE DEF found, k, d, label
<1>8. Acceptable(item, k) /\ Fits("stage", k, d) /\ Fits("deliver", k, d) /\ k.branch = item.branch
    BY <1>2, <1>4, <1>6, NotedRecordIs
<1>9. CASE label = "down"
    BY <1>1, <1>3, <1>5, <1>8, <1>9, WorkIsWritten
<1>10. CASE label = "deliver"
    BY <1>1, <1>3, <1>5, <1>8, <1>10, WorkIsWritten
<1>11. CASE label = "stage"
    BY <1>1, <1>3, <1>5, <1>8, <1>11, WorkIsWritten
<1> QED
    BY <1>7, <1>9, <1>10, <1>11

\* The item goes over to publishing.
LEMMA PublishKeeps ==
    ASSUME AutodevInv, Publish
    PROVE  AutodevInv' /\ Progress
<1> DEFINE begun == IF Publishing(item.stage) THEN item
                    ELSE [item EXCEPT !.stage = "publish", !.state = "running"]
           d == [Idle EXCEPT !.phase = "remote", !.pos = RemoteResume(begun),
                             !.issue = item.issue, !.pr = item.pr]
<1>1. pc = "stage" /\ pc \in AtWork /\ "deliver" \in AtWork
    BY DEF Publish, AtWork, InSteps, InLoops
<1>2. Fits("stage", item, ctx) /\ Held(item) /\ item.issue \in Nat /\ item.pr \in Nat
    BY <1>1, AtWorkHas, HeldIs
<1>3. ctx.phase = "sdd" /\ ctx.pos > Len(StepsOf(ctx))
    BY StepNames DEF Publish
<1>4. /\ item.status = "in-progress" /\ (Publishing(item.stage) \/ Rank(item.stage) <= PL)
      /\ Publishing(item.stage) => item.state \in {"running", "verified"}
    BY <1>2, <1>3, StagesDone
<1>5. IF begun = item THEN Goto("deliver", d) /\ UNCHANGED <<disk, world, bounds, ghosts>>
      ELSE Record(FALSE, begun, "deliver", d)
    BY Zenon DEF Publish, Commit
<1>6. DOMAIN d = CtxFields
    BY IdleIs
<1>7. /\ Publishing(item.stage) => begun = item
      /\ ~Publishing(item.stage) => begun = [item EXCEPT !.stage = "publish", !.state = "running"]
      /\ d = [Idle EXCEPT !.phase = "remote", !.pos = RemoteResume(begun),
                          !.issue = item.issue, !.pr = item.pr]
    BY Zenon
<1> HIDE DEF begun, d
<1>8. CASE Publishing(item.stage)
    <2>1. begun = item
        BY <1>7, <1>8
    <2>2. Fits("deliver", item, d)
        BY <1>2, <1>4, <1>7, <1>8, <2>1, PublishedFits
    <2>3. Goto("deliver", d) /\ UNCHANGED <<disk, world, bounds, ghosts>>
        BY <1>5, <2>1
    <2> QED
        BY <1>1, <2>2, <2>3, Moves
<1>9. CASE ~Publishing(item.stage)
    <2>1. /\ Acceptable(item, begun) /\ begun.branch = item.branch /\ begun.status = "in-progress"
          /\ Publishing(begun.stage) /\ begun.state = "running" /\ begun.issue = item.issue
          /\ begun.pr = item.pr
        BY <1>2, <1>4, <1>7, <1>9, PublishIs
    <2>2. Fits("deliver", begun, d)
        BY <1>2, <1>7, <2>1, PublishedFits
    <2>3. begun # item
        BY <1>9, <2>1
    <2>4. Record(FALSE, begun, "deliver", d)
        BY <1>5, <2>3
    <2> QED
        BY <1>1, <1>6, <2>1, <2>2, <2>4, WorkIsWritten
<1> QED
    BY <1>8, <1>9

\* The user is told of an event.
LEMMA DeliverKeeps ==
    ASSUME AutodevInv, Deliver
    PROVE  AutodevInv' /\ Progress
<1>1. pc = "deliver" /\ pc \in AtWork /\ "stage" \in AtWork /\ "mark" \in AtWork
    BY DEF Deliver, AtWork, InSteps, InLoops
<1>2. Fits("deliver", item, ctx) /\ item.branch \in DOMAIN trees
    BY <1>1, AtWorkHas
<1>3. /\ Fits("stage", item, ctx)
      /\ (\E e \in DOMAIN item.outbox : ~item.outbox[e].delivered) => Fits("mark", item, ctx)
    BY <1>2, DeliveringIs
<1>4. UNCHANGED <<disk, world, bounds, rejected>>
    BY DEF Deliver
<1>5. StoredWell' /\ UNCHANGED <<ledger, trees>>
    BY <1>4, BoundsKept, SameStored DEF AutodevInv, disk, world
<1>6. \/ Goto("stage", ctx)
      \/ Undelivered # {} /\ Goto("mark", ctx)
    BY DEF Deliver
<1>7. Undelivered # {} => Fits("mark", item, ctx)
    BY <1>3 DEF Undelivered
<1> QED
    BY <1>1, <1>2, <1>3, <1>5, <1>6, <1>7, WorkGoesOn

\* The event is recorded as delivered.
LEMMA MarkKeeps ==
    ASSUME AutodevInv, MarkDelivered
    PROVE  AutodevInv' /\ Progress
<1> DEFINE n == FirstUndelivered
           k == [item EXCEPT !.outbox[n].delivered = TRUE]
<1>1. pc = "mark" /\ pc \in AtWork /\ "deliver" \in AtWork
    BY DEF MarkDelivered, AtWork, InSteps, InLoops
<1>2. Fits("mark", item, ctx) /\ Held(item) /\ DOMAIN ctx = CtxFields
    BY <1>1, AtWorkHas
<1>3. n \in DOMAIN item.outbox
    <2>1. Undelivered # {} /\ Undelivered \subseteq DOMAIN item.outbox
        BY <1>2 DEF Undelivered, Fits
    <2>2. Undelivered \in SUBSET Nat
        <3>1. item.outbox \in Seq(Events)
            BY <1>2, HeldIs
        <3> QED
            BY <2>1, <3>1
    <2>3. \E i \in Undelivered : \A j \in Undelivered : i <= j
        BY <2>1, <2>2, LeastOf
    <2> QED
        BY <2>1, <2>3 DEF FirstUndelivered
<1>4. Record(FALSE, k, "deliver", ctx)
    BY DEF MarkDelivered, Commit
<1> HIDE DEF n
<1>5. Acceptable(item, k) /\ Fits("deliver", k, ctx) /\ k.branch = item.branch
    BY <1>2, <1>3, MarkedIs
<1> HIDE DEF k
<1> QED
    BY <1>1, <1>2, <1>4, <1>5, WorkIsWritten

\* The item is recorded as done.
LEMMA FinishKeeps ==
    ASSUME AutodevInv, Finish
    PROVE  AutodevInv' /\ Progress
<1> DEFINE k == [item EXCEPT !.status = "done", !.stage = "done", !.state = "verified",
                             !.issue = ctx.issue, !.pr = ctx.pr]
<1>1. pc = "stage" /\ pc \in AtWork /\ ctx.phase = "remote"
    BY DEF Finish, AtWork, InSteps, InLoops
<1>2. Fits("stage", item, ctx) /\ Held(item) /\ item.source = "current"
    BY <1>1, AtWorkHas
<1>3. Record(FALSE, k, "cleanup", Idle)
    BY DEF Finish, Commit
<1>4. Acceptable(item, k) /\ k.branch = item.branch
    <2>1. k = [item EXCEPT !.status = "done", !.stage = "done", !.state = "verified",
                           !.issue = ctx.issue, !.pr = ctx.pr]
        OBVIOUS
    <2> HIDE DEF k
    <2> QED
        BY <1>1, <1>2, <2>1, FinishedIs, ZenonT(30)
<1> HIDE DEF k
<1> QED
    BY <1>1, <1>3, <1>4, IdleIs, WorkIsWritten

-----------------------------------------------------------------------------
(* Outside the loop, and the theorems.                                        *)

\* A ledger may be empty.
LEMMA EmptyLedger ==
    LeftBehind(<<>>)
<1>1. <<>> \in Seq(Range(<<>>)) /\ DOMAIN <<>> = {}
    OBVIOUS
<1> QED
    BY <1>1 DEF LeftBehind, WellFormed, ValidLedger

\* The initial states are good.
LEMMA AutodevInitWell ==
    ASSUME AutodevInit
    PROVE  AutodevInv
<1>1. /\ LeftBehind(ledger) /\ ~rejected /\ backlog \in Backlogs /\ resets \in Nat
    BY AutodevAssumption DEF AutodevInit
<1>2. /\ issues \in Seq(Range(issues)) /\ prs \in Seq(Range(prs)) /\ DOMAIN trees = {}
    BY DEF AutodevInit
<1>3. StoredWell
    BY <1>1, <1>2 DEF StoredWell
<1>4. pc = "down" /\ DOMAIN ctx = CtxFields
    BY IdleIs DEF AutodevInit
<1>5. ProcessWell
    BY <1>4 DEF ProcessWell, Labels, AtWork, InSteps, InLoops
<1> QED
    BY <1>3, <1>5 DEF AutodevInv

\* The user edits the backlog.
LEMMA EditBacklogKeeps ==
    ASSUME AutodevInv, EditBacklog
    PROVE  AutodevInv' /\ Progress
<1>1. /\ pc' = "down" /\ ctx' = ctx /\ backlog' \in Backlogs
      /\ UNCHANGED <<ledger, trees, issues, prs, resets, rejected>>
    BY DEF EditBacklog, world, bounds, ghosts
<1>2. StoredWell'
    BY <1>1 DEF AutodevInv, StoredWell
<1>3. DOMAIN ctx' = CtxFields
    BY <1>1 DEF AutodevInv, ProcessWell
<1>4. Progress
    BY <1>1, Remains DEF Progress
<1> QED
    BY <1>1, <1>2, <1>3, <1>4, Stopped

\* The user deletes the ledger: the one step that takes work back.
LEMMA ResetLedgerKeeps ==
    ASSUME AutodevInv, ResetLedger
    PROVE  AutodevInv' /\ Reset
<1>1. /\ pc' = "down" /\ ctx' = ctx /\ ledger' = <<>> /\ resets' = resets + 1
      /\ UNCHANGED <<backlog, trees, issues, prs, rejected>>
    BY DEF ResetLedger, world
<1>2. resets \in Nat /\ StoredWell
    BY DEF AutodevInv, StoredWell
<1>3. LeftBehind(ledger')
    BY <1>1, EmptyLedger
<1>4. StoredWell'
    BY <1>1, <1>2, <1>3 DEF StoredWell
<1>5. DOMAIN ctx' = CtxFields
    BY <1>1 DEF AutodevInv, ProcessWell
<1>6. Reset
    BY <1>1, <1>2 DEF Reset
<1> QED
    BY <1>1, <1>4, <1>5, <1>6, Stopped

\* Reconciliation takes nothing back.
LEMMA KeptAdvances ==
    ASSUME NEW a, NEW b, Kept(a, b)
    PROVE  Advances(a, b)
<1>1. a.id = b.id /\ a.stage = b.stage /\ a.status = b.status
    BY DEF Kept
<1>2. a.frozen /\ ~a.legacy => b.frozen /\ a.desc = b.desc /\ a.title = b.title
    BY DEF Kept
<1>3. Rank(a.stage) <= Rank(b.stage)
    BY <1>1, Ranks
<1> QED
    BY <1>1, <1>2, <1>3 DEF Advances

\* A start loads, reconciles and writes the ledger.
LEMMA StartKeeps ==
    ASSUME AutodevInv, Start
    PROVE  AutodevInv' /\ Progress
<1> DEFINE seeded == Seed(ledger, backlog)
<1>1. /\ UNCHANGED <<backlog, trees, issues, prs, rejected, ctx>>
      /\ ValidLedger(seeded.ledger) /\ ledger' = seeded.ledger /\ UNCHANGED resets
      /\ pc' = "down" \/ (~seeded.conflict /\ pc' = "next")
    BY BoundsKept DEF Start, world, ghosts
<1>2. LeftBehind(ledger) /\ backlog \in Seq(Range(backlog)) /\ StoredWell
    BY AutodevAssumption DEF AutodevInv, StoredWell
<1>3. Seeded(ledger, seeded.ledger) /\ (~seeded.conflict => AllCurrent(seeded.ledger))
    BY <1>1, <1>2, SeedKeeps
<1> HIDE DEF seeded
<1>4. /\ LeftBehind(ledger') /\ \A i \in DOMAIN ledger : i \in DOMAIN ledger' /\ Kept(ledger[i], ledger'[i])
    BY <1>1, <1>3 DEF Seeded
<1>5. Progress
    BY <1>4, KeptAdvances DEF Progress
<1>6. StoredWell'
    BY <1>1, <1>2, <1>4 DEF StoredWell
<1>7. DOMAIN ctx' = CtxFields
    BY <1>1 DEF AutodevInv, ProcessWell
<1>8. pc' = "next" => AllCurrent(ledger')
    BY <1>1, <1>3
<1>9. ProcessWell'
    BY <1>1, <1>7, <1>8 DEF ProcessWell, Labels, AtWork, InSteps, InLoops
<1> QED
    BY <1>5, <1>6, <1>9 DEF AutodevInv

\* The next item is chosen, work in progress first.
LEMMA TakeItemKeeps ==
    ASSUME AutodevInv, TakeItem
    PROVE  AutodevInv' /\ Progress
<1>1. pc = "next" /\ UNCHANGED <<disk, world, bounds, ghosts>>
    BY DEF TakeItem
<1>2. StoredWell' /\ Progress /\ UNCHANGED ledger
    BY <1>1, BoundsKept, SpaceStored DEF AutodevInv
<1>3. CASE Stop
    <2>1. pc' = "down" /\ ctx' = Idle
        BY <1>3 DEF Stop
    <2> QED
        BY <1>2, <2>1, IdleIs, Stopped
<1>4. CASE \E k \in Best(ledger, NextItem) : pc' = "create" /\ cur' = ledger[k].slug /\ ctx' = Idle
    <2>1. PICK k \in NextItem : pc' = "create" /\ cur' = ledger[k].slug /\ ctx' = Idle
        BY <1>4 DEF Best
    <2>2. AllCurrent(ledger) /\ WellFormed(ledger)
        BY <1>1 DEF AutodevInv, ProcessWell, StoredWell, LeftBehind
    <2>3. /\ k \in DOMAIN ledger /\ ledger[k].source = "current"
          /\ ledger[k].status \in {"pending", "in-progress"}
          /\ ledger[k].status = "pending" => \A j \in DOMAIN ledger : ledger[j].status # "in-progress"
        <3>1. CASE k \in Runnable(ledger, "in-progress")
            BY <3>1 DEF Runnable
        <3>2. CASE Runnable(ledger, "in-progress") = {} /\ k \in Runnable(ledger, "pending")
            BY <2>2, <3>2 DEF Runnable, AllCurrent
        <3> QED
            BY <3>1, <3>2 DEF NextItem
    <2>4. Known(ledger, cur')
        BY <2>1, <2>3 DEF Known
    <2>5. ItemOf(ledger, cur') = ledger[k]
        BY <2>1, <2>2, <2>3, <2>4, SlotIs DEF Known, ItemOf
    <2>6. Chosen(ledger, cur')
        BY <2>3, <2>5 DEF Chosen
    <2>7. /\ Known(ledger', cur') /\ Chosen(ledger', cur') /\ AllCurrent(ledger') /\ DOMAIN ctx' = CtxFields
        BY <1>2, <2>1, <2>2, <2>4, <2>6, IdleIs
    <2>8. ProcessWell'
        BY <2>1, <2>7 DEF ProcessWell, Labels, AtWork, InSteps, InLoops
    <2> QED
        BY <1>2, <2>8 DEF AutodevInv
<1> QED
    BY <1>3, <1>4 DEF TakeItem

\* Its worktree is found or made.
LEMMA CreateKeeps ==
    ASSUME AutodevInv, Create
    PROVE  AutodevInv' /\ Progress
<1>1. pc = "create" /\ UNCHANGED <<disk, issues, prs, ghosts, resets>>
    BY BoundsKept DEF Create
<1>2. PICK name : /\ trees' = [b \in DOMAIN trees \cup {name} |->
                                  IF b \notin DOMAIN trees THEN FreshTree
                                  ELSE IF b = name THEN [trees[b] EXCEPT !.dir = TRUE] ELSE trees[b]]
                  /\ Goto("begin", [Idle EXCEPT !.status = name])
    BY Zenon DEF Create
<1>3. Trees(trees) /\ StoredWell
    BY DEF AutodevInv, StoredWell, Trees
<1>4. Trees(trees') /\ name \in DOMAIN trees'
    <2>1. DOMAIN trees' = DOMAIN trees \cup {name}
        BY <1>2
    <2>2. ASSUME NEW b \in DOMAIN trees' PROVE IsTree(trees'[b])
        <3>1. CASE b \notin DOMAIN trees
            <4>1. trees'[b] = FreshTree
                BY <1>2, <2>1, <2>2, <3>1
            <4> QED
                BY <4>1 DEF IsTree, FreshTree
        <3>2. CASE b \in DOMAIN trees
            <4>1. IsTree(trees[b])
                BY <1>3, <3>2 DEF Trees
            <4>2. trees'[b] = trees[b] \/ trees'[b] = [trees[b] EXCEPT !.dir = TRUE]
                BY <1>2, <2>1, <2>2, <3>2
            <4> QED
                BY <4>1, <4>2 DEF IsTree
        <3> QED
            BY <3>1, <3>2
    <2> QED
        BY <2>1, <2>2 DEF Trees
<1>5. UNCHANGED <<ledger, backlog, rejected>>
    BY <1>1 DEF disk, ghosts
<1>6. StoredWell'
    BY <1>1, <1>3, <1>4, <1>5 DEF StoredWell, Trees
<1>7. Progress
    BY <1>5, Remains DEF Progress
<1>8. pc' = "begin" /\ cur' = cur /\ ctx' = [Idle EXCEPT !.status = name]
    BY <1>2 DEF Goto
<1>9. ctx'.status = name /\ DOMAIN ctx' = CtxFields
    BY <1>8 DEF Idle, CtxFields
<1>10. Known(ledger, cur) /\ AllCurrent(ledger) /\ Chosen(ledger, cur)
    BY <1>1 DEF AutodevInv, ProcessWell
<1>11. Known(ledger', cur') /\ AllCurrent(ledger') /\ Chosen(ledger', cur')
    BY <1>5, <1>8, <1>10
<1>12. ProcessWell'
    BY <1>4, <1>8, <1>9, <1>11 DEF ProcessWell, Labels, AtWork, InSteps, InLoops
<1> QED
    BY <1>6, <1>7, <1>12 DEF AutodevInv

\* It is set to work.
LEMMA BeginItemKeeps ==
    ASSUME AutodevInv, BeginItem
    PROVE  AutodevInv' /\ Progress
<1> DEFINE name == ctx.status
           after == [item EXCEPT !.status = "in-progress", !.branch = name]
           k == Freeze(item, after)
           c == [Idle EXCEPT !.pos = IF item.stage = "none" THEN 1
                                     ELSE IF Position(Pipeline, item.stage) = 0 THEN Len(Pipeline) + 1
                                     ELSE Position(Pipeline, item.stage)
                                          + (IF item.state = "verified" THEN 1 ELSE 0),
                             !.feature = item.feature]
<1>1. pc = "begin" /\ Record(FALSE, after, "stage", c)
    BY Zenon DEF BeginItem, Begin, Commit
<1>2. /\ LeftBehind(ledger) /\ ~rejected /\ Known(ledger, cur) /\ AllCurrent(ledger) /\ Chosen(ledger, cur)
      /\ name \in DOMAIN trees /\ StoredWell
    BY <1>1 DEF AutodevInv, ProcessWell, StoredWell
<1>3. /\ item.status \in {"pending", "in-progress"} /\ item.source = "current"
      /\ item.status = "pending" => \A j \in DOMAIN ledger : ledger[j].status # "in-progress"
    BY <1>2 DEF Chosen, item
<1>4. /\ Slot(ledger, cur) \in DOMAIN ledger /\ item = ledger[Slot(ledger, cur)]
    BY <1>2, SlotIs DEF LeftBehind, Known, item, ItemOf
<1>5. Held(item)
    BY <1>2, <1>4, LeftBehindIs DEF Held
<1>6. Alone(ledger, Slot(ledger, cur))
    BY <1>2, <1>3, <1>4 DEF LeftBehind, Alone
<1>7. item.feature \in Nat
    BY <1>5, HeldIs
<1>8. SetToWork(item, name, k)
    BY DEF SetToWork
<1>9. k = Freeze(item, after)
    OBVIOUS
<1>10. c = [Idle EXCEPT !.pos = IF item.stage = "none" THEN 1
                                ELSE IF Position(Pipeline, item.stage) = 0 THEN Len(Pipeline) + 1
                                ELSE Position(Pipeline, item.stage)
                                     + (IF item.state = "verified" THEN 1 ELSE 0),
                        !.feature = item.feature]
    OBVIOUS
<1> HIDE DEF name, after, k, c
<1>11. /\ Acceptable(item, k) /\ k.status = "in-progress" /\ k.branch = name /\ k.source = "current"
       /\ k.stage = item.stage /\ k.state = item.state /\ k.issue = item.issue
       /\ (k.stage # "none" => Executable(k.stage) /\ k.state \in {"running", "verified"})
    BY <1>3, <1>5, <1>8, BegunIsAcceptable
<1>12. Fits("stage", k, c)
    BY <1>7, <1>10, <1>11, BegunFits DEF Acceptable
<1>13. Wrote(k, "stage", c)
    BY <1>1, <1>2, <1>3, <1>6, <1>9, <1>11, RecordIs DEF item
<1>14. StoredWell' /\ Progress
    BY <1>2, <1>13, WrittenWell
<1>15. CASE pc' = "down" /\ ctx' = Idle
    BY <1>14, <1>15, IdleIs, Stopped
<1>16. CASE /\ pc' = "stage" /\ ctx' = c /\ cur' = cur /\ AllCurrent(ledger') /\ Known(ledger', cur)
            /\ ItemOf(ledger', cur) = k
    <2>1. trees' = trees
        BY <1>13 DEF Wrote
    <2>2. Fits(pc', ItemOf(ledger', cur'), ctx') /\ ItemOf(ledger', cur').branch \in DOMAIN trees'
        BY <1>2, <1>11, <1>12, <1>16, <2>1
    <2>3. AllCurrent(ledger') /\ Known(ledger', cur') /\ DOMAIN ctx' = CtxFields
        BY <1>12, <1>16 DEF Fits, CtxShaped
    <2>4. ProcessWell'
        BY <1>16, <2>2, <2>3 DEF ProcessWell, Labels, AtWork, InSteps, InLoops
    <2> QED
        BY <1>14, <2>4 DEF AutodevInv
<1> QED
    BY <1>13, <1>15, <1>16 DEF Wrote

\* Its worktree is removed.
LEMMA CleanupKeeps ==
    ASSUME AutodevInv, Cleanup
    PROVE  AutodevInv' /\ Progress
<1>1. pc = "cleanup" /\ pc' = "next" /\ ctx' = Idle /\ UNCHANGED <<disk, issues, prs, ghosts, resets>>
    BY BoundsKept DEF Cleanup
<1>2. UNCHANGED <<ledger, backlog, rejected>>
    BY <1>1 DEF disk, ghosts
<1>3. Trees(trees) /\ StoredWell
    BY DEF AutodevInv, StoredWell, Trees
<1>4. Trees(trees')
    <2>1. CASE UNCHANGED trees
        BY <1>3, <2>1
    <2>2. CASE trees' = [trees EXCEPT ![item.branch].dir = FALSE, ![item.branch].dirty = FALSE,
                                      ![item.branch].staged = FALSE]
        <3>1. CASE item.branch \in DOMAIN trees
            <4>1. IsTree(trees[item.branch])
                BY <1>3, <3>1 DEF Trees
            <4>2. TreeIs(trees, item.branch, trees')
                BY <2>2, <3>1, <4>1 DEF TreeIs, IsTree
            <4> QED
                BY <1>3, <3>1, <4>2, TreeChanged
        <3>2. CASE item.branch \notin DOMAIN trees
            <4>1. DOMAIN trees' = DOMAIN trees /\ \A b \in DOMAIN trees : trees'[b] = trees[b]
                BY <2>2, <3>2
            <4> QED
                BY <1>3, <4>1 DEF Trees
        <3> QED
            BY <3>1, <3>2
    <2> QED
        BY <2>1, <2>2 DEF Cleanup
<1>5. StoredWell'
    BY <1>1, <1>2, <1>3, <1>4 DEF StoredWell, Trees
<1>6. Progress
    BY <1>2, Remains DEF Progress
<1>7. AllCurrent(ledger') /\ DOMAIN ctx' = CtxFields
    BY <1>1, <1>2, IdleIs DEF AutodevInv, ProcessWell
<1>8. ProcessWell'
    BY <1>1, <1>7 DEF ProcessWell, Labels, AtWork, InSteps, InLoops
<1> QED
    BY <1>5, <1>6, <1>8 DEF AutodevInv

\* Nothing happens.
LEMMA StutterKeeps ==
    ASSUME AutodevInv, UNCHANGED autodevVars
    PROVE  AutodevInv' /\ Progress
<1>1. UNCHANGED <<backlog, ledger, trees, issues, prs, pc, cur, ctx, resets, rejected>>
    BY DEF autodevVars, disk, world, bounds, ghosts
<1>2. StoredWell' /\ Progress
    BY <1>1, SameStored DEF AutodevInv
<1>3. ProcessWell'
    BY <1>1 DEF AutodevInv, ProcessWell
<1> QED
    BY <1>2, <1>3 DEF AutodevInv

\* Every step keeps the invariant, and takes no work back unless it is a reset.
LEMMA AutodevStepKeeps ==
    ASSUME AutodevInv, [AutodevNext]_autodevVars
    PROVE  AutodevInv' /\ (Reset \/ Progress)
<1>1. CASE EditBacklog
    BY <1>1, EditBacklogKeeps
<1>2. CASE ResetLedger
    BY <1>2, ResetLedgerKeeps
<1>3. CASE Start
    BY <1>3, StartKeeps
<1>4. CASE TakeItem
    BY <1>4, TakeItemKeeps
<1>5. CASE Create
    BY <1>5, CreateKeeps
<1>6. CASE BeginItem
    BY <1>6, BeginItemKeeps
<1>7. CASE Stage
    BY <1>7, StageKeeps
<1>8. CASE Skip
    BY <1>8, SkipKeeps
<1>9. CASE Materialize
    BY <1>9, MaterializeKeeps
<1>10. CASE Prompt
    BY <1>10, PromptKeeps
<1>11. CASE StepFails
    BY <1>11, FailKeeps DEF StepFails
<1>12. CASE Attempt
    BY <1>12, AttemptKeeps
<1>13. CASE Core
    BY <1>13, CoreKeeps
<1>14. CASE Settle
    BY <1>14, SettleKeeps
<1>15. CASE RecordVerified
    BY <1>15, RecordVerifiedKeeps
<1>16. CASE Publish
    BY <1>16, PublishKeeps
<1>17. CASE Deliver
    BY <1>17, DeliverKeeps
<1>18. CASE MarkDelivered
    BY <1>18, MarkKeeps
<1>19. CASE Finish
    BY <1>19, FinishKeeps
<1>20. CASE Cleanup
    BY <1>20, CleanupKeeps
<1>21. CASE Die
    BY <1>21, FailKeeps DEF Die
<1>22. CASE UNCHANGED autodevVars
    BY <1>22, StutterKeeps
<1> QED
    BY <1>1, <1>2, <1>3, <1>4, <1>5, <1>6, <1>7, <1>8, <1>9, <1>10, <1>11, <1>12, <1>13, <1>14, <1>15,
       <1>16, <1>17, <1>18, <1>19, <1>20, <1>21, <1>22 DEF AutodevNext

\* The invariant says what the run checks.
LEMMA InvIsAccepted ==
    ASSUME AutodevInv
    PROVE  WorkflowAccepted
<1> DEFINE atWork == {i \in DOMAIN ledger : ledger[i].status = "in-progress"}
<1>1. /\ LeftBehind(ledger) /\ ~rejected /\ WellFormed(ledger) /\ ValidLedger(ledger)
    BY DEF AutodevInv, StoredWell, LeftBehind
<1>2. pc \in {"down", "next", "create", "begin", "stage", "step", "attempt", "core", "settle",
              "verified", "deliver", "mark", "cleanup"}
    BY DEF AutodevInv, ProcessWell, Labels, AtWork, InSteps, InLoops
<1>3. pc \notin {"down", "next"} => \E i \in DOMAIN ledger : ledger[i].slug = cur
    BY DEF AutodevInv, ProcessWell, Known
<1>4. pc \notin {"down", "next", "create", "begin", "cleanup"} =>
        item.status = "in-progress" /\ item.branch \in DOMAIN trees
    <2>1. pc \notin {"down", "next", "create", "begin", "cleanup"} => pc \in AtWork
        BY DEF AutodevInv, ProcessWell, Labels
    <2> QED
        BY <2>1, AtWorkHas
<1>5. AutodevTypeOK
    BY <1>1, <1>2, <1>3, <1>4 DEF AutodevTypeOK
<1>6. \A i, j \in atWork : i = j
    BY <1>1 DEF LeftBehind
<1> HIDE DEF atWork
<1>7. Cardinality(atWork) <= 1
    <2>1. CASE atWork = {}
        <3>1. Cardinality(atWork) = 0
            BY <2>1, FS_EmptySet
        <3> QED
            BY <3>1
    <2>2. CASE atWork # {}
        <3>1. PICK i : atWork = {i}
            BY <1>6, <2>2
        <3>2. Cardinality(atWork) = 1
            BY <3>1, FS_Singleton
        <3> QED
            BY <3>2
    <2> QED
        BY <2>1, <2>2
<1> QED
    BY <1>1, <1>5, <1>7 DEF WorkflowAccepted, atWork

\* Whatever users and cores do and wherever the process dies: the ledger is one that can be loaded,
\* its records differ in their slugs, one at most is at work, and the process stands where that
\* record says it stands (orchestrator.go, processItem; ledger.go, Commit).
THEOREM AutodevInvariant == AutodevSpec => []AutodevInv
<1>1. AutodevInit => AutodevInv
    BY AutodevInitWell
<1>2. AutodevInv /\ [AutodevNext]_autodevVars => AutodevInv'
    BY AutodevStepKeeps
<1> QED
    BY <1>1, <1>2, PTL DEF AutodevSpec

\* The ledger's own validation refuses no change of the workflow, work in progress is resumed before
\* anything new begins, and an item at work is a known record with a branch that exists, for any
\* pipeline, publishing steps, backlogs and ledgers of an earlier version (ledger.go,
\* validateWorkflowMutation and validateLedgerItems; orchestrator.go, nextItem).
THEOREM WorkflowStaysAccepted == AutodevSpec => []WorkflowAccepted
<1>1. AutodevInv => WorkflowAccepted
    BY InvIsAccepted
<1> QED
    BY <1>1, AutodevInvariant, PTL

\* No step but the deletion of the ledger takes work back: stages only advance, a done item stays
\* done, and a frozen requirement keeps its words (ledger.go, reconcileMatchedItem and Freeze).
THEOREM WorkStaysMonotone == AutodevSpec => WorkIsMonotone
<1>1. AutodevInv /\ [AutodevNext]_autodevVars =>
        [Reset \/ \A i \in DOMAIN ledger :
            LET a == ledger[i]  b == ledger'[i]
            IN  /\ i \in DOMAIN ledger' /\ a.id = b.id
                /\ Rank(a.stage) <= Rank(b.stage)
                /\ a.status = "done" => b.status = "done"
                /\ a.frozen /\ ~a.legacy => b.frozen /\ a.desc = b.desc /\ a.title = b.title]_autodevVars
    BY AutodevStepKeeps DEF Progress, Advances
<1> QED
    BY <1>1, AutodevInvariant, PTL DEF AutodevSpec, WorkIsMonotone
=============================================================================
