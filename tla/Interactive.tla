---------------------------- MODULE Interactive ----------------------------
(***************************************************************************)
(* The terminal application: the Bubble Tea update loop                    *)
(* (internal/tui/model.go), the goroutines its commands start, the         *)
(* application that owns the current session                               *)
(* (internal/app/interactive_runtime_application.go) and the bridges over  *)
(* which a run asks the user (asker.go, plan_reviewer.go,                  *)
(* permission_bridge.go).                                                  *)
(*                                                                         *)
(* Update handles one message at a time.  Keys are the user's actions; all *)
(* other messages are returned by goroutines, each of which delivers on    *)
(* its own, so they arrive in any order: "mail" is a set.  An operation is *)
(* a prompt, a shell command or a prompt command (a skill); its number is  *)
(* the operationSeq beginOperation gave it.  Below the screen, a run takes *)
(* the application's run lock, then the session's gate, commits its prompt *)
(* to the log and may ask the user before it answers.  Rewind, restore and *)
(* compaction use the same gate but not the run lock.                      *)
(*                                                                         *)
(* Abstracted: the text of prompts, transcript entries, run events, the    *)
(* layout, key editing and all local commands without an effect on runs.   *)
(* Plan reviews go through a bridge built like the question bridge.        *)
(***************************************************************************)
EXTENDS Naturals, Sequences, FiniteSets

CONSTANTS Kinds,       \* the bridges: "question" (unbuffered), "permission" (buffered)
          MaxInputs,   \* bound: prompts, shell commands, prompt commands, /compact and /new typed
          MaxKeys,     \* bound: Ctrl+C, Escape and overlays opened
          MaxAsks       \* bound: questions one run asks

ASSUME BoundsAssumption ==
    /\ Kinds \subseteq {"question", "permission"}
    /\ {MaxInputs, MaxKeys, MaxAsks} \subseteq Nat

Ops  == 1..MaxInputs
None == 0

VARIABLES
    \* the model of the update loop
    running,    \* running
    active,     \* activeOperationID, 0 when no operation is active
    opSeq,      \* operationSeq, also operationGen
    cancelRun,  \* the operation that cancelRun cancels, 0 when it is nil
    restoring,  \* pendingCancelRestore
    queue,      \* queuedPrompts: prompt numbers
    form,       \* per kind, the request of the open form: the asking operation or 0
    answered,   \* per kind, whether a done message is on its way from a form
    dialog,     \* "none", "settings", "rewind", "rewinding" (Update waits for the gate)
    listening,  \* per kind, whether a listener waits at the bridge
    \* the goroutines
    mail,       \* messages on their way to Update
    op,         \* the operations
    bridge,     \* per kind, requests that no listener has taken yet
    command,    \* /compact and /new under way
    restores,   \* restores under way
    \* the application and its session
    runMu,      \* the operation that holds the run lock, or 0
    sessionGate, \* the operation that holds the session's gate, or 0
    session,    \* the current session
    log,        \* its prompts: [op, answered]
    \* bounds and history
    inputs,     \* inputs typed
    keys,       \* other keys that were pressed
    takenOver   \* a prompt command was started while an operation ran

screen   == <<running, active, opSeq, cancelRun, restoring, queue, form, answered, dialog, listening>>
workers  == <<mail, op, bridge, command, restores>>
store    == <<runMu, sessionGate, session, log>>
counters == <<inputs, keys, takenOver>>
vars     == <<screen, workers, store, counters>>

\* st: "lock" waits for the run lock, "admission" holds it, "turn" holds the gate too,
\* "waiting" waits for the user; "shell" and "prep" are commands and preparations;
\* "sent" has sent its message, "done" has had it received.
Operation(st) == [st |-> st, cancelled |-> FALSE, asks |-> 0]

Init ==
    /\ running = FALSE /\ active = None /\ opSeq = 0 /\ cancelRun = None
    /\ restoring = FALSE /\ queue = <<>>
    /\ form = [k \in Kinds |-> None] /\ answered = [k \in Kinds |-> FALSE]
    /\ dialog = "none" /\ listening = [k \in Kinds |-> TRUE]
    /\ mail = {} /\ op = [o \in Ops |-> Operation("none")] /\ bridge = [k \in Kinds |-> <<>>]
    /\ command = [kind |-> "none", st |-> "none"] /\ restores = {}
    /\ runMu = None /\ sessionGate = None /\ session = 1 /\ log = <<>>
    /\ inputs = 0 /\ keys = 0 /\ takenOver = FALSE

(***************************************************************************)
(* Update.                                                                 *)
(***************************************************************************)

\* Update is not inside a synchronous Rewind.
Responsive == dialog # "rewinding"

NoForm == \A k \in Kinds : form[k] = None

\* hasBlockingInteraction
HasBlockingInteraction == ~NoForm \/ dialog # "none"

\* Keys reach the input line only while no overlay takes them.
InputFocused == ~HasBlockingInteraction

\* beginOperation, with the cancel function of the operation.
BeginOperation ==
    /\ opSeq' = opSeq + 1
    /\ active' = opSeq + 1
    /\ cancelRun' = opSeq + 1
    /\ running' = TRUE

\* The goroutine of the command that the operation starts.
Begun(ops, st) == [ops EXCEPT ![opSeq + 1] = Operation(st)]

\* The operation's message has been received.
Ended(ops, o) == [ops EXCEPT ![o] = Operation("done")]

\* startPrompt: the operation of the prompt's run.
StartPrompt(ops) ==
    /\ BeginOperation
    /\ restoring' = FALSE
    /\ op' = Begun(ops, "lock")

\* startNextQueuedPrompt
StartNextQueuedPrompt(ops) == queue' = Tail(queue) /\ StartPrompt(ops)

\* The operation is over and nothing else starts.
NotStarted(ops, restore) ==
    /\ running' = FALSE /\ active' = None /\ cancelRun' = None
    /\ op' = ops /\ restoring' = restore /\ UNCHANGED <<opSeq, queue>>

\* startQueuedPromptIfReady at the end of an operation; "forms" is what is open then.
StartQueuedPromptIfReady(ops, forms, restore) ==
    IF queue # <<>> /\ dialog = "none" /\ (\A k \in Kinds : forms[k] = None)
    THEN StartNextQueuedPrompt(ops)
    ELSE NotStarted(ops, restore)

\* submitInput with a prompt: queued while something runs, started otherwise.
SubmitPrompt ==
    /\ InputFocused
    /\ inputs < MaxInputs
    /\ inputs' = inputs + 1
    /\ IF running
       THEN /\ queue' = Append(queue, inputs + 1)
            /\ UNCHANGED <<running, active, opSeq, cancelRun, restoring, op>>
       ELSE /\ StartPrompt(op)
            /\ UNCHANGED queue
    /\ UNCHANGED <<form, answered, dialog, listening, mail, bridge, command, restores, store, keys, takenOver>>

\* submitBangCommand
SubmitShell ==
    /\ InputFocused
    /\ ~running
    /\ inputs < MaxInputs
    /\ inputs' = inputs + 1
    /\ BeginOperation
    /\ restoring' = FALSE
    /\ op' = Begun(op, "shell")
    /\ UNCHANGED <<queue, form, answered, dialog, listening, mail, bridge, command, restores, store, keys, takenOver>>

\* executePromptCommand does not look at running and leaves pendingCancelRestore alone.
SubmitSkill ==
    /\ InputFocused
    /\ inputs < MaxInputs
    /\ inputs' = inputs + 1
    /\ BeginOperation
    /\ op' = Begun(op, "prep")
    /\ takenOver' = (takenOver \/ running)
    /\ UNCHANGED <<restoring, queue, form, answered, dialog, listening, mail, bridge, command, restores, store, keys>>

\* /compact and /new mark the screen as running without beginning an operation.
SubmitCommand(kind) ==
    /\ InputFocused
    /\ ~running
    /\ command.st = "none"
    /\ inputs < MaxInputs
    /\ inputs' = inputs + 1
    /\ running' = TRUE
    /\ command' = [kind |-> kind, st |-> "waiting"]
    /\ UNCHANGED <<active, opSeq, cancelRun, restoring, queue, form, answered, dialog, listening,
                   mail, op, bridge, restores, store, keys, takenOver>>

\* Ctrl+C cancels the active operation and asks for its prompt back.
CtrlC ==
    /\ InputFocused
    /\ keys < MaxKeys
    /\ keys' = keys + 1
    /\ running /\ cancelRun # None
    /\ ~op[cancelRun].cancelled \/ ~restoring
    /\ op' = [op EXCEPT ![cancelRun].cancelled = TRUE]
    /\ restoring' = TRUE
    /\ UNCHANGED <<running, active, opSeq, cancelRun, queue, form, answered, dialog, listening,
                   mail, bridge, command, restores, store, inputs, takenOver>>

\* Escape and /cancel cancel it and leave the prompt where it is.
Escape ==
    /\ InputFocused
    /\ keys < MaxKeys
    /\ keys' = keys + 1
    /\ cancelRun # None
    /\ ~op[cancelRun].cancelled
    /\ op' = [op EXCEPT ![cancelRun].cancelled = TRUE]
    /\ UNCHANGED <<screen, mail, bridge, command, restores, store, inputs, takenOver>>

\* /permissions and /effort open a form at any time; closing one does not look at the queue.
OpenSettings ==
    /\ InputFocused
    /\ keys < MaxKeys
    /\ keys' = keys + 1
    /\ dialog' = "settings"
    /\ UNCHANGED <<running, active, opSeq, cancelRun, restoring, queue, form, answered, listening,
                   workers, store, inputs, takenOver>>

\* handleKey serves an approval form before the settings forms and these before a question.
FrontForm == IF "permission" \in Kinds /\ form["permission"] # None THEN "permission"
             ELSE IF dialog = "settings" THEN "settings"
             ELSE IF "question" \in Kinds /\ form["question"] # None THEN "question"
             ELSE "none"

CloseSettings ==
    /\ FrontForm = "settings"
    /\ dialog' = "none"
    /\ UNCHANGED <<running, active, opSeq, cancelRun, restoring, queue, form, answered, listening,
                   workers, store, counters>>

\* openRewindSelector
OpenRewindSelector ==
    /\ InputFocused
    /\ keys < MaxKeys
    /\ keys' = keys + 1
    /\ ~running
    /\ log # <<>>
    /\ dialog' = "rewind"
    /\ UNCHANGED <<running, active, opSeq, cancelRun, restoring, queue, form, answered, listening,
                   workers, store, inputs, takenOver>>

\* handleSelectorResult, cancelled or with files only: the gate is not needed.
CloseRewindSelector ==
    /\ dialog = "rewind" /\ FrontForm = "none"
    /\ dialog' = "none"
    /\ UNCHANGED <<running, active, opSeq, cancelRun, restoring, queue, form, answered, listening,
                   workers, store, counters>>

\* handleSelectorResult calls Rewind inside Update, which stops until the gate is free.
SelectRewind ==
    /\ dialog = "rewind" /\ FrontForm = "none"
    /\ dialog' = "rewinding"
    /\ UNCHANGED <<running, active, opSeq, cancelRun, restoring, queue, form, answered, listening,
                   workers, store, counters>>

\* RewindContext to one of the prompts (prompts that are gone by then truncate nothing).
RewindConversation ==
    /\ dialog = "rewinding"
    /\ sessionGate = None
    /\ dialog' = "none"
    /\ \E i \in 1..(Len(log) + 1) : log' = SubSeq(log, 1, i - 1)
    /\ UNCHANGED <<running, active, opSeq, cancelRun, restoring, queue, form, answered, listening,
                   workers, runMu, sessionGate, session, counters>>

\* askUserMsg and permissionUserMsg: the form of a request opens.
ReceiveRequest(k, o) ==
    /\ Responsive
    /\ [type |-> "request", kind |-> k, op |-> o] \in mail
    /\ mail' = mail \ {[type |-> "request", kind |-> k, op |-> o]}
    /\ form' = [form EXCEPT ![k] = o]
    /\ UNCHANGED <<running, active, opSeq, cancelRun, restoring, queue, answered, dialog, listening,
                   op, bridge, command, restores, store, counters>>

\* The user submits a form: its done message is on its way.  (The question form has no
\* test for being done, so a second key sends a second message: one stands for both.)
AnswerForm(k) ==
    /\ FrontForm = k
    /\ ~answered[k]
    /\ answered' = [answered EXCEPT ![k] = TRUE]
    /\ UNCHANGED <<running, active, opSeq, cancelRun, restoring, queue, form, dialog, listening,
                   workers, store, counters>>

\* Mutant: the form is closed without a reply.
AnsweredNever(ops, kinds) == ops

\* The reply reaches a run that still waits for it (the reply channels hold one reply).
Answered(ops, kinds) ==
    [o \in Ops |-> IF ops[o].st = "waiting" /\ (\E k \in kinds : form[k] = o)
                   THEN [ops[o] EXCEPT !.st = "turn"] ELSE ops[o]]

\* handleAskDone and handleApprovalDone: the open form, whichever it is by now, is
\* answered, its listener is armed again and the queue may go on.
HandleDone(k) ==
    /\ Responsive
    /\ answered[k]
    /\ answered' = [answered EXCEPT ![k] = FALSE]
    /\ IF form[k] = None
       THEN UNCHANGED <<running, active, opSeq, cancelRun, restoring, queue, form, listening, op>>
       ELSE LET forms == [form EXCEPT ![k] = None]
                ops   == Answered(op, {k})
            IN  /\ form' = forms
                /\ listening' = [listening EXCEPT ![k] = TRUE]
                /\ IF ~running /\ queue # <<>> /\ dialog = "none" /\ (\A j \in Kinds : forms[j] = None)
                   THEN StartNextQueuedPrompt(ops)
                   ELSE /\ op' = ops
                        /\ UNCHANGED <<running, active, opSeq, cancelRun, restoring, queue>>
    /\ UNCHANGED <<dialog, mail, bridge, command, restores, store, counters>>

Finished(o, res) == [type |-> "finished", op |-> o, res |-> res]

\* Whether some operation's message is taken from the mail while Update can run.
Receive(msg) == Responsive /\ msg \in mail /\ mail' = mail \ {msg}

\* A message of an operation that is no longer active is dropped.
DropStale(o) ==
    /\ \E msg \in mail : msg.type \in {"finished", "ready", "shell"} /\ msg.op = o /\ Receive(msg)
    /\ active # o
    /\ op' = Ended(op, o)
    /\ UNCHANGED <<screen, bridge, command, restores, store, counters>>

\* runFinishedMsg without an error, or with another error than a cancellation.
RunFinished(o, res) ==
    /\ res # "cancelled"
    /\ Receive(Finished(o, res))
    /\ active = o
    /\ StartQueuedPromptIfReady(Ended(op, o), form, restoring /\ res = "ok")
    /\ UNCHANGED <<form, answered, dialog, listening, bridge, command, restores, store, counters>>

\* Mutant: cancelRunInteractions arms all listeners.
RearmedAll == [k \in Kinds |-> TRUE]

\* cancelRunInteractions answers every open form as cancelled and arms its listener again.
Rearmed == [k \in Kinds |-> listening[k] \/ form[k] # None]

\* runFinishedMsg of a cancelled run: after Ctrl+C its prompt is restored before
\* the queue goes on, otherwise the queue goes on at once.
RunCancelled(o) ==
    LET ops == Answered(Ended(op, o), Kinds) IN
    /\ Receive(Finished(o, "cancelled"))
    /\ active = o
    /\ form' = [k \in Kinds |-> None]
    /\ listening' = Rearmed
    /\ IF restoring
       THEN /\ NotStarted(ops, FALSE)
            /\ restores' = restores \cup {[gen |-> opSeq, st |-> "scheduled", target |-> 0, in |-> session]}
       ELSE /\ StartQueuedPromptIfReady(ops, form', restoring)
            /\ UNCHANGED restores
    /\ UNCHANGED <<answered, dialog, bridge, command, store, counters>>

\* shellCommandFinishedMsg starts the queue without asking for open overlays.
ShellFinished(o) ==
    /\ Receive([type |-> "shell", op |-> o])
    /\ active = o
    /\ IF queue # <<>>
       THEN StartNextQueuedPrompt(Ended(op, o))
       ELSE NotStarted(Ended(op, o), restoring)
    /\ UNCHANGED <<form, answered, dialog, listening, bridge, command, restores, store, counters>>

\* handlePromptCommandReady, failed, forked or empty: the operation is over and the
\* queue is left alone.
SkillOver(o) ==
    /\ Receive([type |-> "ready", op |-> o, res |-> "over"])
    /\ active = o
    /\ NotStarted(Ended(op, o), restoring)
    /\ UNCHANGED <<form, answered, dialog, listening, bridge, command, restores, store, counters>>

\* runInlinePromptCommand: the run starts under a fresh context, or is refused, and
\* then the operation stays active although nothing runs.
RunInline(o) ==
    /\ Receive([type |-> "ready", op |-> o, res |-> "inline"])
    /\ active = o
    /\ \/ /\ op' = [op EXCEPT ![o] = Operation("lock")]
          /\ cancelRun' = o
          /\ UNCHANGED running
       \/ /\ op' = Ended(op, o)
          /\ cancelRun' = None
          /\ running' = FALSE
    /\ UNCHANGED <<active, opSeq, restoring, queue, form, answered, dialog, listening,
                   bridge, command, restores, store, counters>>

\* compactFinishedMsg and newSessionFinishedMsg belong to no operation: they end
\* whatever the screen shows as running; a new session also empties the queue.
CommandFinished ==
    /\ Responsive
    /\ command.st \in {"ok", "failed"}
    /\ running' = FALSE
    /\ cancelRun' = None
    /\ queue' = IF command.kind = "new" /\ command.st = "ok" THEN <<>> ELSE queue
    /\ command' = [kind |-> "none", st |-> "none"]
    /\ UNCHANGED <<active, opSeq, restoring, form, answered, dialog, listening,
                   mail, op, bridge, restores, store, counters>>

\* cancelRestoreFinishedMsg is ignored while something runs.
CancelRestoreFinished(r) ==
    /\ Responsive
    /\ r \in restores
    /\ r.st = "over"
    /\ restores' = restores \ {r}
    /\ IF running
       THEN /\ restoring' = FALSE
            /\ UNCHANGED <<running, active, opSeq, cancelRun, queue, op>>
       ELSE IF queue # <<>> /\ ~HasBlockingInteraction
       THEN StartNextQueuedPrompt(op)
       ELSE UNCHANGED <<running, active, opSeq, cancelRun, restoring, queue, op>>
    /\ UNCHANGED <<form, answered, dialog, listening, mail, bridge, command, store, counters>>

(***************************************************************************)
(* The goroutines.                                                         *)
(***************************************************************************)

\* A run hands its request to a bridge and waits.  The permission bridge buffers it;
\* the question bridge has no buffer, so the run itself waits there.
Ask(o, k) ==
    /\ op[o].st = "turn" /\ ~op[o].cancelled
    /\ op[o].asks < MaxAsks
    /\ op' = [op EXCEPT ![o].st = "waiting", ![o].asks = @ + 1]
    /\ bridge' = [bridge EXCEPT ![k] = Append(@, o)]
    /\ UNCHANGED <<screen, mail, command, restores, store, counters>>

\* The waiting listener of a bridge takes a request and sends it to Update.
Listen(k) ==
    /\ listening[k] /\ bridge[k] # <<>>
    /\ listening' = [listening EXCEPT ![k] = FALSE]
    /\ mail' = mail \cup {[type |-> "request", kind |-> k, op |-> Head(bridge[k])]}
    /\ bridge' = [bridge EXCEPT ![k] = Tail(@)]
    /\ UNCHANGED <<running, active, opSeq, cancelRun, restoring, queue, form, answered, dialog,
                   op, command, restores, store, counters>>

\* The requests without the one of o, if it is still there (a run has one at most).
Withdrawn(requests, o) ==
    IF \E i \in DOMAIN requests : requests[i] = o
    THEN LET i == CHOOSE j \in DOMAIN requests : requests[j] = o
         IN  SubSeq(requests, 1, i - 1) \o SubSeq(requests, i + 1, Len(requests))
    ELSE requests

\* A cancelled run stops waiting.  What it put into the buffer stays there.
StopWaiting(o) ==
    /\ op[o].st = "waiting" /\ op[o].cancelled
    /\ op' = [op EXCEPT ![o].st = "turn"]
    /\ bridge' = [k \in Kinds |-> IF k = "question" THEN Withdrawn(bridge[k], o) ELSE bridge[k]]
    /\ UNCHANGED <<screen, mail, command, restores, store, counters>>

\* InteractiveRuntimeApplication.Run takes the run lock, whatever its context.
TakeRunLock(o) ==
    /\ op[o].st = "lock" /\ runMu = None
    /\ runMu' = o
    /\ op' = [op EXCEPT ![o].st = "admission"]
    /\ UNCHANGED <<screen, mail, bridge, command, restores, sessionGate, session, log, counters>>

\* AgentSession.Run takes the gate and commits the prompt.
EnterSession(o) ==
    /\ op[o].st = "admission" /\ ~op[o].cancelled
    /\ sessionGate = None
    /\ sessionGate' = o
    /\ log' = Append(log, [op |-> o, answered |-> FALSE])
    /\ op' = [op EXCEPT ![o].st = "turn"]
    /\ UNCHANGED <<screen, mail, bridge, command, restores, runMu, session, counters>>

\* The run returns, with output of the model in the log or without: the gate and the
\* run lock are free before its message is sent.
EndRun(o, res, output) ==
    /\ op[o].st \in {"admission", "turn"}
    /\ res = "cancelled" => op[o].cancelled
    /\ output => op[o].st = "turn"
    /\ res = "ok" => output
    /\ log' = IF output THEN [log EXCEPT ![Len(log)].answered = TRUE] ELSE log
    /\ sessionGate' = IF sessionGate = o THEN None ELSE sessionGate
    /\ runMu' = None
    /\ op' = [op EXCEPT ![o] = Operation("sent")]
    /\ mail' = mail \cup {Finished(o, res)}
    /\ UNCHANGED <<screen, bridge, command, restores, session, counters>>

\* The shell command ends, by itself, by its timeout or cancelled.
ShellEnds(o) ==
    /\ op[o].st = "shell"
    /\ op' = [op EXCEPT ![o] = Operation("sent")]
    /\ mail' = mail \cup {[type |-> "shell", op |-> o]}
    /\ UNCHANGED <<screen, bridge, command, restores, store, counters>>

\* executePromptCommandCmd: a cancelled preparation never starts a run.
SkillReady(o, res) ==
    /\ op[o].st = "prep"
    /\ op[o].cancelled => res = "over"
    /\ op' = [op EXCEPT ![o] = Operation("sent")]
    /\ mail' = mail \cup {[type |-> "ready", op |-> o, res |-> res]}
    /\ UNCHANGED <<screen, bridge, command, restores, store, counters>>

\* CompactContext rewrites the projection under the gate; the log of prompts stays.
Compact(res) ==
    /\ command = [kind |-> "compact", st |-> "waiting"]
    /\ sessionGate = None
    /\ command' = [command EXCEPT !.st = res]
    /\ UNCHANGED <<screen, mail, op, bridge, restores, store, counters>>

\* NewSession under the run lock: the replacement exists before the previous session closes.
NewSession(res) ==
    /\ command = [kind |-> "new", st |-> "waiting"]
    /\ runMu = None /\ sessionGate = None
    /\ command' = [command EXCEPT !.st = res]
    /\ IF res = "ok" THEN session' = session + 1 /\ log' = <<>> ELSE UNCHANGED <<session, log>>
    /\ UNCHANGED <<screen, mail, op, bridge, restores, runMu, sessionGate, counters>>

\* cancelRestoreCmd: abandoned, without a message, when a newer operation began.
CheckGeneration(r) ==
    /\ r.st = "scheduled"
    /\ restores' = (restores \ {r}) \cup IF opSeq = r.gen THEN {[r EXCEPT !.st = "current", !.in = session]} ELSE {}
    /\ UNCHANGED <<screen, mail, op, bridge, command, store, counters>>

\* restoreLatestInput picks the last prompt, if only synthetic messages follow it.
PickTarget(r) ==
    /\ r.st = "current"
    /\ LET found == r.in = session /\ log # <<>> /\ ~log[Len(log)].answered
       IN  restores' = (restores \ {r}) \cup
              {IF found THEN [r EXCEPT !.st = "picked", !.target = Len(log)] ELSE [r EXCEPT !.st = "over"]}
    /\ UNCHANGED <<screen, mail, op, bridge, command, store, counters>>

\* RewindContext, once the gate is free; a closed session refuses it.
Restore(r) ==
    /\ r.st = "picked" /\ sessionGate = None
    /\ log' = IF r.in = session /\ r.target <= Len(log) THEN SubSeq(log, 1, r.target - 1) ELSE log
    /\ restores' = (restores \ {r}) \cup {[r EXCEPT !.st = "over"]}
    /\ UNCHANGED <<screen, mail, op, bridge, command, runMu, sessionGate, session, counters>>

-----------------------------------------------------------------------------
User ==
    \/ SubmitPrompt \/ SubmitShell \/ SubmitSkill
    \/ \E kind \in {"compact", "new"} : SubmitCommand(kind)
    \/ CtrlC \/ Escape \/ OpenSettings \/ OpenRewindSelector

Dismiss == CloseSettings \/ CloseRewindSelector \/ SelectRewind

Update ==
    \/ \E k \in Kinds : HandleDone(k) \/ \E o \in Ops : ReceiveRequest(k, o)
    \/ \E o \in Ops :
          \/ DropStale(o) \/ RunCancelled(o) \/ ShellFinished(o) \/ SkillOver(o) \/ RunInline(o)
          \/ \E res \in {"ok", "failed"} : RunFinished(o, res)
    \/ CommandFinished
    \/ \E r \in restores : CancelRestoreFinished(r)
    \/ RewindConversation

RunStep(o) ==
    \/ TakeRunLock(o) \/ EnterSession(o) \/ StopWaiting(o)
    \/ \E k \in Kinds : Ask(o, k)
    \/ \E res \in {"ok", "failed", "cancelled"}, output \in BOOLEAN : EndRun(o, res, output)
    \/ ShellEnds(o) \/ \E res \in {"over", "inline"} : SkillReady(o, res)

Background ==
    \/ \E k \in Kinds : Listen(k)
    \/ \E res \in {"ok", "failed"} : Compact(res) \/ NewSession(res)
    \/ \E r \in restores : CheckGeneration(r) \/ PickTarget(r) \/ Restore(r)

Next ==
    \/ User \/ Dismiss
    \/ \E k \in Kinds : AnswerForm(k)
    \/ Update
    \/ \E o \in Ops : RunStep(o)
    \/ Background

(***************************************************************************)
(* Fairness: Update takes every message that stays available, goroutines   *)
(* run on, runs, shell commands and preparations end (they have timeouts), *)
(* and the user answers or dismisses what covers the input line.  Nothing  *)
(* makes the user type, cancel or quit.                                    *)
(***************************************************************************)
Fairness ==
    /\ WF_vars(Dismiss) /\ WF_vars(CommandFinished) /\ WF_vars(RewindConversation)
    /\ WF_vars(\E res \in {"ok", "failed"} : Compact(res) \/ NewSession(res))
    /\ WF_vars(\E r \in restores : CheckGeneration(r) \/ PickTarget(r) \/ Restore(r) \/ CancelRestoreFinished(r))
    /\ \A k \in Kinds :
          /\ WF_vars(Listen(k)) /\ WF_vars(AnswerForm(k)) /\ WF_vars(HandleDone(k))
          /\ \A o \in Ops : WF_vars(ReceiveRequest(k, o))
    /\ \A o \in Ops :
          /\ WF_vars(TakeRunLock(o)) /\ WF_vars(EnterSession(o)) /\ WF_vars(StopWaiting(o))
          /\ WF_vars(\E res \in {"ok", "failed", "cancelled"}, output \in BOOLEAN : EndRun(o, res, output))
          /\ WF_vars(ShellEnds(o) \/ \E res \in {"over", "inline"} : SkillReady(o, res))
          /\ WF_vars(DropStale(o) \/ RunCancelled(o) \/ ShellFinished(o) \/ SkillOver(o) \/ RunInline(o)
                        \/ \E res \in {"ok", "failed"} : RunFinished(o, res))

Spec == Init /\ [][Next]_vars /\ Fairness

-----------------------------------------------------------------------------
TypeOK ==
    /\ running \in BOOLEAN /\ active \in Ops \cup {None} /\ opSeq \in Ops \cup {0}
    /\ cancelRun \in Ops \cup {None} /\ restoring \in BOOLEAN
    /\ queue \in Seq(1..MaxInputs)
    /\ form \in [Kinds -> Ops \cup {None}] /\ answered \in [Kinds -> BOOLEAN]
    /\ dialog \in {"none", "settings", "rewind", "rewinding"}
    /\ listening \in [Kinds -> BOOLEAN]
    /\ bridge \in [Kinds -> Seq(Ops)] /\ {runMu, sessionGate} \subseteq Ops \cup {None}
    /\ log \in Seq([op : Ops, answered : BOOLEAN])

\* Each bridge has exactly one reader: its waiting listener, the request on its way
\* to Update, or the open form.  With none, the next run that asks waits forever;
\* with two, one request overwrites the form of the other (Init, handleAskDone,
\* handleApprovalDone, cancelRunInteractions).
OneReader ==
    /\ TypeOK
    /\ \A k \in Kinds :
          Cardinality({msg \in mail : msg.type = "request" /\ msg.kind = k})
            + (IF listening[k] THEN 1 ELSE 0) + (IF form[k] # None THEN 1 ELSE 0) = 1

\* While the screen shows a run, some message that will end it is still to come:
\* the active operation's, or that of /compact or /new; and Ctrl+C, Escape and /cancel
\* reach that operation.  Otherwise all later prompts would be queued forever
\* (acceptsOperation and all places that set running).
RunningWillEnd ==
    /\ running => \/ active # None /\ op[active].st \notin {"none", "done"}
                  \/ command.st # "none"
    /\ cancelRun # None => cancelRun = active

\* As long as no prompt command was typed during a run, the screen is idle only when
\* nothing runs.  Rewind relies on it: it waits for the session's gate inside
\* Update, and a run that holds the gate may be waiting for Update.
IdleIsTrue ==
    ~running /\ ~takenOver => /\ \A o \in Ops : op[o].st \in {"none", "done"}
                             /\ command.st = "none" /\ runMu = None /\ sessionGate = None

\* The screen says running while something runs that will tell it, and idle only when
\* nothing runs; and it never loses the only reader of a bridge, nor gets a second one.
ScreenIsTrue == OneReader /\ RunningWillEnd /\ IdleIsTrue

\* Every operation that began ends, whatever it asks, whoever cancels it and whatever
\* covers the screen meanwhile: runs, bridges, forms and Update do not wait for each
\* other in a circle.
OperationsEnd ==
    [](~takenOver) => \A o \in Ops : op[o].st # "none" ~> op[o].st = "done"

=============================================================================
