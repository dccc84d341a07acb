------------------------------ MODULE ToolTurn ------------------------------
(***************************************************************************)
(* One run of the agent engine (internal/engine/target.go) with its tools: *)
(* the turn loop, the frozen tool surface of a turn and the ordered batch  *)
(* over it (toolexec, toolruntime, registryexec), the permission decorator *)
(* in front of the registry (permission/coordinator.go), the Formal Plan   *)
(* lifecycle (planruntime), and the completion policy (turnpolicy).        *)
(*                                                                         *)
(* Three kinds of run: "interactive" and "formal" runs go through the      *)
(* permission decorator, which makes every tool serial; a "headless" run   *)
(* (fox -p) has none, and its parallel-safe calls run together.            *)
(***************************************************************************)
EXTENDS Permission, Sequences, SequencesExt

CONSTANTS
    RunKinds,       \* kinds of run
    Batches,        \* the calls the model may ask for in one response
    MaxTurns        \* RunInput.MaxTurns

\* "mutate_file" is what a grant calls writing and editing; no tool has that name.
ASSUME ToolTurnAssumption ==
    /\ MaxTurns \in Nat \ {0}
    /\ Batches \subseteq Seq([tool : STRING \ {"mutate_file"}, arg : STRING])
    /\ <<>> \notin Batches

VARIABLES
    kind,       \* the kind of this run
    pc,         \* where the engine loop is
    turn,       \* the engine's turn
    snapshot,   \* tool names of the turn's frozen surface
    batch,      \* calls of the model's response
    group,      \* indexes of the batch that are launched together
    status,     \* per call: "waiting", "authorizing", "running", or its result
    plan,       \* the Formal Plan lifecycle: [phase, pending, approved, submitted]
    todo,       \* TODO.md: "none", "open" (unchecked items), "checked"
    policy,     \* run policy: [gate, reminded, updated]
    outcome,    \* how the run ended
    hist        \* history: the turns in which the plan was approved and TODO.md first
                \* written after it

vars == <<effective, grants, auth, modeChanges, sessionYes, ctxDead, kind, pc, turn, snapshot,
          batch, group, status, plan, todo, policy, outcome, hist>>

runVars == <<kind, turn, snapshot, plan, todo, policy, outcome, hist>>

Results == {"ok", "error", "denied", "feedback", "missing", "cancelled"}
Decorated == kind \in {"interactive", "formal"}

-----------------------------------------------------------------------------
(* Tool surfaces. *)

ReadOnlyTools == {"read_file", "bash", "ask_user_question"}

\* Mutant: the checklist phase already has the tools that edit.
ChecklistThatEdits(phase) ==
    IF phase = "formal" THEN ReadOnlyTools \cup {"submit_plan"}
    ELSE ReadOnlyTools \cup {"read_todo", "update_todo", "write_file", "edit_file"}

Surface(phase) ==
    CASE phase = "formal" -> ReadOnlyTools \cup {"submit_plan"}
      [] phase = "checklist" -> ReadOnlyTools \cup {"read_todo", "update_todo"}
      [] OTHER -> ReadOnlyTools \cup {"read_todo", "update_todo", "write_file",
                                      "edit_file", "delegate_task", "mcp_tool"}

ParallelSafe(tool) == ~Decorated /\ tool \in {"read_file", "read_todo"}

InitialPlan ==
    [phase |-> IF kind = "formal" THEN "formal" ELSE "implementation",
     pending |-> "none", approved |-> FALSE, submitted |-> FALSE]

Init ==
    /\ \E selected \in Modes, remembered \in BOOLEAN :
          effective = NewState(selected, remembered)
    /\ grants = {}
    /\ auth = Idle
    /\ modeChanges = 0
    /\ ctxDead = FALSE
    /\ kind \in RunKinds
    /\ pc = "begin"
    /\ turn = 1
    /\ snapshot = {}
    /\ batch = <<>>
    /\ group = {}
    /\ status = <<>>
    /\ plan = InitialPlan
    /\ todo \in {"none", "open"}
    /\ policy = [gate |-> "none", reminded |-> FALSE, updated |-> FALSE]
    /\ outcome = "none"
    /\ sessionYes = {}
    /\ hist = [approved |-> 0, written |-> 0]

-----------------------------------------------------------------------------
(* The turn loop. *)

End(result) == pc' = "done" /\ outcome' = result

(* A collaborator fails (snapshot, context, model, a cancelled context, the *)
(* observers' store): the run ends with its error.                          *)
EngineFails ==
    /\ pc \in {"begin", "model", "after"}
    /\ End("error")
    /\ UNCHANGED <<permissionVars, kind, turn, snapshot, batch, group, status,
                   plan, todo, policy, hist>>

(* The boundary of a turn: a pending phase of the plan becomes current     *)
(* before the tools of the turn are frozen.                                *)
BeginTurn ==
    /\ pc = "begin"
    /\ plan' = [plan EXCEPT !.submitted = FALSE, !.pending = "none",
                            !.phase = IF plan.pending = "none" THEN @ ELSE plan.pending]
    /\ snapshot' = Surface(plan'.phase)
    /\ pc' = "model"
    /\ UNCHANGED <<permissionVars, kind, turn, batch, group, status, todo, policy, outcome, hist>>

(* The model asks for tools.  Its invocation needs a live context. *)
ModelCallsTools(calls) ==
    /\ pc = "model"
    /\ ~ctxDead
    /\ batch' = calls
    /\ status' = [i \in DOMAIN calls |-> "waiting"]
    /\ group' = {}
    /\ pc' = "tools"
    /\ UNCHANGED <<permissionVars, runVars>>

(* Mutant of CompletionReminder: an uninitialised checklist does not gate. *)
FormalReminder == IF plan.phase = "formal" THEN plan.phase ELSE "none"

CompletionReminder == IF plan.phase \in {"formal", "checklist"} THEN plan.phase ELSE "none"

TodoReminder == "update_todo" \in Surface(plan.phase) /\ todo = "open"

(* The next turn, or the end of a run that used its turns up. *)
NextTurn ==
    IF turn >= MaxTurns
    THEN End("turn_limit") /\ UNCHANGED turn
    ELSE pc' = "begin" /\ turn' = turn + 1 /\ UNCHANGED outcome

(* The model answers without tools: the gates decide whether that is final. *)
ModelAnswers ==
    /\ pc = "model"
    /\ ~ctxDead
    /\ IF CompletionReminder # "none"
       THEN IF policy.gate = CompletionReminder
            THEN End("gate") /\ UNCHANGED <<turn, policy>>
            ELSE policy' = [policy EXCEPT !.gate = CompletionReminder] /\ NextTurn
       ELSE IF ~policy.updated /\ TodoReminder
            THEN IF policy.reminded
                 THEN End("todo") /\ UNCHANGED <<turn, policy>>
                 ELSE policy' = [policy EXCEPT !.reminded = TRUE] /\ NextTurn
            ELSE End("completed") /\ UNCHANGED <<turn, policy>>
    /\ UNCHANGED <<permissionVars, kind, snapshot, batch, group, status, plan, todo, hist>>

(* All results are in: they are committed, and the policy reads them. *)
AfterTools ==
    /\ pc = "after"
    /\ policy' = IF \E i \in DOMAIN batch : batch[i].tool = "update_todo" /\ status[i] = "ok"
                 THEN [policy EXCEPT !.updated = TRUE] ELSE policy
    /\ NextTurn
    /\ batch' = <<>> /\ status' = <<>> /\ group' = {}
    /\ UNCHANGED <<permissionVars, kind, snapshot, plan, todo, hist>>

-----------------------------------------------------------------------------
(* The batch. *)

Finished(i) == status[i] \in Results

(* The calls launched next: one, or the longest run of parallel-safe ones. *)
SafeAt(i) == batch[i].tool \in snapshot /\ ParallelSafe(batch[i].tool)

(* Mutant of NextGroup: the call that ends a group of safe ones joins it. *)
GroupThrough(start) ==
    {i \in start..Len(batch) : \A j \in start..(i - 1) : SafeAt(j)}

NextGroup(start) ==
    IF ~SafeAt(start) THEN {start}
    ELSE {i \in start..Len(batch) : \A j \in start..i : SafeAt(j)}

Launch ==
    /\ pc = "tools"
    /\ \A i \in group : Finished(i)
    /\ LET start == Cardinality({i \in DOMAIN batch : Finished(i)}) + 1
       IN IF start > Len(batch)
          THEN pc' = "after" /\ UNCHANGED group
          ELSE group' = NextGroup(start) /\ UNCHANGED pc
    /\ UNCHANGED <<permissionVars, batch, status, runVars>>

SetStatus(i, s) == status' = [status EXCEPT ![i] = s]

Submits(i) == kind = "formal" /\ plan.phase = "formal" /\ batch[i].tool = "submit_plan"

(* executeOne: an unadvertised name or a dead context is a failed result   *)
(* of that call.  The lifecycle refuses a second submit_plan of one turn;  *)
(* a decorated registry authorises before it executes.                     *)
StartCall(i) ==
    /\ pc = "tools" /\ i \in group /\ status[i] = "waiting"
    /\ IF batch[i].tool \notin snapshot
       THEN SetStatus(i, "missing") /\ UNCHANGED <<auth, plan>>
       ELSE IF ctxDead
       THEN SetStatus(i, "cancelled") /\ UNCHANGED <<auth, plan>>
       ELSE IF Submits(i) /\ plan.submitted
       THEN SetStatus(i, "error") /\ UNCHANGED <<auth, plan>>
       ELSE /\ plan' = IF Submits(i) THEN [plan EXCEPT !.submitted = TRUE] ELSE plan
            /\ IF Decorated
               THEN SetStatus(i, "authorizing") /\ BeginAuthorize(batch[i])
               ELSE SetStatus(i, "running") /\ UNCHANGED auth
    /\ UNCHANGED <<effective, grants, modeChanges, sessionYes, ctxDead, kind, pc, turn,
                   snapshot, batch, group, todo, policy, outcome, hist>>

Authorize ==
    /\ AuthorizeStep
    /\ UNCHANGED <<pc, batch, group, status, runVars>>

(* Authorize returned: the tool is executed or the denial is the result. *)
Authorized(i) ==
    /\ pc = "tools" /\ status[i] = "authorizing"
    /\ auth.stage \in {"allowed", "denied"}
    /\ auth' = Idle
    /\ SetStatus(i, CASE auth.stage = "allowed" -> "running"
                      [] auth.answer = "deny_feedback" -> "feedback"
                      [] OTHER -> "denied")
    /\ UNCHANGED <<effective, grants, modeChanges, sessionYes, ctxDead, pc, batch, group, runVars>>

(* Approve schedules the checklist surface for the next turn. *)
Approve(p) ==
    IF p.phase # "formal" THEN p ELSE [p EXCEPT !.pending = "checklist", !.approved = TRUE]

(* A successful update_todo under the checklist schedules implementation. *)
TodoUpdated(p, ok) ==
    IF p.phase = "checklist" /\ ok THEN [p EXCEPT !.pending = "implementation"] ELSE p

(* A running call returns.  The file tools, bash and MCP calls touch the   *)
(* workspace; submit_plan waits for the user's review; update_todo writes  *)
(* the session's checklist.                                                *)
ReturnOther(i) ==
    /\ batch[i].tool \notin {"submit_plan", "update_todo"}
    /\ \E result \in {"ok", "error"} : SetStatus(i, result)
    /\ UNCHANGED <<plan, todo, hist>>

PlanApproved(i) ==
    /\ SetStatus(i, "ok")
    /\ plan' = Approve(plan)
    /\ hist' = [hist EXCEPT !.approved = turn]

(* The plan is approved, or not, or could not be stored or reviewed. *)
ReturnPlan(i) ==
    /\ batch[i].tool = "submit_plan"
    /\ \/ PlanApproved(i)
       \/ \E result \in {"ok", "error"} : SetStatus(i, result) /\ UNCHANGED <<plan, hist>>
    /\ UNCHANGED todo

ReturnTodo(i) ==
    /\ batch[i].tool = "update_todo"
    /\ \/ \E content \in {"open", "checked"} :
            /\ SetStatus(i, "ok")
            /\ todo' = content
            /\ plan' = TodoUpdated(plan, TRUE)
            /\ hist' = IF hist.written > hist.approved THEN hist
                       ELSE [hist EXCEPT !.written = turn]
       \/ SetStatus(i, "error") /\ plan' = TodoUpdated(plan, FALSE) /\ UNCHANGED <<todo, hist>>

Return(i) ==
    /\ pc = "tools" /\ status[i] = "running"
    /\ ReturnOther(i) \/ ReturnPlan(i) \/ ReturnTodo(i)
    /\ UNCHANGED <<permissionVars, kind, pc, turn, snapshot, batch, group, policy, outcome>>

-----------------------------------------------------------------------------
EngineStep ==
    \/ EngineFails
    \/ BeginTurn
    \/ ModelAnswers
    \/ \E calls \in Batches : ModelCallsTools(calls)
    \/ AfterTools
    \/ Launch
    \/ \E i \in DOMAIN batch : StartCall(i) \/ Authorized(i)

ToolStep == \E i \in DOMAIN batch : Return(i)

User == UserStep /\ UNCHANGED <<pc, batch, group, status, runVars>>

Next == EngineStep \/ ToolStep \/ Authorize \/ (pc # "done" /\ User)

(* The engine's own steps and a tool's return are not held up forever; the *)
(* review is bounded by its attempts and its 90 seconds; a cancelled       *)
(* request for approval returns.  Nothing is assumed of the user.          *)
Fairness ==
    /\ WF_vars(EngineStep)
    /\ WF_vars(ToolStep)
    /\ WF_vars((Route \/ ReviewStep \/ AskStopped) /\ UNCHANGED <<pc, batch, group, status, runVars>>)

Spec == Init /\ [][Next]_vars /\ Fairness

-----------------------------------------------------------------------------
(* Properties. *)

(* The calls the model may ask for, and what a session permission may name. *)
Calls == UNION {Range(calls) : calls \in Batches}
GrantKeys == {GrantKey(c) : c \in Calls}

TypeOK ==
    /\ effective \in Modes
    /\ grants \subseteq GrantKeys
    /\ auth.stage \in {"idle", "snapshot", "review", "ask", "allowed", "denied"}
    /\ auth.attempt \in 0..(ReviewerAttempts - 1)
    /\ turn \in 1..MaxTurns
    /\ pc \in {"begin", "model", "tools", "after", "done"}
    /\ group \subseteq DOMAIN batch
    /\ status \in Seq(Results \cup {"waiting", "authorizing", "running"})
    /\ DOMAIN status = DOMAIN batch
    /\ plan.phase \in {"formal", "checklist", "implementation"}
    /\ todo \in {"none", "open", "checked"}

Active(i) == status[i] \in {"authorizing", "running"}

(* A call that is not parallel-safe runs alone and in the model's order:    *)
(* everything before it is finished and nothing after it has begun, and one *)
(* authorisation at most is open, for the call that waits for it            *)
(* (toolexec's groups, the decorator's serial registry).                    *)
CallsRunInOrder ==
    /\ TypeOK
    /\ \A i, j \in DOMAIN batch :
          i < j /\ status[j] # "waiting" =>
             \/ Finished(i)
             \/ ParallelSafe(batch[i].tool) /\ ParallelSafe(batch[j].tool)
    /\ auth.stage # "idle" <=> \E i \in DOMAIN batch : status[i] = "authorizing"
    /\ \A i \in DOMAIN batch : status[i] = "authorizing" => auth.call = batch[i]

(* Whatever the user does to the mode, the grants and the run meanwhile, an *)
(* authorisation is granted only to a call that is harmless, or runs in a   *)
(* mode of full access, or lies in the exact scope of a session approval    *)
(* that was not cleared since, or that the user or, in approve mode and     *)
(* within the risk gate, the reviewer allowed (Coordinator.authorize).      *)
NothingRunsUnapproved ==
    [][auth.stage # "allowed" /\ auth'.stage = "allowed" => Warranted(auth')]_vars

(* In a Formal Plan run a tool that changes the workspace starts only after *)
(* the user approved a plan and, in a later turn, the checklist was written,*)
(* and that turn is over (planruntime.Lifecycle and the frozen surfaces).   *)
PlanGatesWork ==
    [][\A i \in DOMAIN batch :
          /\ kind = "formal"
          /\ batch[i].tool \in {"write_file", "edit_file", "delegate_task", "mcp_tool"}
          /\ i \in DOMAIN status' /\ status[i] # "running" /\ status'[i] = "running"
          => 0 < hist.approved /\ hist.approved < hist.written /\ hist.written < turn]_vars

(* A run completes only when its gates are satisfied: a Formal Plan run has *)
(* an approved plan and a checklist written after it, and unchecked items   *)
(* remain only if the run wrote TODO.md itself (turnpolicy.AfterModel).     *)
CompletionIsEarned ==
    outcome = "completed" =>
       /\ kind = "formal" => 0 < hist.approved /\ hist.approved < hist.written
       /\ todo = "open" => hist.written > 0

(* Cancelling a run ends it: no review, no request for approval and no tool *)
(* keeps it, and the model is not called again.                             *)
CancelledRunEnds == ctxDead ~> pc = "done"

=============================================================================
