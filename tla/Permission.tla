----------------------------- MODULE Permission -----------------------------
(***************************************************************************)
(* Authorisation of tool calls: the permission state of the process (mode  *)
(* and session grants, internal/permission/state.go), the classification   *)
(* of one call by its tool's own assessment (policy.go, tools/permission), *)
(* the model-backed reviewer with its bounded attempts (reviewer.go), and  *)
(* the coordinator that puts them together and asks the user               *)
(* (coordinator.go, interactionruntime/adapters.go, permission_bridge.go). *)
(*                                                                         *)
(* A call is a record [tool, arg]; arg is the class of its arguments that  *)
(* the assessment tells apart.  The coordinator holds its mutex for the    *)
(* whole of Authorize, so one authorisation is in progress at a time and   *)
(* `auth` is its local state.  The user can change the mode and clear the  *)
(* grants at any step of it, and cancel the run (`ctxDead`).               *)
(***************************************************************************)
EXTENDS Naturals, FiniteSets

CONSTANTS
    ReviewerAttempts,    \* logical review attempts, reviewerAttempts in the code
    Verdicts,            \* the complete verdicts a reviewer may give
    MaxModeChanges       \* bound: how often the user changes the mode or clears grants

ASSUME ReviewerAttemptsAssumption == ReviewerAttempts \in Nat \ {0}

Risks == {"low", "medium", "high", "critical"}
Authorizations == {"high", "medium", "low", "unknown"}

ASSUME VerdictsAssumption ==
    Verdicts \subseteq [decision : {"approve", "escalate"}, risk : Risks,
                        authorization : Authorizations]

VARIABLES
    effective,     \* the effective mode of the permission state
    grants,        \* keys of the session grants
    auth,          \* the authorisation in progress
    modeChanges,   \* bounds the user's changes of the state
    sessionYes,    \* history: calls the user allowed for the session, not cleared since
    ctxDead        \* the run's context is cancelled

permissionVars == <<effective, grants, auth, modeChanges, sessionYes, ctxDead>>

Modes == {"ask", "approve", "full_access"}
Decisions == {"allow_once", "allow_session", "deny", "deny_feedback"}

-----------------------------------------------------------------------------
(* Assessments. *)

Assessment(behavior, effects, scope, readOnly, nested, commands) ==
    [behavior |-> behavior, effects |-> effects, scope |-> scope,
     readOnly |-> readOnly, nested |-> nested, commands |-> commands]

HumanOnlyAssessment ==
    Assessment("human_only", {"unknown"}, "unknown", FALSE, FALSE, FALSE)

AssessFileCall(arg, effect, readOnly) ==
    CASE arg = "inside" ->
           Assessment("fast_allow", {effect}, "workspace", readOnly, FALSE, FALSE)
      [] arg \in {"outside", "elsewhere"} ->
           Assessment("reviewable", {effect}, "external", readOnly, FALSE, FALSE)
      [] OTHER -> HumanOnlyAssessment       \* no path, or its scope could not be proven

AssessBash(arg) ==
    CASE arg = "readonly" ->
           Assessment("fast_allow", {"execute"}, "workspace", TRUE, FALSE, TRUE)
      [] arg = "writes" ->
           Assessment("reviewable", {"execute"}, "mixed", FALSE, FALSE, TRUE)
      [] OTHER -> HumanOnlyAssessment       \* the command does not parse

TrustedSessionAssessment(effect) ==
    Assessment("fast_allow", {effect}, "workspace", effect = "observe", FALSE, FALSE)

AssessDelegation(arg) ==
    CASE arg = "readonly" ->
           Assessment("reviewable", {"delegate"}, "workspace", TRUE, TRUE, FALSE)
      [] arg = "writable" ->
           Assessment("reviewable", {"delegate"}, "workspace", FALSE, TRUE, FALSE)
      [] OTHER -> HumanOnlyAssessment       \* no task, or no nested enforcement

(* What the registry reports for a call: the tool's own assessment, or the *)
(* fail-closed one for a tool that declares none (an MCP tool).            *)
Assess(call) ==
    CASE call.tool = "read_file" -> AssessFileCall(call.arg, "observe", TRUE)
      [] call.tool \in {"write_file", "edit_file"} ->
           AssessFileCall(call.arg, "mutate", FALSE)
      [] call.tool = "bash" -> AssessBash(call.arg)
      [] call.tool = "ask_user_question" -> TrustedSessionAssessment("interact")
      [] call.tool = "read_todo" -> TrustedSessionAssessment("observe")
      [] call.tool \in {"update_todo", "submit_plan"} -> TrustedSessionAssessment("workflow")
      [] call.tool = "delegate_task" -> AssessDelegation(call.arg)
      [] OTHER -> HumanOnlyAssessment

KnownEffects == {"observe", "mutate", "execute", "network", "delegate", "workflow", "interact"}

InvalidAssessment(a) ==
    \/ a.effects = {}
    \/ a.scope \notin {"workspace", "external", "mixed"}
    \/ a.behavior = "fast_allow" /\ a.scope # "workspace"
    \/ ~ a.effects \subseteq KnownEffects
    \/ "mutate" \in a.effects /\ a.readOnly
    \/ "delegate" \in a.effects /\ ~a.nested
    \/ "execute" \in a.effects /\ ~a.commands

(* The deterministic path of a call: an invalid assessment goes to the user. *)
Classify(call) ==
    LET a == Assess(call) IN
    IF a.behavior \in {"fast_allow", "reviewable"} /\ ~InvalidAssessment(a)
    THEN a.behavior ELSE "human_only"

(* Mutant of GrantKey: the grant forgets the exact target. *)
ToolGrantKey(call) ==
    [kind |-> IF call.tool \in {"write_file", "edit_file"} THEN "mutate_file" ELSE call.tool,
     target |-> "any"]

(* Two calls share a session grant when their keys agree: writes and edits *)
(* of one file do, a read of it does not.                                  *)
GrantKey(call) ==
    [kind |-> IF call.tool \in {"write_file", "edit_file"} THEN "mutate_file" ELSE call.tool,
     target |-> call.arg]

MatchingGrant(call) == GrantKey(call) \in grants

-----------------------------------------------------------------------------
(* The permission state, changed by the user between any two steps. *)

NewState(selected, fullRemembered) ==
    IF selected = "full_access" /\ ~fullRemembered THEN "ask" ELSE selected

(* Full access takes effect once its warning is confirmed (now, or earlier *)
(* with "remember"); until then the effective mode is ask.                  *)
SetMode(mode, confirm) ==
    /\ modeChanges < MaxModeChanges
    /\ mode # effective
    /\ effective' = IF mode = "full_access" THEN IF confirm THEN mode ELSE "ask" ELSE mode
    /\ modeChanges' = modeChanges + 1
    /\ UNCHANGED <<grants, auth, sessionYes, ctxDead>>

(* `/permissions clear`, and the start of a new session. *)
ClearGrants ==
    /\ modeChanges < MaxModeChanges
    /\ grants # {}
    /\ grants' = {}
    /\ sessionYes' = {}
    /\ modeChanges' = modeChanges + 1
    /\ UNCHANGED <<effective, auth, ctxDead>>

CancelRun ==
    /\ ~ctxDead
    /\ ctxDead' = TRUE
    /\ UNCHANGED <<effective, grants, auth, modeChanges, sessionYes>>

-----------------------------------------------------------------------------
(* The coordinator's Authorize. *)

NoCall == [tool |-> "none", arg |-> "none"]
NoVerdict == [decision |-> "none", risk |-> "low", authorization |-> "unknown"]

Idle == [stage |-> "idle", call |-> NoCall, mode |-> "ask", attempt |-> 0,
         last |-> NoVerdict, verdict |-> NoVerdict, answer |-> "none"]

(* Snapshot reads the mode; the grants are read by a later lock. *)
BeginAuthorize(call) ==
    /\ auth.stage = "idle"
    /\ auth' = [Idle EXCEPT !.stage = "snapshot", !.call = call, !.mode = effective]

(* The decision after the snapshot: full access and the fast path run, a   *)
(* grant runs, the approve mode reviews what a human need not see.         *)
RouteOf(mode, call) ==
    IF mode = "full_access" \/ Classify(call) = "fast_allow" \/ MatchingGrant(call)
    THEN "allowed"
    ELSE IF mode = "approve" /\ Classify(call) # "human_only" THEN "review" ELSE "ask"

Route ==
    /\ auth.stage = "snapshot"
    /\ auth' = [auth EXCEPT !.stage = RouteOf(auth.mode, auth.call)]
    /\ UNCHANGED <<effective, grants, modeChanges, sessionYes, ctxDead>>

(* The local gate on a reviewer's approval. *)
ReviewerApprovalAllowed(v) ==
    \/ v.risk \in {"low", "medium"}
    \/ v.risk = "high" /\ v.authorization \in {"high", "medium"}

(* A complete verdict ends the review: approved through the gate, or asked. *)
Settled(v) ==
    IF v.decision = "approve" /\ ReviewerApprovalAllowed(v)
    THEN [auth EXCEPT !.stage = "allowed", !.last = NoVerdict, !.verdict = v]
    ELSE [auth EXCEPT !.stage = "ask", !.last = NoVerdict]

(* A failed attempt: the next one, or what the last malformed response     *)
(* still tells, or the user.                                               *)
NextAttempt(last) ==
    IF auth.attempt + 1 < ReviewerAttempts
    THEN [auth EXCEPT !.attempt = @ + 1, !.last = last]
    ELSE IF last # NoVerdict THEN Settled(last)
         ELSE [auth EXCEPT !.stage = "ask", !.last = NoVerdict]

ReviewAnswered(v) == auth.stage = "review" /\ auth' = Settled(v)

(* The response does not parse; its enumerated fields may be salvageable   *)
(* when no later attempt does better.                                      *)
ReviewMalformed(salvage) ==
    auth.stage = "review" /\ auth' = NextAttempt(salvage)

(* No provider, or the call failed while there is time left. *)
ReviewFailed == auth.stage = "review" /\ auth' = NextAttempt(auth.last)

(* The 90 seconds are over, or the run is cancelled: no further attempt. *)
ReviewStopped ==
    auth.stage = "review" /\ auth' = [auth EXCEPT !.stage = "ask", !.last = NoVerdict]

ReviewStep ==
    /\ \/ \E v \in Verdicts : ReviewAnswered(v)
       \/ \E v \in Verdicts \cup {NoVerdict} : ReviewMalformed(v)
       \/ ReviewFailed
       \/ ReviewStopped
    /\ UNCHANGED <<effective, grants, modeChanges, sessionYes, ctxDead>>

(* Mutant of AskStopped: the request waits for the user only. *)
AskWaitsForUser == FALSE /\ UNCHANGED permissionVars

(* RequestPermission returns the context's error when the run is cancelled *)
(* before an answer; the answer wins when both are there.                  *)
AskStopped ==
    /\ auth.stage = "ask"
    /\ ctxDead
    /\ auth' = [auth EXCEPT !.stage = "denied"]
    /\ UNCHANGED <<effective, grants, modeChanges, sessionYes, ctxDead>>

Answered(decision) ==
    [auth EXCEPT !.answer = decision,
                 !.stage = IF decision \in {"allow_once", "allow_session"}
                           THEN "allowed" ELSE "denied"]

UserAnswers(decision) ==
    /\ auth.stage = "ask"
    /\ auth' = Answered(decision)
    /\ grants' = IF decision = "allow_session" THEN grants \cup {GrantKey(auth.call)} ELSE grants
    /\ sessionYes' = IF decision = "allow_session" THEN sessionYes \cup {auth.call} ELSE sessionYes
    /\ UNCHANGED <<effective, modeChanges, ctxDead>>

AuthorizeStep == Route \/ ReviewStep \/ AskStopped \/ (\E d \in Decisions : UserAnswers(d))

UserStep ==
    \/ \E mode \in Modes, confirm \in BOOLEAN : SetMode(mode, confirm)
    \/ ClearGrants
    \/ CancelRun

-----------------------------------------------------------------------------
(* What may let a call run. *)

(* The calls that need nobody's word: file work inside the workspace, shell *)
(* commands proven read-only, and the session's own tools.                  *)
Harmless(call) ==
    \/ call.tool \in {"read_file", "write_file", "edit_file"} /\ call.arg = "inside"
    \/ call.tool = "bash" /\ call.arg = "readonly"
    \/ call.tool \in {"ask_user_question", "read_todo", "update_todo", "submit_plan"}

(* Writing and editing one file is one permission. *)
SameScope(c, d) ==
    c = d \/ ({c.tool, d.tool} \subseteq {"write_file", "edit_file"} /\ c.arg = d.arg)

HumanOnly(call) ==
    \/ call.tool = "mcp_tool"
    \/ call.arg \in {"unproven", "unparsed", "bare"}

Warranted(a) ==
    \/ Harmless(a.call)
    \/ a.mode = "full_access"
    \/ \E c \in sessionYes : SameScope(c, a.call)
    \/ a.answer \in {"allow_once", "allow_session"}
    \/ /\ a.mode = "approve" /\ ~HumanOnly(a.call)
       /\ a.verdict.decision = "approve" /\ a.verdict.risk # "critical"
       /\ a.verdict.risk = "high" => a.verdict.authorization \in {"high", "medium"}

=============================================================================
