--------------------------- MODULE ApprovalStore ---------------------------
(***************************************************************************)
(* Remote approvals (internal/approval/approval.go), as the Feishu         *)
(* permission port and the /webhook/approval handler use them: Wait        *)
(* registers a request, tells the operator and blocks; Resolve delivers    *)
(* the operator's verdict from another goroutine; a timeout and the        *)
(* cancellation of the run race with it.                                   *)
(***************************************************************************)
EXTENDS Naturals, FiniteSets

CONSTANTS
    Waits,       \* calls of Store.Wait
    Callbacks,   \* calls of Store.Resolve
    Ids,         \* approval IDs
    RequestId,   \* the ID a Wait registers
    CallbackId,  \* the ID a callback names
    Verdict,     \* the verdict a callback carries, "allow" or "deny"
    Nothing

Verdicts == {"allow", "deny"}
Fallbacks == {"timeout", "cancelled", "sendFailed"}
Results == Verdicts \cup Fallbacks \cup {"conflict"}
Statuses == {"204", "404", "409"}

ASSUME ApprovalAssumption ==
    /\ RequestId \in [Waits -> Ids]
    /\ CallbackId \in [Callbacks -> Ids]
    /\ Verdict \in [Callbacks -> Verdicts]
    /\ Nothing \notin Waits \cup Callbacks \cup Results \cup Statuses

VARIABLES
    waiting,    \* Store.waiting: ID -> the pendingApproval of a Wait, Nothing when absent
    verdict,    \* pendingApproval.result, Nothing until resolved (done is closed with it)
    at,         \* where each Wait is
    fallback,   \* what finishWait returns for a request nobody resolved
    result,     \* what each Wait returned
    answer,     \* what each callback was answered: its HTTP status
    claim       \* history: the Wait a successful callback resolved

approvalVars == <<waiting, verdict, at, fallback, result, answer, claim>>

ApprovalTypeOK ==
    /\ waiting \in [Ids -> Waits \cup {Nothing}]
    /\ verdict \in [Waits -> Verdicts \cup {Nothing}]
    /\ at \in [Waits -> {"new", "sending", "blocked", "finishing", "returned"}]
    /\ fallback \in [Waits -> Fallbacks \cup {Nothing}]
    /\ result \in [Waits -> Results \cup {Nothing}]
    /\ answer \in [Callbacks -> Statuses \cup {Nothing}]
    /\ claim \in [Callbacks -> Waits \cup {Nothing}]

ApprovalInit ==
    /\ waiting = [i \in Ids |-> Nothing]
    /\ verdict = [w \in Waits |-> Nothing]
    /\ at = [w \in Waits |-> "new"]
    /\ fallback = [w \in Waits |-> Nothing]
    /\ result = [w \in Waits |-> Nothing]
    /\ answer = [c \in Callbacks |-> Nothing]
    /\ claim = [c \in Callbacks |-> Nothing]

-----------------------------------------------------------------------------
(* Wait. *)

Return(w, value) ==
    /\ at' = [at EXCEPT ![w] = "returned"]
    /\ result' = [result EXCEPT ![w] = value]

\* The context is done before anything is registered.
RefuseCancelled(w) ==
    /\ at[w] = "new"
    /\ Return(w, "cancelled")
    /\ UNCHANGED <<waiting, verdict, fallback, answer, claim>>

RefuseConflict(w) ==
    /\ at[w] = "new" /\ waiting[RequestId[w]] # Nothing
    /\ Return(w, "conflict")
    /\ UNCHANGED <<waiting, verdict, fallback, answer, claim>>

Register(w) ==
    /\ at[w] = "new" /\ waiting[RequestId[w]] = Nothing
    /\ waiting' = [waiting EXCEPT ![RequestId[w]] = w]
    /\ at' = [at EXCEPT ![w] = "sending"]
    /\ UNCHANGED <<verdict, fallback, result, answer, claim>>

\* send returned nil: the select starts.
Sent(w) ==
    /\ at[w] = "sending"
    /\ at' = [at EXCEPT ![w] = "blocked"]
    /\ UNCHANGED <<waiting, verdict, fallback, result, answer, claim>>

\* The wait is over for one reason; finishWait has not taken the mutex yet, so a
\* callback may still come first.
Leave(w, from, reason) ==
    /\ at[w] = from
    /\ at' = [at EXCEPT ![w] = "finishing"]
    /\ fallback' = [fallback EXCEPT ![w] = reason]
    /\ UNCHANGED <<waiting, verdict, result, answer, claim>>

\* Mutant: there is no timer.
NeverTimesOut(w) == FALSE /\ Leave(w, "blocked", "timeout")

SendFails(w) == Leave(w, "sending", "sendFailed")

TimesOut(w) == Leave(w, "blocked", "timeout")

IsCancelled(w) == Leave(w, "blocked", "cancelled")
Wakes(w) == verdict[w] # Nothing /\ Leave(w, "blocked", Nothing)

\* Mutant: the reason the wait ended for wins over a verdict that came meanwhile.
FinishPreferringFallback(w) ==
    /\ at[w] = "finishing"
    /\ waiting' = [waiting EXCEPT ![RequestId[w]] = Nothing]
    /\ Return(w, IF fallback[w] = Nothing THEN verdict[w] ELSE fallback[w])
    /\ UNCHANGED <<verdict, fallback, answer, claim>>

\* finishWait
FinishWait(w) ==
    /\ at[w] = "finishing"
    /\ IF waiting[RequestId[w]] # w
       THEN Return(w, fallback[w]) /\ UNCHANGED waiting
       ELSE /\ waiting' = [waiting EXCEPT ![RequestId[w]] = Nothing]
            /\ Return(w, IF verdict[w] # Nothing THEN verdict[w] ELSE fallback[w])
    /\ UNCHANGED <<verdict, fallback, answer, claim>>

-----------------------------------------------------------------------------
(* Resolve, and the status handleApprovalCallback answers. *)

Answer(c, status) == answer' = [answer EXCEPT ![c] = status]

Resolve(c) ==
    LET w == waiting[CallbackId[c]]
    IN  /\ answer[c] = Nothing /\ w # Nothing
        /\ verdict[w] = Nothing
        /\ verdict' = [verdict EXCEPT ![w] = Verdict[c]]
        /\ claim' = [claim EXCEPT ![c] = w]
        /\ Answer(c, "204")
        /\ UNCHANGED <<waiting, at, fallback, result>>

ResolveConflict(c) ==
    LET w == waiting[CallbackId[c]]
    IN  /\ answer[c] = Nothing /\ w # Nothing
        /\ verdict[w] # Nothing
        /\ Answer(c, "409")
        /\ UNCHANGED <<waiting, verdict, at, fallback, result, claim>>

ResolveUnknown(c) ==
    /\ answer[c] = Nothing
    /\ waiting[CallbackId[c]] = Nothing
    /\ Answer(c, "404")
    /\ UNCHANGED <<waiting, verdict, at, fallback, result, claim>>

ApprovalNext ==
    \/ \E w \in Waits :
          \/ RefuseCancelled(w) \/ RefuseConflict(w) \/ Register(w)
          \/ Sent(w) \/ SendFails(w) \/ TimesOut(w) \/ IsCancelled(w) \/ Wakes(w)
          \/ FinishWait(w)
    \/ \E c \in Callbacks : Resolve(c) \/ ResolveConflict(c) \/ ResolveUnknown(c)

\* The send returns, the five-minute timer fires, goroutines run.
ApprovalFairness ==
    \A w \in Waits :
        WF_approvalVars(Sent(w) \/ SendFails(w) \/ TimesOut(w) \/ Wakes(w) \/ FinishWait(w))

ApprovalSpec == ApprovalInit /\ [][ApprovalNext]_approvalVars /\ ApprovalFairness

-----------------------------------------------------------------------------

\* A verdict that was accepted with 204 is the one its Wait returns, even when the
\* timeout or the cancellation of the run had already ended the wait (finishWait).
AcceptedVerdictWins ==
    \A c \in Callbacks :
        answer[c] = "204" =>
            /\ claim[c] # Nothing
            /\ at[claim[c]] = "returned" => result[claim[c]] = Verdict[c]

\* Exactly once: no request is resolved by two callbacks (Resolve's conflict check).
ResolvedOnce ==
    \A c, d \in Callbacks : claim[c] = claim[d] /\ claim[c] # Nothing => c = d

\* The remote approval fails closed: a tool call is allowed only when a callback for
\* this very request said so, never by a timeout, a cancellation or a late verdict for
\* an earlier request under the same ID.
AllowedByOperator ==
    \A w \in Waits :
        result[w] = "allow" =>
            \E c \in Callbacks : claim[c] = w /\ answer[c] = "204" /\ Verdict[c] = "allow"

\* Both directions of Wait's answer: an accepted verdict is what it returns, and only an
\* accepted verdict allows.
VerdictsAreHonoured == AcceptedVerdictWins /\ AllowedByOperator

\* The map holds exactly the requests that have not returned, each under its own ID: no
\* pending record is leaked, and none that somebody waits for is lost.
WaitingIsExact ==
    \A w \in Waits :
        at[w] \in {"sending", "blocked", "finishing"} <=>
            \E i \in Ids : waiting[i] = w

\* A wait that was registered returns.
WaitReturns == \A w \in Waits : at[w] = "sending" ~> at[w] = "returned"
=============================================================================
