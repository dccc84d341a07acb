------------------------------ MODULE ChildRun ------------------------------
(***************************************************************************)
(* Delegated runs: delegate_task (internal/subagent/tool.go), the adapter  *)
(* that composes a child's runtime (internal/childruntime/runner.go) and   *)
(* ChildRunner.Run (internal/runtime/child_runner.go), over the session    *)
(* lifecycle of AgentSession.  A delegation has a harness, a session and a *)
(* run of its own; the parent's tool call waits for it.                    *)
(*                                                                         *)
(* However the child ends, deferred steps end its processes, retry its     *)
(* terminal write and close its session, each with five seconds, and what  *)
(* fails there changes the outcome that the parent sees.                   *)
(***************************************************************************)
EXTENDS AgentSession

CONSTANTS
    Delegations,   \* calls of delegate_task; each is its session and its run
    ChildSession,  \* delegation -> AgentSession
    ChildCall,     \* delegation -> run
    ExternalTools, \* tools of the parent's MCP servers
    TrustedReaders,\* those classified as read-only
    ParentSurfaces \* the tool sets a parent run may have been narrowed to

\* Each delegation has a session, a stored session and a run of its own; the names of
\* MCP tools carry their server's prefix, so that delegate_task is none of them.
ASSUME ChildAssumption ==
    /\ ChildSession \in [Delegations -> Sessions]
    /\ ChildCall \in [Delegations -> Runs]
    /\ \A d, e \in Delegations :
          IdOf[ChildSession[d]] = IdOf[ChildSession[e]] \/ ChildCall[d] = ChildCall[e] => d = e
    /\ "delegate_task" \notin ExternalTools \cup TrustedReaders

VARIABLES
    coordination,  \* childruntime.Config: "coordinated", "trusted" or "none"
    parentLive,    \* the parent run's context
    delegation     \* delegation -> its call, from Execute to its result

childVars == <<coordination, parentLive, delegation>>

ChildSessionOf(d) == ChildSession[d]
ChildRunOf(d) == ChildCall[d]
At(d) == delegation[d].at
Step(d, to) == delegation' = [delegation EXCEPT ![d].at = to]

Idle == [at |-> "idle", readOnly |-> TRUE, tools |-> {}, surface |-> {},
         status |-> "start_failed", report |-> FALSE, failures |-> {}, processes |-> FALSE]

ChildInit ==
    /\ coordination \in {"coordinated", "trusted", "none"}
    /\ parentLive = TRUE
    /\ delegation = [d \in Delegations |-> Idle]

-----------------------------------------------------------------------------
(* What a child may use. *)

ChildCeiling == {"bash", "edit_file", "read_file", "write_file"}
ChildReaders == {"bash", "read_file"}

\* Profile.WithExternalCapabilities and Profile.Resolve of the ChildRun profile
Ceiling(readOnly) ==
    IF readOnly THEN ChildReaders \cup TrustedReaders ELSE ChildCeiling \cup ExternalTools

\* Mutant: the read-only flag does not lower the ceiling.
CeilingForAll(readOnly) == ChildCeiling \cup ExternalTools

\* intersectChildTools and narrowTools: the parent's tools, those of its current run and
\* the ceiling.
ResolveChildTools(surface, readOnly) == surface \cap Ceiling(readOnly)

\* childruntime.Runner.DelegationAllowed and PermissionEnforced
PermissionEnforced == coordination = "coordinated"
DelegationAllowed == coordination \in {"coordinated", "trusted"}

-----------------------------------------------------------------------------
(* The call. *)

\* Mutant: a child that had succeeded stays successful.
FailedKeepingSuccess(c, kind) ==
    [c EXCEPT !.failures = @ \cup {kind},
              !.status = IF @ \in {"cancelled", "succeeded"} THEN @ ELSE "failed"]

\* recordChildFailure: a cancelled child stays cancelled.
Failed(c, kind) ==
    [c EXCEPT !.failures = @ \cup {kind},
              !.status = IF @ = "cancelled" THEN @ ELSE "failed"]

\* Execute refuses the call: a task of blanks, or a parent that coordinates no permissions.
Refused(d) ==
    /\ At(d) = "idle" /\ parentLive
    /\ delegation' = [delegation EXCEPT ![d].at = "refused"]
    /\ UNCHANGED <<vars, coordination, parentLive>>

Execute(d) ==
    /\ At(d) = "idle" /\ parentLive
    /\ DelegationAllowed /\ PermissionEnforced
    /\ \E readOnly \in BOOLEAN, surface \in ParentSurfaces :
          delegation' = [delegation EXCEPT ![d] =
              [Idle EXCEPT !.at = "composing", !.readOnly = readOnly, !.surface = surface]]
    /\ UNCHANGED <<vars, coordination, parentLive>>

\* childruntime.Runner.Run: the child's harness, or an error before there is a ChildRunner;
\* then validate and the child's context.
Compose(d) ==
    /\ At(d) = "composing"
    /\ Step(d, "creating")
    /\ UNCHANGED <<vars, coordination, parentLive>>

CannotCompose(d) ==
    /\ At(d) = "composing"
    /\ Step(d, "refused")
    /\ UNCHANGED <<vars, coordination, parentLive>>

\* CreateSession of the child's harness; its services are borrowed from the parent.
CreateSession(d) == At(d) = "creating" /\ Claim(ChildSessionOf(d)) /\ Step(d, "initialising")
                    /\ UNCHANGED <<coordination, parentLive>>

SessionCreated(d) ==
    /\ At(d) = "initialising" /\ InitServices(ChildSessionOf(d))
    /\ delegation' = [delegation EXCEPT ![d].at = "admitting",
          ![d].tools = ResolveChildTools(delegation[d].surface, delegation[d].readOnly)]
    /\ UNCHANGED <<coordination, parentLive>>

\* The directory cannot be made, or its context ended; there is no session to close.
SessionRefused(d) ==
    /\ At(d) = "initialising" /\ InitFails(ChildSessionOf(d))
    /\ delegation' = [delegation EXCEPT ![d].at = "cleanup", ![d].failures = {"start"}]
    /\ UNCHANGED <<coordination, parentLive>>

-----------------------------------------------------------------------------
(* child.Run. *)

BeginChild(d) == At(d) = "admitting" /\ Begin(ChildRunOf(d), ChildSessionOf(d)) /\ Step(d, "running")
                 /\ UNCHANGED <<coordination, parentLive>>

\* BeginRun is cancelled or cannot store the run: there is no run of this child.
ChildNotAdmitted(d) ==
    /\ At(d) = "running"
    /\ \E status \in {"cancelled", "start_failed"} :
          /\ IF status = "cancelled"
             THEN ~parentLive /\ (GiveUp(ChildRunOf(d)) \/ Abandon(ChildRunOf(d)))
             ELSE StartFails(ChildRunOf(d))
          /\ delegation' = [delegation EXCEPT ![d].at = "cleanup",
                ![d].status = status, ![d].failures = {"start"}]
    /\ UNCHANGED <<coordination, parentLive>>

ChildAdmission(d) ==
    /\ At(d) = "running"
    /\ \/ Acquire(ChildRunOf(d)) \/ AcquireCapacity(ChildRunOf(d)) \/ StartRun(ChildRunOf(d))
       \/ Finish(ChildRunOf(d)) \/ ReleaseAdmission(ChildRunOf(d))
    /\ UNCHANGED childVars

\* The child's bash leaves a process behind (SupervisedBash, writable children only).
StartProcess(d) ==
    /\ At(d) = "running" /\ pc[ChildRunOf(d)] = "running"
    /\ "bash" \in delegation[d].tools /\ ~delegation[d].readOnly
    /\ delegation' = [delegation EXCEPT ![d].processes = TRUE]
    /\ UNCHANGED <<vars, coordination, parentLive>>

\* The engine returns its report, or why there is none; a panic, a missing permission
\* scope and any failed assembly are errors as well.  classifyChildOutcome: an expired
\* deadline counts as cancelled, also one of the provider's own.
ChildEnds(d, status) ==
    /\ At(d) = "running" /\ EndRun(ChildRunOf(d))
    /\ delegation' = [delegation EXCEPT ![d].status = status,
          ![d].report = (status = "succeeded"),
          ![d].failures = IF status = "succeeded" THEN {} ELSE {"run"}]
    /\ UNCHANGED <<coordination, parentLive>>

ChildReturns(d) == At(d) = "running" /\ DeliverTerminal(ChildRunOf(d)) /\ Step(d, "cleanup")
                   /\ UNCHANGED <<coordination, parentLive>>

-----------------------------------------------------------------------------
(* The deferred steps.  A step that fails, panics or runs into its five seconds is
   recorded, and the next one is taken. *)

HasSession(d) == life[ChildSessionOf(d)] = "live"

Cleanup(d) ==
    /\ At(d) = "cleanup"
    /\ \E done \in BOOLEAN :
          delegation' = [delegation EXCEPT ![d] =
              [(IF done THEN [@ EXCEPT !.processes = FALSE] ELSE Failed(@, "cleanup"))
                 EXCEPT !.at = IF HasSession(d) THEN "recovering" ELSE "done"]]
    /\ UNCHANGED <<vars, coordination, parentLive>>

\* RecoverRunFinish: nothing to do, or the terminal write again.
RecoverChild(d) ==
    LET r == ChildRunOf(d)
        wrote == record'[r] = "finished"
    IN  /\ At(d) = "recovering"
        /\ IF recovery[ChildSessionOf(d)] = None THEN UNCHANGED vars
           ELSE WriteFinish(r) /\ UNCHANGED <<limiter, owner, pc, gate, recoverer, leaseVars>>
        /\ delegation' = [delegation EXCEPT ![d] =
              [(IF recovery[ChildSessionOf(d)] = None \/ wrote THEN @ ELSE Failed(@, "persistence"))
                 EXCEPT !.at = "closing"]]
        /\ UNCHANGED <<coordination, parentLive>>

\* Mutant: a child whose end is not stored is not closed.
CloseChildRecovered(d) == At(d) = "closing" /\ recovery[ChildSessionOf(d)] = None
                          /\ Close(ChildSessionOf(d)) /\ Step(d, "releasing")
                          /\ UNCHANGED <<coordination, parentLive>>

CloseChild(d) == At(d) = "closing" /\ Close(ChildSessionOf(d)) /\ Step(d, "releasing")
                 /\ UNCHANGED <<coordination, parentLive>>

\* Closing borrowed services leaves the parent's connections alone.
ChildClosed(d) ==
    LET s == ChildSessionOf(d)
    IN  /\ At(d) = "releasing" /\ CloseServices(s) /\ cleanupErr' = cleanupErr
        /\ delegation' = [delegation EXCEPT ![d] =
              [(IF recovery[s] = None THEN @ ELSE Failed(@, "cleanup")) EXCEPT !.at = "done"]]
        /\ UNCHANGED <<coordination, parentLive>>

\* What delegate_task answers: the report, or the failed outcome.
Reply(d) == IF delegation[d].failures = {} THEN "report" ELSE "failure"

\* The parent's run is cancelled, and every child's context with it.
ParentCancelled ==
    /\ parentLive /\ parentLive' = FALSE
    /\ UNCHANGED <<vars, coordination, delegation>>

-----------------------------------------------------------------------------

ChildStep(d) ==
    \/ Compose(d) \/ CreateSession(d) \/ SessionCreated(d) \/ BeginChild(d) \/ ChildNotAdmitted(d)
    \/ ChildAdmission(d) \/ ChildReturns(d)
    \/ ~parentLive /\ ChildEnds(d, "cancelled")
    \/ Cleanup(d) \/ RecoverChild(d) \/ CloseChild(d) \/ ChildClosed(d)

ChildNext ==
    \/ \E d \in Delegations :
          \/ Refused(d) \/ Execute(d) \/ CannotCompose(d) \/ SessionRefused(d) \/ StartProcess(d) \/ ChildStep(d)
          \/ \E status \in {"succeeded", "failed", "turn_exhausted", "cancelled"} : ChildEnds(d, status)
    \/ ParentCancelled

\* The goroutine of the call is scheduled, and a run whose context ended returns.
ChildFairness == \A d \in Delegations : WF_<<vars, childVars>>(ChildStep(d))

ChildSpec == Init /\ ChildInit /\ [][ChildNext]_<<vars, childVars>> /\ ChildFairness

-----------------------------------------------------------------------------

\* A child never exceeds its parent: its tools are tools of the parent's own run, reading
\* ones if it was asked to read, and delegating is not among them.
ChildIsNarrower ==
    \A d \in Delegations :
        LET c == delegation[d]
        IN  /\ c.tools \subseteq c.surface /\ "delegate_task" \notin c.tools
            /\ c.readOnly => c.tools \subseteq {"bash", "read_file"} \cup TrustedReaders
            /\ c.processes => ~c.readOnly

\* What the parent is told is what is left behind: success means a stored end, no process
\* and no open session, and a session that could not be closed is a failure it sees.
OutcomeIsTrue ==
    \A d \in Delegations : At(d) = "done" =>
        LET c == delegation[d]  s == ChildSessionOf(d)  r == ChildRunOf(d)
        IN  /\ c.status = "succeeded" <=> Reply(d) = "report"
            /\ c.status = "succeeded" =>
                  c.report /\ record[r] = "finished" /\ ~c.processes /\ life[s] = "closed"
            /\ c.processes => "cleanup" \in c.failures
            /\ record[r] = "started" => "persistence" \in c.failures
            /\ life[s] # "closed" => IdOf[s] \in open /\ recovery[s] = r
            /\ IdOf[s] \in open => life[s] = "live"

\* Delegation neither widens what a run may do nor hides what became of it.
ChildIsContained == ChildIsNarrower /\ OutcomeIsTrue

\* Once the parent is cancelled every child it started comes back, whatever fails.
ChildrenEnd ==
    \A d \in Delegations :
        ~parentLive /\ At(d) # "idle" ~> At(d) \in {"done", "refused"}
=============================================================================
