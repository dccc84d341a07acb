------------------------- MODULE FeishuConversation -------------------------
(***************************************************************************)
(* One Feishu conversation (chat and user) of cmd/feishu: the live         *)
(* AgentSession that PrepareTask keeps between messages, replaces on an    *)
(* explicit /new, and that the factory's Close releases at shutdown        *)
(* (live_sessions.go, PrepareTask in runtime_execution.go), composed with  *)
(* the runtime's session lifecycle (AgentSession).                         *)
(*                                                                         *)
(* A task is the run of the same name.  The runner starts a task of a      *)
(* conversation when the previous one ended (taskScheduler); the factory's *)
(* Close may come while a task that outlived the drain timeout is active   *)
(* (serve in main.go).  Each live session has a harness of its own.        *)
(***************************************************************************)
EXTENDS AgentSession

CONSTANT Factory   \* the holder of the slot during the factory's Close

ASSUME FactoryAssumption == Factory \notin Runs \cup {None}

VARIABLES
    live,       \* feishuLiveSession.session
    slot,       \* who holds feishuLiveSession.gate
    task,       \* where each task is in PrepareTask, Run and Drain
    shut,       \* progress of closeFeishuSession for the holder of the slot
    shutErr,    \* the error it returns so far
    factory     \* open, closing (closed is set), shutting, done or failed

convVars == <<live, slot, task, shut, shutErr, factory>>
sessionVars == <<gate, recovery, recoverer, leaseVars, runVars>>

ConvTypeOK ==
    /\ TypeOK
    /\ live \in Sessions \cup {None}
    /\ slot \in Runs \cup {Factory, None}
    /\ task \in [Runs -> {"new", "entering", "preparing", "replacing", "opening",
                          "opened", "prepared", "running", "end"}]
    /\ shut \in {"idle", "recover", "close", "services", "done"}
    /\ shutErr \in BOOLEAN
    /\ factory \in {"open", "closing", "shutting", "done", "failed"}

ConvInit ==
    /\ Init
    /\ live = None /\ slot = None
    /\ task = [t \in Runs |-> "new"]
    /\ shut = "idle" /\ shutErr = FALSE
    /\ factory = "open"

Goto(t, step) == task' = [task EXCEPT ![t] = step]

-----------------------------------------------------------------------------
(* conversation: the factory is looked at, the slot waited for, the factory looked at
   again. *)

Enter(t) ==
    /\ task[t] = "new" /\ \A u \in Runs : task[u] \in {"new", "end"}
    /\ Goto(t, IF factory = "open" THEN "entering" ELSE "end")
    /\ UNCHANGED <<live, slot, shut, shutErr, factory, sessionVars>>

\* The task's context ends while it waits for the slot.
EnterCancelled(t) ==
    /\ task[t] = "entering" /\ Goto(t, "end")
    /\ UNCHANGED <<live, slot, shut, shutErr, factory, sessionVars>>

Lock(t) ==
    /\ task[t] = "entering" /\ slot = None
    /\ IF factory = "open" THEN slot' = t /\ Goto(t, "preparing")
       ELSE UNCHANGED slot /\ Goto(t, "end")
    /\ UNCHANGED <<live, shut, shutErr, factory, sessionVars>>

-----------------------------------------------------------------------------
(* closeFeishuSession, for a /new task or for the factory: RecoverRunFinish, then Close. *)

BeginShut == shut' = "recover" /\ shutErr' = FALSE

ShutRecover ==
    LET r == recovery[live]
    IN  /\ shut = "recover" /\ shut' = "close"
        /\ IF r = None THEN UNCHANGED <<shutErr, record, recovery>>
           ELSE /\ pc[r] # "finishing"
                /\ WriteFinish(r)
                /\ shutErr' = (record'[r] # "finished")
        /\ UNCHANGED <<live, slot, task, factory, limiter, owner, pc,
                       gate, recoverer, leaseVars>>

\* Close of a live session, or of one that is closed already (which returns nil).
ShutClose ==
    /\ shut = "close"
    /\ \/ /\ Close(live)
          /\ shut' = "services"
          /\ shutErr' = (shutErr \/ recovery[live] # None)
       \/ /\ life[live] = "closed" /\ gate[live]
          /\ shut' = "done"
          /\ UNCHANGED <<shutErr, sessionVars>>
    /\ UNCHANGED <<live, slot, task, factory>>

\* A run holds the session for longer than the close timeout.
ShutTimesOut ==
    /\ shut = "close" /\ ~gate[live]
    /\ shut' = "done" /\ shutErr' = TRUE
    /\ UNCHANGED <<live, slot, task, factory, sessionVars>>

ShutServices ==
    /\ shut = "services" /\ CloseServices(live)
    /\ shut' = "done" /\ shutErr' = (shutErr \/ cleanupErr'[live])
    /\ UNCHANGED <<live, slot, task, factory>>

-----------------------------------------------------------------------------
(* PrepareTask with the slot held. *)

\* The message asks for a new session while one is live.
ForceNew(t) ==
    /\ slot = t /\ task[t] = "preparing" /\ shut = "idle" /\ live # None
    /\ BeginShut
    /\ UNCHANGED <<live, slot, task, factory, sessionVars>>

\* Mutant: a close that failed does not keep the conversation from a new session.
ReplaceAnyway(t) ==
    /\ slot = t /\ shut = "done" /\ shut' = "idle"
    /\ live' = None /\ UNCHANGED slot /\ Goto(t, "replacing")
    /\ UNCHANGED <<shutErr, factory, sessionVars>>

\* Mutant: the early return leaves the slot locked.
ReplaceKeepingSlot(t) ==
    /\ slot = t /\ shut = "done" /\ shut' = "idle"
    /\ IF shutErr THEN UNCHANGED <<live, slot>> /\ Goto(t, "end")
       ELSE live' = None /\ UNCHANGED slot /\ Goto(t, "replacing")
    /\ UNCHANGED <<shutErr, factory, sessionVars>>

\* The error of closeFeishuSession ends PrepareTask; live.session stays as it is.
Replace(t) ==
    /\ slot = t /\ shut = "done" /\ shut' = "idle"
    /\ IF shutErr THEN UNCHANGED live /\ slot' = None /\ Goto(t, "end")
       ELSE live' = None /\ UNCHANGED slot /\ Goto(t, "replacing")
    /\ UNCHANGED <<shutErr, factory, sessionVars>>

\* The context ended, the stored session could not be selected, or (with a live session
\* or a new one) the application could not be built.
PrepareFails(t) ==
    /\ slot = t /\ task[t] \in {"preparing", "replacing", "opened"} /\ shut = "idle"
    /\ slot' = None /\ Goto(t, "end")
    /\ UNCHANGED <<live, shut, shutErr, factory, sessionVars>>

\* OpenSession on a harness of its own, when there is no live session.
Open(t, s) ==
    /\ slot = t /\ task[t] \in {"preparing", "replacing"} /\ shut = "idle" /\ live = None
    /\ Claim(s) /\ Goto(t, "opening")
    /\ UNCHANGED <<live, slot, shut, shutErr, factory>>

Opened(t, s) ==
    /\ slot = t /\ task[t] = "opening"
    /\ \/ InitServices(s) /\ live' = s /\ UNCHANGED slot /\ Goto(t, "opened")
       \/ InitFails(s) /\ slot' = None /\ UNCHANGED live /\ Goto(t, "end")
    /\ UNCHANGED <<shut, shutErr, factory>>

\* The application is bound to the live session and the slot given back.
Prepared(t) ==
    /\ slot = t /\ task[t] \in {"preparing", "opened"} /\ shut = "idle" /\ live # None
    /\ slot' = None /\ Goto(t, "prepared")
    /\ UNCHANGED <<live, shut, shutErr, factory, sessionVars>>

-----------------------------------------------------------------------------
(* Run and Drain of the prepared application.  No later task of the conversation has
   begun, so live is still the session the application was bound to. *)

Run(t) ==
    /\ task[t] = "prepared" /\ Begin(t, live) /\ Goto(t, "running")
    /\ UNCHANGED <<live, slot, shut, shutErr, factory>>

RunCancelled(t) == task[t] = "running" /\ GiveUp(t) /\ UNCHANGED convVars

RunStep(t) ==
    /\ task[t] = "running"
    /\ \/ Acquire(t) \/ Refuse(t) \/ AcquireCapacity(t) \/ Abandon(t)
       \/ StartRun(t) \/ StartFails(t) \/ EndRun(t) \/ Finish(t)
       \/ ReleaseAdmission(t) \/ DeliverTerminal(t)
    /\ UNCHANGED convVars

\* Drain is RecoverRunFinish.
Drain(t) ==
    LET r == recovery[owner[t]]
    IN  /\ task[t] = "running" /\ pc[t] \in {"refused", "done"}
        /\ Goto(t, "end")
        /\ IF r = None THEN UNCHANGED <<record, recovery>>
           ELSE pc[r] # "finishing" /\ WriteFinish(r)
        /\ UNCHANGED <<live, slot, shut, shutErr, factory, limiter, owner, pc,
                       gate, recoverer, leaseVars>>

-----------------------------------------------------------------------------
(* feishuTaskExecutionFactory.Close. *)

\* closed is set; a conversation that no task entered yet has no slot to wait for.
FactoryClose ==
    /\ factory = "open"
    /\ factory' = IF \A t \in Runs : task[t] = "new" THEN "done" ELSE "closing"
    /\ UNCHANGED <<live, slot, task, shut, shutErr, sessionVars>>

FactoryLock ==
    /\ factory = "closing" /\ slot = None
    /\ IF live = None THEN factory' = "done" /\ UNCHANGED <<slot, shut, shutErr>>
       ELSE factory' = "shutting" /\ slot' = Factory /\ BeginShut
    /\ UNCHANGED <<live, task, sessionVars>>

FactoryTimesOut ==
    /\ factory = "closing" /\ slot # None
    /\ factory' = "failed"
    /\ UNCHANGED <<live, slot, task, shut, shutErr, sessionVars>>

FactoryClosed ==
    /\ factory = "shutting" /\ shut = "done"
    /\ factory' = (IF shutErr THEN "failed" ELSE "done")
    /\ slot' = None /\ shut' = "idle"
    /\ UNCHANGED <<live, task, shutErr, sessionVars>>

-----------------------------------------------------------------------------

PrepareStep(t) ==
    \/ Lock(t) \/ Replace(t) \/ Prepared(t)
    \/ \E s \in Sessions : Opened(t, s)

ConvNext ==
    \/ \E t \in Runs :
          \/ Enter(t) \/ EnterCancelled(t) \/ ForceNew(t) \/ PrepareFails(t)
          \/ PrepareStep(t) \/ Run(t) \/ RunCancelled(t) \/ RunStep(t) \/ Drain(t)
          \/ \E s \in Sessions : Open(t, s)
    \/ ShutRecover \/ ShutClose \/ ShutTimesOut \/ ShutServices
    \/ FactoryClose \/ FactoryLock \/ FactoryTimesOut \/ FactoryClosed

\* Every call the conversation makes returns; no context has to be cancelled and nobody
\* has to call the factory's Close.
ConvFairness ==
    /\ \A t \in Runs :
          /\ SF_<<vars, convVars>>(Lock(t))
          /\ WF_<<vars, convVars>>(PrepareStep(t) \/ PrepareFails(t)
                                   \/ \E s \in Sessions : Open(t, s))
          /\ WF_<<vars, convVars>>(Run(t) \/ RunStep(t) \/ Drain(t))
    /\ WF_<<vars, convVars>>(ShutRecover \/ ShutClose \/ ShutTimesOut \/ ShutServices)
    /\ WF_<<vars, convVars>>(FactoryClosed)

ConvSpec == ConvInit /\ [][ConvNext]_<<vars, convVars>> /\ ConvFairness

-----------------------------------------------------------------------------

\* A conversation never has two sessions that run, start or hold services: /new closes
\* the previous one, services included, before its replacement exists, whatever fails.
OneLiveSession ==
    /\ ConvTypeOK
    /\ \A s, t \in Sessions :
          /\ life[s] \in {"opening", "live"} \/ services[s] = "open"
          /\ life[t] \in {"opening", "live"} \/ services[t] = "open"
          => s = t

\* When the factory's Close returned no error no session is left behind, also when it
\* raced with the preparation of a task.
ShutdownClosesAll ==
    factory = "done" => \A s \in Sessions : life[s] \notin {"opening", "live"}

\* The live session of a conversation is the only one, until Close leaves none.
LiveSessionIsExact == OneLiveSession /\ ShutdownClosesAll

\* A task that entered the conversation leaves it, without its context being cancelled:
\* the slot and the session's gate are given back on every error path.
TasksEnd == \A t \in Runs : task[t] = "entering" ~> task[t] = "end"
=============================================================================
