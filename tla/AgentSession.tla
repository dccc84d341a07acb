---------------------------- MODULE AgentSession ----------------------------
(***************************************************************************)
(* The live-session lifecycle of the runtime (internal/runtime:            *)
(* session_lifecycle.go, run_scope.go, session_services.go and the frame   *)
(* of AgentSession.Run in runtime_harness.go).                             *)
(*                                                                         *)
(* A RuntimeHarness leases each stored session to one AgentSession; the    *)
(* session's gate admits one run at a time; a limiter bounds the runs of   *)
(* one profile.  A run whose terminal write fails leaves the session in    *)
(* recovery, and RecoverRunFinish, called from any goroutine and without   *)
(* the gate, retries that write.  Close takes the gate like a run does.    *)
(***************************************************************************)
EXTENDS Integers, FiniteSets

CONSTANTS
    Sessions,     \* AgentSession objects
    Ids,          \* stored sessions
    IdOf,         \* the stored session each AgentSession is opened on
    Runs,         \* calls of BeginRun
    Recoverers,   \* goroutines that may be inside RecoverRunFinish at once
    Capacity,     \* MaxConcurrency of the profile
    None

ASSUME SessionAssumption ==
    /\ IdOf \in [Sessions -> Ids]
    /\ Capacity \in Nat \ {0}
    /\ IsFiniteSet(Runs)
    /\ None \notin Sessions \cup Runs

VARIABLES
    open,        \* RuntimeHarness.open: the leased stored sessions
    limiter,     \* tokens in the profile's limiter channel
    life,        \* none, opening, live or closed (AgentSession.closed)
    gate,        \* TRUE while the admission token is in AgentSession.gate
    recovery,    \* AgentSession.recovery: the run whose finish must be retried
    services,    \* the external services: none, open or closed
    cleanupErr,  \* servicesCloseErr
    closing,     \* a Close call holds the gate and closes the services
    owner,       \* RunScope.owner of each run
    pc,          \* where each BeginRun/Run call is
    record,      \* the stored run: none, started or finished (RunScope.finished)
    recoverer    \* the scope a RecoverRunFinish call read from recovery

vars == <<open, limiter, life, gate, recovery, services, cleanupErr, closing,
          owner, pc, record, recoverer>>

leaseVars == <<open, life, services, cleanupErr, closing>>
runVars == <<limiter, owner, pc, record>>

\* The admission token and a capacity token travel with a run in these states.
GateHolders == {"gated", "capacity", "running", "ended", "finishing"}
CapacityHolders == {"capacity", "running", "ended", "finishing"}

HoldersOf(s) == {r \in Runs : owner[r] = s /\ pc[r] \in GateHolders}

TypeOK ==
    /\ open \subseteq Ids
    /\ limiter \in 0 .. Capacity
    /\ life \in [Sessions -> {"none", "opening", "live", "closed"}]
    /\ gate \in [Sessions -> BOOLEAN]
    /\ recovery \in [Sessions -> Runs \cup {None}]
    /\ services \in [Sessions -> {"none", "open", "closed"}]
    /\ cleanupErr \in [Sessions -> BOOLEAN]
    /\ closing \in [Sessions -> BOOLEAN]
    /\ owner \in [Runs -> Sessions \cup {None}]
    /\ pc \in [Runs -> {"new", "waiting", "released", "done", "refused"} \cup GateHolders]
    /\ record \in [Runs -> {"none", "started", "finished"}]
    /\ recoverer \in [Recoverers -> Runs \cup {None}]

Init ==
    /\ open = {}
    /\ limiter = 0
    /\ life = [s \in Sessions |-> "none"]
    /\ gate = [s \in Sessions |-> TRUE]
    /\ recovery = [s \in Sessions |-> None]
    /\ services = [s \in Sessions |-> "none"]
    /\ cleanupErr = [s \in Sessions |-> FALSE]
    /\ closing = [s \in Sessions |-> FALSE]
    /\ owner = [r \in Runs |-> None]
    /\ pc = [r \in Runs |-> "new"]
    /\ record = [r \in Runs |-> "none"]
    /\ recoverer = [c \in Recoverers |-> None]

-----------------------------------------------------------------------------
(* CreateSession and OpenSession.  A refused claim changes nothing. *)

\* newAgentSession and claim
Claim(s) ==
    /\ life[s] = "none" /\ IdOf[s] \notin open
    /\ open' = open \cup {IdOf[s]}
    /\ life' = [life EXCEPT ![s] = "opening"]
    /\ UNCHANGED <<gate, recovery, services, cleanupErr, closing, recoverer, runVars>>

\* initializeServices
InitServices(s) ==
    /\ life[s] = "opening"
    /\ life' = [life EXCEPT ![s] = "live"]
    /\ services' = [services EXCEPT ![s] = "open"]
    /\ UNCHANGED <<open, gate, recovery, cleanupErr, closing, recoverer, runVars>>

\* InitializeSession or the service factory failed: closed, and the lease given back.
InitFails(s) ==
    /\ life[s] = "opening"
    /\ life' = [life EXCEPT ![s] = "closed"]
    /\ open' = open \ {IdOf[s]}
    /\ UNCHANGED <<gate, recovery, services, cleanupErr, closing, recoverer, runVars>>

-----------------------------------------------------------------------------
(* BeginRun. *)

Begin(r, s) ==
    /\ pc[r] = "new" /\ life[s] \in {"live", "closed"}
    /\ owner' = [owner EXCEPT ![r] = s]
    /\ pc' = [pc EXCEPT ![r] = "waiting"]
    /\ UNCHANGED <<limiter, record, gate, recovery, recoverer, leaseVars>>

\* The caller's context ends while it waits for the gate.
GiveUp(r) ==
    /\ pc[r] = "waiting"
    /\ pc' = [pc EXCEPT ![r] = "refused"]
    /\ UNCHANGED <<limiter, owner, record, gate, recovery, recoverer, leaseVars>>

\* acquire: the token is taken, looked at under stateMu, and kept ...
Acquire(r) ==
    LET s == owner[r]
    IN  /\ pc[r] = "waiting" /\ gate[s]
        /\ life[s] # "closed" /\ recovery[s] = None
        /\ gate' = [gate EXCEPT ![s] = FALSE]
        /\ pc' = [pc EXCEPT ![r] = "gated"]
        /\ UNCHANGED <<limiter, owner, record, recovery, recoverer, leaseVars>>

\* ... or given back, with ErrSessionClosed or ErrSessionRecoveryRequired.
Refuse(r) ==
    LET s == owner[r]
    IN  /\ pc[r] = "waiting" /\ gate[s]
        /\ life[s] = "closed" \/ recovery[s] # None
        /\ pc' = [pc EXCEPT ![r] = "refused"]
        /\ UNCHANGED <<limiter, owner, record, gate, recovery, recoverer, leaseVars>>

AcquireCapacity(r) ==
    /\ pc[r] = "gated" /\ limiter < Capacity
    /\ limiter' = limiter + 1
    /\ pc' = [pc EXCEPT ![r] = "capacity"]
    /\ UNCHANGED <<owner, record, gate, recovery, recoverer, leaseVars>>

ReleaseGate(s) == gate' = [gate EXCEPT ![s] = TRUE]

\* The run spec does not resolve, or the context ends while waiting for capacity.
Abandon(r) ==
    /\ pc[r] = "gated"
    /\ pc' = [pc EXCEPT ![r] = "refused"]
    /\ ReleaseGate(owner[r])
    /\ UNCHANGED <<limiter, owner, record, recovery, recoverer, leaseVars>>

StartRun(r) ==
    /\ pc[r] = "capacity"
    /\ record' = [record EXCEPT ![r] = "started"]
    /\ pc' = [pc EXCEPT ![r] = "running"]
    /\ UNCHANGED <<limiter, owner, gate, recovery, recoverer, leaseVars>>

\* Mutant: a run that could not be stored keeps its capacity token.
StartFailsKeepingCapacity(r) ==
    /\ pc[r] = "capacity"
    /\ pc' = [pc EXCEPT ![r] = "refused"]
    /\ ReleaseGate(owner[r])
    /\ UNCHANGED <<limiter, owner, record, recovery, recoverer, leaseVars>>

StartFails(r) ==
    /\ pc[r] = "capacity"
    /\ limiter' = limiter - 1
    /\ pc' = [pc EXCEPT ![r] = "refused"]
    /\ ReleaseGate(owner[r])
    /\ UNCHANGED <<owner, record, recovery, recoverer, leaseVars>>

-----------------------------------------------------------------------------
(* AgentSession.Run after admission, and RunScope.finish. *)

\* The assembly failed, the engine returned or panicked; the runtime observer holds the
\* terminal fact back.
EndRun(r) ==
    /\ pc[r] = "running"
    /\ pc' = [pc EXCEPT ![r] = "ended"]
    /\ UNCHANGED <<limiter, owner, record, gate, recovery, recoverer, leaseVars>>

\* The terminal write succeeds (finished, clearRecovery) or fails (requireRecovery).
WriteFinish(r) ==
    LET s == owner[r]
    IN  \/ /\ record' = [record EXCEPT ![r] = "finished"]
           /\ recovery' = [recovery EXCEPT ![s] = IF @ = r THEN None ELSE @]
        \/ /\ recovery' = [recovery EXCEPT ![s] = r]
           /\ UNCHANGED record

Finish(r) ==
    /\ pc[r] = "ended"
    /\ WriteFinish(r)
    /\ pc' = [pc EXCEPT ![r] = "finishing"]
    /\ UNCHANGED <<limiter, owner, gate, recoverer, leaseVars>>

\* releaseAdmission
ReleaseAdmission(r) ==
    /\ pc[r] = "finishing"
    /\ limiter' = limiter - 1
    /\ ReleaseGate(owner[r])
    /\ pc' = [pc EXCEPT ![r] = "released"]
    /\ UNCHANGED <<owner, record, recovery, recoverer, leaseVars>>

\* finishRun: the held terminal fact goes to the observer, whatever the write did.
DeliverTerminal(r) ==
    /\ pc[r] = "released"
    /\ pc' = [pc EXCEPT ![r] = "done"]
    /\ UNCHANGED <<limiter, owner, record, gate, recovery, recoverer, leaseVars>>

-----------------------------------------------------------------------------
(* RecoverRunFinish: the scope is read under stateMu and finished later, under its own
   finishMu, which the run holds from its write to the release of its admission. *)

RecoverRead(c, s) ==
    /\ recoverer[c] = None /\ recovery[s] # None
    /\ recoverer' = [recoverer EXCEPT ![c] = recovery[s]]
    /\ UNCHANGED <<gate, recovery, runVars, leaseVars>>

\* Mutant: a scope that another call finished meanwhile is written again.
RecoverFinishUnchecked(c) ==
    LET r == recoverer[c]
    IN  /\ r # None /\ pc[r] # "finishing"
        /\ recoverer' = [recoverer EXCEPT ![c] = None]
        /\ WriteFinish(r)
        /\ UNCHANGED <<limiter, owner, pc, gate, leaseVars>>

RecoverFinish(c) ==
    LET r == recoverer[c]
    IN  /\ r # None /\ pc[r] # "finishing"
        /\ recoverer' = [recoverer EXCEPT ![c] = None]
        /\ IF record[r] = "finished" THEN UNCHANGED <<record, recovery>> ELSE WriteFinish(r)
        /\ UNCHANGED <<limiter, owner, pc, gate, leaseVars>>

-----------------------------------------------------------------------------
(* Close.  On a closed session it takes the gate and gives it back. *)

\* Mutant: Close does not wait for the gate.
CloseAtOnce(s) ==
    /\ life[s] = "live" /\ ~closing[s]
    /\ closing' = [closing EXCEPT ![s] = TRUE]
    /\ life' = [life EXCEPT ![s] = "closed"]
    /\ open' = open \ {IdOf[s]}
    /\ UNCHANGED <<gate, recovery, services, cleanupErr, recoverer, runVars>>

Close(s) ==
    /\ life[s] = "live" /\ gate[s]
    /\ gate' = [gate EXCEPT ![s] = FALSE]
    /\ closing' = [closing EXCEPT ![s] = TRUE]
    /\ IF recovery[s] # None THEN UNCHANGED <<life, open>>
       ELSE /\ life' = [life EXCEPT ![s] = "closed"]
            /\ open' = open \ {IdOf[s]}
    /\ UNCHANGED <<recovery, services, cleanupErr, recoverer, runVars>>

\* closeServices runs once; the deferred release gives the gate back.
CloseServices(s) ==
    /\ closing[s]
    /\ closing' = [closing EXCEPT ![s] = FALSE]
    /\ services' = [services EXCEPT ![s] = "closed"]
    /\ \/ services[s] = "open" /\ cleanupErr' = [cleanupErr EXCEPT ![s] = TRUE]
       \/ UNCHANGED cleanupErr
    /\ ReleaseGate(s)
    /\ UNCHANGED <<open, life, recovery, recoverer, runVars>>

-----------------------------------------------------------------------------

Next ==
    \/ \E s \in Sessions :
          \/ Claim(s) \/ InitServices(s) \/ InitFails(s)
          \/ Close(s) \/ CloseServices(s)
          \/ \E r \in Runs : Begin(r, s)
          \/ \E c \in Recoverers : RecoverRead(c, s)
    \/ \E r \in Runs :
          \/ GiveUp(r) \/ Acquire(r) \/ Refuse(r) \/ AcquireCapacity(r) \/ Abandon(r)
          \/ StartRun(r) \/ StartFails(r) \/ EndRun(r) \/ Finish(r)
          \/ ReleaseAdmission(r) \/ DeliverTerminal(r)
    \/ \E c \in Recoverers : RecoverFinish(c)

Spec == Init /\ [][Next]_vars

-----------------------------------------------------------------------------

\* One stored session never has two runs that were started and not durably finished,
\* across every AgentSession opened on it, a failed terminal write, recovery, Close and
\* reopening (the lease, the gate and the recovery check of acquire and Close).
OneUnfinishedRun ==
    \A q, r \in Runs :
        record[q] = "started" /\ record[r] = "started" /\ q # r =>
            IdOf[owner[q]] # IdOf[owner[r]]

\* Exactly the sessions being opened or live hold a lease, each on another stored session.
LeaseIsExclusive ==
    LET holders == {s \in Sessions : life[s] \in {"opening", "live"}}
    IN  /\ open = {IdOf[s] : s \in holders}
        /\ \A s, t \in holders : IdOf[s] = IdOf[t] => s = t

\* The admission token is never lost or duplicated: it is in the channel, or with one
\* admitted run, or with Close.
GateIsExact ==
    \A s \in Sessions :
        Cardinality(HoldersOf(s)) + (IF closing[s] THEN 1 ELSE 0)
            = (IF gate[s] THEN 0 ELSE 1)

\* The limiter holds one token per admitted run, on every early return of BeginRun.
CapacityIsExact == limiter = Cardinality({r \in Runs : pc[r] \in CapacityHolders})

\* What a session keeps for recovery is exactly the run that gave its admission back
\* without a durable finish: it is not lost, and a late RecoverRunFinish does not bring a
\* finished one back.
RecoveryIsExact ==
    \A r \in Runs :
        pc[r] \in {"released", "done"} =>
            (record[r] = "started" <=> recovery[owner[r]] = r)

\* Leases and both tokens of admission are exact: whichever way Open, BeginRun, Run and
\* Close return, they give back what they took and no more, and a run that was not durably
\* finished is kept for recovery.
AdmissionIsExact ==
    TypeOK /\ LeaseIsExclusive /\ GateIsExact /\ CapacityIsExact /\ OneUnfinishedRun
    /\ RecoveryIsExact

\* Close never takes the external services from an admitted run.
ServicesOutliveRuns ==
    [][\A s \in Sessions :
          services[s] = "open" /\ services'[s] = "closed" => HoldersOf(s) = {}]_vars

=============================================================================
