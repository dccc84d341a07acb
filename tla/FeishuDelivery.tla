--------------------------- MODULE FeishuDelivery ---------------------------
(***************************************************************************)
(* Message admission of the Feishu service: the webhook handlers of the    *)
(* Gateway (internal/feishu/gateway.go), the durable delivery store they   *)
(* reserve messages in (delivery_store.go), the shutdown sequence of serve *)
(* (cmd/feishu/main.go), and process crashes and restarts.  The runner is  *)
(* reduced to "takes tasks from the channel" (see FeishuRunner).           *)
(*                                                                         *)
(* A store operation is one step, because withLock serialises them within  *)
(* and across processes and save replaces the file by one rename.  Time    *)
(* is abstracted: a record may age past the retention when no delivery of  *)
(* its message is in flight, and a 30 s shutdown wait outlasts everything  *)
(* a handler does except its store operations.                             *)
(***************************************************************************)
EXTENDS Naturals, SequencesExt

CONSTANTS
    Deliveries,   \* webhook calls, retries of one message included
    Messages,     \* message IDs
    MessageOf,    \* the message of a call, None when the event does not parse
    Buffer,       \* capacity of the tasks channel
    MaxStops,     \* bound: crashes and restarts after an exit
    None

ASSUME DeliveryAssumption ==
    /\ IsFiniteSet(Deliveries)
    /\ MessageOf \in [Deliveries -> Messages \cup {None}]
    /\ None \notin Messages
    /\ Buffer \in Nat \ {0} /\ MaxStops \in Nat

VARIABLES
    durable,     \* the message IDs in the store file
    aged,        \* messages whose record outlived the retention
    pc,          \* where each handler is
    postErr,     \* handlers whose reservation was committed but reported an error
    gone,        \* handlers whose request context is done
    answer,      \* what the handler returned: "ok" acknowledges the event
    gate,        \* admissionClosed, activeDeliveries, admissionDrained, admissionAborted
    tasks,       \* buffered content of the tasks channel
    server,      \* where serve is, and whether it closed the channel
    accepted,    \* history: the messages ever enqueued
    recent,      \* history: those enqueued less than the retention ago
    stranded,    \* history: reservations nobody can release (crash, failed release)
    stops        \* processes that ended so far

store == <<durable, aged>>
handlers == <<pc, postErr, gone, answer>>
history == <<accepted, recent, stranded, stops>>
vars == <<store, handlers, gate, tasks, server, history>>

OpenGate == [closed |-> FALSE, active |-> 0, drained |-> FALSE, aborted |-> FALSE]
Running == [at |-> "serving", tasksClosed |-> FALSE]

PCs == {"unsent", "reserving", "reserved", "sending", "rolling", "finishing",
        "done", "lost", "panicked"}

Live == {d \in Deliveries :
            pc[d] \in {"reserving", "reserved", "sending", "rolling", "finishing"}}

TypeOK ==
    /\ durable \in SUBSET Messages /\ aged \in SUBSET Messages
    /\ pc \in [Deliveries -> PCs]
    /\ postErr \in SUBSET Deliveries /\ gone \in SUBSET Deliveries
    /\ answer \in [Deliveries -> {"none", "ok", "error"}]
    /\ gate \in [closed : BOOLEAN, active : Nat, drained : BOOLEAN, aborted : BOOLEAN]
    /\ tasks \in Seq(Messages) /\ Len(tasks) <= Buffer
    /\ server \in [at : {"serving", "stopping", "draining", "waiting", "exited"},
                   tasksClosed : BOOLEAN]
    /\ accepted \in SUBSET Messages /\ recent \in SUBSET Messages
    /\ stranded \in SUBSET Messages
    /\ stops \in 0..MaxStops

Init ==
    /\ durable = {} /\ aged = {}
    /\ pc = [d \in Deliveries |-> "unsent"]
    /\ postErr = {} /\ gone = {}
    /\ answer = [d \in Deliveries |-> "none"]
    /\ gate = OpenGate /\ tasks = <<>> /\ server = Running
    /\ accepted = {} /\ recent = {} /\ stranded = {} /\ stops = 0

-----------------------------------------------------------------------------
(* One webhook call. *)

Up == server.at # "exited"

Goto(d, label) == pc' = [pc EXCEPT ![d] = label]

Answered(d, label, value) ==
    /\ Goto(d, label)
    /\ answer' = [answer EXCEPT ![d] = value]

\* beginDelivery, and taskFromMessageEvent: an event that does not parse is acknowledged.
Begin(d) ==
    /\ Up /\ pc[d] = "unsent" /\ ~gate.closed
    /\ gate' = [gate EXCEPT !.active = @ + 1]
    /\ IF MessageOf[d] = None THEN Answered(d, "finishing", "ok")
       ELSE Goto(d, "reserving") /\ UNCHANGED answer
    /\ UNCHANGED <<store, postErr, gone, tasks, server, history>>

Refuse(d) ==
    /\ Up /\ pc[d] = "unsent" /\ gate.closed
    /\ Answered(d, "done", "error")
    /\ UNCHANGED <<store, postErr, gone, gate, tasks, server, history>>

\* The request's context ends; nobody looks at it after the select.
Disconnect(d) ==
    /\ pc[d] \in {"reserving", "reserved", "sending"} /\ d \notin gone
    /\ gone' = gone \cup {d}
    /\ UNCHANGED <<store, pc, postErr, answer, gate, tasks, server, history>>

\* Mutant: the existence check is lost.
ReserveAgain(d) ==
    /\ pc[d] = "reserving"
    /\ durable' = (durable \ aged) \cup {MessageOf[d]}
    /\ aged' = {}
    /\ Goto(d, "reserved")
    /\ UNCHANGED <<postErr, gone, answer, gate, tasks, server, history>>

\* ReserveContext of an unknown message: the expired records go, the new one comes, in
\* one replaced file.  The rename may have happened even though save reports an error.
Reserve(d) ==
    LET m == MessageOf[d]
        kept == durable \ aged
    IN  /\ pc[d] = "reserving" /\ m \notin kept
        /\ durable' = kept \cup {m}
        /\ aged' = {}
        /\ \/ UNCHANGED postErr
           \/ postErr' = postErr \cup {d}
        /\ Goto(d, "reserved")
        /\ UNCHANGED <<gone, answer, gate, tasks, server, history>>

Duplicate(d) ==
    /\ pc[d] = "reserving" /\ MessageOf[d] \in durable \ aged
    /\ Answered(d, "finishing", "ok")
    /\ UNCHANGED <<store, postErr, gone, gate, tasks, server, history>>

\* No lock before the context ended, or an I/O error before the rename.
ReserveFails(d) ==
    /\ pc[d] = "reserving"
    /\ Answered(d, "finishing", "error")
    /\ UNCHANGED <<store, postErr, gone, gate, tasks, server, history>>

\* The checks between the reservation and the select.
CheckReserved(d) ==
    /\ pc[d] = "reserved"
    /\ IF (d \in postErr /\ d \in gone) \/ gate.aborted
       THEN Goto(d, "rolling") ELSE Goto(d, "sending")
    /\ postErr' = postErr \ {d}
    /\ UNCHANGED <<store, gone, answer, gate, tasks, server, history>>

\* The select's send.  On a closed channel that case is ready too, and panics.
Enqueue(d) ==
    LET m == MessageOf[d]
    IN  /\ pc[d] = "sending"
        /\ server.tasksClosed \/ Len(tasks) < Buffer
        /\ IF server.tasksClosed
           THEN Goto(d, "panicked") /\ UNCHANGED <<tasks, accepted, recent, answer>>
           ELSE /\ tasks' = Append(tasks, m)
                /\ accepted' = accepted \cup {m}
                /\ recent' = recent \cup {m}
                /\ Answered(d, "finishing", "ok")
        /\ UNCHANGED <<store, postErr, gone, gate, server, stranded, stops>>

\* The other cases of the select: abort, request gone, or default when none is ready.
EnqueueRefused(d) ==
    /\ pc[d] = "sending"
    /\ gate.aborted \/ d \in gone \/ (Len(tasks) = Buffer /\ ~server.tasksClosed)
    /\ Goto(d, "rolling")
    /\ UNCHANGED <<store, postErr, gone, answer, gate, tasks, server, history>>

\* Mutant: the rollback swallows the cause and returns nil.
RollbackAcknowledging(d) ==
    /\ pc[d] = "rolling"
    /\ durable' = durable \ {MessageOf[d]}
    /\ Answered(d, "finishing", "ok")
    /\ UNCHANGED <<aged, postErr, gone, gate, tasks, server, history>>

\* rollbackDelivery under its own five-second context; the release may fail.
Rollback(d) ==
    /\ pc[d] = "rolling"
    /\ \/ durable' = durable \ {MessageOf[d]} /\ UNCHANGED stranded
       \/ stranded' = stranded \cup ({MessageOf[d]} \cap durable) /\ UNCHANGED durable
    /\ Answered(d, "finishing", "error")
    /\ UNCHANGED <<aged, postErr, gone, gate, tasks, server, accepted, recent, stops>>

\* finishDelivery, deferred by the handler, and the end of the request.
Finish(d) ==
    /\ pc[d] = "finishing"
    /\ gate' = [gate EXCEPT !.active = @ - 1, !.drained = @ \/ (gate.closed /\ gate.active = 1)]
    /\ Goto(d, "done")
    /\ gone' = gone \ {d}
    /\ UNCHANGED <<store, postErr, answer, tasks, server, history>>

StoreOperation(d) == Reserve(d) \/ Duplicate(d) \/ ReserveFails(d) \/ Rollback(d)

HandlerComputes(d) ==
    \/ CheckReserved(d) \/ Enqueue(d) \/ EnqueueRefused(d) \/ Finish(d)

-----------------------------------------------------------------------------
(* serve. *)

ServerUnchanged == UNCHANGED <<store, handlers, tasks, history>>

\* The signal, or the listener's return: StopAccepting closes the gate.
StopAccepting ==
    /\ server.at = "serving"
    /\ server' = [server EXCEPT !.at = "stopping"]
    /\ gate' = [gate EXCEPT !.closed = TRUE, !.drained = @ \/ gate.active = 0]
    /\ ServerUnchanged

\* A wait for admission ends; after the second, close(tasks) and cancelRunner().
AdmissionDrained ==
    /\ server.at \in {"stopping", "draining"} /\ gate.drained
    /\ server' = [server EXCEPT !.at = IF @ = "stopping" THEN "draining" ELSE "waiting",
                                !.tasksClosed = server.at = "draining"]
    /\ UNCHANGED gate /\ ServerUnchanged

\* The first wait times out: abortDeliveries.
StopTimesOut ==
    /\ server.at = "stopping" /\ ~gate.drained
    /\ gate' = [gate EXCEPT !.aborted = TRUE]
    /\ server' = [server EXCEPT !.at = "draining"]
    /\ ServerUnchanged

\* Mutant: the second wait has no deadline.
DrainNeverTimesOut == FALSE /\ UNCHANGED vars

\* drainAbortedAdmission times out too, which only a store operation outlasts; the
\* channel is closed all the same.
DrainTimesOut ==
    /\ server.at = "draining" /\ ~gate.drained
    /\ \A d \in Live : pc[d] \in {"reserving", "rolling"}
    /\ gate' = [gate EXCEPT !.aborted = TRUE]
    /\ server' = [server EXCEPT !.at = "waiting", !.tasksClosed = TRUE]
    /\ ServerUnchanged

\* What the end of a process takes with it: gate, channel and handlers, whose
\* reservations nobody rolls back any more.
LoseMemory ==
    /\ stranded' = stranded \cup
          {MessageOf[d] : d \in {e \in Deliveries : pc[e] \in {"reserved", "sending", "rolling"}}}
    /\ pc' = [d \in Deliveries |-> IF d \in Live THEN "lost" ELSE pc[d]]
    /\ gone' = {} /\ postErr' = {} /\ tasks' = <<>> /\ gate' = OpenGate

\* waitForCompletion of the runner, or its timeout; main returns and the process ends.
Exit ==
    /\ server.at = "waiting"
    /\ server' = [server EXCEPT !.at = "exited"]
    /\ LoseMemory
    /\ UNCHANGED <<store, answer, accepted, recent, stops>>

RunnerTakes ==
    /\ tasks # <<>>
    /\ tasks' = Tail(tasks)
    /\ UNCHANGED <<store, handlers, gate, server, history>>

Serve ==
    \/ AdmissionDrained \/ StopTimesOut \/ DrainTimesOut \/ Exit
    \/ RunnerTakes

-----------------------------------------------------------------------------
(* The world around the process. *)

\* Mutant: the reservations live in memory.
NewProcessForgetting ==
    /\ stops < MaxStops
    /\ stops' = stops + 1
    /\ LoseMemory
    /\ durable' = {} /\ server' = Running
    /\ UNCHANGED <<aged, answer, accepted, recent>>

\* The process dies, at any moment, or ended before, and a new one starts: only the
\* store file survives.
NewProcess ==
    /\ stops < MaxStops
    /\ stops' = stops + 1
    /\ LoseMemory
    /\ server' = Running
    /\ UNCHANGED <<store, answer, accepted, recent>>

\* More than deliveryRetention passes.
Age(m) ==
    /\ m \in durable \ aged
    /\ \A d \in Live : MessageOf[d] # m
    /\ aged' = aged \cup {m}
    /\ recent' = recent \ {m}
    /\ stranded' = stranded \ {m}
    /\ UNCHANGED <<durable, handlers, gate, tasks, server, accepted, stops>>

Next ==
    \/ \E d \in Deliveries : Begin(d) \/ Refuse(d) \/ Disconnect(d)
    \/ \E d \in Deliveries : StoreOperation(d) \/ HandlerComputes(d)
    \/ StopAccepting \/ Serve
    \/ NewProcess \/ \E m \in Messages : Age(m)

\* Handlers run, serve's waits have timeouts and the runner consumes its channel.  A
\* store operation may hang for ever; calls, signals, crashes and time owe nothing.
Fairness ==
    /\ \A d \in Deliveries : WF_vars(HandlerComputes(d))
    /\ WF_vars(AdmissionDrained \/ StopTimesOut \/ DrainTimesOut \/ Exit)
    /\ WF_vars(RunnerTakes)

Spec == Init /\ [][Next]_vars /\ Fairness

-----------------------------------------------------------------------------

Owners(m) ==
    {d \in Deliveries : MessageOf[d] = m /\ pc[d] \in {"reserved", "sending", "rolling"}}

\* At-most-once acceptance (DV-FEI-002): no message enters the task queue again within
\* the retention of its record, whatever is retried, rolled back or restarted.
AtMostOnce == [][Len(tasks') > Len(tasks) => Last(tasks') \notin recent]_vars

\* A record in the store is a queued message, a handler that still decides, or was
\* stranded by a crash or a failed release; and an accepted message keeps its record,
\* so no rollback of another delivery takes it away.
RecordsAreAccounted ==
    /\ TypeOK
    /\ \A m \in durable \ aged : m \in recent \/ m \in stranded \/ Owners(m) # {}
    /\ recent \subseteq durable \ aged
    /\ \A m \in Messages : \A d, e \in Owners(m) : d = e

\* activeDeliveries counts the handlers past the gate, and admissionDrained is closed
\* exactly when the gate is closed and the last of them left: never twice, which would
\* panic, and never early.
GateCountsHandlers ==
    /\ gate.active = Cardinality(Live)
    /\ gate.drained <=> gate.closed /\ gate.active = 0

\* serve closes the task channel under no live sender, even when both admission waits
\* time out with handlers stuck in the store (rollbackIfDeliveryAborted), and the count
\* that its first wait relies on is exact.
NoSendOnClosedChannel == GateCountsHandlers /\ \A d \in Deliveries : pc[d] # "panicked"

\* What admitDelivery owes the store and the channel: every reservation is somebody's,
\* and a handler that outlived the waits of serve never sends on the closed channel.
AdmissionIsSound == RecordsAreAccounted /\ NoSendOnClosedChannel

\* A message some delivery acknowledged is not lost in silence: it was enqueued, or
\* its reservation was stranded, or another delivery of it fails or failed, so that
\* Feishu sends it again.
AcknowledgedIsNotLost ==
    \A d \in Deliveries :
        answer[d] = "ok" /\ MessageOf[d] # None =>
            \/ MessageOf[d] \in accepted \cup stranded \cup aged
            \/ \E e \in Deliveries : /\ MessageOf[e] = MessageOf[d]
                                    /\ (e \in Live \/ answer[e] = "error" \/ pc[e] = "lost")

\* serve comes to its end after a signal, whatever its handlers do.
ShutdownEnds == server.at = "stopping" ~> server.at \in {"exited", "serving"}
=============================================================================
