---------------------------- MODULE FeishuRunner ----------------------------
(***************************************************************************)
(* The Feishu runner: Runner.Start, the one goroutine that owns the        *)
(* taskScheduler, the goroutines that run one task each, and serve         *)
(* (cmd/feishu/main.go), which sends tasks, closes the channel and then    *)
(* cancels the runner.  Of runOne the model keeps the phases a task goes   *)
(* through and the terminal notice each way out delivers; the session lock *)
(* runOne takes has a module of its own, FeishuSessionLock.                *)
(***************************************************************************)
EXTENDS Naturals, SequencesExt

CONSTANTS
    Tasks,       \* tasks the gateway may enqueue, each once
    Keys,        \* session keys
    SessionOf,   \* taskSessionKey: Tasks -> Keys
    Limits,      \* the limits a runner may be configured with
    Buffer,      \* capacity of the tasks channel
    None

ASSUME RunnerAssumption ==
    /\ IsFiniteSet(Tasks)
    /\ SessionOf \in [Tasks -> Keys]
    /\ Limits \subseteq Nat \ {0}
    /\ Buffer \in Nat \ {0}
    /\ None \notin Tasks

VARIABLES
    tasks,       \* buffered content of the tasks channel
    closed,      \* the channel is closed
    cancelled,   \* the context given to Start is cancelled
    order,       \* history: accepted tasks, oldest first
    limit,       \* maxConcurrentTasks, and the capacity of the completed channel
    loop,        \* where Start's loop is: "top", "dispatch", "select", "returned"
    input,       \* taskInput # nil
    watching,    \* cancellation # nil (so ~watching is "cancelling")
    sessions,    \* taskScheduler.sessions, NoQueue for an absent key
    ready,       \* taskScheduler.ready
    active,      \* taskScheduler.active
    completed,   \* buffered content of the completed channel
    expired,     \* tasks whose own context ended: deadline or task.cancel()
    go,          \* the goroutine of each task: where it is in runOne and run
    notices      \* terminal notices that reached the chat for each task

env == <<tasks, closed, cancelled, order, limit>>
sched == <<input, watching, sessions, ready, active>>
vars == <<env, loop, sched, completed, expired, go, notices>>

NoQueue == [tasks |-> <<>>, activeTask |-> None, ready |-> FALSE, present |-> FALSE]
EmptyQueue == [NoQueue EXCEPT !.present = TRUE]

\* "cancelled": deliverCancellation; "outcome": any other way out of runOne.
Notices == {"cancelled", "outcome"}

Phases == {"none", "locking", "preparing", "running", "finished", "exited"}

TypeOK ==
    /\ tasks \in Seq(Tasks) /\ Len(tasks) <= Buffer
    /\ closed \in BOOLEAN /\ cancelled \in BOOLEAN
    /\ order \in Seq(Tasks)
    /\ loop \in {"top", "dispatch", "select", "returned"}
    /\ input \in BOOLEAN /\ watching \in BOOLEAN
    /\ sessions \in [Keys -> [tasks : Seq(Tasks), activeTask : Tasks \cup {None},
                              ready : BOOLEAN, present : BOOLEAN]]
    /\ ready \in Seq(Keys)
    /\ limit \in Limits /\ active \in 0..limit
    /\ completed \in Seq(Keys) /\ Len(completed) <= limit
    /\ expired \in SUBSET Tasks
    /\ go \in [Tasks -> Phases]
    /\ notices \in [Tasks -> Seq(Notices)]

Init ==
    /\ tasks = <<>> /\ closed = FALSE /\ cancelled = FALSE /\ order = <<>>
    /\ limit \in Limits
    /\ loop = "top" /\ input = TRUE /\ watching = TRUE
    /\ sessions = [k \in Keys |-> NoQueue]
    /\ ready = <<>> /\ active = 0 /\ completed = <<>>
    /\ expired = {}
    /\ go = [t \in Tasks |-> "none"]
    /\ notices = [t \in Tasks |-> <<>>]

-----------------------------------------------------------------------------
(* The gateway and serve. *)

\* A delivery handler's successful `g.tasks <- task`.
Send(t) ==
    /\ ~closed /\ t \notin ToSet(order)
    /\ Len(tasks) < Buffer
    /\ tasks' = Append(tasks, t)
    /\ order' = Append(order, t)
    /\ UNCHANGED <<closed, cancelled, limit, loop, sched, completed, expired, go, notices>>

\* close(tasks), once gateway admission is drained.
CloseTasks ==
    /\ ~closed
    /\ closed' = TRUE
    /\ UNCHANGED <<tasks, cancelled, order, limit, loop, sched, completed, expired, go, notices>>

\* cancelRunner(), on both ways out of serve after close(tasks).
CancelRunner ==
    /\ closed /\ ~cancelled
    /\ cancelled' = TRUE
    /\ UNCHANGED <<tasks, closed, order, limit, loop, sched, completed, expired, go, notices>>

\* The timeout acceptedTaskContext started when the task was enqueued.
Expire(t) ==
    /\ t \in ToSet(order) \ ToSet(tasks) /\ t \notin expired
    /\ expired' = expired \cup {t}
    /\ UNCHANGED <<env, loop, sched, completed, go, notices>>

-----------------------------------------------------------------------------
(* The scheduler. *)

Dead(t) == cancelled \/ t \in expired     \* task.ctx.Err() # nil

Idle == active = 0 /\ \A k \in Keys : ~sessions[k].present

\* deliverCancellation for each of the tasks
CancelNotices(ts) ==
    [t \in Tasks |-> IF t \in ts THEN Append(notices[t], "cancelled") ELSE notices[t]]

\* markReady, given the queue it is called with
NeedsMark(q) == q.activeTask = None /\ ~q.ready /\ q.tasks # <<>>
Marked(q) == IF NeedsMark(q) THEN [q EXCEPT !.ready = TRUE] ELSE q
ReadyWith(k, q) == IF NeedsMark(q) THEN Append(ready, k) ELSE ready

Enqueue(t) ==
    LET k == SessionOf[t]
        q == IF sessions[k].present THEN sessions[k] ELSE EmptyQueue
        longer == [q EXCEPT !.tasks = Append(@, t)]
    IN  /\ sessions' = [sessions EXCEPT ![k] = Marked(longer)]
        /\ ready' = ReadyWith(k, longer)
        /\ UNCHANGED active

\* Mutant: the permit of the finished task is not given back.
CompleteKeepingPermit(k) ==
    LET q == [sessions[k] EXCEPT !.activeTask = None]
    IN  /\ sessions' = [sessions EXCEPT ![k] = IF q.tasks = <<>> THEN NoQueue ELSE Marked(q)]
        /\ ready' = ReadyWith(k, q)
        /\ UNCHANGED active

\* Mutant: the session's next task is not made ready.
CompleteWithoutMark(k) ==
    LET q == [sessions[k] EXCEPT !.activeTask = None]
    IN  /\ active' = active - 1
        /\ sessions' = [sessions EXCEPT ![k] = IF q.tasks = <<>> THEN NoQueue ELSE q]
        /\ UNCHANGED ready

Complete(k) ==
    LET q == [sessions[k] EXCEPT !.activeTask = None]
    IN  IF ~sessions[k].present \/ sessions[k].activeTask = None
        THEN UNCHANGED <<sessions, ready, active>>
        ELSE /\ active' = active - 1
             /\ sessions' = [sessions EXCEPT ![k] = IF q.tasks = <<>> THEN NoQueue ELSE Marked(q)]
             /\ ready' = ReadyWith(k, q)

\* Mutant: the started task stays at the head of its queue.
DispatchKeepingHead ==
    LET k == Head(ready)
        q == sessions[k]
    IN  /\ active < limit /\ ready # <<>>
        /\ ready' = Tail(ready)
        /\ sessions' = [sessions EXCEPT ![k] =
              [q EXCEPT !.ready = FALSE, !.activeTask = Head(q.tasks)]]
        /\ active' = active + 1
        /\ go' = [go EXCEPT ![Head(q.tasks)] = "locking"]
        /\ UNCHANGED <<expired, notices>>

\* Where nextRunnable finds the first task of a queue that still has time, 0 for nowhere.
FirstLive(q) == SelectInSeq(q, LAMBDA t : ~Dead(t))

\* One turn of dispatch's loop.  nextRunnable pops the expired tasks at the head of
\* the queue, with a cancellation notice each, and the first live task after them.
DispatchOne ==
    LET k == Head(ready)
        q == [sessions[k] EXCEPT !.ready = FALSE]
        i == FirstLive(q.tasks)
        dropped == ToSet(IF i = 0 THEN q.tasks ELSE SubSeq(q.tasks, 1, i - 1))
    IN  /\ active < limit /\ ready # <<>>
        /\ ready' = Tail(ready)
        /\ \/ /\ ~sessions[k].present
              /\ UNCHANGED <<sessions, active, expired, go, notices>>
           \/ /\ sessions[k].present /\ q.activeTask # None
              /\ sessions' = [sessions EXCEPT ![k] = q]
              /\ UNCHANGED <<active, expired, go, notices>>
           \/ /\ sessions[k].present /\ q.activeTask = None
              /\ expired' = expired \cup dropped
              /\ notices' = CancelNotices(dropped)
              /\ \/ /\ i = 0
                    /\ sessions' = [sessions EXCEPT ![k] = NoQueue]
                    /\ UNCHANGED <<active, go>>
                 \/ /\ i # 0
                    /\ sessions' = [sessions EXCEPT ![k] =
                          [q EXCEPT !.tasks = SubSeq(q.tasks, i + 1, Len(q.tasks)),
                                    !.activeTask = q.tasks[i]]]
                    /\ active' = active + 1
                    /\ go' = [go EXCEPT ![q.tasks[i]] = "locking"]

CancelledTables ==
    /\ ready' = <<>>
    /\ sessions' = [k \in Keys |->
          IF sessions[k].activeTask = None THEN NoQueue
          ELSE [sessions[k] EXCEPT !.tasks = <<>>, !.ready = FALSE]]
    /\ input' = FALSE
    /\ watching' = FALSE

Queued == UNION {ToSet(sessions[k].tasks) : k \in Keys}
ActiveTasks == {sessions[k].activeTask : k \in Keys} \ {None}

\* cancelAll, then cancelBufferedTasks on taskInput (a no-op once taskInput is nil).
CancelEverything ==
    LET buffered == IF input THEN ToSet(tasks) ELSE {}
    IN  /\ CancelledTables
        /\ expired' = expired \cup Queued \cup ActiveTasks
        /\ notices' = CancelNotices(Queued \cup buffered)
        /\ tasks' = IF input THEN <<>> ELSE tasks
        /\ UNCHANGED <<closed, cancelled, order, limit, active, completed, go>>

-----------------------------------------------------------------------------
(* Start's loop. *)

\* The checks before the select.  enqueue is followed by the same test of ctx.Err(),
\* with nothing in between, so it needs no step of its own.
TopCancelled ==
    /\ loop = "top" /\ watching /\ cancelled
    /\ CancelEverything
    /\ loop' = "select"

TopDispatches ==
    /\ loop = "top" /\ ~(watching /\ cancelled)
    /\ loop' = IF watching THEN "dispatch" ELSE "select"
    /\ UNCHANGED <<env, sched, completed, expired, go, notices>>

Dispatch ==
    /\ loop = "dispatch"
    /\ DispatchOne
    /\ UNCHANGED <<env, loop, input, watching, completed>>

DispatchEnds ==
    /\ loop = "dispatch" /\ (active >= limit \/ ready = <<>>)
    /\ loop' = "select"
    /\ UNCHANGED <<env, sched, completed, expired, go, notices>>

Return ==
    /\ loop = "select" /\ ~input /\ Idle
    /\ loop' = "returned"
    /\ UNCHANGED <<env, sched, completed, expired, go, notices>>

Selecting == loop = "select" /\ ~(~input /\ Idle)

SelectTask ==
    /\ Selecting /\ input /\ tasks # <<>>
    /\ tasks' = Tail(tasks)
    /\ Enqueue(Head(tasks))
    /\ loop' = "top"
    /\ UNCHANGED <<closed, cancelled, order, limit, input, watching, completed, expired, go, notices>>

SelectClosed ==
    /\ Selecting /\ input /\ tasks = <<>> /\ closed
    /\ input' = FALSE
    /\ loop' = "top"
    /\ UNCHANGED <<env, watching, sessions, ready, active, completed, expired, go, notices>>

SelectCancelled ==
    /\ Selecting /\ watching /\ cancelled
    /\ CancelEverything
    /\ loop' = "top"

SelectCompleted ==
    /\ Selecting /\ completed # <<>>
    /\ completed' = Tail(completed)
    /\ Complete(Head(completed))
    /\ loop' = "top"
    /\ UNCHANGED <<env, input, watching, expired, go, notices>>

-----------------------------------------------------------------------------
(* taskScheduler.run around runOne. *)

Advance(t, from, to) ==
    /\ go[t] = from
    /\ go' = [go EXCEPT ![t] = to]
    /\ UNCHANGED <<env, loop, sched, completed, expired, notices>>

\* runOne is over: its notice is out, and run's deferred function cancelled the task.
Leave(t, sent) ==
    /\ go' = [go EXCEPT ![t] = "finished"]
    /\ notices' = [notices EXCEPT ![t] = @ \o sent]
    /\ expired' = expired \cup {t}
    /\ UNCHANGED <<env, loop, sched, completed>>

LockSession(t) == Advance(t, "locking", "preparing")

\* acquireSessionLock's context branch: deliverCancellation.
LockCancelled(t) == go[t] = "locking" /\ Dead(t) /\ Leave(t, <<"cancelled">>)

PrepareTask(t) == go[t] = "preparing" /\ ~Dead(t) /\ Advance(t, "preparing", "running")

\* prepareTask failed.  This notice, unlike all others, goes out under the context of
\* the task, so the transport refuses it once that context has ended.
PrepareFails(t) ==
    go[t] = "preparing" /\ Leave(t, IF Dead(t) THEN <<>> ELSE <<"outcome">>)

\* Everything after a successful prepare delivers its notice under a fresh context:
\* result, failure, cancellation of the run, and a panic through handleTaskPanic.
RunEnds(t) == go[t] = "running" /\ Leave(t, <<"outcome">>)
Panics(t) == go[t] = "preparing" /\ Leave(t, <<"outcome">>)

\* s.completed <- key
Signal(t) ==
    /\ go[t] = "finished"
    /\ Len(completed) < limit
    /\ completed' = Append(completed, SessionOf[t])
    /\ go' = [go EXCEPT ![t] = "exited"]
    /\ UNCHANGED <<env, loop, sched, expired, notices>>

-----------------------------------------------------------------------------

Environment ==
    \/ \E t \in Tasks : Send(t) \/ Expire(t)
    \/ CloseTasks \/ CancelRunner

Loop ==
    \/ TopCancelled \/ TopDispatches \/ Dispatch \/ DispatchEnds \/ Return
    \/ SelectTask \/ SelectClosed \/ SelectCancelled \/ SelectCompleted

Goroutine(t) ==
    \/ LockSession(t) \/ LockCancelled(t)
    \/ PrepareTask(t) \/ PrepareFails(t) \/ Panics(t)
    \/ RunEnds(t) \/ Signal(t)

Next == Environment \/ Loop \/ \E t \in Tasks : Goroutine(t)

\* The loop and the goroutines are scheduled, an application run ends (its context has
\* a deadline), and Go's select picks uniformly among the ready cases, so a case that
\* is ready again and again is taken.
Fairness ==
    /\ WF_vars(Loop)
    /\ SF_vars(SelectTask) /\ SF_vars(SelectClosed) /\ SF_vars(SelectCompleted)
    /\ \A t \in Tasks : WF_vars(Goroutine(t))

Spec == Init /\ [][Next]_vars /\ Fairness

-----------------------------------------------------------------------------

Alive == {t \in Tasks : go[t] \in {"locking", "preparing", "running", "finished"}}

\* The scheduler's counter equals the goroutines it started and has not heard of
\* again, so a goroutine never blocks on the completed channel, whose capacity is
\* limit (newTaskScheduler, dispatch, complete).
ActiveCountsGoroutines ==
    /\ active = Cardinality(Alive) + Len(completed)
    /\ active <= limit

\* No lost wakeup: while the runner still dispatches, a session with queued tasks
\* and nobody running for it is in the ready list, once (markReady, dispatch,
\* complete).
QueuedSessionIsReady ==
    watching =>
        \A k \in Keys :
            /\ sessions[k].tasks # <<>> /\ sessions[k].activeTask = None => sessions[k].ready
            /\ Cardinality({i \in DOMAIN ready : ready[i] = k}) = IF sessions[k].ready THEN 1 ELSE 0

\* The entry of a session is kept exactly while it has something to do: a leaked
\* entry would keep Start from ever returning (idle).
NoLeakedSession ==
    \A k \in Keys :
        sessions[k].present <=> sessions[k].tasks # <<>> \/ sessions[k].activeTask # None

\* The scheduler's three tables agree with each other and with the goroutines.
SchedulerIsExact == TypeOK /\ ActiveCountsGoroutines /\ QueuedSessionIsReady /\ NoLeakedSession

\* Every accepted task is run or cancelled, for good (so it is enough that again and
\* again all of them are), and after close(tasks) Start returns, cancelled or not.
AcceptedIsSettled ==
    /\ []<>(\A t \in ToSet(order) : go[t] = "exited" \/ notices[t] = <<"cancelled">>)
    /\ closed ~> loop = "returned"

-----------------------------------------------------------------------------

\* The abstract executor each state of the runner stands for.
Status(t) ==
    IF t \notin ToSet(order) THEN "unsent"
    ELSE IF go[t] \in {"locking", "preparing", "running"} THEN "running"
    ELSE IF go[t] = "none" /\ notices[t] = <<>> THEN "pending" ELSE "done"

Executor == INSTANCE SerialExecutor WITH status <- [t \in Tasks |-> Status(t)]

\* The runner implements the serial executor: FIFO and one at a time per session, at
\* most limit tasks at once, no task run twice or run after it was dropped.
ImplementsExecutor == Executor!Spec
=============================================================================
