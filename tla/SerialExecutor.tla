--------------------------- MODULE SerialExecutor ---------------------------
(***************************************************************************)
(* What the Feishu runner promises about accepted tasks, without queues,   *)
(* counters or goroutines: tasks of one session run one at a time and in   *)
(* the order they were accepted, at most limit tasks run at once, and a    *)
(* task is run at most once or dropped unrun.                              *)
(***************************************************************************)
EXTENDS Naturals, FiniteSets, Sequences

CONSTANTS Tasks, Keys, SessionOf

VARIABLES
    status,   \* "unsent", "pending", "running" or "done"
    order,    \* the accepted tasks, oldest first
    limit     \* how many tasks may run at once

vars == <<status, order, limit>>

Statuses == {"unsent", "pending", "running", "done"}

Init ==
    /\ status = [t \in Tasks |-> "unsent"]
    /\ order = <<>>
    /\ limit \in Nat \ {0}

In(st) == {t \in Tasks : status[t] = st}

\* The tasks of t's session accepted before t.
Earlier(t) ==
    {order[i] : i \in {j \in DOMAIN order :
        /\ SessionOf[order[j]] = SessionOf[t]
        /\ \E m \in DOMAIN order : order[m] = t /\ j < m}}

Accept(t) ==
    /\ status[t] = "unsent"
    /\ status' = [status EXCEPT ![t] = "pending"]
    /\ order' = Append(order, t)
    /\ UNCHANGED limit

\* t starts; the tasks of its session that still wait before it are dropped unrun.
Start(t) ==
    LET dropped == Earlier(t) \cap In("pending")
    IN  /\ status[t] = "pending"
        /\ Cardinality(In("running")) < limit
        /\ \A u \in Earlier(t) \ dropped : status[u] = "done"
        /\ status' = [u \in Tasks |-> IF u = t THEN "running"
                                      ELSE IF u \in dropped THEN "done" ELSE status[u]]
        /\ UNCHANGED <<order, limit>>

Drop(dropped) ==
    /\ dropped # {}
    /\ status' = [u \in Tasks |-> IF u \in dropped THEN "done" ELSE status[u]]
    /\ UNCHANGED <<order, limit>>

Finish(t) ==
    /\ status[t] = "running"
    /\ status' = [status EXCEPT ![t] = "done"]
    /\ UNCHANGED <<order, limit>>

Next ==
    \/ \E t \in Tasks : Accept(t) \/ Start(t) \/ Finish(t)
    \/ \E dropped \in SUBSET In("pending") : Drop(dropped)

Spec == Init /\ [][Next]_vars
=============================================================================
