-------------------------- MODULE MCApprovalStore --------------------------
(* What goroutines wait on, each explored by itself: the lock of a session,    *)
(* the operator's approval, and the commands of the shell tools.              *)
(*                                                                            *)
(* Three tasks over two session keys; three lock addresses, so that a key     *)
(* that loses its lock can be bound to another one. Three waits for approval, *)
(* two under one ID (the second registers after the first, or conflicts with  *)
(* it), and four callbacks: rival verdicts for that ID, one for the other,    *)
(* and one for an ID nobody waits under. A command of each kind by itself,    *)
(* with a descendant and a killed anchor.                                     *)
EXTENDS ApprovalStore, FeishuSessionLock, ShellProcesses

CONSTANTS w1, w2, w3, c1, c2, c3, c4, i1, i2, i3, t1, t2, t3, k1, k2, l1, l2, l3

VARIABLE part

MCTasks == {t1, t2, t3}
MCKeys == {k1, k2}
MCLockIds == {l1, l2, l3}

MCWaits == {w1, w2, w3}
MCCallbacks == {c1, c2, c3, c4}
MCIds == {i1, i2, i3}
MCRequestId == [w \in MCWaits |-> IF w = w3 THEN i2 ELSE i1]
MCCallbackId == [c \in MCCallbacks |-> CASE c = c3 -> i2 [] c = c4 -> i3 [] OTHER -> i1]
MCVerdict == [c \in MCCallbacks |-> IF c = c2 THEN "deny" ELSE "allow"]

\* One command of each kind; a part of its own starts it and no other.
MCCommands == {"plain", "readonly", "supervised"}
MCSupervised == {"supervised"}
MCReadOnly == {"readonly"}

MCInit == Init /\ ApprovalInit /\ ShellInit /\ part \in {"lock", "approval"} \cup MCCommands

MCNext ==
    \/ part = "lock" /\ Next /\ UNCHANGED <<part, approvalVars, shellVars>>
    \/ part = "approval" /\ ApprovalNext /\ UNCHANGED <<part, vars, shellVars>>
    \/ /\ part \in MCCommands /\ ShellNext /\ UNCHANGED <<part, vars, approvalVars>>
       /\ \A c \in MCCommands \ {part} : call'[c] = "idle"

MCSpec ==
    /\ MCInit /\ [][MCNext]_<<part, vars, approvalVars, shellVars>>
    /\ Fairness /\ ApprovalFairness /\ ShellFairness

\* Nobody waits for ever: not for the lock of a session, not for the operator's verdict, and
\* not for a command or the cleanup of commands.
WaitsEnd == WaiterIsServed /\ WaitReturns /\ CommandsReturn
=============================================================================
