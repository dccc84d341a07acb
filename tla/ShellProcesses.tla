--------------------------- MODULE ShellProcesses ---------------------------
(* Commands of the bash tools and the processes they leave                     *)
(* (internal/processtree/tree_unix.go, internal/shellcmd/runner.go,            *)
(* internal/tools/bash_supervisor.go).  A command runs in a process group that *)
(* is named after an anchor process, so that the group's number cannot be      *)
(* given to strangers while the tree may still send it a signal.  A plain      *)
(* command releases what it left running, a supervised or a read-only one      *)
(* ends it, and the supervisor of a child run ends everything when it cleans   *)
(* up.  Output and exit codes are left out; one descendant stands for all.     *)
EXTENDS Naturals, FiniteSets

CONSTANTS
    Commands,
    Supervised, ReadOnly,   \* whose commands are run by the supervisor of a child, and read-only
    MaxSurprises            \* bound: descendants and killed anchors, of all commands together

ASSUME ShellAssumption == Supervised \subseteq Commands /\ ReadOnly \subseteq Commands \ Supervised

VARIABLES
    call,        \* the goroutine that runs a command
    waiter,      \* the goroutine that waits for it: none, waiting, exited, closing, done
    processes,   \* leader, anchor and descendant of a command's group, whether strangers have its number
    tree,        \* forceCalled, anchorInput still open, anchorExited, cleanupErr of its waiter
    cleanup,     \* BashProcessSupervisor.Cleanup: its stage, the trees still to be signalled, its errors
    active,      \* BashProcessSupervisor.active
    closed,      \* BashProcessSupervisor.closed
    overreach    \* history: strangers got a signal although nobody else killed the anchor

shellVars == <<call, waiter, processes, tree, cleanup, active, closed, overreach>>

NoProcesses == [leader |-> "none", anchor |-> "none", child |-> "none", pipe |-> FALSE,
                grouped |-> TRUE, reused |-> FALSE, foul |-> FALSE]
NoTree == [force |-> FALSE, input |-> FALSE, exited |-> FALSE, failed |-> FALSE]

ShellInit ==
    /\ call = [c \in Commands |-> "idle"]
    /\ waiter = [c \in Commands |-> "none"]
    /\ processes = [c \in Commands |-> NoProcesses]
    /\ tree = [c \in Commands |-> NoTree]
    /\ cleanup = [at |-> "no", todo |-> {}, all |-> {}, failed |-> FALSE]
    /\ active = {} /\ closed = FALSE
    /\ overreach = FALSE

-----------------------------------------------------------------------------
(* What processes do by themselves.                                           *)

\* A process that was not waited for keeps its number, dead or alive.
InTable(state) == state \in {"alive", "zombie"}

Members(p) ==
    {m \in {"leader", "anchor"} : InTable(p[m])} \cup
    (IF p.child = "alive" /\ p.grouped THEN {"child"} ELSE {})

Dead(state) == IF state = "alive" THEN "zombie" ELSE state

\* SIGKILL to the group; the descendant is waited for by init.
Killed(p) == [p EXCEPT !.leader = Dead(@), !.anchor = Dead(@),
                       !.child = IF @ = "alive" /\ p.grouped THEN "gone" ELSE @]

ChangeProcesses(c, p) ==
    /\ processes' = [processes EXCEPT ![c] = p]
    /\ UNCHANGED <<call, waiter, tree, cleanup, active, closed, overreach>>

Surprises == Cardinality({c \in Commands : processes[c].child # "none"})
                + Cardinality({c \in Commands : processes[c].foul})

\* A descendant may keep the output open, and may leave the group.
Fork(c, pipe, grouped) ==
    /\ processes[c].leader = "alive" /\ processes[c].child = "none" /\ Surprises < MaxSurprises
    /\ ChangeProcesses(c, [processes[c] EXCEPT !.child = "alive", !.pipe = pipe, !.grouped = grouped])

LeaderExits(c) ==
    /\ processes[c].leader = "alive"
    /\ ChangeProcesses(c, [processes[c] EXCEPT !.leader = "zombie"])

ChildExits(c) ==
    /\ processes[c].child = "alive"
    /\ ChangeProcesses(c, [processes[c] EXCEPT !.child = "gone"])

\* The command kills its own group, anchor and all, or something kills the anchor.
KillsOwnGroup(c) ==
    /\ processes[c].leader = "alive" /\ Surprises < MaxSurprises
    /\ ChangeProcesses(c, [Killed(processes[c]) EXCEPT !.foul = TRUE])

AnchorIsKilled(c) ==
    /\ processes[c].anchor = "alive" /\ tree[c].input /\ Surprises < MaxSurprises
    /\ ChangeProcesses(c, [processes[c] EXCEPT !.anchor = "zombie", !.foul = TRUE])

\* The anchor's read ends with its input.
AnchorReadsEOF(c) ==
    /\ processes[c].anchor = "alive" /\ ~tree[c].input
    /\ ChangeProcesses(c, [processes[c] EXCEPT !.anchor = "zombie"])

\* anchor.Wait, in the goroutine start left behind: anchorDone has its value.
AnchorIsReaped(c) ==
    /\ processes[c].anchor = "zombie"
    /\ ChangeProcesses(c, [processes[c] EXCEPT !.anchor = "reaped"])

\* An empty group's number goes to strangers.
NumberIsReused(c) ==
    /\ processes[c].anchor = "reaped" /\ Members(processes[c]) = {} /\ ~processes[c].reused
    /\ ChangeProcesses(c, [processes[c] EXCEPT !.reused = TRUE])

-----------------------------------------------------------------------------
(* unixTree.                                                                  *)

\* signalLocked(force), with what the group does upon SIGTERM: the next processes and tree
\* of a command, whether it failed, whether it hit strangers.
Signalled(p, t, force, obeys) ==
    LET exited == t.exited \/ p.anchor = "reaped"
        arrives == Members(p) # {} \/ p.reused
    IN  IF t.force THEN [p |-> p, t |-> t, failed |-> FALSE, strangers |-> FALSE]
        ELSE [p |-> IF Members(p) = {} THEN p
                    ELSE IF force THEN Killed(p)
                    ELSE IF obeys THEN [Killed(p) EXCEPT !.anchor = p.anchor] ELSE p,
              t |-> [t EXCEPT !.exited = exited, !.force = force /\ arrives],
              failed |-> exited \/ ~arrives,
              strangers |-> Members(p) = {} /\ p.reused]

\* A changed form: a second SIGKILL is sent although the first one emptied the group.
SignalledAgain(p, t, force, obeys) ==
    LET exited == t.exited \/ p.anchor = "reaped"
        arrives == Members(p) # {} \/ p.reused
    IN  [p |-> IF force THEN Killed(p) ELSE p,
         t |-> [t EXCEPT !.exited = exited, !.force = force /\ arrives],
         failed |-> exited \/ ~arrives,
         strangers |-> Members(p) = {} /\ p.reused]

SendSignal(p, t, force, obeys) == Signalled(p, t, force, obeys)

\* What a signal to the tree of c changes, closing the anchor's input too or not.
Signal(c, force, obeys, close) ==
    LET s == SendSignal(processes[c], tree[c], force, obeys)
    IN  /\ processes' = [processes EXCEPT ![c] = s.p]
        /\ tree' = [tree EXCEPT ![c] = IF close THEN [s.t EXCEPT !.input = FALSE] ELSE s.t]
        /\ overreach' = (overreach \/ (s.strangers /\ ~processes[c].foul))

SignalFails(c, force) == SendSignal(processes[c], tree[c], force, FALSE).failed

\* waitForAnchorExitLocked and waitForAnchorReleaseLocked: the anchor is gone, or time is up.
AnchorWaitEnds(c, timeout) == timeout \/ tree[c].exited \/ processes[c].anchor = "reaped"

-----------------------------------------------------------------------------
(* Running a command.                                                         *)

StartProcesses(c) ==
    /\ processes' = [processes EXCEPT ![c] = [NoProcesses EXCEPT !.leader = "alive", !.anchor = "alive"]]
    /\ tree' = [tree EXCEPT ![c] = [NoTree EXCEPT !.input = TRUE]]
    /\ waiter' = [waiter EXCEPT ![c] = "waiting"]
    /\ call' = [call EXCEPT ![c] = "running"]

\* Run registers and starts the command under the supervisor's mutex; others just start.
StartCommand(c) ==
    /\ call[c] = "idle"
    /\ c \in Supervised => ~closed
    /\ StartProcesses(c)
    /\ active' = IF c \in Supervised THEN active \cup {c} ELSE active
    /\ UNCHANGED <<cleanup, closed, overreach>>

\* The supervisor is closed, or start fails and abortUnixAnchor leaves nothing behind.
DoNotStart(c) ==
    /\ call[c] = "idle"
    /\ call' = [call EXCEPT ![c] = "returned"]
    /\ UNCHANGED <<waiter, processes, tree, cleanup, active, closed, overreach>>

\* cmd.Wait waits for the leader, and then for the output to be closed.
LeaderIsReaped(c) ==
    /\ waiter[c] = "waiting" /\ processes[c].leader = "zombie"
    /\ ChangeProcesses(c, [processes[c] EXCEPT !.leader = "reaped"])

WaitEndsFor(c) ==
    /\ waiter[c] = "waiting" /\ processes[c].leader = "reaped"
    /\ ~(processes[c].child = "alive" /\ processes[c].pipe)

\* wait: tree.Close begins with a SIGKILL.
WaiterCloses(c) ==
    /\ c \in Supervised /\ WaitEndsFor(c)
    /\ waiter' = [waiter EXCEPT ![c] = "closing"]
    /\ Signal(c, TRUE, FALSE, TRUE)
    /\ UNCHANGED <<call, cleanup, active, closed>>

\* The anchor was waited for, and s.wait gives the process up.
WaiterIsDone(c, timeout) ==
    /\ waiter[c] = "closing" /\ AnchorWaitEnds(c, timeout)
    /\ waiter' = [waiter EXCEPT ![c] = "done"]
    /\ tree' = [tree EXCEPT ![c].exited = @ \/ processes[c].anchor = "reaped",
                            ![c].failed = timeout \/ ~tree[c].force]
    /\ active' = active \ {c}
    /\ UNCHANGED <<call, processes, cleanup, closed, overreach>>

WaiterExits(c) ==
    /\ c \notin Supervised /\ WaitEndsFor(c)
    /\ waiter' = [waiter EXCEPT ![c] = "exited"]
    /\ UNCHANGED <<call, processes, tree, cleanup, active, closed, overreach>>

Go(c, from, to) == call[c] = from /\ call' = [call EXCEPT ![c] = to]

\* The command is done by itself: a plain one releases its group, a read-only one kills it.
Completed(c) ==
    /\ waiter[c] = "exited"
    /\ IF c \in ReadOnly
       THEN Go(c, "running", "closing") /\ Signal(c, TRUE, FALSE, TRUE)
       ELSE /\ Go(c, "running", "releasing")
            /\ tree' = [tree EXCEPT ![c].input = FALSE]
            /\ UNCHANGED <<processes, overreach>>
    /\ UNCHANGED <<waiter, cleanup, active, closed>>

CompletedSupervised(c) ==
    /\ c \in Supervised /\ waiter[c] = "done"
    /\ call[c] \in {"running", "killed"}
    /\ call' = [call EXCEPT ![c] = "returned"]
    /\ UNCHANGED <<waiter, processes, tree, cleanup, active, closed, overreach>>

\* The context is done, at the latest when the timeout is: SIGKILL at once. The waiter's
\* tree.Close has the mutex while it waits for the anchor.
CancelCommand(c) ==
    /\ waiter[c] # "closing"
    /\ Go(c, "running", "killed")
    /\ Signal(c, TRUE, FALSE, FALSE)
    /\ UNCHANGED <<waiter, cleanup, active, closed>>

\* The kill was waited for, or took too long: tree.Close, by the supervisor's waiter if
\* there is one.
ReapEnds(c, timeout) ==
    /\ call[c] = "killed"
    /\ timeout \/ waiter[c] = "exited"
    /\ IF c \in Supervised
       THEN call' = [call EXCEPT ![c] = "gaveUp"] /\ UNCHANGED <<processes, tree, overreach>>
       ELSE call' = [call EXCEPT ![c] = "closing"] /\ Signal(c, TRUE, FALSE, TRUE)
    /\ UNCHANGED <<waiter, cleanup, active, closed>>

CloseEnds(c, timeout) ==
    /\ call[c] \in {"closing", "releasing"} /\ AnchorWaitEnds(c, timeout)
    /\ call' = [call EXCEPT ![c] = IF @ = "closing" THEN "returned" ELSE "released"]
    /\ tree' = [tree EXCEPT ![c].exited = @ \/ processes[c].anchor = "reaped"]
    /\ UNCHANGED <<waiter, processes, cleanup, active, closed, overreach>>

-----------------------------------------------------------------------------
(* BashProcessSupervisor.Cleanup.                                             *)

BeginCleanup ==
    /\ cleanup.at = "no"
    /\ closed' = TRUE
    /\ cleanup' = [cleanup EXCEPT !.at = "terminating", !.todo = active, !.all = active]
    /\ UNCHANGED <<call, waiter, processes, tree, active, overreach>>

SignalNext(c, obeys) ==
    /\ cleanup.at \in {"terminating", "killing"} /\ c \in cleanup.todo /\ waiter[c] # "closing"
    /\ LET force == cleanup.at = "killing"
       IN  /\ Signal(c, force, obeys, FALSE)
           /\ cleanup' = [cleanup EXCEPT !.todo = @ \ {c}, !.failed = @ \/ SignalFails(c, force)]
    /\ UNCHANGED <<call, waiter, active, closed>>

SignalsSent ==
    /\ cleanup.at \in {"terminating", "killing"} /\ cleanup.todo = {}
    /\ cleanup' = [cleanup EXCEPT !.at = IF @ = "terminating" THEN "grace" ELSE "reaping"]
    /\ UNCHANGED <<call, waiter, processes, tree, active, closed, overreach>>

\* Every waiter is done in time.
CleanedUp ==
    /\ cleanup.at \in {"grace", "reaping"}
    /\ \A c \in cleanup.all : waiter[c] = "done"
    /\ cleanup' = [cleanup EXCEPT !.at =
           IF cleanup.failed \/ \E c \in cleanup.all : tree[c].failed THEN "failed" ELSE "clean"]
    /\ UNCHANGED <<call, waiter, processes, tree, active, closed, overreach>>

GraceEnds ==
    /\ cleanup.at = "grace"
    /\ cleanup' = [cleanup EXCEPT !.at = "killing", !.todo = cleanup.all]
    /\ UNCHANGED <<call, waiter, processes, tree, active, closed, overreach>>

\* The caller's context, or the reaping, takes too long.
CleanupTimesOut ==
    /\ cleanup.at \in {"grace", "reaping"}
    /\ cleanup' = [cleanup EXCEPT !.at = "failed"]
    /\ UNCHANGED <<call, waiter, processes, tree, active, closed, overreach>>

ShellNext ==
    \/ \E c \in Commands :
          \/ \E pipe, grouped \in BOOLEAN : Fork(c, pipe, grouped)
          \/ LeaderExits(c) \/ ChildExits(c) \/ KillsOwnGroup(c) \/ AnchorIsKilled(c)
          \/ AnchorReadsEOF(c) \/ AnchorIsReaped(c) \/ NumberIsReused(c)
          \/ StartCommand(c) \/ DoNotStart(c)
          \/ LeaderIsReaped(c) \/ WaiterCloses(c) \/ WaiterExits(c)
          \/ \E timeout \in BOOLEAN : WaiterIsDone(c, timeout) \/ ReapEnds(c, timeout) \/ CloseEnds(c, timeout)
          \/ Completed(c) \/ CompletedSupervised(c) \/ CancelCommand(c)
          \/ \E obeys \in BOOLEAN : SignalNext(c, obeys)
    \/ BeginCleanup \/ SignalsSent \/ CleanedUp \/ GraceEnds \/ CleanupTimesOut

\* Timers fire, the system delivers what it owes, goroutines go on; a command that does
\* nothing for ever, and a cleanup nobody asks for, are not excluded.
ShellFairness ==
    /\ \A c \in Commands :
          /\ WF_shellVars(AnchorReadsEOF(c)) /\ WF_shellVars(AnchorIsReaped(c))
          /\ WF_shellVars(CancelCommand(c)) /\ WF_shellVars(Completed(c)) /\ WF_shellVars(CompletedSupervised(c))
          /\ WF_shellVars(WaiterIsDone(c, TRUE)) /\ WF_shellVars(ReapEnds(c, TRUE)) /\ WF_shellVars(CloseEnds(c, TRUE))
          /\ WF_shellVars(\E obeys \in BOOLEAN : SignalNext(c, obeys))
    /\ WF_shellVars(SignalsSent) /\ WF_shellVars(GraceEnds) /\ WF_shellVars(CleanupTimesOut)

ShellSpec == ShellInit /\ [][ShellNext]_shellVars /\ ShellFairness

-----------------------------------------------------------------------------

GroupIsEmpty(c) == processes[c].leader # "alive" /\ ~(processes[c].child = "alive" /\ processes[c].grouped)

\* No signal reaches a group that got the number of one of ours: the anchor keeps the
\* number, and nothing is sent once it was killed - unless somebody else killed the anchor.
StrangersAreSafe == ~overreach

\* A supervised or read-only command that returned left nobody in its group, and so did a
\* plain one that was cancelled; one that gave up is still the supervisor's, and the
\* supervisor reports a clean end only when all of them are.
NothingIsLeft ==
    /\ \A c \in Commands : call[c] \in {"returned", "gaveUp"} => GroupIsEmpty(c)
    /\ \A c \in Supervised : call[c] = "gaveUp" /\ waiter[c] # "done" => c \in active
    /\ cleanup.at = "clean" => active = {} /\ \A c \in Supervised : GroupIsEmpty(c)

\* What the shell tools leave behind, and whom they hit.
ProcessesAreContained == StrangersAreSafe /\ NothingIsLeft

Settled ==
    /\ \A c \in Commands : call[c] \in {"idle", "returned", "released", "gaveUp"}
    /\ cleanup.at \in {"no", "clean", "failed"}

\* Every command that was started returns, whatever its processes do, and a cleanup that began
\* ends: each happens once, so that again and again nothing is under way.
CommandsReturn == []<>Settled
=============================================================================
