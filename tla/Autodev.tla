------------------------------- MODULE Autodev -------------------------------
(***************************************************************************)
(* Unattended development (internal/autodev): one process drains the       *)
(* backlog of the user, item by item, through the SDD stages and the       *)
(* publishing steps, with a durable ledger as its only memory.  The        *)
(* process may die between any two steps and is started again; a core      *)
(* agent does the work of a stage or does not, whatever it reports; git,   *)
(* the remote and the ledger's disk may fail.                              *)
(*                                                                         *)
(* External and assumed: an attempt does at most the work its stage asks   *)
(* for, and a query of the remote that succeeds tells what is there.       *)
(***************************************************************************)
EXTENDS AutodevLedger

CONSTANTS
    Backlogs,       \* what the user's file may say, each a sequence of entries
    Ledgers,        \* the ledgers an earlier version may have left
    MaxCandidates,  \* path and branch pairs Create tries
    MaxAttempts,    \* bound: core attempts of an item
    MaxFaults,      \* bound: deaths, failed calls and attempts that go wrong
    MaxResets       \* bound: times the user deletes the ledger

\* What an earlier version left behind: it can be loaded, one item was at work at most, and an
\* event was queued only for an issue.
LeftBehind(led) ==
    /\ WellFormed(led) /\ ValidLedger(led)
    /\ \A i, j \in DOMAIN led :
        led[i].status = "in-progress" /\ led[j].status = "in-progress" => i = j
    /\ \A i \in DOMAIN led : led[i].issue = 0 => led[i].outbox = <<>>

ASSUME AutodevAssumption ==
    /\ \A entries \in Backlogs : entries \in Seq(Range(entries))
    /\ \A led \in Ledgers : LeftBehind(led)
    /\ MaxCandidates \in Nat

VARIABLES
    backlog,   \* the user's file
    ledger,    \* the durable ledger, and the copy of the running process
    trees,     \* per branch name: its worktree and the branch on the remote
    issues,    \* the issues of the remote: the item each is marked with
    prs,       \* the pull requests: the branch of each and the issue it links
    pc,        \* where the process is, "down" when none runs
    cur,       \* the slug of the item being processed
    ctx,       \* the stage context
    faults, resets,
    started,   \* ghost: the attempts that were started under this ledger
    repeated,  \* ghost: an attempt identity was used for a second start
    reported,  \* ghost: the issues reported to the user
    rejected   \* ghost: a workflow step proposed a change the ledger refused

disk == <<backlog, ledger>>
world == <<trees, issues, prs>>
ghosts == <<started, repeated, reported, rejected>>
bounds == <<faults, resets>>
autodevVars == <<disk, world, pc, cur, ctx, bounds, ghosts>>

Idle == [phase |-> "sdd", pos |-> 1, feature |-> 0, issue |-> 0, pr |-> 0,
         verifyFirst |-> FALSE, exit |-> FALSE, status |-> Unset, retry |-> Unset]

AutodevInit ==
    /\ backlog \in Backlogs
    /\ ledger \in Ledgers
    /\ trees = <<>> /\ issues = <<>> /\ prs = <<>>
    /\ pc = "down" /\ cur = <<>> /\ ctx = Idle
    /\ faults = 0 /\ resets = 0
    /\ started = {} /\ repeated = FALSE /\ reported = {} /\ rejected = FALSE

-----------------------------------------------------------------------------
\* The item at work, its worktree, its current step.

item == ItemOf(ledger, cur)
tree == trees[item.branch]

Steps == IF ctx.phase = "sdd" THEN Pipeline ELSE RemoteSteps
step == Steps[ctx.pos]
AtEnd == ctx.pos > Len(Steps)

Stop == pc' = "down" /\ cur' = <<>> /\ ctx' = Idle
Goto(label, c) == pc' = label /\ ctx' = c /\ UNCHANGED cur

Fault == faults < MaxFaults /\ faults' = faults + 1 /\ UNCHANGED resets
FaultIf(bad) == IF bad THEN Fault ELSE UNCHANGED bounds

\* A step that reports an error ends the run: nothing after it is tried.
Fail == Fault /\ Stop /\ UNCHANGED <<disk, world, ghosts>>

\* Ledger.Commit: refused, not written, written with an error, or written.  A step
\* that is bad in itself counts as a fault, too.
Record(bad, after, label, c) ==
    LET kept == Freeze(item, after)
        led == [ledger EXCEPT ![Slot(ledger, cur)] = kept]
        accepted == ValidChange(item, kept) /\ ValidLedger(led)
    IN  /\ UNCHANGED <<backlog, world, started, repeated, reported>>
        /\ \/ ~accepted /\ rejected' = TRUE /\ Stop /\ UNCHANGED <<ledger, bounds>>
           \/ accepted /\ ledger' \in {ledger, led} /\ UNCHANGED rejected /\ Stop /\ Fault
           \/ /\ accepted /\ ledger' = led /\ UNCHANGED rejected /\ FaultIf(bad)
              /\ IF label = "down" THEN Stop ELSE Goto(label, c)

Commit(after, label, c) == Record(FALSE, after, label, c)

-----------------------------------------------------------------------------
\* The user, while no process runs.

EditBacklog ==
    /\ pc = "down"
    /\ backlog' \in Backlogs \ {backlog}
    /\ UNCHANGED <<ledger, world, pc, cur, ctx, bounds, ghosts>>

\* The ledger is deleted; the branches, issues and pull requests stay.
ResetLedger ==
    /\ pc = "down" /\ resets < MaxResets /\ ledger # <<>>
    /\ resets' = resets + 1 /\ ledger' = <<>> /\ started' = {}
    /\ UNCHANGED <<backlog, world, pc, cur, ctx, faults, repeated, reported, rejected>>

-----------------------------------------------------------------------------
\* Run.

\* The ledger is loaded and checked, the preconditions tested, the backlog parsed
\* and reconciled, and the outcome saved even when it is a conflict.
Start ==
    /\ pc = "down"
    /\ UNCHANGED <<backlog, world, ghosts, cur, ctx>>
    /\ LET seeded == Seed(ledger, backlog)
       IN  /\ ValidLedger(ledger) /\ ValidLedger(seeded.ledger)
           /\ ledger' = seeded.ledger
           /\ \/ UNCHANGED pc /\ FaultIf(~seeded.conflict)
              \/ ~seeded.conflict /\ pc' = "next" /\ UNCHANGED bounds

\* nextItem: work in progress comes first; the run ends when nothing is left.
NextItem ==
    LET resumed == Runnable(ledger, "in-progress")
    IN  IF resumed # {} THEN resumed ELSE Runnable(ledger, "pending")

TakeItem ==
    /\ pc = "next"
    /\ \/ NextItem = {} /\ Stop
       \/ \E k \in Best(ledger, NextItem) : pc' = "create" /\ cur' = ledger[k].slug /\ ctx' = Idle
    /\ UNCHANGED <<disk, world, bounds, ghosts>>

-----------------------------------------------------------------------------
\* WorktreeManager.

Candidate(slug, k) == IF k = 1 THEN slug ELSE Append(slug, k)

FreshTree == [dir |-> TRUE, features |-> 0, arts |-> {}, dirty |-> FALSE, staged |-> FALSE,
              head |-> 0, tip |-> 0]

Pushed(t) == t.tip > 0 /\ t.tip = t.head

\* reusableLeftover: unpublished work; when the remote cannot be asked, a dirty tree.
Reusable(t, remote) == IF remote THEN ~Pushed(t) ELSE t.dirty

\* Branch name k of the slug can be taken: unused, or the leftover of a run that died.
Free(name, remote) ==
    IF name \notin DOMAIN trees THEN TRUE ELSE trees[name].dir /\ Reusable(trees[name], remote)

FirstFree(slug, remote) ==
    LET free == {k \in 1..MaxCandidates : Free(Candidate(slug, k), remote)}
    IN  IF free = {} THEN 0 ELSE CHOOSE k \in free : \A m \in free : k <= m

Begin(name) ==
    Commit([item EXCEPT !.status = "in-progress", !.branch = name], "stage",
           [Idle EXCEPT !.pos = IF item.stage = "none" THEN 1
                                ELSE IF Position(Pipeline, item.stage) = 0 THEN Len(Pipeline) + 1
                                ELSE Position(Pipeline, item.stage)
                                     + (IF item.state = "verified" THEN 1 ELSE 0),
                        !.feature = item.feature])

\* Create, with the worktree made, reused or attached again.
Create ==
    /\ pc = "create"
    /\ UNCHANGED <<disk, issues, prs, ghosts>>
    /\ \E remote \in BOOLEAN :
        LET resumed == item.status = "in-progress" /\ item.branch # Unset
            k == FirstFree(cur, remote)
            name == IF resumed THEN item.branch ELSE Candidate(cur, k)
        IN  /\ resumed \/ k # 0
            /\ FaultIf(~remote)
            /\ trees' = [b \in DOMAIN trees \cup {name} |->
                            IF b \notin DOMAIN trees THEN FreshTree
                            ELSE IF b = name THEN [trees[b] EXCEPT !.dir = TRUE] ELSE trees[b]]
            /\ Goto("begin", [Idle EXCEPT !.status = name])

\* The item is recorded in progress on its branch, and the stage to resume at chosen.
BeginItem == pc = "begin" /\ Begin(ctx.status)

-----------------------------------------------------------------------------
\* What the verifications see.

CommittedAndClean == ~tree.dirty /\ tree.head > 0
IssuesOf(id) == {n \in DOMAIN issues : issues[n] = id}
PrsOf(branch) == {n \in DOMAIN prs : prs[n].branch = branch}
Linked(n) == ctx.issue = 0 \/ prs[n].link = ctx.issue

\* The pull request a branch resolves to, 0 when none, without an issue link, or ambiguous.
FoundIssue ==
    IF ctx.issue # 0 THEN ctx.issue
    ELSE IF Cardinality(IssuesOf(item.id)) = 1 THEN CHOOSE n \in IssuesOf(item.id) : TRUE ELSE 0
FoundPr ==
    LET ns == IF ctx.pr # 0 THEN {ctx.pr} ELSE PrsOf(item.branch)
    IN  IF Cardinality(ns) = 1 /\ \A n \in ns : Linked(n) THEN CHOOSE n \in ns : TRUE ELSE 0

IdentityStep == step \in {"issue", "pr"}
Ambiguity == \/ step = "issue" /\ ctx.issue = 0 /\ Cardinality(IssuesOf(item.id)) > 1
             \/ step = "pr" /\ ctx.pr = 0 /\ Cardinality(PrsOf(item.branch)) > 1

\* An artifact and, where the stage has one, its passing review; the tasks all ticked, the
\* completion gate green and something changed.
ArtifactVerified == <<step, ctx.feature>> \in tree.arts
ImplementVerified == ArtifactVerified /\ (tree.dirty \/ tree.head > 0)
StagedVerified == tree.staged \/ CommittedAndClean

Verified ==
    CASE step = "stage-changes" -> StagedVerified
      [] step = "commit-staged" -> CommittedAndClean
      [] step = "push" -> Pushed(tree)
      [] step = "issue" -> FoundIssue # 0
      [] step = "pr" -> FoundPr # 0
      [] step = "implement-tasks" -> ImplementVerified
      [] OTHER -> ArtifactVerified

\* resolveIssue and resolvePR note the number they found.
Bound(c) == [c EXCEPT !.issue = IF step = "issue" THEN FoundIssue ELSE @,
                      !.pr = IF step = "pr" THEN FoundPr ELSE @]

-----------------------------------------------------------------------------
\* The loop over the stages of an item, and over the publishing steps.

\* A step found running is resumed without a new intent; verifying it comes first.
Resuming == item.stage = step /\ item.state = "running"

Stage ==
    /\ pc = "stage" /\ ~AtEnd
    /\ IF Resuming
       THEN Goto("step", [ctx EXCEPT !.verifyFirst = TRUE]) /\ UNCHANGED <<disk, world, bounds, ghosts>>
       ELSE Commit([item EXCEPT !.stage = step, !.state = "running"], "step",
                   [ctx EXCEPT !.verifyFirst = FALSE])

\* Preflight, Skip and the verification of a resumed step: the work is already there.
AlreadyDone ==
    \/ IdentityStep /\ Verified
    \/ step \in {"stage-changes", "commit-staged"} /\ CommittedAndClean
    \/ step = "push" /\ Verified
    \/ ctx.verifyFirst /\ Verified

Skip ==
    /\ pc = "step" /\ AlreadyDone
    /\ Goto("verified", Bound(ctx))
    /\ UNCHANGED <<disk, world, bounds, ghosts>>

\* materializeRequirements: a feature directory is named unless one is recorded.
Materialize ==
    /\ pc = "step" /\ step = "materialize-requirements" /\ ~AlreadyDone
    /\ LET dir == IF ctx.feature = 0 THEN tree.features + 1 ELSE ctx.feature
       IN  /\ trees' = [trees EXCEPT ![item.branch].features = IF dir > @ THEN dir ELSE @,
                                     ![item.branch].arts = @ \cup {<<step, dir>>},
                                     ![item.branch].dirty = TRUE]
           /\ Goto("verified", [ctx EXCEPT !.feature = dir])
    /\ UNCHANGED <<disk, issues, prs, bounds, ghosts>>

\* Mutant: the core is asked again whatever is already there.
PromptBlind ==
    /\ pc = "step" /\ step # "materialize-requirements"
    /\ Goto("attempt", ctx)
    /\ UNCHANGED <<disk, world, bounds, ghosts>>

\* The prompt is made.  A query that failed is taken as not skipped.
Prompt ==
    /\ pc = "step" /\ step # "materialize-requirements"
    /\ ~(IdentityStep /\ (Verified \/ Ambiguity))
    /\ ctx.verifyFirst => ~Verified \/ step \in ToSet(RemoteSteps)
    /\ Goto("attempt", ctx)
    /\ UNCHANGED <<disk, world, bounds, ghosts>>

\* A failing preflight, control step or prompt.
StepFails == pc = "step" /\ Fail

\* recordCoreAttempt: the attempt is durable before it starts.
Attempt ==
    /\ pc = "attempt" /\ Len(item.attempts) < MaxAttempts
    /\ Commit(WithAttempt(item, step, LastOrdinal(item) + 1, "running"), "core", ctx)

\* What an attempt that started may leave behind.
Effect(worked) ==
    IF ~worked THEN UNCHANGED world
    ELSE CASE step = "stage-changes" ->
                /\ trees' = [trees EXCEPT ![item.branch].staged = tree.dirty]
                /\ UNCHANGED <<issues, prs>>
           [] step = "commit-staged" ->
                /\ trees' = [trees EXCEPT ![item.branch].dirty = FALSE, ![item.branch].staged = FALSE,
                                          ![item.branch].head = IF tree.dirty THEN @ + 1 ELSE @]
                /\ UNCHANGED <<issues, prs>>
           [] step = "push" ->
                /\ trees' = [trees EXCEPT ![item.branch].tip = tree.head]
                /\ UNCHANGED <<issues, prs>>
           [] step = "issue" -> issues' = Append(issues, item.id) /\ UNCHANGED <<trees, prs>>
           [] step = "pr" ->
                /\ prs' = IF PrsOf(item.branch) = {}
                          THEN Append(prs, [branch |-> item.branch, link |-> ctx.issue])
                          ELSE [n \in DOMAIN prs |->
                                  IF n \in PrsOf(item.branch) THEN [prs[n] EXCEPT !.link = ctx.issue]
                                  ELSE prs[n]]
                /\ UNCHANGED <<trees, issues>>
           [] OTHER ->
                /\ trees' = [trees EXCEPT ![item.branch].arts = @ \cup {<<step, ctx.feature>>},
                                          ![item.branch].dirty = TRUE]
                /\ UNCHANGED <<issues, prs>>

\* The outcomes a core attempt may end with, after Validate: a runner that cannot be made,
\* and a run that cannot be admitted, have not started.
StartedOutcomes ==
    {<<"succeeded", "never">>, <<"cancelled", "never">>, <<"turn_exhausted", "same_runner">>}
    \cup {"failed"} \X {"never", "same_runner", "fresh_runner"}
UnstartedOutcomes == {"start_failed"} \X {"never", "same_runner", "fresh_runner"}

Core ==
    /\ pc = "core"
    /\ LET id == <<item.id, step, LastOrdinal(item)>>
       IN  started' = started \cup {id} /\ repeated' = (repeated \/ id \in started)
    /\ \E outcome \in StartedOutcomes \cup UnstartedOutcomes, worked \in BOOLEAN :
        /\ worked => outcome \in StartedOutcomes
        /\ Effect(worked)
        /\ FaultIf(outcome[1] # "succeeded" \/ ~worked)
        /\ Goto("settle", [ctx EXCEPT !.status = outcome[1], !.retry = outcome[2]])
    /\ UNCHANGED <<disk, reported, rejected>>

\* Mutant: the core's word is taken.
SettledOnReport(ok) ==
    IF ok \/ ctx.status = "succeeded" THEN "verified"
    ELSE IF ctx.status = "cancelled" \/ ctx.retry = "never" THEN "down" ELSE "attempt"

\* After the core is drained the world is verified, the outcome recorded, and only
\* then is it decided: a verified step counts whatever the attempt said of itself.
Settled(ok) ==
    IF ok THEN "verified"
    ELSE IF ctx.status = "cancelled" \/ (ctx.status # "succeeded" /\ ctx.retry = "never") THEN "down"
    ELSE "attempt"

Settle ==
    /\ pc = "settle"
    /\ LET ran == ctx.status # "start_failed"
           ok == ran /\ Verified
           c == [ctx EXCEPT !.exit = ctx.status = "cancelled", !.status = Unset, !.retry = Unset]
           terminal == WithAttempt(item, step, LastOrdinal(item), "terminal")
       IN  \/ Commit(terminal, Settled(ok), IF ok THEN Bound(c) ELSE c)
           \/ ok /\ ~IdentityStep /\ Record(TRUE, terminal, Settled(FALSE), c)
           \/ ran /\ Record(TRUE, terminal, "down", c)

\* Mutant: no event is queued with the issue.
RecordNoEvent ==
    /\ pc = "verified"
    /\ Commit([item EXCEPT !.stage = step, !.state = "verified", !.issue = ctx.issue, !.pr = ctx.pr,
                           !.feature = IF ctx.feature # 0 THEN ctx.feature ELSE @],
              IF ctx.exit THEN "down" ELSE "stage", [ctx EXCEPT !.pos = @ + 1, !.exit = FALSE])

\* The step is recorded verified, with the numbers it bound and, for a new issue,
\* the event that will report it.
RecordVerified ==
    /\ pc = "verified"
    /\ LET found == ctx.issue # 0 /\ ctx.issue # item.issue
           after == [item EXCEPT !.stage = step, !.state = "verified",
                        !.feature = IF ctx.phase = "sdd" /\ ctx.feature # 0 THEN ctx.feature ELSE @,
                        !.issue = IF found THEN ctx.issue ELSE @,
                        !.pr = IF ctx.pr # 0 THEN ctx.pr ELSE @,
                        !.outbox = IF found THEN Append(@, [number |-> ctx.issue, delivered |-> FALSE])
                                   ELSE @]
       IN  Commit(after, IF ctx.exit THEN "down" ELSE IF found THEN "deliver" ELSE "stage",
                  [ctx EXCEPT !.pos = @ + 1, !.exit = FALSE])

-----------------------------------------------------------------------------
\* Publish.

RemoteResume(i) ==
    LET later == {k \in DOMAIN RemoteSteps :
                    IF i.state = "verified" THEN Rank(RemoteSteps[k]) > Rank(i.stage)
                    ELSE Rank(RemoteSteps[k]) >= Rank(i.stage)}
    IN  IF later = {} THEN Len(RemoteSteps) + 1 ELSE CHOOSE k \in later : \A m \in later : k <= m

Publish ==
    /\ pc = "stage" /\ ctx.phase = "sdd" /\ AtEnd
    /\ LET begun == IF Publishing(item.stage) THEN item
                    ELSE [item EXCEPT !.stage = "publish", !.state = "running"]
           c == [Idle EXCEPT !.phase = "remote", !.pos = RemoteResume(begun),
                             !.issue = item.issue, !.pr = item.pr]
       IN  IF begun = item THEN Goto("deliver", c) /\ UNCHANGED <<disk, world, bounds, ghosts>>
           ELSE Commit(begun, "deliver", c)

Undelivered == {i \in DOMAIN item.outbox : ~item.outbox[i].delivered}
FirstUndelivered == CHOOSE i \in Undelivered : \A j \in Undelivered : i <= j

\* deliverPendingEvents: the user is told, and then the ledger that he was.
Deliver ==
    /\ pc = "deliver"
    /\ UNCHANGED <<disk, world, bounds, started, repeated, rejected>>
    /\ \/ Undelivered = {} /\ Goto("stage", ctx) /\ UNCHANGED reported
       \/ /\ Undelivered # {}
          /\ reported' = reported \cup {item.outbox[FirstUndelivered].number}
          /\ Goto("mark", ctx)

MarkDelivered ==
    /\ pc = "mark"
    /\ Commit([item EXCEPT !.outbox[FirstUndelivered].delivered = TRUE], "deliver", ctx)

-----------------------------------------------------------------------------
\* The end of an item.

Finish ==
    /\ pc = "stage" /\ ctx.phase = "remote" /\ AtEnd
    /\ Commit([item EXCEPT !.status = "done", !.stage = "done", !.state = "verified",
                           !.issue = ctx.issue, !.pr = ctx.pr], "cleanup", Idle)

\* Remove keeps the branch; a worktree that cannot be removed stays.
Cleanup ==
    /\ pc = "cleanup"
    /\ \/ /\ trees' = [trees EXCEPT ![item.branch].dir = FALSE, ![item.branch].dirty = FALSE,
                                    ![item.branch].staged = FALSE]
          /\ UNCHANGED bounds
       \/ UNCHANGED trees /\ Fault
    /\ pc' = "next" /\ cur' = <<>> /\ ctx' = Idle
    /\ UNCHANGED <<disk, issues, prs, ghosts>>

\* The process is killed, its context cancelled, or a call it cannot do without fails.
Die == pc \notin {"down", "step"} /\ Fail

AutodevNext ==
    \/ EditBacklog \/ ResetLedger \/ Start \/ TakeItem \/ Create \/ BeginItem
    \/ Stage \/ Skip \/ Materialize \/ Prompt \/ StepFails \/ Attempt \/ Core \/ Settle
    \/ RecordVerified \/ Publish \/ Deliver \/ MarkDelivered \/ Finish \/ Cleanup \/ Die

AutodevSpec == AutodevInit /\ [][AutodevNext]_autodevVars

-----------------------------------------------------------------------------
(***************************************************************************)
(* Properties.                                                             *)
(***************************************************************************)

Reset == resets' # resets

\* The records are well formed, and a running process works on one that is in progress.
AutodevTypeOK ==
    /\ WellFormed(ledger) /\ ValidLedger(ledger)
    /\ pc \in {"down", "next", "create", "begin", "stage", "step", "attempt", "core", "settle",
               "verified", "deliver", "mark", "cleanup"}
    /\ pc \notin {"down", "next"} => \E i \in DOMAIN ledger : ledger[i].slug = cur
    /\ pc \notin {"down", "next", "create", "begin", "cleanup"} =>
        item.status = "in-progress" /\ item.branch \in DOMAIN trees

\* However often the process dies and is started again, no item gets a second issue, no branch
\* a second pull request, and no two items of the ledger work on one branch (remote.go Preflight,
\* stage.go ResumeStep, worktree.go Create).
PublishedOnce ==
    /\ \A m, n \in DOMAIN issues : m # n => issues[m] # issues[n]
    /\ \A m, n \in DOMAIN prs : m # n => prs[m].branch # prs[n].branch
    /\ \A i, j \in DOMAIN ledger :
        i # j /\ ledger[i].branch # Unset => ledger[i].branch # ledger[j].branch

\* What the ledger records as verified is there: an artifact of every SDD stage passed, a pushed
\* branch, the issue of this item and the pull request of its branch (orchestrator.go:248,
\* remote.go:105: the record follows the verification).
VerifiedIsTrue ==
    \A i \in DOMAIN ledger :
        LET it == ledger[i]
            passed(s) == /\ Rank(s) > 0 /\ it.branch # Unset
                         /\ Rank(it.stage) > Rank(s) \/ (it.stage = s /\ it.state = "verified")
        IN  /\ \A s \in ToSet(Pipeline) : passed(s) => <<s, it.feature>> \in trees[it.branch].arts
            /\ passed("push") => Pushed(trees[it.branch])
            /\ passed("issue") => it.issue \in IssuesOf(it.id)
            /\ passed("pr") => /\ it.pr \in PrsOf(it.branch)
                              /\ prs[it.pr].link = it.issue

\* A pull request is opened, and an item finished, only after the user was told of its issue
\* (remote.go:128 deliverPendingEvents before the next step).
IssueIsReported ==
    \A i \in DOMAIN ledger : ledger[i].issue # 0 /\ Rank(ledger[i].stage) > Rank("issue")
        => ledger[i].issue \in reported /\ \A e \in ToSet(ledger[i].outbox) : e.delivered

\* What the forge and the backlog's audience see: each thing published once, none lost.
PublishingIsExact == PublishedOnce /\ IssueIsReported

\* An attempt identity is used for one start of the core (core_outcome.go:185: the ordinal is
\* durable before the core runs).
AttemptsAreFresh == ~repeated

\* The ledger tells the truth about the stages and the attempts it counts, and each thing that
\* was published was published once and reported.
LedgerIsTrue == VerifiedIsTrue /\ AttemptsAreFresh /\ PublishingIsExact

\* The workflow never proposes a change that the ledger's own validation refuses
\* (ledger.go:803 validateWorkflowMutation, ledger.go:305 validateLedgerItems), and resumes
\* work in progress before it begins anything new (orchestrator.go:138).
WorkflowAccepted ==
    /\ AutodevTypeOK /\ ~rejected
    /\ Cardinality({i \in DOMAIN ledger : ledger[i].status = "in-progress"}) <= 1

\* No step, of the workflow or of the reconciliation, takes work back: stages only advance, a
\* done item stays done, and the requirement an item was begun with is the one it is built for
\* (a record of an earlier version takes it from the first backlog it is bound to).
WorkIsMonotone ==
    [][Reset \/ \A i \in DOMAIN ledger :
        LET a == ledger[i]  b == ledger'[i]
        IN  /\ i \in DOMAIN ledger' /\ a.id = b.id
            /\ Rank(a.stage) <= Rank(b.stage)
            /\ a.status = "done" => b.status = "done"
            /\ a.frozen /\ ~a.legacy => b.frozen /\ a.desc = b.desc /\ a.title = b.title]_autodevVars

=============================================================================
