---------------------------- MODULE AutodevLedger ----------------------------
(***************************************************************************)
(* The ledger of unattended development (internal/autodev/ledger.go): what *)
(* a record of it looks like, which records and which changes of a record  *)
(* are accepted, and how the backlog of the user is reconciled with it.    *)
(* A ledger is a sequence of records; a record is never removed.           *)
(* Hashes, paths and timestamps are left out: a requirement revision is    *)
(* its title and its description.                                          *)
(***************************************************************************)
EXTENDS Naturals, Sequences, FiniteSets, SequencesExt

CONSTANTS
    Pipeline,     \* the SDD stages, in order
    RemoteSteps,  \* the publishing steps the configuration enables, in order
    Unset

WorkflowStages == Pipeline \o <<"publish">> \o RemoteSteps \o <<"done">>

\* steps: the publishing steps there may be.
Publications == {"stage-changes", "commit-staged", "push", "issue", "pr"}

ASSUME WorkflowAssumption ==
    /\ Pipeline \in Seq(STRING) /\ Pipeline # <<>> /\ ToSet(Pipeline) \cap Publications = {}
    /\ RemoteSteps \in Seq(Publications)
    /\ IsInjective(WorkflowStages) /\ "none" \notin ToSet(WorkflowStages)

\* The position of a stage in the workflow, 0 before the first.
Position(stages, stage) ==
    IF \E i \in DOMAIN stages : stages[i] = stage
    THEN CHOOSE i \in DOMAIN stages : stages[i] = stage ELSE 0

\* The position of every stage of the workflow.
StageRanks == [stage \in ToSet(WorkflowStages) |-> Position(WorkflowStages, stage)]
Rank(stage) == IF stage \in DOMAIN StageRanks THEN StageRanks[stage] ELSE 0
ExecutableStages == ToSet(WorkflowStages) \ {"done"}
Executable(stage) == stage \in ExecutableStages
Publishing(stage) == Executable(stage) /\ Rank(stage) > Len(Pipeline)

-----------------------------------------------------------------------------
\* Records.

ItemId(entry) == IF entry.src # Unset THEN <<"source", entry.src>> ELSE <<"title", entry.title>>

\* Slug: the title, with a number when that name is taken.
FreeSlug(title, taken) ==
    IF <<title>> \notin taken THEN <<title>>
    ELSE <<title, CHOOSE n \in 2..Cardinality(taken) + 2 :
                    /\ <<title, n>> \notin taken
                    /\ \A m \in 2..n - 1 : <<title, m>> \in taken>>

NewItem(entry, order, taken) ==
    [id |-> ItemId(entry), src |-> entry.src, slug |-> FreeSlug(entry.title, taken),
     title |-> entry.title, desc |-> entry.desc, prio |-> entry.prio, order |-> order,
     frozen |-> FALSE, legacy |-> FALSE, source |-> "current",
     status |-> "pending", stage |-> "none", state |-> "pending",
     branch |-> Unset, feature |-> 0, issue |-> 0, pr |-> 0, outbox |-> <<>>, attempts |-> <<>>]

\* LoadLedger of a ledger of version 0, which knew neither backlog IDs nor how far a stage
\* had come: a recorded stage counts as running, and the record waits for its backlog entry.
Migrated(title, desc, prio, status, stage) ==
    [NewItem([src |-> Unset, title |-> title, desc |-> desc, prio |-> prio], 0, {}) EXCEPT
        !.id = <<"legacy", title>>, !.legacy = TRUE, !.frozen = status # "pending",
        !.status = status, !.stage = stage,
        !.state = IF status = "done" THEN "verified" ELSE IF stage = "none" THEN "pending" ELSE "running",
        !.source = CASE status = "pending" -> "orphaned"
                     [] status = "in-progress" -> "blocked"
                     [] status = "done" -> "historical"]

ValidAttempts(item) ==
    \A i \in DOMAIN item.attempts :
        /\ Executable(item.attempts[i].stage)
        /\ i > 1 => item.attempts[i].ordinal > item.attempts[i - 1].ordinal

\* What a status allows of the other fields.
ValidStatus(item) ==
    CASE item.status = "pending" ->
           /\ item.stage = "none" /\ item.state = "pending" /\ ~item.frozen
           /\ item.source \in {"current", "orphaned"}
      [] item.status = "in-progress" ->
           /\ IF item.stage = "none" THEN item.state = "pending"
              ELSE /\ Executable(item.stage)
                   /\ item.state \in {"running", "verified"}
                   /\ item.stage = "issue" /\ item.state = "verified" => item.issue > 0
                   /\ item.stage = "pr" /\ item.state = "verified" => item.pr > 0
           /\ item.frozen
           /\ item.source \in {"current", "blocked"}
      [] item.status = "done" ->
           /\ item.stage = "done" /\ item.state = "verified" /\ item.frozen
           /\ item.source \in {"current", "historical"}

ValidLegacy(item) ==
    item.legacy => /\ item.src = Unset
                   /\ item.source = CASE item.status = "pending" -> "orphaned"
                                      [] item.status = "in-progress" -> "blocked"
                                      [] item.status = "done" -> "historical"

ValidOutbox(item) ==
    \A i, j \in DOMAIN item.outbox :
        /\ item.outbox[i].number > 0
        /\ i # j => item.outbox[i].number # item.outbox[j].number

\* validateLedgerItems: what is refused when a ledger is loaded or written.
ValidLedger(led) ==
    /\ \A i \in DOMAIN led :
        ValidAttempts(led[i]) /\ ValidStatus(led[i]) /\ ValidLegacy(led[i]) /\ ValidOutbox(led[i])
    /\ \A i, j \in DOMAIN led : i # j =>
        /\ led[i].id # led[j].id
        /\ led[i].src # Unset => led[i].src # led[j].src

\* A ledger as it is decoded: typed records, whose slugs tell them apart.
ItemFields ==
    {"id", "src", "slug", "title", "desc", "prio", "order", "frozen", "legacy", "source", "status",
     "stage", "state", "branch", "feature", "issue", "pr", "outbox", "attempts"}
Events == [number : Nat, delivered : BOOLEAN]
CoreAttempts ==
    [stage : ToSet(WorkflowStages), ordinal : Nat, state : {"running", "terminal"}]

Shaped(item) ==
    /\ DOMAIN item = ItemFields
    /\ item.status \in {"pending", "in-progress", "done"}
    /\ {item.frozen, item.legacy} \subseteq BOOLEAN
    /\ {item.feature, item.issue, item.pr} \subseteq Nat
    /\ item.outbox \in Seq(Events) /\ item.attempts \in Seq(CoreAttempts)

WellFormed(led) ==
    /\ led \in Seq(Range(led))
    /\ \A i \in DOMAIN led : Shaped(led[i])
    /\ \A i, j \in DOMAIN led : i # j => led[i].slug # led[j].slug

\* validateWorkflowMutation: what a step of the workflow may change of a record.
ValidOutboxChange(before, after) ==
    /\ Len(after.outbox) >= Len(before.outbox)
    /\ \A i \in DOMAIN before.outbox :
        /\ after.outbox[i].number = before.outbox[i].number
        /\ before.outbox[i].delivered => after.outbox[i].delivered
    /\ Len(after.outbox) > Len(before.outbox) =>
        /\ Len(after.outbox) = Len(before.outbox) + 1
        /\ before.issue = 0 /\ after.issue > 0

ValidAttemptChange(before, after) ==
    LET n == Len(before.attempts)
        changed == {i \in 1..n : before.attempts[i] # after.attempts[i]}
    IN  /\ Len(after.attempts) \in {n, n + 1}
        /\ \A i \in changed :
            /\ before.attempts[i].state = "running"
            /\ after.attempts[i] = [before.attempts[i] EXCEPT !.state = "terminal"]
        /\ IF Len(after.attempts) = n + 1
           THEN changed = {} /\ after.attempts[n + 1].state = "running"
           ELSE Cardinality(changed) <= 1

ValidChange(before, after) ==
    /\ \A f \in {"id", "src", "slug", "title", "desc", "prio", "source", "order", "legacy"} :
        before[f] = after[f]
    /\ after.frozen = (before.frozen \/ (before.status = "pending" /\ after.status # "pending"))
    /\ before.issue > 0 => after.issue = before.issue
    /\ ValidOutboxChange(before, after)
    /\ ValidAttemptChange(before, after)
    /\ before.issue = 0 /\ after.issue > 0 /\ after.stage = "issue" /\ after.state = "verified"
        => [number |-> after.issue, delivered |-> FALSE] \in ToSet(after.outbox)

\* freezeRequirementTransition: leaving "pending" freezes the revision.
Freeze(before, after) ==
    IF before.status = "pending" /\ after.status # "pending"
    THEN [after EXCEPT !.frozen = TRUE] ELSE after

\* updateCoreAttemptRecord: a new attempt is appended, a running one terminated.
WithAttempt(item, stage, ordinal, state) ==
    LET known == {i \in DOMAIN item.attempts :
                    item.attempts[i].stage = stage /\ item.attempts[i].ordinal = ordinal}
    IN  IF known = {}
        THEN [item EXCEPT !.attempts = Append(@, [stage |-> stage, ordinal |-> ordinal, state |-> state])]
        ELSE [item EXCEPT !.attempts[CHOOSE i \in known : TRUE].state = state]

LastOrdinal(item) == IF item.attempts = <<>> THEN 0 ELSE item.attempts[Len(item.attempts)].ordinal

Slot(led, slug) == CHOOSE i \in DOMAIN led : led[i].slug = slug
ItemOf(led, slug) == led[Slot(led, slug)]

-----------------------------------------------------------------------------
\* Seed: reconciling the backlog, a sequence of entries, with the ledger.

ValidSource(backlog) ==
    \A i, j \in DOMAIN backlog : i # j =>
        /\ backlog[i].src # Unset => backlog[i].src # backlog[j].src
        /\ backlog[i].src = Unset /\ backlog[j].src = Unset => backlog[i].title # backlog[j].title

\* The records an entry may stand for: by its ID, else a record without ID by its title.
MatchChoices(led, entry, matched) ==
    LET byId == {k \in DOMAIN led : entry.src # Unset /\ led[k].src = entry.src} \ matched
    IN  IF byId # {} THEN byId
        ELSE {k \in DOMAIN led : led[k].src = Unset /\ led[k].title = entry.title} \ matched

\* A position no record has.
Ambiguous(led) == Len(led) + 1

\* For each entry in turn the record it matches, 0 when none, Ambiguous(led) when several.
Matches(led, backlog) ==
    LET match[n \in 0..Len(backlog)] ==
            IF n = 0 THEN <<>>
            ELSE LET c == MatchChoices(led, backlog[n], ToSet(match[n - 1]))
                 IN  Append(match[n - 1],
                            IF c = {} THEN 0
                            ELSE IF Cardinality(c) > 1 THEN Ambiguous(led) ELSE CHOOSE k \in c : TRUE)
    IN  match[Len(backlog)]

\* A new entry next to an unmatched record may be that record renamed: not decided here.
Indistinct(led, backlog, matches) ==
    \E n \in DOMAIN backlog, k \in DOMAIN led :
        /\ matches[n] = 0 /\ k \notin ToSet(matches)
        /\ led[k].src = Unset \/ led[k].title = backlog[n].title

Edited(item, entry) ==
    item.status = "in-progress" /\ (item.title # entry.title \/ item.desc # entry.desc)

\* Mutant: work in progress is revised with the backlog.
ReconciledAlways(item, entry, order) ==
    [item EXCEPT !.order = order, !.title = entry.title, !.desc = entry.desc, !.prio = entry.prio,
                 !.src = entry.src, !.source = "current", !.legacy = FALSE]

\* reconcileMatchedItem.
Reconciled(item, entry, order) ==
    LET revised(i) == [i EXCEPT !.title = entry.title, !.desc = entry.desc, !.prio = entry.prio]
        kept == [item EXCEPT !.order = order]
    IN  IF item.legacy
        THEN [revised(kept) EXCEPT !.src = entry.src, !.source = "current", !.legacy = FALSE,
                                   !.frozen = item.status # "pending"]
        ELSE IF Edited(item, entry) THEN [kept EXCEPT !.source = "blocked"]
        ELSE LET bound == [kept EXCEPT !.src = IF @ = Unset THEN entry.src ELSE @,
                                       !.source = "current"]
             IN  IF item.status = "pending" THEN revised(bound) ELSE bound

Missing(item) ==
    [item EXCEPT !.source = CASE item.status = "pending" -> "orphaned"
                              [] item.status = "in-progress" -> "blocked"
                              [] item.status = "done" -> "historical"]

\* The new records, in the order of the backlog, each with a slug of its own.
WithNew(led, backlog, matches) ==
    LET add[n \in 0..Len(backlog)] ==
            IF n = 0 THEN led
            ELSE IF matches[n] # 0 THEN add[n - 1]
            ELSE Append(add[n - 1],
                        NewItem(backlog[n], n, {add[n - 1][k].slug : k \in DOMAIN add[n - 1]}))
    IN  add[Len(backlog)]

\* What Seed leaves in memory, and whether it reported a conflict.
Seed(led, backlog) ==
    LET matches == Matches(led, backlog)
        entryOf(k) == CHOOSE n \in DOMAIN backlog : matches[n] = k
        blocked == \E k \in DOMAIN led :
                     IF k \in ToSet(matches)
                     THEN ~led[k].legacy /\ Edited(led[k], backlog[entryOf(k)])
                     ELSE led[k].status = "in-progress"
        known == [k \in DOMAIN led |->
                    IF k \in ToSet(matches)
                    THEN Reconciled(led[k], backlog[entryOf(k)], entryOf(k)) ELSE Missing(led[k])]
    IN  IF ~ValidSource(backlog) \/ Ambiguous(led) \in ToSet(matches) \/ Indistinct(led, backlog, matches)
        THEN [ledger |-> led, conflict |-> TRUE]
        ELSE [ledger |-> WithNew(known, backlog, matches), conflict |-> blocked]

-----------------------------------------------------------------------------
\* InProgress and Pending: the runnable records of a status, best first.
Runnable(led, status) ==
    {k \in DOMAIN led : led[k].status = status /\ led[k].source = "current"}

Before(led, k, m) ==
    \/ led[k].prio < led[m].prio
    \/ led[k].prio = led[m].prio /\ led[k].order < led[m].order
    \/ led[k].prio = led[m].prio /\ led[k].order = led[m].order /\ k <= m

Best(led, ks) == {k \in ks : \A m \in ks : Before(led, k, m)}
=============================================================================
