--------------------------- MODULE SessionContext ---------------------------
(***************************************************************************)
(* The stored conversation of one session: the message log and compaction  *)
(* state on disk (internal/session), the copy AgentSession keeps of them,  *)
(* the projection a run shows its model (internal/runtime/                 *)
(* context_controller.go), the compaction decisions (runtimecompaction)    *)
(* and the turn loop of the engine that drives them                        *)
(* (internal/engine/target.go).                                            *)
(*                                                                         *)
(* The session's gate serialises runs, /compact and rewind (AgentSession), *)
(* so one of them is under way at a time; what interferes is cancellation, *)
(* a write that fails with nothing or half of it done, and a crash.        *)
(*                                                                         *)
(* The order of the log is that of its sequence numbers, since every       *)
(* append takes the next one; a message is known by its id, which unlike   *)
(* its number is never used again.  Transient notices, thinking and token  *)
(* counts are left out: a compaction may happen whenever it is considered. *)
(***************************************************************************)
EXTENDS Integers, FiniteSetsExt

CONSTANTS
    Calls,          \* tool calls in an assistant message that has some
    MaxMessages     \* bound: messages ever appended

ASSUME ContextAssumption == Calls \in Nat \ {0} /\ MaxMessages \in Nat

VARIABLES
    log,        \* messages.jsonl: the set of its records
    torn,       \* files with a half-written end: "log", "summary"
    summary,    \* compact_state.json
    cache,      \* contextLoaded, contextRecords, contextCompactState
    run,        \* the operation that holds the gate and, of a run, its projection
    next        \* history: the id of the next message

durable == <<log, torn, summary>>
vars == <<durable, cache, run, next>>

Ids == 1..MaxMessages

\* of: the message whose tool call a result answers
Records == [seq : Nat, id : Ids, kind : {"user", "text", "call", "result"}, of : Ids \cup {0}]

\* of: the messages the summary was made from
Summaries == [valid : BOOLEAN, covered : Nat \cup {-1}, of : SUBSET Ids]
NoSummary == [valid |-> FALSE, covered |-> -1, of |-> {}]

Empty == [loaded |-> FALSE, records |-> {}, summary |-> NoSummary]

\* plain and digest: the messages the projection shows as they are, and those it shows
\* within a summary.  call: the message whose tools were executed.
Idle == [pc |-> "idle", plain |-> {}, digest |-> {}, kind |-> "user", call |-> 0,
         cancelled |-> FALSE, target |-> 0, writeFailed |-> FALSE]

PCs == {"idle", "initialize", "history", "preturn", "invoke", "retry", "commit",
        "answered", "executing", "results", "committing", "compact", "rewind", "truncate"}
Runs == PCs \ {"idle", "compact", "rewind", "truncate"}

TypeOK ==
    /\ log \subseteq Records /\ torn \subseteq {"log", "summary"}
    /\ summary \in Summaries
    /\ cache \in [loaded : BOOLEAN, records : SUBSET Records, summary : Summaries]
    /\ run \in [pc : PCs, plain : SUBSET Records, digest : SUBSET Ids,
                kind : {"user", "text", "call"}, call : Ids \cup {0}, cancelled : BOOLEAN,
                target : Nat, writeFailed : BOOLEAN]
    /\ next \in 1..(MaxMessages + 1)

Init ==
    /\ log = {} /\ torn = {} /\ summary = NoSummary
    /\ cache = Empty /\ run = Idle /\ next = 1

-----------------------------------------------------------------------------
(* The store. *)

IdsOf(records) == {m.id : m \in records}
After(records, seq) == {m \in records : m.seq > seq}

\* ensureSeqLoaded, in the fresh MessageLog of every append
NextSeq == IF log = {} THEN 0 ELSE Max({m.seq : m \in log}) + 1

Goto(label) == run' = [run EXCEPT !.pc = label]

\* The operation ends with an error; what it wrote and cached stays.
Abort == run' = [run EXCEPT !.pc = "idle"]
AbortWrite == run' = [run EXCEPT !.pc = "idle", !.writeFailed = TRUE]

NewRecord(kind, of) == [seq |-> NextSeq, id |-> next, kind |-> kind, of |-> of]

\* AppendMessage as commitMessage calls it: a record more on disk and in the copy, ...
AppendMessage(m) ==
    /\ "log" \notin torn /\ next <= MaxMessages
    /\ log' = log \cup {m}
    /\ cache' = [cache EXCEPT !.records = @ \cup {m}]
    /\ next' = next + 1
    /\ UNCHANGED <<torn, summary>>

\* ... or an error: the log could not be read or opened, or a part of the line is in it,
\* which no reader accepts.  (A line that lacks its newline alone is left out.)
AppendFails ==
    /\ AbortWrite
    /\ torn' \in {torn, torn \cup {"log"}}
    /\ UNCHANGED <<log, summary, cache, next>>

\* SaveContextCompactState and the copy of what it saved
Save(s) ==
    /\ summary' = s
    /\ torn' = torn \ {"summary"}
    /\ cache' = [cache EXCEPT !.summary = s]
    /\ UNCHANGED <<log, next>>

\* The file was not opened, or was emptied and not filled again.
SaveFails ==
    /\ AbortWrite
    /\ \/ UNCHANGED <<torn, summary>>
       \/ torn' = torn \cup {"summary"} /\ summary' = NoSummary
    /\ UNCHANGED <<log, cache, next>>

\* ensureContextLoadedLocked
Load ==
    /\ run.pc \in {"initialize", "compact", "rewind"} /\ ~cache.loaded
    /\ torn = {}
    /\ cache' = [loaded |-> TRUE, records |-> log, summary |-> summary]
    /\ UNCHANGED <<durable, run, next>>

LoadFails ==
    /\ run.pc \in {"initialize", "compact", "rewind"} /\ ~cache.loaded
    /\ Abort
    /\ UNCHANGED <<durable, cache, next>>

-----------------------------------------------------------------------------
(* A run: the first preparation. *)

BeginRun ==
    /\ run.pc = "idle"
    /\ run' = [Idle EXCEPT !.pc = "initialize"]
    /\ UNCHANGED <<durable, cache, next>>

\* projectStoredContext
Projected(records, s) ==
    [run EXCEPT !.plain = After(records, s.covered), !.digest = s.of]

\* ensureInitialMessage and the first projection
Initialize ==
    LET m == NewRecord("user", 0)
    IN  /\ run.pc = "initialize" /\ cache.loaded /\ ~run.cancelled
        /\ AppendMessage(m)
        /\ run' = [Projected(cache.records \cup {m}, cache.summary) EXCEPT !.pc = "history"]

\* Where compactInitial may cut the active history, and compact its messages: the
\* message after the cut is no tool result (moveRecordSplitToProtocolBoundary), and
\* RecentKeep messages remain.
Cuts(records) ==
    {c \in records : \E n \in After(records, c.seq) :
        /\ n.kind # "result"
        /\ \A o \in After(records, c.seq) : n.seq <= o.seq}

\* The active records without the prompt just appended.
History == {m \in After(cache.records, cache.summary.covered) :
               \E n \in cache.records : n.seq > m.seq}

SummaryUntil(c) ==
    [valid |-> TRUE, covered |-> c.seq,
     of |-> cache.summary.of \cup
            IdsOf({m \in After(cache.records, cache.summary.covered) : m.seq <= c.seq})]

\* Mutant: the projection of the run is not made anew from the committed state.
CompactHistoryStale(c) ==
    /\ run.pc = "history" /\ ~run.cancelled
    /\ Save(SummaryUntil(c))
    /\ run' = [run EXCEPT !.pc = "preturn", !.plain = After(run.plain, c.seq)]

\* The durable decision before the first turn.
CompactHistory(c) ==
    /\ run.pc = "history" /\ ~run.cancelled
    /\ Save(SummaryUntil(c))
    /\ run' = [Projected(cache.records, SummaryUntil(c)) EXCEPT !.pc = "preturn"]

CompactHistoryFails ==
    /\ run.pc = "history" /\ Cuts(History) # {} /\ SaveFails

KeepHistory ==
    /\ run.pc = "history" /\ ~run.cancelled
    /\ Goto("preturn")
    /\ UNCHANGED <<durable, cache, next>>

-----------------------------------------------------------------------------
(* Turns. *)

FirstUser(records) ==
    {m \in records : m.kind = "user" /\ \A n \in records : m.seq <= n.seq}

\* doCompact: the messages up to the cut become a summary of this run alone, except a
\* first user message, unless a summary comes before it (the anchor).
LocalCompact(label) ==
    \E c \in Cuts(run.plain), anchor \in SUBSET FirstUser(run.plain) :
        LET old == {m \in run.plain : m.seq <= c.seq} \ anchor
        IN  run' = [run EXCEPT !.pc = label, !.plain = @ \ old,
                               !.digest = @ \cup IdsOf(old)]

\* The run-local decision at the start of a turn, whose errors are swallowed, and the
\* budget check.
PreTurn ==
    /\ run.pc = "preturn" /\ ~run.cancelled
    /\ LocalCompact("invoke") \/ Goto("invoke")
    /\ UNCHANGED <<durable, cache, next>>

\* ErrPromptTooLong: compact once more and ask again.
PromptTooLong ==
    /\ run.pc = "invoke" /\ ~run.cancelled
    /\ LocalCompact("retry")
    /\ UNCHANGED <<durable, cache, next>>

ModelAnswers(kind) ==
    /\ run.pc \in {"invoke", "retry"}
    /\ run' = [run EXCEPT !.pc = "commit", !.kind = kind]
    /\ UNCHANGED <<durable, cache, next>>

\* RequestChanges with the assistant's message; AfterModel then has nothing to decide
\* about a message with tool calls.
Commit ==
    LET m == NewRecord(run.kind, 0)
    IN  /\ run.pc = "commit" /\ ~run.cancelled
        /\ AppendMessage(m)
        /\ run' = [run EXCEPT !.pc = IF run.kind = "call" THEN "executing" ELSE "answered",
                              !.plain = @ \cup {m},
                              !.call = IF run.kind = "call" THEN next ELSE 0]

\* AfterModel: complete, or a reminder and another turn.
Answered ==
    /\ run.pc = "answered"
    /\ Goto("idle") \/ Goto("preturn")
    /\ UNCHANGED <<durable, cache, next>>

\* executeTools: every call has a result, an error for those a cancellation reached.
ExecuteTools ==
    /\ run.pc = "executing"
    /\ Goto("results")
    /\ UNCHANGED <<durable, cache, next>>

\* RequestChanges with the results begins with contextError.
RequestResults ==
    /\ run.pc = "results"
    /\ IF run.cancelled THEN Abort ELSE Goto("committing")
    /\ UNCHANGED <<durable, cache, next>>

Answers(call, records) == {m \in records : m.of = call}

CommitResult ==
    LET m == NewRecord("result", run.call)
        last == Cardinality(Answers(run.call, run.plain)) = Calls - 1
    IN  /\ run.pc = "committing"
        /\ AppendMessage(m)
        /\ run' = [run EXCEPT !.pc = IF last THEN "preturn" ELSE @, !.plain = @ \cup {m}]

\* Whatever else ends a run: its context, collector, budget, provider or policy.
RunFails ==
    /\ run.pc \in Runs \ {"executing", "results", "committing"}
    /\ Abort
    /\ UNCHANGED <<durable, cache, next>>

WriteFails ==
    /\ \/ run.pc \in {"initialize", "commit"} /\ cache.loaded /\ ~run.cancelled
       \/ run.pc = "committing"
    /\ AppendFails

-----------------------------------------------------------------------------
(* CompactContext and RewindContext. *)

BeginCompact ==
    /\ run.pc = "idle"
    /\ run' = [Idle EXCEPT !.pc = "compact"]
    /\ UNCHANGED <<durable, cache, next>>

\* compactManual covers the whole log.
CompactContext ==
    /\ run.pc = "compact" /\ cache.loaded
    /\ \/ /\ cache.records # {}
          /\ \E c \in cache.records :
                After(cache.records, c.seq) = {} /\ Save(SummaryUntil(c))
          /\ Abort
       \/ cache.records # {} /\ SaveFails
       \/ Abort /\ UNCHANGED <<durable, cache, next>>

\* A prompt of the log is chosen to go back to.
BeginRewind ==
    /\ run.pc = "idle" /\ "log" \notin torn
    /\ \E m \in log : m.kind = "user" /\ run' = [Idle EXCEPT !.pc = "rewind", !.target = m.seq]
    /\ UNCHANGED <<durable, cache, next>>

\* Mutant: off by one, the covered message itself may go.
RewindSummaryLate ==
    /\ run.pc = "rewind" /\ cache.loaded
    /\ IF cache.summary.valid /\ run.target < cache.summary.covered
       THEN Save(NoSummary) ELSE UNCHANGED <<durable, cache, next>>
    /\ Goto("truncate")

\* A summary that covers what goes away is invalidated first.
RewindSummary ==
    /\ run.pc = "rewind" /\ cache.loaded
    /\ IF cache.summary.valid /\ run.target <= cache.summary.covered
       THEN Save(NoSummary) ELSE UNCHANGED <<durable, cache, next>>
    /\ Goto("truncate")

RewindSummaryFails ==
    /\ run.pc = "rewind" /\ cache.loaded
    /\ cache.summary.valid /\ run.target <= cache.summary.covered
    /\ SaveFails

Kept(records) == {m \in records : m.seq < run.target}

\* TruncateMessagesBefore replaces the file by one rename.
Truncate ==
    /\ run.pc = "truncate" /\ "log" \notin torn
    /\ log' = Kept(log)
    /\ cache' = [cache EXCEPT !.records = Kept(@)]
    /\ Abort
    /\ UNCHANGED <<torn, summary, next>>

TruncateFails ==
    /\ run.pc = "truncate"
    /\ Abort
    /\ UNCHANGED <<durable, cache, next>>

-----------------------------------------------------------------------------

Cancel ==
    /\ run.pc \in Runs /\ ~run.cancelled
    /\ run' = [run EXCEPT !.cancelled = TRUE]
    /\ UNCHANGED <<durable, cache, next>>

\* The process dies, possibly within the write that WriteFails or SaveFails left half
\* done, and the session is opened again.
Crash ==
    /\ run' = Idle /\ cache' = Empty
    /\ UNCHANGED <<durable, next>>

Next ==
    \/ Load \/ LoadFails
    \/ BeginRun \/ Initialize \/ KeepHistory \/ CompactHistoryFails
    \/ \E c \in Cuts(History) : CompactHistory(c)
    \/ PreTurn \/ PromptTooLong \/ \E kind \in {"text", "call"} : ModelAnswers(kind)
    \/ Commit \/ Answered \/ ExecuteTools \/ RequestResults \/ CommitResult
    \/ RunFails \/ WriteFails
    \/ BeginCompact \/ CompactContext
    \/ BeginRewind \/ RewindSummary \/ RewindSummaryFails \/ Truncate \/ TruncateFails
    \/ Cancel \/ Crash

Spec == Init /\ [][Next]_vars

-----------------------------------------------------------------------------

Covers(s, records) == s.of = IdsOf({m \in records : m.seq <= s.covered})

\* The summary stands for exactly the stored messages whose numbers it covers: none is
\* hidden by a summary that never saw it, although rewind gives numbers out again, and
\* none that was rewound lives on in it, whatever write fails or wherever it crashes.
SummaryIsExact == TypeOK /\ Covers(summary, log) /\ Covers(cache.summary, cache.records)

\* What the session remembers is what is on disk, after every failed write, compaction
\* and rewind; only a half-written compaction state differs.
CacheIsFaithful ==
    cache.loaded =>
        /\ cache.records = log
        /\ cache.summary = summary \/ "summary" \in torn

\* The summary on disk and in the session's copy covers exactly the messages it was made
\* from, and the copy equals the disk unless a write was cut short.
StoredStateIsExact == SummaryIsExact /\ CacheIsFaithful

\* The model is asked about the whole stored conversation, each message once, as itself
\* or in a summary, through every kind of compaction.
ModelSeesConversation ==
    run.pc \in {"invoke", "retry"} =>
        /\ run.digest \cup IdsOf(run.plain) = IdsOf(log)
        /\ run.digest \cap IdsOf(run.plain) = {}

\* No compaction or rewind leaves a tool result in the projection without its call, which
\* a provider rejects.
NoOrphanResult ==
    run.pc \in {"invoke", "retry"} =>
        \A m \in run.plain : m.kind = "result" => m.of \in IdsOf(run.plain)

\* What the model is shown: the whole conversation once, and no result without its call.
ProjectionIsWhole == ModelSeesConversation /\ NoOrphanResult
=============================================================================
