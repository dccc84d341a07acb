----------------------------- MODULE RunJournal -----------------------------
(* What one run tells the outside: the facts the engine emits, the observer    *)
(* that passes them on and keeps the terminal one until the run is stored      *)
(* (internal/runtime/runtime_harness.go), and the journal that turns them and  *)
(* its decorators of model and tools into spans and metrics                    *)
(* (internal/runtimejournal/journal.go, internal/tracing/tracer.go).           *)
(* Durations, token counts, message texts and streamed deltas are left out.    *)
EXTENDS Naturals, SequencesExt

CONSTANTS
    CallIds,      \* identifiers the model gives its tool calls
    MaxTurns,     \* RunInput.MaxTurns
    Batches,      \* the tool calls of a response: sequences of identifiers
    NoTool        \* no open tool observation

VARIABLES
    step,         \* where the run is
    turn,         \* the engine's turn
    thinking,     \* RunInput.Thinking
    batch,        \* the tool calls of the model's response
    telemetry,    \* the telemetry journal was built
    journal,      \* the journal: see NewJournal
    last,         \* the sequence number of the last fact
    held,         \* runtimeObserver.terminal
    delivered,    \* the facts the observer of the run was given
    warned,       \* RunResult.Warnings has one of the journal
    panicked      \* history: a collaborator panicked

journalVars == <<step, turn, thinking, batch, telemetry, journal, last, held, delivered, warned, panicked>>

Kinds == {"run_started", "thinking", "compaction", "reminder", "gate", "message",
          "tool_call", "tool_result", "run_completed", "run_error"}
Terminal == {"run_completed", "run_error"}

\* A fact with the turn it carries, 0 for one that carries none.
Fact(kind, of) == [kind |-> kind, turn |-> of, call |-> NoTool]

-----------------------------------------------------------------------------
(* Spans. A span is named by its place; the run's is the first.               *)

Span(kind, parent) == [kind |-> kind, parent |-> parent, ends |-> 0, as |-> "open"]
NoTurn == [span |-> 0, ended |-> FALSE, final |-> FALSE]

NewJournal ==
    [spans |-> <<Span("run", 0)>>, turns |-> [n \in 0..MaxTurns |-> NoTurn],
     tools |-> [c \in CallIds |-> NoTool], metrics |-> <<>>, summary |-> <<>>,
     errors |-> FALSE, orphans |-> {}]

\* orphans, a history: the spans that were started under a parent that had ended.
StartSpan(j, kind, parent) ==
    [j EXCEPT !.spans = Append(@, Span(kind, parent)),
              !.orphans = IF j.spans[parent].ends = 0 THEN @ ELSE @ \cup {Len(j.spans) + 1}]

EndSpan(j, id, status) == [j EXCEPT !.spans[id].ends = @ + 1, !.spans[id].as = status]

\* Journal.turn
WithTurn(j, n) ==
    IF j.turns[n].span # 0 THEN j
    ELSE [StartSpan(j, "turn", 1) EXCEPT !.turns[n].span = Len(j.spans) + 1]

FinishTurn(j, n, status) ==
    IF j.turns[n].span = 0 \/ j.turns[n].ended THEN j
    ELSE EndSpan([j EXCEPT !.turns[n].ended = TRUE], j.turns[n].span, status)

\* A second call under an open identifier is dropped.
StartTool(j, fact) ==
    LET k == WithTurn(j, fact.turn)
    IN  IF k.tools[fact.call] # NoTool THEN k
        ELSE [StartSpan(k, "tool", k.turns[fact.turn].span)
                 EXCEPT !.tools[fact.call] = [turn |-> fact.turn, span |-> Len(k.spans) + 1]]

\* takeTool, and what Execute records of one call: a call without an observation gets one
\* under turn 0.
FinishTool(j, call) ==
    LET k == IF j.tools[call] # NoTool THEN j ELSE StartTool(j, [turn |-> 0, call |-> call])
        tool == k.tools[call]
    IN  [EndSpan(k, tool.span, "ok") EXCEPT
             !.tools[call] = NoTool,
             !.metrics = Append(@, [kind |-> "tool", turn |-> tool.turn, asked |-> turn])]

TurnsOf(j, calls) ==
    {IF j.tools[calls[i]] = NoTool \/ \E h \in 1..(i - 1) : calls[h] = calls[i]
     THEN 0 ELSE j.tools[calls[i]].turn : i \in DOMAIN calls}

\* journalTools.Execute after the batch is back.
ExecutedTools(j, calls, status) ==
    LET done == FoldLeft(FinishTool, j, calls)
    IN  FoldLeft(LAMBDA k, n : FinishTurn(k, n, status), done, SetToSeq(TurnsOf(j, calls)))

\* finishOpenTurns
FinishOpenTurns(j, failed) ==
    FoldLeft(LAMBDA k, n : FinishTurn(k, n, CASE failed -> "error"
                                              [] ~failed /\ k.turns[n].final -> "final"
                                              [] OTHER -> "ok"),
             j, [n \in 1..(MaxTurns + 1) |-> n - 1])

\* The first half of RecordTelemetry.
Observed(j, fact) ==
    LET called == IF fact.kind = "tool_call" THEN StartTool(j, fact) ELSE j
        turned == IF fact.turn > 0 THEN WithTurn(called, fact.turn) ELSE called
    IN  IF fact.kind = "gate" /\ turned.turns[fact.turn].final
        THEN FinishTurn(turned, fact.turn, "blocked") ELSE turned

\* RecordTelemetry
Record(j, fact) ==
    LET seen == Observed(j, fact)
    IN  IF fact.kind \notin Terminal THEN seen
        ELSE LET closed == FinishOpenTurns(seen, fact.kind = "run_error")
             IN  IF closed.summary # <<>> THEN closed
                 ELSE EndSpan([closed EXCEPT !.summary = Append(@, Len(closed.metrics))],
                              1, fact.kind)

-----------------------------------------------------------------------------
(* The observer.                                                              *)

\* dispatch of facts in order. Every one takes the errors of the files written so far.
Dispatch(facts, first, ok) ==
    /\ delivered' = delivered \o [i \in DOMAIN facts |-> [kind |-> facts[i].kind, seq |-> first + i - 1]]
    /\ journal' = IF telemetry THEN [FoldLeft(Record, journal, facts) EXCEPT !.errors = FALSE] ELSE journal
    /\ warned' = (warned \/ (telemetry /\ facts # <<>> /\ (journal.errors \/ ~ok)))

Emit(facts, ok) ==
    /\ facts # <<>>
    /\ last' = last + Len(facts)
    /\ Dispatch(facts, last + 1, ok)
    /\ UNCHANGED held

Silent == UNCHANGED <<last, held, delivered, journal, warned>>
EmitSome(facts, ok) == IF facts = <<>> THEN ok /\ Silent ELSE Emit(facts, ok)

\* Observe of a terminal fact.
Hold(kind) ==
    /\ last' = last + 1
    /\ held' = kind
    /\ step' = "finish"
    /\ UNCHANGED <<delivered, journal, warned>>

To(label) == step' = label
Unmoved == UNCHANGED <<turn, thinking, batch, telemetry, panicked>>

JournalInit ==
    /\ step = "assemble" /\ turn = 0 /\ thinking \in BOOLEAN /\ batch = <<>>
    /\ telemetry = FALSE /\ journal = NewJournal
    /\ last = 0 /\ held = "none" /\ delivered = <<>> /\ warned = FALSE /\ panicked = FALSE

-----------------------------------------------------------------------------
(* The run.                                                                   *)

\* observeFailure: the run never started for its observers, so it is started for them.
AssemblyFails(ok) ==
    /\ step \in {"assemble", "build"}
    /\ last' = 2
    /\ Dispatch(<<Fact("run_started", 0)>>, 1, ok)
    /\ held' = "run_error"
    /\ To("finish")
    /\ Unmoved

\* buildTelemetryJournal: a failure is a warning. New writes the start of the run's span.
BuildJournals(built, ok) ==
    /\ step = "assemble"
    /\ telemetry' = built
    /\ journal' = [journal EXCEPT !.errors = built /\ ~ok]
    /\ warned' = ~built
    /\ To("build")
    /\ UNCHANGED <<turn, thinking, batch, last, held, delivered, panicked>>

StartEngine(ok) ==
    /\ step = "build"
    /\ Emit(<<Fact("run_started", 0)>>, ok)
    /\ To("turn")
    /\ Unmoved

\* AgentEngine.fail, at any of its places.
EngineFails ==
    /\ step \in {"turn", "think", "project", "retry", "answered", "decide", "results"}
    /\ Hold("run_error")
    /\ Unmoved

BeginTurn ==
    /\ step = "turn"
    /\ turn' = turn + 1
    /\ batch' = <<>>
    /\ To(IF thinking THEN "think" ELSE "project")
    /\ Silent
    /\ UNCHANGED <<thinking, telemetry, panicked>>

\* The thinking fact, and the compaction of the thinking projection if there is one.
Think(compactions, ok) ==
    /\ step = "think"
    /\ Emit(<<Fact("thinking", turn)>> \o [i \in 1..compactions |-> Fact("compaction", turn)], ok)
    /\ To("invokeThinking")
    /\ Unmoved

\* prepareContext of the action phase, and the notices of BeforeTurn.
Project(compactions, notices, ok) ==
    /\ step = "project"
    /\ EmitSome([i \in 1..compactions |-> Fact("compaction", turn)]
                \o [i \in 1..notices |-> Fact("reminder", turn)], ok)
    /\ To("invoke")
    /\ Unmoved

\* The decorator of the model, up to the call; the turn may have no fact yet.
Calling == StartSpan(WithTurn(journal, turn), "model", WithTurn(journal, turn).turns[turn].span)

\* The mutant ends the turn of a prompt that was too long.
CalledAndClosed(outcome) ==
    LET j == [EndSpan(Calling, Len(Calling.spans), outcome)
                 EXCEPT !.metrics = Append(@, [kind |-> "model", turn |-> turn, asked |-> turn])]
    IN  CASE outcome \in {"error", "tooLong"} -> FinishTurn(j, turn, "error")
          [] outcome = "final" -> [j EXCEPT !.turns[turn].final = ~j.turns[turn].ended]
          [] OTHER -> j

\* Its end: the turn is over when the call failed, unless the prompt was too long.
Called(outcome) ==
    LET j == [EndSpan(Calling, Len(Calling.spans), outcome)
                 EXCEPT !.metrics = Append(@, [kind |-> "model", turn |-> turn, asked |-> turn])]
    IN  CASE outcome = "error" -> FinishTurn(j, turn, "error")
          [] outcome = "final" -> [j EXCEPT !.turns[turn].final = ~j.turns[turn].ended]
          [] OTHER -> j

InvokeModel(outcome, ok) ==
    /\ journal' = IF telemetry THEN [Called(outcome) EXCEPT !.errors = @ \/ ~ok] ELSE journal
    /\ UNCHANGED <<delivered, warned>>

ThinkingAnswers(ok) ==
    /\ step = "invokeThinking"
    /\ InvokeModel("ok", ok)
    /\ To("project")
    /\ UNCHANGED <<last, held>> /\ Unmoved

ModelAnswersWith(calls, ok) ==
    /\ step \in {"invoke", "again"}
    /\ InvokeModel(IF calls = <<>> THEN "final" ELSE "ok", ok)
    /\ batch' = calls
    /\ To("answered")
    /\ UNCHANGED <<turn, thinking, telemetry, panicked, last, held>>

TooLong(ok) ==
    /\ step = "invoke"
    /\ InvokeModel("tooLong", ok)
    /\ To("retry")
    /\ UNCHANGED <<last, held>> /\ Unmoved

\* The reactive preparation compacted: the model is asked again in the same turn. One that
\* compacted nothing leaves the error to EngineFails.
CompactAndRetry(ok) ==
    /\ step = "retry"
    /\ Emit(<<Fact("compaction", turn)>>, ok)
    /\ To("again")
    /\ Unmoved

ModelFails(outcome, ok) ==
    /\ step \in {"invokeThinking", "invoke", "again"}
    /\ outcome = "tooLong" => step # "invoke"
    /\ InvokeModel(outcome, ok)
    /\ last' = last + 1 /\ held' = "run_error" /\ To("finish")
    /\ Unmoved

\* A panic of the model or the tools is recovered in Run; their open spans stay open.
Panic ==
    /\ step \in {"invokeThinking", "invoke", "again", "execute"}
    /\ journal' = IF telemetry /\ step # "execute" THEN Calling ELSE journal
    /\ last' = last + 1 /\ held' = "run_error" /\ To("finish")
    /\ panicked' = TRUE
    /\ UNCHANGED <<turn, thinking, batch, telemetry, delivered, warned>>

\* The response is in the conversation; its text, if it has any, is a fact.
Message(texts, ok) ==
    /\ step = "answered"
    /\ EmitSome([i \in 1..texts |-> Fact("message", 0)], ok)
    /\ To("decide")
    /\ Unmoved

\* The run is over: AfterModel accepts the response.
Complete ==
    /\ step = "decide" /\ batch = <<>>
    /\ Hold("run_completed")
    /\ Unmoved

NextTurn == To(IF turn >= MaxTurns THEN "limit" ELSE "turn")

\* A gate blocks the response with a notice.
Block(ok) ==
    /\ step = "decide" /\ batch = <<>>
    /\ Emit(<<Fact("gate", turn)>>, ok)
    /\ NextTurn
    /\ Unmoved

\* executeTools: the calls are announced. These facts carry no turn.
Announce(ok) ==
    /\ step = "decide" /\ batch # <<>>
    /\ Emit([i \in DOMAIN batch |-> [Fact("tool_call", 0) EXCEPT !.call = batch[i]]], ok)
    /\ To("execute")
    /\ Unmoved

Execute(ok, written) ==
    /\ step = "execute"
    /\ journal' = IF telemetry
                  THEN [ExecutedTools(journal, batch, IF ok THEN "ok" ELSE "error") EXCEPT !.errors = @ \/ ~written]
                  ELSE journal
    /\ UNCHANGED <<delivered, warned>>
    /\ IF ok THEN To("results") /\ UNCHANGED <<last, held>>
       ELSE last' = last + 1 /\ held' = "run_error" /\ To("finish")
    /\ Unmoved

\* The results, and the notices of AfterTools.
Results(notices, ok) ==
    /\ step = "results"
    /\ Emit([i \in DOMAIN batch |-> Fact("tool_result", 0)] \o [i \in 1..notices |-> Fact("reminder", turn)], ok)
    /\ NextTurn
    /\ Unmoved

TurnLimit ==
    /\ step = "limit"
    /\ Hold("run_error")
    /\ Unmoved

\* FinishRun: the outcome is stored, or its failure announced.
StoreOutcome ==
    /\ step = "finish"
    /\ To("deliver")
    /\ Silent /\ Unmoved

\* runtimeObserver.finish
Deliver(ok) ==
    /\ step = "deliver"
    /\ Dispatch(<<Fact(held, 0)>>, last, ok)
    /\ held' = "none"
    /\ To("returned")
    /\ UNCHANGED last /\ Unmoved

JournalNext ==
    \/ \E ok \in BOOLEAN :
          \/ AssemblyFails(ok) \/ StartEngine(ok) \/ ThinkingAnswers(ok) \/ TooLong(ok)
          \/ CompactAndRetry(ok) \/ Block(ok) \/ Announce(ok) \/ Deliver(ok)
          \/ \E built \in BOOLEAN : BuildJournals(built, ok)
          \/ \E n \in {0, 1} : Think(n, ok) \/ Message(n, ok) \/ Results(n, ok)
          \/ \E n, m \in {0, 1} : Project(n, m, ok)
          \/ \E calls \in Batches : ModelAnswersWith(calls, ok)
          \/ \E outcome \in {"error", "tooLong"} : ModelFails(outcome, ok)
          \/ \E written \in BOOLEAN : Execute(ok, written)
    \/ EngineFails \/ BeginTurn \/ Panic \/ Complete \/ TurnLimit \/ StoreOutcome

-----------------------------------------------------------------------------

\* What observers are told is one story: it starts with the start of the run, its numbers
\* grow, and its end comes last, once, and only after the outcome was stored - also when
\* the run failed before the engine began or a collaborator panicked (Observe, finish).
FactsAreOneStory ==
    LET n == Len(delivered)
    IN  /\ n > 0 => delivered[1].kind = "run_started"
        /\ \A i \in 2..n : delivered[i - 1].seq < delivered[i].seq
        /\ \A i \in 1..n : delivered[i].kind \in Terminal => i = n /\ step = "returned"
        /\ step = "returned" => delivered[n].kind \in Terminal

\* A model is asked only in a turn whose span is open - the retry after a prompt that was too
\* long included -, no span ends twice, and only the last turn of a completed run is final:
\* one that a gate blocked is not.
SpansAreExact ==
    /\ \A i \in journal.orphans : journal.spans[i].kind # "model"
    /\ \A i \in DOMAIN journal.spans : journal.spans[i].ends <= 1
    /\ \A n \in 1..MaxTurns :
          journal.turns[n].span # 0 /\ journal.spans[journal.turns[n].span].as = "final" =>
              step = "returned" /\ Last(delivered).kind = "run_completed" /\ n = turn

\* When the run is back its journal is closed: every span has ended but that of a call
\* that panicked, one summary counts every metric, and no failed write went unreported.
JournalIsClosed ==
    step = "returned" /\ telemetry =>
        /\ \A i \in DOMAIN journal.spans :
              journal.spans[i].ends = 1 \/ (panicked /\ journal.spans[i].kind \in {"model", "tool"})
        /\ journal.summary = <<Len(journal.metrics)>>
        /\ ~journal.errors

\* The journal of a run is one complete record of it.
JournalIsExact == FactsAreOneStory /\ SpansAreExact /\ JournalIsClosed

\* The metric of a tool call names the turn in which the model asked for it.
ToolsNameTheirTurn ==
    \A i \in DOMAIN journal.metrics :
        journal.metrics[i].kind = "tool" => journal.metrics[i].turn = journal.metrics[i].asked
=============================================================================
