----------------------------- MODULE ModelCalls -----------------------------
(* How a run asks its model (internal/modelinvoke, internal/provider): one     *)
(* Invoke may stream, ask again without a stream option, without the stream,   *)
(* without images, and several times when the service fails, while the user    *)
(* sees the text of a stream as it comes.  The compactor's circuit breaker     *)
(* (internal/compaction/compactor.go) is set by the same outcomes.             *)
(* Effort, usage and the wording of requests are left out; a service's answer  *)
(* is its class.                                                               *)
EXTENDS Naturals, SequencesExt

CONSTANTS
    ToolCalls,     \* the tool calls the model may make
    Histories,     \* the messages a request may carry
    MaxAttempts,   \* RetryConfig.MaxAttempts
    MaxFailures,   \* maxConsecutiveCompactFailures
    MaxInvokes,    \* bound: invocations of a run
    NoCall         \* no tool call

VARIABLES
    service,       \* the provider: its protocol, image mode, and whether the entry streams
    flags,         \* runInvoker: streamingDisabled, imagesDisabled
    request,       \* the invocation that is under way
    cancelled,     \* the context of the run is done
    failures,      \* Compactor.consecutiveFailures
    invokes,       \* bound: how many invocations there were
    fruitless      \* history: no-op compactions since the last success of anything

callVars == <<service, flags, request, cancelled, failures, invokes, fruitless>>

\* A message: who speaks, the calls it makes, the call it answers, whether it shows an image.
Said(role) == [role |-> role, calls |-> <<>>, of |-> NoCall, image |-> FALSE]
Asked(calls) == [Said("assistant") EXCEPT !.calls = calls]
Result(call, image) == [Said("user") EXCEPT !.of = call, !.image = image]

Messages == [role : {"system", "user", "assistant"}, calls : Seq(ToolCalls),
             of : ToolCalls \cup {NoCall}, image : BOOLEAN]

\* Every call is answered in its place before anything else is said, and only results show images.
AnsweredInPlace(messages) ==
    /\ messages \in Seq(Messages)
    /\ \A i \in DOMAIN messages :
          /\ messages[i].calls # <<>> => messages[i].role = "assistant" /\ messages[i].of = NoCall
          /\ messages[i].of # NoCall => messages[i].role = "user"
          /\ messages[i].image => messages[i].of # NoCall
          /\ \A k \in DOMAIN messages[i].calls :
                i + k \in DOMAIN messages /\ messages[i + k].of = messages[i].calls[k]

ASSUME CallsAssumption ==
    /\ MaxAttempts \in Nat \ {0}
    /\ NoCall \notin ToolCalls
    /\ \A messages \in Histories : AnsweredInPlace(messages)

Classes == {"ok", "empty", "retryable", "fatal", "tooLong", "noImages", "noStream", "noOptions"}

NoRequest == [at |-> "idle", messages |-> <<>>, sent |-> <<>>, images |-> FALSE, notices |-> {},
              attempt |-> 0, shown |-> {}, tries |-> 0, outcome |-> "none"]

CallInit ==
    /\ service \in [protocol : {"openai", "claude"}, mode : {"auto", "enabled", "disabled"},
                    streaming : BOOLEAN]
    /\ flags = [stream |-> FALSE, images |-> FALSE]
    /\ request = NoRequest
    /\ cancelled = FALSE /\ failures = 0 /\ invokes = 0 /\ fruitless = 0

-----------------------------------------------------------------------------
(* What goes over the wire.                                                   *)

\* projectImages: an image that may not be sent becomes a notice in its message's text.
WithoutImages(messages, off) == [i \in DOMAIN messages |-> [messages[i] EXCEPT !.image = @ /\ ~off]]
Notices(messages, off) == {i \in DOMAIN messages : messages[i].image /\ off}

WireMessages == [role : {"system", "user", "assistant", "tool"}, calls : Seq(ToolCalls),
                 of : ToolCalls \cup {NoCall}, images : Seq(ToolCalls)]
OnWire(role, calls, of, images) == [role |-> role, calls |-> calls, of |-> of, images |-> images]

\* flushImages: the images that wait go out in a message of their own.
Flushed(wire) ==
    IF wire.pending = <<>> THEN wire
    ELSE [out |-> Append(wire.out, OnWire("user", <<>>, NoCall, wire.pending)), pending |-> <<>>]

\* chatCompletionParams: a tool message carries no image, so the images of a batch of
\* results wait for its end.
ToOpenAI(wire, m) ==
    IF m.of # NoCall
    THEN [out |-> Append(wire.out, OnWire("tool", <<>>, m.of, <<>>)),
          pending |-> IF m.image THEN Append(wire.pending, m.of) ELSE wire.pending]
    ELSE [out |-> Append(Flushed(wire).out, OnWire(m.role, m.calls, NoCall, <<>>)), pending |-> <<>>]

\* toAnthropicMessages: images stay in their result, system messages go elsewhere.
ToClaude(wire, m) ==
    IF m.role = "system" THEN wire
    ELSE [wire EXCEPT !.out = Append(@, OnWire(IF m.of # NoCall THEN "tool" ELSE m.role, m.calls, m.of,
                                               IF m.image THEN <<m.of>> ELSE <<>>))]

\* The messages one after the other, in the form of a protocol.
OnTheWire(protocol, messages) ==
    LET wire[i \in 0..Len(messages)] ==
            IF i = 0 THEN [out |-> <<>>, pending |-> <<>>]
            ELSE IF protocol = "openai" THEN ToOpenAI(wire[i - 1], messages[i])
            ELSE ToClaude(wire[i - 1], messages[i])
    IN  Flushed(wire[Len(messages)]).out

-----------------------------------------------------------------------------
(* One invocation.                                                            *)

ImagesOff == service.mode = "disabled" \/ flags.images
HasImages(messages) == \E i \in DOMAIN messages : messages[i].image

\* The first request of generate, with the stream or without it.
FirstStep == IF service.streaming /\ ~flags.stream THEN "stream" ELSE "attempt"

\* Invoke: project the images, and generate.
Invoke(messages) ==
    /\ request.at \in {"idle", "prepared"} /\ invokes < MaxInvokes
    /\ invokes' = invokes + 1
    /\ LET projected == WithoutImages(messages, ImagesOff)
       IN  request' = [NoRequest EXCEPT
               !.at = FirstStep, !.attempt = 1, !.messages = messages,
               !.sent = OnTheWire(service.protocol, projected),
               !.images = HasImages(projected), !.notices = Notices(messages, ImagesOff)]
    /\ UNCHANGED <<service, flags, cancelled, failures, fruitless>>

\* What a request comes back with once the context is done.
Comes(class) == cancelled => class = "fatal"

\* The mutant falls back to a plain request although text was shown.
StreamEndsTwice(class, text) ==
    LET tries == request.tries + 1
        seen == [request EXCEPT !.tries = tries, !.shown = IF text THEN @ \cup {tries} ELSE @]
    IN  /\ request.at \in {"stream", "bareStream"} /\ Comes(class)
        /\ class = "empty" => ~text
        /\ class = "noOptions" => request.at = "stream" /\ service.protocol = "openai" /\ ~text
        /\ CASE class = "noOptions" ->
                    request' = [seen EXCEPT !.at = "bareStream"] /\ UNCHANGED flags
             [] class \in {"ok", "fatal", "tooLong", "noImages"} ->
                    request' = [seen EXCEPT !.at = "generated", !.outcome = class] /\ UNCHANGED flags
             [] OTHER -> request' = [seen EXCEPT !.at = "attempt"] /\ UNCHANGED flags
        /\ UNCHANGED <<service, cancelled, failures, invokes, fruitless>>

\* A stream ends in a class; text of it may have been shown before.
StreamEnds(class, text) ==
    LET tries == request.tries + 1
        seen == [request EXCEPT !.tries = tries, !.shown = IF text THEN @ \cup {tries} ELSE @]
    IN  /\ request.at \in {"stream", "bareStream"} /\ Comes(class)
        /\ class = "empty" => ~text
        /\ class = "noOptions" => request.at = "stream" /\ service.protocol = "openai" /\ ~text
        /\ CASE class = "noOptions" ->
                    request' = [seen EXCEPT !.at = "bareStream"] /\ UNCHANGED flags
             [] class = "ok" \/ text \/ class \in {"fatal", "tooLong", "noImages"} ->
                    request' = [seen EXCEPT !.at = "generated", !.outcome = class] /\ UNCHANGED flags
             [] ~text /\ class \in {"empty", "noStream"} ->
                    request' = [seen EXCEPT !.at = "attempt"] /\ flags' = [flags EXCEPT !.stream = TRUE]
             [] ~text /\ class = "retryable" ->
                    request' = [seen EXCEPT !.at = "attempt"] /\ UNCHANGED flags
        /\ UNCHANGED <<service, cancelled, failures, invokes, fruitless>>

\* One attempt of the retry loop.
AttemptEnds(class) ==
    /\ request.at = "attempt" /\ Comes(class)
    /\ class \in {"ok", "retryable", "fatal", "tooLong", "noImages"}
    /\ request' = [request EXCEPT
           !.tries = @ + 1,
           !.at = IF class = "retryable" /\ request.attempt < MaxAttempts THEN "sleep" ELSE "generated",
           !.outcome = class]
    /\ UNCHANGED <<service, flags, cancelled, failures, invokes, fruitless>>

\* sleepWithContext: the delay is over.
Retry ==
    /\ request.at = "sleep"
    /\ request' = [request EXCEPT !.at = "attempt", !.attempt = @ + 1, !.outcome = "none"]
    /\ UNCHANGED <<service, flags, cancelled, failures, invokes, fruitless>>

SleepCancelled ==
    /\ request.at = "sleep" /\ cancelled
    /\ request' = [request EXCEPT !.at = "generated", !.outcome = "fatal"]
    /\ UNCHANGED <<service, flags, cancelled, failures, invokes, fruitless>>

\* The service takes no images, nothing was shown, and the configuration leaves it open:
\* the same request without them, and so for the rest of the run.
DropsImages == request.outcome = "noImages" /\ request.shown = {} /\ request.images /\ service.mode = "auto"

AskWithoutImages ==
    /\ request.at = "generated" /\ DropsImages
    /\ flags' = [flags EXCEPT !.images = TRUE]
    /\ request' = [request EXCEPT
           !.at = FirstStep, !.attempt = 1, !.outcome = "none", !.images = FALSE,
           !.sent = OnTheWire(service.protocol, WithoutImages(request.messages, TRUE)),
           !.notices = Notices(request.messages, TRUE)]
    /\ UNCHANGED <<service, cancelled, failures, invokes, fruitless>>

\* The invocation returns; a success resets the circuit breaker (OnSuccess).
InvokeReturns ==
    /\ request.at = "generated" /\ ~DropsImages
    /\ request' = [request EXCEPT !.at = "idle"]
    /\ IF request.outcome = "ok" THEN failures' = 0 /\ fruitless' = 0
       ELSE fruitless' = fruitless + 1 /\ UNCHANGED failures
    /\ UNCHANGED <<service, flags, cancelled, invokes>>

CancelCall ==
    /\ ~cancelled /\ request.at # "idle"
    /\ cancelled' = TRUE
    /\ UNCHANGED <<service, flags, request, failures, invokes, fruitless>>

\* The next run: StartRun makes a fresh invoker, the compactor is kept.
StartCalls ==
    /\ request.at = "idle" /\ (cancelled \/ request.outcome # "ok")
    /\ flags' = [stream |-> FALSE, images |-> FALSE]
    /\ cancelled' = FALSE
    /\ UNCHANGED <<service, request, failures, invokes, fruitless>>

-----------------------------------------------------------------------------
(* MaybeCompact and ForceCompact before an invocation.                        *)

BreakerOpen == failures >= MaxFailures

\* Over the threshold: the history cannot be split, it is summarised, or the summary fails.
MaybeCompact(outcome) ==
    /\ request.at = "idle" /\ ~BreakerOpen /\ invokes < MaxInvokes
    /\ request' = [request EXCEPT !.at = IF outcome = "failed" THEN "idle" ELSE "prepared"]
    /\ failures' = CASE outcome = "nothing" -> failures + 1
                     [] outcome = "done" -> 0
                     [] outcome = "failed" -> failures
    /\ UNCHANGED <<service, flags, cancelled, invokes, fruitless>>

\* The service found the prompt too long: the breaker is not asked.
ForceCompact(outcome) ==
    /\ request.at = "idle" /\ request.outcome = "tooLong" /\ invokes < MaxInvokes
    /\ request' = [request EXCEPT !.at = IF outcome = "done" THEN "prepared" ELSE "idle", !.outcome = "none"]
    /\ failures' = IF outcome = "done" THEN 0 ELSE failures
    /\ UNCHANGED <<service, flags, cancelled, invokes, fruitless>>

CallNext ==
    \/ \E messages \in Histories : Invoke(messages)
    \/ \E class \in Classes, text \in BOOLEAN : StreamEnds(class, text)
    \/ \E class \in Classes : AttemptEnds(class)
    \/ Retry \/ SleepCancelled \/ AskWithoutImages \/ InvokeReturns \/ CancelCall \/ StartCalls
    \/ \E outcome \in {"nothing", "done", "failed"} : MaybeCompact(outcome) \/ ForceCompact(outcome)

-----------------------------------------------------------------------------

Requests == [at : {"idle", "prepared", "stream", "bareStream", "attempt", "sleep", "generated"},
             messages : Seq(Messages), sent : Seq(WireMessages), images : BOOLEAN, notices : SUBSET Nat,
             attempt : 0..MaxAttempts, shown : SUBSET Nat, tries : Nat, outcome : Classes \cup {"none"}]

\* Requests, what is on the wire and the counters have their types.
CallTypeOK ==
    /\ service \in [protocol : {"openai", "claude"}, mode : {"auto", "enabled", "disabled"}, streaming : BOOLEAN]
    /\ flags \in [stream : BOOLEAN, images : BOOLEAN] /\ request \in Requests
    /\ cancelled \in BOOLEAN /\ failures \in Nat /\ invokes \in Nat /\ fruitless \in Nat

\* The user never sees the text of a request that was given up for another one: once text
\* was shown, the invocation asks no more (emittedDelta, emitted). And no invocation asks
\* more often than two streams, or one and the attempts of a plain request, with images
\* and again without.
OneVoice ==
    /\ \A n \in request.shown : n = request.tries
    /\ request.tries <= 2 * (MaxAttempts + 2)

\* The results of a batch follow the calls they answer with nothing in between - services
\* refuse anything else -, and no image is lost: it is on the wire or the answer says so.
WireIsLegal ==
    /\ \A i \in DOMAIN request.sent :
          \A k \in DOMAIN request.sent[i].calls :
              /\ i + k \in DOMAIN request.sent
              /\ request.sent[i + k].role = "tool" /\ request.sent[i + k].of = request.sent[i].calls[k]
    /\ \A i \in DOMAIN request.messages :
          request.messages[i].image =>
              \/ i \in request.notices
              \/ \E k \in DOMAIN request.sent : request.messages[i].of \in ToSet(request.sent[k].images)
    /\ service.mode = "disabled" => \A k \in DOMAIN request.sent : request.sent[k].images = <<>>

\* The breaker opens only over invocations that fail: within a run every attempt to compact
\* is followed by a call of the model, and its success closes the breaker again.
BreakerNeedsFailures == failures <= fruitless + 1

\* What an invocation asks, shows and reports.
InvocationIsExact == CallTypeOK /\ OneVoice /\ WireIsLegal /\ BreakerNeedsFailures
=============================================================================
