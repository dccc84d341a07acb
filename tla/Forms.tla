------------------------------- MODULE Forms -------------------------------
(* The forms of the terminal UI (internal/tui) and the tools that wait for     *)
(* them: the questions of ask_user_question, the review of a plan, the         *)
(* approval of a tool call, the choice of a permission mode, the choice of an  *)
(* effort.  A form that was finished closes only when its message is handled,  *)
(* so keys, requests and the end of the run come in between.  Letters that     *)
(* move like arrows, scrolling and the wording are left out.                   *)
EXTENDS Naturals, Sequences, SequencesExt, FiniteSetsExt, TLC

CONSTANTS
    MaxRequests,    \* bound: requests of the run and forms opened by command
    MaxText,        \* bound: characters in a text field
    Efforts,        \* effort.OptionsForProtocol, in display order
    QuestionInputs  \* arguments of ask_user_question: [questions, given]

ToolKinds == {"ask", "plan", "approval"}
FormKinds == ToolKinds \cup {"modes", "effort"}
Keys == {"esc", "left", "right", "up", "down", "space", "enter", "back", "x", "1", "2", "3", "4"}
Digits == <<"1", "2", "3", "4">>
Typed(key) == IF key = "space" THEN " " ELSE "x"     \* in a text field any other rune is a letter

VARIABLES
    forms,      \* kind -> the form's state
    doneMail,   \* kind -> done messages on their way, each with the request of the form that sent it
    call,       \* the tool call that waits for the user: its questions, its reply
    bridges,    \* tool kind -> requests no listener has taken yet
    outcome,    \* what the last such call returned
    modeState,  \* permission.State
    effortNow,  \* the effort of the runs that follow
    savedModes, \* the settings file: mode, remembered, effort
    planMode,   \* a formal plan is wanted
    asked,      \* bound: requests made
    seen        \* history: kind -> what its form showed when it was finished; the warnings confirmed

formVars == <<forms, doneMail, call, bridges, outcome, modeState, effortNow, savedModes, planMode, asked, seen>>

NoFormOpen == [id |-> 0]
NoCall == [kind |-> "none", id |-> 0, questions |-> <<>>, reply |-> <<>>]
NoOutcome == [is |-> "none"]
Opened(id) == [id |-> id, done |-> FALSE, late |-> FALSE]

FormsInit ==
    /\ forms = [k \in FormKinds |-> NoFormOpen]
    /\ doneMail = [k \in FormKinds |-> <<>>]
    /\ call = NoCall
    /\ bridges = [k \in ToolKinds |-> <<>>]
    /\ outcome = NoOutcome
    /\ \E mode \in {"ask", "full_access"}, remembered \in BOOLEAN :
          /\ modeState = [selected |-> mode, remembered |-> remembered,
                          effective |-> IF remembered THEN mode ELSE "ask"]
          /\ savedModes = [mode |-> mode, remembered |-> remembered, effort |-> Efforts[1]]
          /\ seen = [k \in FormKinds |-> <<>>] @@ [warned |-> remembered, kept |-> remembered, agreed |-> FALSE]
    /\ effortNow = Efforts[1]
    /\ planMode = TRUE
    /\ asked = 0

-----------------------------------------------------------------------------
(* ask_user_question: its arguments and its result.                           *)

\* validateAndConvert: a question is [prompt, labels, multi].
ValidQuestions(qs) ==
    /\ Len(qs) \in 1 .. 4
    /\ IsInjective([i \in DOMAIN qs |-> qs[i].prompt])
    /\ \A i \in DOMAIN qs : Len(qs[i].labels) \in 2 .. 4 /\ IsInjective(qs[i].labels)

\* answersFromInput: in the order of the questions, then what matches none, by name.
AnswersFromInput(qs, given) ==
    LET prompts == {qs[i].prompt : i \in DOMAIN qs}
        matched == SelectSeq([i \in DOMAIN qs |-> qs[i].prompt], LAMBDA p : p \in DOMAIN given)
        extra == SetToSortSeq(DOMAIN given \ prompts, LAMBDA a, b : a < b)
        order == matched \o extra
    IN  [i \in DOMAIN order |-> [prompt |-> order[i], value |-> <<given[order[i]]>>, preview |-> 0]]

\* strings.TrimSpace over letters and blanks.
Trimmed(text) ==
    LET letters == {i \in DOMAIN text : text[i] # " "}
    IN  IF letters = {} THEN <<>> ELSE SubSeq(text, Min(letters), Max(letters))

-----------------------------------------------------------------------------
(* The form of questions: a tab for each and one to submit them.              *)

NewAskForm(id, qs) ==
    Opened(id) @@ [tab |-> 1, cursor |-> 1, cancelled |-> FALSE, answers |-> <<>>,
                   multi |-> [i \in DOMAIN qs |-> qs[i].multi],
                   picks |-> [i \in DOMAIN qs |-> [o \in DOMAIN qs[i].labels |-> "unset"]],
                   text |-> [i \in DOMAIN qs |-> <<>>]]

MultiTab(f) == Len(f.text) > 1
OnSubmit(f) == f.tab = Len(f.text) + 1
OtherRow(f) == Len(f.picks[f.tab]) + 1
OnOtherRow(f) == ~OnSubmit(f) /\ f.cursor = OtherRow(f)
MaxRow(f) == IF OnSubmit(f) THEN 2 ELSE OtherRow(f)

\* len(selected) > 0: an option that was toggled twice counts.
IsAnswered(f, i) == (\E o \in DOMAIN f.picks[i] : f.picks[i][o] # "unset") \/ Trimmed(f.text[i]) # <<>>

Chosen(f, i) == SelectSeq([o \in DOMAIN f.picks[i] |-> o], LAMBDA o : f.picks[i][o] = "on")

\* answerValue: what the review tab shows; an option is its number, a text a sequence.
AnswerValue(f, i) ==
    [o \in DOMAIN Chosen(f, i) |-> <<Chosen(f, i)[o]>>]
        \o IF Trimmed(f.text[i]) = <<>> THEN <<>> ELSE <<Trimmed(f.text[i])>>

\* The preview of the option that is the whole answer.
PreviewOf(f, i) ==
    IF ~f.multi[i] /\ Trimmed(f.text[i]) = <<>> /\ Len(Chosen(f, i)) = 1 THEN Chosen(f, i)[1] ELSE 0

\* collect: the questions that were answered, in order.
Collect(f) ==
    LET answered == SelectSeq([i \in DOMAIN f.text |-> i], LAMBDA i : IsAnswered(f, i))
    IN  [n \in DOMAIN answered |->
            [prompt |-> answered[n], value |-> AnswerValue(f, answered[n]),
             preview |-> PreviewOf(f, answered[n])]]

\* What a key makes of a form, and whether it sends the done message.
Stay(f) == [form |-> f, sent |-> FALSE]
Finish(f) == [form |-> [f EXCEPT !.done = TRUE], sent |-> TRUE]

SubmitAnswers(f) == Finish([f EXCEPT !.answers = Collect(f), !.cancelled = FALSE])
CancelAnswers(f) == Finish([f EXCEPT !.cancelled = TRUE])

GotoTab(f, tab) ==
    IF ~MultiTab(f) THEN f
    ELSE [f EXCEPT !.tab = Max({1, Min({tab, Len(f.text) + 1})}), !.cursor = 1]

MoveCursor(f, to) == [f EXCEPT !.cursor = Max({1, Min({to, MaxRow(f)})})]

AdvanceTab(f) == IF MultiTab(f) THEN Stay(GotoTab(f, f.tab + 1)) ELSE SubmitAnswers(f)

\* enter: one option alone answers a question of a single choice.
EnterRow(f) ==
    IF OnSubmit(f) THEN IF f.cursor = 2 THEN CancelAnswers(f) ELSE SubmitAnswers(f)
    ELSE IF f.multi[f.tab] THEN IF IsAnswered(f, f.tab) THEN AdvanceTab(f) ELSE Stay(f)
    ELSE AdvanceTab([f EXCEPT !.picks[f.tab] = [o \in DOMAIN @ |-> IF o = f.cursor THEN "on" ELSE "unset"],
                              !.text[f.tab] = <<>>])

ToggleCurrent(f) ==
    IF OnSubmit(f) \/ ~f.multi[f.tab] THEN f
    ELSE [f EXCEPT !.picks[f.tab][f.cursor] = IF @ = "on" THEN "off" ELSE "on"]

PickRow(f, n) ==
    IF n > MaxRow(f) THEN Stay(f)
    ELSE IF ~OnSubmit(f) /\ n = OtherRow(f) THEN Stay([f EXCEPT !.cursor = n])
    ELSE EnterRow([f EXCEPT !.cursor = n])

\* editOther: on the last row every character goes into the text.
EditText(f, key) ==
    CASE key = "enter" -> IF Trimmed(f.text[f.tab]) = <<>> THEN Stay(f) ELSE AdvanceTab(f)
      [] key = "back" -> Stay([f EXCEPT !.text[f.tab] = IF @ = <<>> THEN @ ELSE Front(@)])
      [] OTHER -> Stay([f EXCEPT !.text[f.tab] = Append(@, Typed(key))])

OnRow(f, key) ==
    CASE key = "space" -> Stay(ToggleCurrent(f))
      [] key = "enter" -> EnterRow(f)
      [] key \in Range(Digits) -> PickRow(f, CHOOSE n \in DOMAIN Digits : Digits[n] = key)
      [] OTHER -> Stay(f)

AskKey(f, key) ==
    CASE key = "esc" -> CancelAnswers(f)
      [] key = "left" -> Stay(GotoTab(f, f.tab - 1))
      [] key = "right" -> Stay(GotoTab(f, f.tab + 1))
      [] key = "up" -> Stay(MoveCursor(f, f.cursor - 1))
      [] key = "down" -> Stay(MoveCursor(f, f.cursor + 1))
      [] OTHER -> IF OnOtherRow(f) THEN EditText(f, key) ELSE OnRow(f, key)

-----------------------------------------------------------------------------
(* The forms with one row of choices.                                         *)

NewForm(kind, id) ==
    CASE kind = "approval" -> Opened(id) @@ [row |-> 1, text |-> <<>>]
      [] kind = "plan" -> Opened(id) @@ [row |-> 1, text |-> <<>>, cancelled |-> FALSE]
      [] kind = "modes" -> Opened(id) @@ [stage |-> "modes", result |-> "cancel",
             row |-> CASE modeState.selected = "ask" -> 1 [] modeState.selected = "approve" -> 2 [] OTHER -> 3]
      [] kind = "effort" -> Opened(id) @@ [result |-> "none",
             row |-> CHOOSE n \in DOMAIN Efforts : Efforts[n] = savedModes.effort]

\* newFullAccessWarningForm.
NewWarning(id) == [NewForm("modes", id) EXCEPT !.stage = "warning", !.row = 1]

Turned(f, step, count) == [f EXCEPT !.row = ((@ - 1 + step + count) % count) + 1]
TextKeys == {"space", "x"} \cup Range(Digits)
ForwardKeys == {"right", "down"}
BackKeys == {"left", "up"}

\* A text field that is there only while the last choice is highlighted.
EditFeedback(f, key, last) ==
    IF f.row # last THEN f
    ELSE [f EXCEPT !.text = IF key # "back" THEN Append(@, Typed(key)) ELSE IF @ = <<>> THEN @ ELSE Front(@)]

ApprovalKey(f, key) ==
    CASE key = "esc" -> Finish([f EXCEPT !.row = 3])
      [] key = "enter" -> Finish(f)
      [] key \in ForwardKeys -> Stay(Turned(f, 1, 4))
      [] key \in BackKeys -> Stay(Turned(f, 3, 4))
      [] OTHER -> Stay(EditFeedback(f, key, 4))

Decisions == <<"allow_once", "allow_session", "deny", "deny_with_feedback">>

PlanKey(f, key) ==
    CASE key = "esc" -> Finish([f EXCEPT !.cancelled = TRUE])
      [] key = "enter" -> Finish(f)
      [] key \in {"left", "right"} -> Stay(Turned(f, 1, 2))
      [] key \in {"up", "down"} -> Stay(f)
      [] OTHER -> Stay(EditFeedback(f, key, 2))

ModeResults == [modes |-> <<"ask", "approve", "full_access", "clear">>,
                warning |-> <<"session", "remember", "cancel">>]

\* Mutant: Full Access is taken at once.
SelectWithoutWarning(f) == Finish([f EXCEPT !.result = IF f.stage = "modes" /\ f.row = 3 THEN "session"
                                                        ELSE ModeResults[f.stage][f.row]])

\* selectCurrent: Full Access asks once more.
SelectCurrent(f) ==
    IF f.stage = "modes" /\ f.row = 3 THEN Stay([f EXCEPT !.stage = "warning", !.row = 1])
    ELSE Finish([f EXCEPT !.result = ModeResults[f.stage][f.row]])

\* The keys of a form of choices: its rows, what stands for each digit, what Enter does.
Selects(key, count) == key = "enter" \/ key \in Range(SubSeq(Digits, 1, count))
AtDigit(f, key) == IF key = "enter" THEN f ELSE [f EXCEPT !.row = CHOOSE n \in DOMAIN Digits : Digits[n] = key]
ChoiceKey(f, key, count) ==
    CASE key = "esc" -> Finish(f)
      [] key \in ForwardKeys -> Stay(Turned(f, 1, count))
      [] key \in BackKeys -> Stay(Turned(f, count - 1, count))
      [] OTHER -> Stay(f)

SelectEffort(f) == Finish([f EXCEPT !.result = Efforts[f.row]])

KeyResult(kind, f, key) ==
    CASE kind = "ask" -> AskKey(f, key)
      [] f.done -> Stay(f)
      [] kind = "approval" -> ApprovalKey(f, key)
      [] kind = "plan" -> PlanKey(f, key)
      [] kind = "modes" -> LET count == Len(ModeResults[f.stage])
                           IN  IF Selects(key, count) THEN SelectCurrent(AtDigit(f, key))
                               ELSE ChoiceKey(f, key, count)
      [] kind = "effort" -> IF Selects(key, Len(Efforts)) THEN SelectEffort(AtDigit(f, key))
                            ELSE ChoiceKey(f, key, Len(Efforts))

\* What a form shows of its answer, for the history of what the user saw when it was finished.
Shown(kind, f) ==
    CASE kind = "ask" -> IF f.cancelled THEN <<"cancelled">> ELSE [i \in DOMAIN f.text |-> AnswerValue(f, i)]
      [] kind = "approval" -> <<Decisions[f.row], IF f.row = 4 THEN Trimmed(f.text) ELSE <<>>>>
      [] kind = "plan" -> IF f.cancelled THEN <<"cancelled">>
                          ELSE IF f.row = 1 THEN <<"approved", <<>>>> ELSE <<"continue_planning", f.text>>
      [] OTHER -> <<f.result>>

\* handleKey: the form in front takes every key.
FrontOrder == <<"approval", "modes", "effort", "plan", "ask">>
Front1(fs) == LET open == SelectSeq(FrontOrder, LAMBDA k : fs[k].id # 0) IN IF open = <<>> THEN "none" ELSE open[1]

TextsAreShort(f) ==
    /\ "picks" \in DOMAIN f => \A i \in DOMAIN f.text : Len(f.text[i]) <= MaxText
    /\ ("text" \in DOMAIN f /\ "picks" \notin DOMAIN f) => Len(f.text) <= MaxText

PressKey(key) ==
    LET k == Front1(forms)
        r == KeyResult(k, forms[k], key)
    IN  /\ k # "none"
        /\ TextsAreShort(r.form)
        /\ ~forms[k].late                  \* bound: one key after a form was finished
        /\ forms' = [forms EXCEPT ![k] = [r.form EXCEPT !.late = @ \/ forms[k].done]]
        /\ doneMail' = IF r.sent THEN [doneMail EXCEPT ![k] = Append(@, forms[k].id)] ELSE doneMail
        /\ seen' = IF r.sent /\ ~forms[k].done
                   THEN [seen EXCEPT ![k] = Shown(k, r.form),
                                     !.warned = @ \/ (k = "modes" /\ forms[k].stage = "warning"
                                                        /\ r.form.result \in {"session", "remember"}),
                                     !.agreed = @ \/ (k = "plan" /\ Shown(k, r.form)[1] = "approved"),
                                     !.kept = @ \/ (k = "modes" /\ r.form.result = "remember")]
                   ELSE seen
        /\ UNCHANGED <<call, bridges, outcome, modeState, effortNow, savedModes, planMode, asked>>

-----------------------------------------------------------------------------
(* The tools that ask, on the run's own goroutine.                            *)

\* A request goes to its bridge; only the one for approvals keeps what nobody takes.
Request(kind, questions) ==
    /\ call.id = 0 /\ asked < MaxRequests
    /\ asked' = asked + 1
    /\ call' = [kind |-> kind, id |-> asked', questions |-> questions, reply |-> <<>>]
    /\ bridges' = [bridges EXCEPT ![kind] = Append(@, asked')]
    /\ outcome' = NoOutcome
    /\ UNCHANGED <<forms, doneMail, modeState, effortNow, savedModes, planMode, seen>>

\* AskUserQuestionTool.Execute: what can be said without asking.
AskUserQuestion(input) ==
    IF ValidQuestions(input.questions) /\ DOMAIN input.given = {} THEN Request("ask", input.questions)
    ELSE /\ call.id = 0 /\ asked < MaxRequests
         /\ asked' = asked + 1
         /\ outcome' = IF ValidQuestions(input.questions)
                       THEN [is |-> "given", answers |-> AnswersFromInput(input.questions, input.given), input |-> input]
                       ELSE [is |-> "error"]
         /\ UNCHANGED <<forms, doneMail, call, bridges, modeState, effortNow, savedModes, planMode, seen>>

SubmitPlan == planMode /\ Request("plan", <<>>)
RequestApproval == Request("approval", <<>>)

\* The run is cancelled while the call sends or waits.
StopAsking ==
    /\ call.id # 0 /\ call' = NoCall
    /\ outcome' = [is |-> "interrupted"]
    /\ bridges' = [k \in ToolKinds |-> IF k = "approval" THEN bridges[k] ELSE <<>>]
    /\ UNCHANGED <<forms, doneMail, modeState, effortNow, savedModes, planMode, asked, seen>>

\* What the adapters and the tools make of a reply; a response of no request is refused.
Outcome(reply) ==
    CASE call.kind = "ask" -> [is |-> IF reply.cancelled THEN "dismissed" ELSE "answers"] @@ reply
      [] call.kind = "plan" /\ reply.cancelled -> [is |-> "not approved"] @@ reply
      [] call.kind = "plan" /\ reply.decision = "" -> [is |-> "error"]
      [] OTHER -> [is |-> reply.decision] @@ reply

ReplyArrives ==
    /\ call.reply # <<>>
    /\ outcome' = Outcome(call.reply[1])
    /\ call' = NoCall
    /\ UNCHANGED <<forms, doneMail, bridges, modeState, effortNow, savedModes, planMode, asked, seen>>

-----------------------------------------------------------------------------
(* The update loop.                                                           *)

OpenForm(k) ==
    /\ bridges[k] # <<>> /\ forms[k].id = 0
    /\ forms' = [forms EXCEPT ![k] = IF k = "ask" THEN NewAskForm(Head(bridges[k]), call.questions)
                                     ELSE NewForm(k, Head(bridges[k]))]
    /\ bridges' = [bridges EXCEPT ![k] = Tail(@)]
    /\ seen' = [seen EXCEPT ![k] = <<>>]
    /\ UNCHANGED <<doneMail, call, outcome, modeState, effortNow, savedModes, planMode, asked>>

\* The reply channel of a form holds one reply, for the call that made the request.
Reply(k, reply) ==
    call' = IF call.id = forms[k].id THEN [call EXCEPT !.reply = <<reply>>] ELSE call

\* What a form says to its call, with the history of whether its own message brought it.
ReplyOf(k, own) ==
    LET f == forms[k]
        said == IF k = "ask" THEN [cancelled |-> f.cancelled, answers |-> f.answers]
                ELSE IF k = "approval" THEN [decision |-> Decisions[f.row],
                                             feedback |-> IF f.row = 4 THEN Trimmed(f.text) ELSE <<>>]
                ELSE [cancelled |-> f.cancelled,
                      decision |-> IF ~f.done THEN "" ELSE IF f.row = 1 THEN "approved" ELSE "continue_planning",
                      feedback |-> IF f.row = 1 THEN <<>> ELSE f.text]
    IN  said @@ [from |-> k, own |-> own /\ ~f.late, saw |-> seen[k]]

TakeDone(k, n) == doneMail' = [doneMail EXCEPT ![k] = RemoveAt(@, n)]

\* A done message closes whatever form of its kind is open by then.
HandleToolDone(k, n) ==
    /\ TakeDone(k, n)
    /\ IF forms[k].id = 0 THEN UNCHANGED <<forms, call, planMode>>
       ELSE LET reply == ReplyOf(k, doneMail[k][n] = forms[k].id)
            IN  /\ Reply(k, reply)
                /\ forms' = [forms EXCEPT ![k] = NoFormOpen]
                /\ planMode' = (planMode /\ ~(k = "plan" /\ reply.decision = "approved" /\ ~reply.cancelled))
    /\ UNCHANGED <<bridges, outcome, modeState, effortNow, savedModes, asked, seen>>

\* cancelRunInteractions: the run was cancelled, its calls have returned.
CancelRunInteractions ==
    /\ call.id = 0 /\ outcome.is = "interrupted"
    /\ \E k \in ToolKinds : forms[k].id # 0
    /\ forms' = [k \in FormKinds |-> IF k \in ToolKinds THEN NoFormOpen ELSE forms[k]]
    /\ UNCHANGED <<doneMail, call, bridges, outcome, modeState, effortNow, savedModes, planMode, asked, seen>>

\* setPermissionMode: the settings are saved first; then the state follows.
SetPermissionMode(selected, remember, confirm) ==
    LET kept == savedModes.remembered \/ (selected = "full_access" /\ remember)
        active == selected # "full_access" \/ kept \/ remember \/ confirm
    IN  \/ /\ savedModes' = [savedModes EXCEPT !.mode = selected, !.remembered = kept]
           /\ modeState' = [selected |-> selected, remembered |-> kept,
                            effective |-> IF active THEN selected ELSE "ask"]
        \/ UNCHANGED <<savedModes, modeState>>

HandlePermissionDone(n) ==
    /\ TakeDone("modes", n)
    /\ forms' = [forms EXCEPT !["modes"] = NoFormOpen]
    /\ LET result == forms["modes"].result
       IN  CASE result \in {"ask", "approve"} -> SetPermissionMode(result, FALSE, FALSE)
             [] result = "session" -> SetPermissionMode("full_access", FALSE, TRUE)
             [] result = "remember" -> SetPermissionMode("full_access", TRUE, TRUE)
             [] OTHER -> UNCHANGED <<savedModes, modeState>>
    /\ UNCHANGED <<call, bridges, outcome, effortNow, planMode, asked, seen>>

HandleEffortDone(n) ==
    /\ TakeDone("effort", n)
    /\ forms' = [forms EXCEPT !["effort"] = NoFormOpen]
    /\ \/ UNCHANGED <<savedModes, effortNow>>
       \/ /\ forms["effort"].result # "none"
          /\ savedModes' = [savedModes EXCEPT !.effort = forms["effort"].result]
          /\ effortNow' = forms["effort"].result
    /\ UNCHANGED <<call, bridges, outcome, modeState, planMode, asked, seen>>

\* /permissions and /effort, typed while no form takes the keys.
ByCommand ==
    /\ Front1(forms) = "none" /\ asked < MaxRequests
    /\ asked' = asked + 1
    /\ UNCHANGED <<doneMail, call, bridges, outcome, effortNow, planMode>>

OpenByCommand ==
    /\ ByCommand
    /\ \/ \E k \in {"modes", "effort"} : forms' = [forms EXCEPT ![k] = NewForm(k, asked')]
       \/ forms' = [forms EXCEPT !["modes"] = NewWarning(asked')]
    /\ UNCHANGED <<modeState, savedModes, seen>>

HandlePermissionsCommand ==
    /\ ByCommand
    /\ \/ \E m \in {"ask", "approve"} : SetPermissionMode(m, FALSE, FALSE) /\ UNCHANGED seen
       \/ \E remember \in BOOLEAN :
             /\ SetPermissionMode("full_access", remember, ~remember)
             /\ seen' = [seen EXCEPT !.warned = TRUE, !.kept = @ \/ remember]
    /\ UNCHANGED forms

FormsUser == (\E key \in Keys : PressKey(key)) \/ OpenByCommand \/ HandlePermissionsCommand
FormsRun ==
    \/ \E input \in QuestionInputs : AskUserQuestion(input)
    \/ SubmitPlan \/ RequestApproval \/ StopAsking \/ ReplyArrives
FormsUpdate ==
    \/ \E k \in ToolKinds : OpenForm(k) \/ \E n \in DOMAIN doneMail[k] : HandleToolDone(k, n)
    \/ \E n \in DOMAIN doneMail["modes"] : HandlePermissionDone(n)
    \/ \E n \in DOMAIN doneMail["effort"] : HandleEffortDone(n)
    \/ CancelRunInteractions

FormsNext == FormsUser \/ FormsRun \/ FormsUpdate

-----------------------------------------------------------------------------
\* The answers of a form whose own message closed it, and which took no key once it was
\* finished, are what its review showed, in order, with nothing shown left out.
AnswersAreShown ==
    outcome.is = "answers" /\ outcome.own =>
        LET given == outcome.answers
            about == {given[n].prompt : n \in DOMAIN given}
        IN  /\ \A n \in DOMAIN given : given[n].value = outcome.saw[given[n].prompt]
            /\ \A n \in DOMAIN given : n > 1 => given[n - 1].prompt < given[n].prompt
            /\ \A i \in DOMAIN outcome.saw : i \notin about => outcome.saw[i] = <<>>
            /\ \A n \in DOMAIN given : given[n].preview # 0 => given[n].value = <<<<given[n].preview>>>>

\* A dismissal was the user's, and answers that came with the arguments are kept, each once.
NothingIsMadeUp ==
    /\ outcome.is = "dismissed" /\ outcome.own => outcome.saw = <<"cancelled">>
    /\ outcome.is = "given" =>
          /\ {outcome.answers[n].prompt : n \in DOMAIN outcome.answers} = DOMAIN outcome.input.given
          /\ Len(outcome.answers) = Cardinality(DOMAIN outcome.input.given)

\* A tool call and a plan are decided as the highlighted choice said at the first Enter or
\* Esc, with the feedback that was shown; no later key and no later request changes it.
DecisionsAreShown ==
    outcome.is \notin {"none", "error", "interrupted", "given", "answers", "dismissed"} /\ outcome.own =>
        IF outcome.is = "not approved" THEN outcome.saw = <<"cancelled">>
        ELSE outcome.saw = <<outcome.is, outcome.feedback>>

\* Full Access is in force only after its warning was confirmed, in this process or for good
\* in an earlier one, and is remembered only on that choice; what is in force is what the
\* settings say; a plan is left only for one that was approved.
ModesAreChosen ==
    /\ modeState.effective = "full_access" => seen.warned
    /\ modeState.remembered => seen.kept
    /\ modeState.selected = savedModes.mode /\ modeState.remembered = savedModes.remembered
    /\ effortNow = savedModes.effort
    /\ ~planMode => seen.agreed

\* What the forms of the terminal UI return is what the user saw and chose.
FormsAnswerAsSeen == AnswersAreShown /\ NothingIsMadeUp /\ DecisionsAreShown /\ ModesAreChosen
=============================================================================
