---------------------------- MODULE MCCheckpoint ----------------------------
(* Three systems that share no state, each explored from its own initial       *)
(* states: the rewinding of a conversation of up to four messages with one     *)
(* file of two contents; two runs of a session with one memory of each scope,  *)
(* whose passes work beside the second run and the end of the process; and the *)
(* forms of the terminal UI, two requests or commands of one kind, or of one   *)
(* kind with approvals above it.                                               *)
EXTENDS Checkpoint, AutoMemory, Forms

CONSTANTS f1, absent, a, b
MCFiles == {f1}
MCContents == {absent, a, b}
MCSymmetry == Permutations({a, b})

\* Two questions, one of them with many choices; arguments that are refused or that hold answers.
Ask(prompt, multi) == [prompt |-> prompt, labels |-> <<1, 2>>, multi |-> multi]
MCQuestionInputs ==
    [questions : {<<Ask(1, FALSE), Ask(2, TRUE)>>, <<Ask(1, TRUE)>>, <<Ask(1, FALSE)>>}, given : {<<>>}]
    \cup [questions : {<<Ask(2, FALSE), Ask(1, TRUE)>>, <<Ask(1, FALSE), Ask(1, TRUE)>>, <<>>},
          given : {<<1>>, (0 :> 1) @@ (1 :> 2)}]
MCEfforts == <<"auto", "low", "high">>

VARIABLES
    part,       \* which of the three is explored
    family      \* the kinds of form that are explored together

Families == {{"ask"}} \cup {{k, "approval"} : k \in FormKinds \ {"approval"}}

\* The forms while another part is explored.
AtRest == FormsInit /\ modeState.selected = "ask" /\ modeState.remembered /\ family = {}

MCInit ==
    \/ part = "checkpoint" /\ Init
       /\ MemoryInit /\ surface = "tui"
       /\ AtRest
    \/ part = "memory" /\ MemoryInit
       /\ Init /\ disk = [f \in Files |-> Absent]
       /\ AtRest
    \/ part = "forms" /\ FormsInit /\ family \in Families
       /\ ("modes" \notin family => modeState.selected = "ask" /\ modeState.remembered)
       /\ Init /\ disk = [f \in Files |-> Absent]
       /\ MemoryInit /\ surface = "tui"

\* One foreign change, one restart and one fault are enough to cross two writes and rewinds.
OneDisturbance == events'.foreign <= 1 /\ events'.restart <= 1 /\ events'.fault <= 1

\* Two questions, and one with many choices, are asked once and alone; a simple one, twice and
\* beside approvals.
InFamily ==
    /\ \A k \in FormKinds : forms'[k].id # 0 => k \in family
    /\ call'.kind \in family \cup {"none"}
    /\ IF family = {"ask"} THEN asked' <= 1 ELSE call'.questions \in {<<>>, <<Ask(1, FALSE)>>}

MCNext ==
    \/ part = "checkpoint" /\ Next /\ OneDisturbance /\ UNCHANGED <<part, memoryVars, formVars, family>>
    \/ part = "memory" /\ MemoryNext /\ UNCHANGED <<part, vars, formVars, family>>
    \/ part = "forms" /\ FormsNext /\ InFamily /\ UNCHANGED <<part, vars, memoryVars, family>>

MCSpec == MCInit /\ [][MCNext]_<<part, vars, memoryVars, formVars, family>>
=============================================================================
