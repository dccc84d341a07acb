-------------------------- MODULE MCSessionContext --------------------------
(* What a run does with the conversation it stores, with the model it asks,    *)
(* with the journal of its facts, and with the commands of the user and the    *)
(* project, what processes do with the user's settings, and what the entry     *)
(* points compose around all this, each explored by itself.                    *)
(*                                                                             *)
(* Six messages: a run with tools and a prompt after it, or up to five prompts.*)
(* Two turns, so that a turn follows one with tools, one that a gate blocked   *)
(* and one that had to be compacted; two calls, under one identifier or two.   *)
(* Three invocations of the model with two attempts each, over a prompt, a     *)
(* batch with an image in both results, and two batches.                       *)
EXTENDS SessionContext, RunJournal, ModelCalls, Skills, UserSettings, EntryRuntime

CONSTANTS c1, c2

VARIABLE part

MCCallIds == {c1, c2}
MCBatches == {<<>>, <<c1, c2>>, <<c1, c1>>}

MCHistories ==
    {<<Said("system"), Said("user")>>,
     <<Said("user"), Asked(<<c1, c2>>), Result(c1, TRUE), Result(c2, TRUE)>>,
     <<Said("user"), Asked(<<c1, c2>>), Result(c1, FALSE), Result(c2, TRUE),
       Asked(<<c1>>), Result(c1, TRUE), Said("user")>>}

File(source, name, inode) ==
    [source |-> source, name |-> name, inode |-> inode, level |-> 0, at |-> "commands", form |-> "ok", aliases |-> {},
     paths |-> {}, tools |-> <<>>, fork |-> FALSE, before |-> FALSE, after |-> FALSE, userOff |-> FALSE,
     modelOff |-> FALSE, embeds |-> 0, takesArgs |-> TRUE]

\* No command; a user's command that waits for a path below the project's; a child command above the
\* user's; and two that wait, beside a file that cannot be parsed and one above the root.
MCDisks == {
    {},
    {[File(1, 1, 1) EXCEPT !.paths = {"p"}], File(3, 1, 2),
     [File(2, 2, 3) EXCEPT !.aliases = {9}, !.embeds = 1, !.before = TRUE, !.after = TRUE]},
    {[File(4, 1, 1) EXCEPT !.paths = {"p"}, !.fork = TRUE, !.tools = <<"Read", "AskUserQuestion">>],
     [File(2, 1, 2) EXCEPT !.embeds = 1], [File(1, 2, 3) EXCEPT !.aliases = {9}],
     [File(3, 2, 3) EXCEPT !.at = "skills", !.aliases = {9}]},
    {[File(3, 1, 1) EXCEPT !.paths = {"p"}, !.modelOff = TRUE],
     [File(4, 1, 2) EXCEPT !.paths = {"p", "q"}, !.after = TRUE],
     [File(4, 2, 3) EXCEPT !.level = 1, !.at = "skills"],
     [File(2, 2, 4) EXCEPT !.form = "broken", !.tools = <<"Bash(git:*)">>, !.paths = {"q"}],
     [File(3, 2, 5) EXCEPT !.userOff = TRUE, !.tools = <<"Bash(git:*)">>, !.paths = {"q"}]}}
MCAliases == "AskUserQuestion" :> "ask_user_question"

Entered(model, key, env) ==
    [protocol |-> "openai", model |-> model, auth |-> "api-key", key |-> key, env |-> env]
MCProfiles == {Entered("m1", "", "E1"), Entered("m2", "k2", ""), Entered("", "", "")}
MCLayers == {NoLayer, [NoLayer EXCEPT !.env = "E1"], [NoLayer EXCEPT !.key = "k9", !.provider = "b"],
             [NoLayer EXCEPT !.protocol = "claude", !.model = "m7", !.env = "E1"]}

\* No file; or one with a profile, an older form of the permissions, a theme of the wrong
\* type and a field of a later version.
MCFiles ==
    {[form |-> "none", doc |-> EmptyDoc],
     [form |-> "ok", doc |-> [EmptyDoc EXCEPT !.default = "a", !.profiles["a"] = Entered("m0", "k0", "E0"),
         !.theme = "wrong type", !.oldMode = "approve", !.oldAck = "yes", !.effort["openai"] = "high", !.other = TRUE]]}
MCTexts == {"", "wrong type", "ask", "approve", "full_access", "auto", "high", "yes", "no", "kept", "no key", "a", "b",
            "openai", "claude", "api-key", "m0", "m1", "m2", "m7", "m9", "k0", "k2", "k9", "E0", "E1",
            "dark", "light", "s0", "s1"}
MCThemes == <<"dark", "light">>
MCStatuslines == <<"s0", "s1">>

\* Overrides of all kinds for the first screen, before anything was saved.
FewLayers ==
    launch'.resolved.ok /\ (saves > 0 \/ proc'["s2"].pc # proc["s2"].pc) =>
        launch'.env = NoLayer /\ launch'.cli = NoLayer

\* The last message is for the prompt after a run with tools.
LastAfterTools == next' > MaxMessages => \E m \in log : m.kind = "result"

\* Two calls under one identifier are explored in runs without thinking.
TwinsUnthought == thinking => batch' # <<c1, c1>>

\* The parts that are not explored have one initial state.
MCInit ==
    /\ Init /\ JournalInit /\ CallInit /\ SkillsInit /\ SettingsInit /\ EntryInit
    /\ part \in {"context", "journal", "calls", "skills", "settings", "entries"}
    /\ part # "journal" => ~thinking
    /\ part # "calls" => service = [protocol |-> "openai", mode |-> "auto", streaming |-> TRUE]
    /\ part # "skills" => formalPlan /\ disk = {}
    /\ part # "settings" => settingsFile.form = "none"
    /\ part # "entries" => entry = "tui"

MCNext ==
    \/ part = "context" /\ Next /\ LastAfterTools /\ UNCHANGED <<part, journalVars, callVars, skillVars, settingsVars, entryVars>>
    \/ part = "journal" /\ JournalNext /\ TwinsUnthought
       /\ UNCHANGED <<part, vars, callVars, skillVars, settingsVars, entryVars>>
    \/ part = "calls" /\ CallNext /\ UNCHANGED <<part, vars, journalVars, skillVars, settingsVars, entryVars>>
    \/ part = "skills" /\ SkillsNext /\ UNCHANGED <<part, vars, journalVars, callVars, settingsVars, entryVars>>
    \/ part = "settings" /\ SettingsNext /\ FewLayers /\ UNCHANGED <<part, vars, journalVars, callVars, skillVars, entryVars>>
    \/ part = "entries" /\ EntryNext /\ UNCHANGED <<part, vars, journalVars, callVars, skillVars, settingsVars>>

MCSpec == MCInit /\ [][MCNext]_<<part, vars, journalVars, callVars, skillVars, settingsVars, entryVars>>
=============================================================================
