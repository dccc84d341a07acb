---------------------------- MODULE UserSettings ----------------------------
(* The user's settings (internal/settings, internal/llmconfig,                *)
(* internal/configcmd): one file that every fox process reads, changes and    *)
(* writes back as a whole, by rename and without a lock.  Screens keep some   *)
(* of it in memory; `fox config` asks questions between reading and writing.  *)
(* Strings are members of small sets, "" where a field is absent.             *)
EXTENDS Naturals, Sequences, FiniteSets

CONSTANTS
    Screens, Wizard,     \* processes: terminal UIs, and one `fox config`
    Texts,               \* what a field may hold
    InitialFiles,        \* settings.json when the first of them starts
    Profiles,            \* profiles the user enters
    Layers,              \* overrides by the environment and by flags
    EnvSet,              \* environment variables that are set
    Themes, Statuslines, \* built-in themes and orders of items; the first is the default
    MaxChanges           \* bound: changes begun

SettingsProcesses == Screens \cup {Wizard}
ProviderIds == {"a", "b"}
Protocols == {"openai", "claude"}
NoProfile == [protocol |-> "", model |-> "", auth |-> "", key |-> "", env |-> ""]
EmptyDoc == [default |-> "", profiles |-> [id \in ProviderIds |-> NoProfile], effort |-> [q \in Protocols |-> ""],
             theme |-> "", statusline |-> "", mode |-> "", ack |-> "", oldMode |-> "", oldAck |-> "", other |-> FALSE]

ProfileSet == [protocol : {""} \cup Protocols, model : Texts, auth : Texts, key : Texts, env : Texts]
Docs == [default : {""} \cup ProviderIds, profiles : [ProviderIds -> ProfileSet], effort : [Protocols -> Texts],
         theme : Texts, statusline : Texts, mode : Texts, ack : {"", "yes", "no"},
         oldMode : Texts, oldAck : {"", "yes", "no"}, other : BOOLEAN]
Files == {file \in [form : {"none", "broken", "ok"}, doc : Docs] : file.form # "ok" => file.doc = EmptyDoc}
LayerSet == [provider : {""} \cup ProviderIds, protocol : {""} \cup Protocols, model : Texts, key : Texts, env : Texts]

ASSUME SettingsAssumption ==
    /\ Wizard \notin Screens
    /\ {"", "wrong type", "ask", "approve", "full_access", "auto", "high", "m9", "yes", "no", "kept", "no key"}
          \cup ProviderIds \cup Protocols \subseteq Texts
    /\ InitialFiles \subseteq Files
    /\ Profiles \subseteq {p \in ProfileSet : p.auth # ""}
    /\ Layers \subseteq LayerSet
    /\ "" \notin EnvSet
    /\ Themes \in Seq(Texts \ {"", "wrong type"}) /\ Themes # <<>>
    /\ Statuslines \in Seq(Texts \ {""}) /\ Statuslines # <<>>
    /\ MaxChanges \in Nat

\* What a user can tell apart in the file.
SettingsFields ==
    {<<"default", "">>, <<"theme", "">>, <<"statusline", "">>, <<"mode", "">>, <<"ack", "">>, <<"other", "">>}
        \cup {<<"effort", q>> : q \in Protocols} \cup {<<"model", id>> : id \in ProviderIds}
        \cup {<<"key", id>> : id \in ProviderIds}
ScreenFields == {<<"theme", "">>, <<"statusline", "">>, <<"mode", "">>, <<"ack", "">>}

VARIABLES
    settingsFile,  \* [form, doc]: form "none", "broken" or "ok"
    proc,          \* process -> what it remembers and does
    wanted,        \* history: field -> its last choice that was saved, when and by whom
    excused,       \* history: fields another save or the user's editor has overtaken
    saves,         \* history: writes of the file
    launch,        \* history: what a screen was started with, until the next step
    changes        \* bound

settingsVars == <<settingsFile, proc, wanted, excused, saves, launch, changes>>

-----------------------------------------------------------------------------
(* Reading.                                                                   *)

\* Load: a file that is missing or cannot be parsed reads as no settings at all.  A field of
\* the wrong type reads as absent, and the permissions fall back to the older form.
Parse(file) ==
    IF file.form # "ok" THEN EmptyDoc
    ELSE LET d == file.doc
         IN  [d EXCEPT !.theme = IF d.theme = "wrong type" THEN "" ELSE d.theme,
                       !.mode = IF d.mode = "" THEN d.oldMode ELSE d.mode,
                       !.ack = IF d.ack # "" THEN d.ack ELSE IF d.oldAck = "yes" THEN "yes" ELSE "no"]

InSeq(x, s) == \E i \in DOMAIN s : s[i] = x
ThemeOf(value) == IF InSeq(value, Themes) THEN value ELSE Themes[1]
EffortOf(value) == IF value = "" THEN "auto" ELSE value
StatuslineOf(value) == IF value = "" THEN Statuslines[1] ELSE value
ModeOf(value) == IF value \in {"approve", "full_access"} THEN value ELSE "ask"

\* resolveAPIKey.
KeySource(profile) ==
    IF profile.auth = "none" THEN "no key" ELSE IF profile.key # "" THEN profile.key ELSE profile.env

Meaning(d, f) ==
    CASE f[1] = "default" -> d.default
      [] f[1] = "theme" -> ThemeOf(d.theme)
      [] f[1] = "statusline" -> StatuslineOf(d.statusline)
      [] f[1] = "mode" -> ModeOf(d.mode)
      [] f[1] = "ack" -> IF d.ack = "yes" THEN "yes" ELSE "no"
      [] f[1] = "other" -> IF d.other THEN "kept" ELSE ""
      [] f[1] = "effort" -> EffortOf(d.effort[f[2]])
      [] f[1] = "model" -> d.profiles[f[2]].model
      [] f[1] = "key" -> KeySource(d.profiles[f[2]])

-----------------------------------------------------------------------------
(* Writing.                                                                   *)

Patched(old, new) == IF new = "" THEN old ELSE new

\* mergeProviderRaw: an empty field leaves what the file has.
MergeProfile(raw, p) ==
    [protocol |-> Patched(raw.protocol, p.protocol), model |-> Patched(raw.model, p.model),
     auth |-> Patched(raw.auth, p.auth), key |-> Patched(raw.key, p.key), env |-> Patched(raw.env, p.env)]

\* Mutant: an effort that was cleared stays in the file.
MergeEffortKeeping(raw, efforts) == [q \in Protocols |-> Patched(raw[q], efforts[q])]

\* mergeEffortRaw: protocols that are no longer set are deleted.
MergeEffort(raw, efforts) == efforts

HasPermissions(d) == d.mode # "" \/ d.ack = "yes"
HasTUI(d) == d.theme # "" \/ d.statusline # "" \/ HasPermissions(d)

\* mergeTUIRaw.
MergeTUI(raw, d) ==
    IF ~HasTUI(d) THEN raw
    ELSE [raw EXCEPT !.theme = Patched(@, d.theme), !.statusline = Patched(@, d.statusline),
                     !.mode = IF HasPermissions(d) THEN Patched(@, d.mode) ELSE @,
                     !.ack = IF HasPermissions(d) /\ (d.ack = "yes" \/ raw.ack # "") THEN d.ack ELSE @]

\* mergeRaw: the bytes that were loaded are patched; without them only what is known is written.
MergeRaw(file, d) ==
    LET raw == IF file.form = "ok" THEN file.doc ELSE EmptyDoc
        llm == [raw EXCEPT !.default = Patched(@, d.default),
                           !.profiles = [id \in ProviderIds |-> MergeProfile(raw.profiles[id], d.profiles[id])],
                           !.effort = MergeEffort(raw.effort, d.effort)]
    IN  MergeTUI(llm, d)

-----------------------------------------------------------------------------
(* Resolve: the profile, then the environment, then the flags.                *)

NoLayer == [provider |-> "", protocol |-> "", model |-> "", key |-> "", env |-> ""]

\* applyAPIKeySourceOverride: one key source replaces the other.
Override(p, layer) ==
    [p EXCEPT !.protocol = Patched(@, layer.protocol), !.model = Patched(@, layer.model),
              !.key = IF layer.key # "" THEN layer.key ELSE IF layer.env # "" THEN "" ELSE @,
              !.env = IF layer.key # "" THEN "" ELSE IF layer.env # "" THEN layer.env ELSE @]

ProviderIdOf(d, env, cli) == Patched(Patched(d.default, env.provider), cli.provider)

ResolveProfile(d, env, cli) ==
    LET id == ProviderIdOf(d, env, cli)
        found == id # "" /\ d.profiles[id] # NoProfile
        profile == Override(Override(IF found THEN d.profiles[id] ELSE NoProfile, env), cli)
        complete == profile.protocol # "" /\ profile.model # ""
        keyed == profile.auth = "none" \/ profile.key # "" \/ profile.env \in EnvSet
    IN  [ok |-> complete /\ keyed, saved |-> IF found THEN id ELSE "", protocol |-> profile.protocol,
         model |-> profile.model, key |-> KeySource(profile)]

-----------------------------------------------------------------------------
(* Processes.                                                                 *)

NoChange == [kind |-> "none", field |-> "", value |-> "", extra |-> FALSE, profile |-> NoProfile]
Off == [pc |-> "off", since |-> 0, theme |-> "", statusline |-> "", mode |-> "", ack |-> "",
        saved |-> "", protocol |-> "", change |-> NoChange, file |-> [form |-> "none", doc |-> EmptyDoc], seen |-> 0]
NoLaunch == [doc |-> EmptyDoc, env |-> NoLayer, cli |-> NoLayer,
             resolved |-> [ok |-> FALSE, saved |-> "", protocol |-> "", model |-> "", key |-> ""]]

SettingsInit ==
    /\ settingsFile \in InitialFiles
    /\ proc = [p \in SettingsProcesses |-> Off]
    /\ wanted = [f \in SettingsFields |-> [value |-> Meaning(Parse(settingsFile), f), at |-> 0, by |-> Wizard]]
    /\ excused = {} /\ saves = 0 /\ launch = NoLaunch /\ changes = 0

\* A screen starts: FromUserSettings, then newModel and the permission state.
StartScreen(p, env, cli) ==
    LET d == Parse(settingsFile)
        r == ResolveProfile(d, env, cli)
    IN  /\ p \in Screens /\ proc[p].pc = "off" /\ changes < MaxChanges
        /\ r.ok
        /\ proc' = [proc EXCEPT ![p] = [Off EXCEPT !.pc = "idle", !.since = saves, !.theme = ThemeOf(d.theme),
                       !.statusline = StatuslineOf(d.statusline), !.mode = ModeOf(d.mode), !.ack = d.ack,
                       !.saved = r.saved, !.protocol = r.protocol]]
        /\ launch' = [doc |-> d, env |-> env, cli |-> cli, resolved |-> r]
        /\ UNCHANGED <<settingsFile, wanted, excused, saves, changes>>

\* The fields a change is about.
Chosen(p, c) ==
    CASE c.kind \in {"theme", "statusline"} -> {<<c.kind, "">>}
      [] c.kind = "mode" -> {<<"mode", "">>} \cup IF c.extra THEN {<<"ack", "">>} ELSE {}
      [] c.kind = "effort" -> {<<"effort", proc[p].protocol>>}
      [] c.kind = "model" -> {<<"model", proc[p].saved>>}
      [] c.kind = "profile" -> {<<"model", c.field>>, <<"key", c.field>>} \cup IF c.extra THEN {<<"default", "">>} ELSE {}
      [] c.kind = "default" -> {<<"default", "">>}

\* The settings to be saved: those loaded, with the change.  A command about the screen's
\* look also puts everything else the screen remembers.
Changed(p, d, c) ==
    LET q == proc[p]
        shown == [d EXCEPT !.theme = q.theme, !.statusline = q.statusline, !.mode = q.mode, !.ack = q.ack]
    IN  CASE c.kind = "theme" -> [shown EXCEPT !.theme = c.value]
          [] c.kind = "statusline" -> [shown EXCEPT !.statusline = c.value]
          [] c.kind = "mode" -> [d EXCEPT !.mode = c.value, !.ack = IF c.extra THEN "yes" ELSE q.ack]
          [] c.kind = "effort" -> [d EXCEPT !.effort[q.protocol] = IF c.value = "auto" THEN "" ELSE c.value]
          [] c.kind = "model" -> [d EXCEPT !.profiles[q.saved].model = c.value]
          [] c.kind = "profile" -> [d EXCEPT !.profiles[c.field] = c.profile, !.default = IF c.extra THEN c.field ELSE @]
          [] c.kind = "default" -> [d EXCEPT !.default = c.field]

\* SetProviderModel and SetDefaultProvider want the profile to exist.
Allowed(p, d, c) ==
    /\ c.kind = "model" => proc[p].saved # "" /\ d.profiles[proc[p].saved] # NoProfile
    /\ c.kind = "default" => d.profiles[c.field] # NoProfile

ScreenChanges ==
    {[NoChange EXCEPT !.kind = "theme", !.value = t] : t \in {Themes[i] : i \in DOMAIN Themes}}
        \cup {[NoChange EXCEPT !.kind = "statusline", !.value = t] : t \in {Statuslines[i] : i \in DOMAIN Statuslines}}
        \cup {[NoChange EXCEPT !.kind = "mode", !.value = m] : m \in {"ask", "approve", "full_access"}}
        \cup {[NoChange EXCEPT !.kind = "mode", !.value = "full_access", !.extra = TRUE]}
        \cup {[NoChange EXCEPT !.kind = "effort", !.value = v] : v \in {"auto", "high"}}
        \cup {[NoChange EXCEPT !.kind = "model", !.value = "m9"]}
ProfileChange(id, p, asDefault) == [NoChange EXCEPT !.kind = "profile", !.field = id, !.profile = p, !.extra = asDefault]
DefaultChange(id) == [NoChange EXCEPT !.kind = "default", !.field = id]
WizardChanges ==
    {ProfileChange(id, p, b) : id \in ProviderIds, p \in Profiles, b \in BOOLEAN}
        \cup {DefaultChange(id) : id \in ProviderIds}

\* Load; the wizard has asked for the profile before, and asks the rest now.
BeginChange(p, c) ==
    /\ changes < MaxChanges /\ changes' = changes + 1 /\ launch' = NoLaunch
    /\ IF p = Wizard THEN proc[p].pc = "off" /\ c \in WizardChanges ELSE proc[p].pc = "idle" /\ c \in ScreenChanges
    /\ Allowed(p, Parse(settingsFile), c)
    /\ proc' = [proc EXCEPT ![p].pc = "saving", ![p].change = c, ![p].file = settingsFile, ![p].seen = saves]
    /\ UNCHANGED <<settingsFile, wanted, excused, saves>>

Remembered(p, c) ==
    CASE c.kind = "theme" -> [proc[p] EXCEPT !.theme = c.value]
      [] c.kind = "statusline" -> [proc[p] EXCEPT !.statusline = c.value]
      [] c.kind = "mode" -> [proc[p] EXCEPT !.mode = c.value, !.ack = IF c.extra THEN "yes" ELSE @]
      [] c.kind \in {"effort", "model", "profile", "default"} -> proc[p]
Rested(q) == [q EXCEPT !.pc = "idle", !.change = NoChange, !.file = Off.file, !.seen = 0]
AfterChange(p, q) == [proc EXCEPT ![p] = IF p = Wizard THEN Off ELSE Rested(q)]

\* The user declines, or the temporary file cannot be made, written or renamed.
SavingFails(p) ==
    /\ proc[p].pc = "saving"
    /\ proc' = AfterChange(p, proc[p]) /\ launch' = NoLaunch
    /\ UNCHANGED <<settingsFile, wanted, excused, saves, changes>>

\* What others chose since this process read it is written over, with the field as it was.
Overtaken(p, own) ==
    LET q == proc[p]
        shown == IF q.change.kind \in {"theme", "statusline"} THEN ScreenFields
                 ELSE IF q.change.kind = "mode" THEN {<<"ack", "">>} ELSE {}
    IN  {f \in SettingsFields \ own : \/ wanted[f].at > q.seen
                                      \/ f \in shown /\ wanted[f].by # p /\ wanted[f].at > q.since
                                      \/ q.file.form # "ok"}

\* Where a profile that was entered leaves a field empty the file keeps its own.
LeftAsItWas(entered, raw) ==
    {<<"model", id>> : id \in {i \in ProviderIds : entered.model = "" /\ raw[i].model # ""}}
    \cup {<<"key", id>> : id \in {i \in ProviderIds :
              /\ entered.key = ""
              /\ \/ raw[i].key # ""
                 \/ entered.env = "" /\ raw[i].env # ""}}

\* Save: rename, then chmod, whose failure is reported like any other.
SaveSettings(p, chmodOk) ==
    LET c == proc[p].change
        own == Chosen(p, c)
        d == Changed(p, Parse(proc[p].file), c)
        stays == IF c.kind = "profile" THEN LeftAsItWas(c.profile, proc[p].file.doc.profiles) ELSE {}
    IN  /\ proc[p].pc = "saving"
        /\ settingsFile' = [form |-> "ok", doc |-> MergeRaw(proc[p].file, d)]
        /\ saves' = saves + 1
        /\ wanted' = [f \in SettingsFields |-> IF f \in own THEN [value |-> Meaning(d, f), at |-> saves + 1, by |-> p]
                                               ELSE wanted[f]]
        /\ excused' = (excused \ own) \cup Overtaken(p, own) \cup (own \cap stays) \cup IF chmodOk THEN {} ELSE own
        /\ proc' = AfterChange(p, IF chmodOk THEN Remembered(p, c) ELSE proc[p])
        /\ launch' = NoLaunch
        /\ UNCHANGED changes

\* The user breaks the file in an editor.
BreakFile ==
    /\ settingsFile.form = "ok" /\ changes < MaxChanges /\ changes' = changes + 1 /\ launch' = NoLaunch
    /\ settingsFile' = [form |-> "broken", doc |-> EmptyDoc]
    /\ excused' = SettingsFields
    /\ UNCHANGED <<proc, wanted, saves>>

\* A process ends, perhaps between loading and renaming: its temporary file is not read.
StopScreen(p) ==
    /\ proc[p].pc # "off"
    /\ proc' = [proc EXCEPT ![p] = Off] /\ launch' = NoLaunch
    /\ UNCHANGED <<settingsFile, wanted, excused, saves, changes>>

SettingsNext ==
    \/ \E p \in Screens, env, cli \in Layers : StartScreen(p, env, cli)
    \/ \E p \in SettingsProcesses :
          \/ \E c \in ScreenChanges \cup WizardChanges : BeginChange(p, c)
          \/ SavingFails(p) \/ StopScreen(p)
          \/ \E ok \in BOOLEAN : SaveSettings(p, ok)
    \/ BreakFile

-----------------------------------------------------------------------------
\* Every setting reads as it was last chosen, across saves of all other settings by any
\* process, unless a save that read the file earlier wrote over it: nothing a save was not
\* about is lost, and what it cleared is gone.
ChoicesAreKept ==
    LET read == Parse(settingsFile)
    IN  \A f \in SettingsFields \ excused : Meaning(read, f) = wanted[f].value

\* The strongest of the sources that name a key.
StrongestOf(sources) ==
    LET keyed == {i \in DOMAIN sources : sources[i].key # "" \/ sources[i].env # ""}
    IN  sources[CHOOSE i \in keyed : \A k \in keyed : k <= i]

\* A screen runs with the key of the strongest source that names one, the direct key before
\* the variable, and with the strongest model; the profile its model is saved to exists.
RunsAsConfigured ==
    LET run == launch.resolved
        id == ProviderIdOf(launch.doc, launch.env, launch.cli)
        base == IF id = "" THEN NoProfile ELSE launch.doc.profiles[id]
        strongest == StrongestOf(<<base, launch.env, launch.cli>>)
    IN  run.ok =>
          /\ base.auth # "none" => run.key = (IF strongest.key # "" THEN strongest.key ELSE strongest.env)
          /\ run.model = Patched(Patched(base.model, launch.env.model), launch.cli.model)
          /\ run.saved # "" => run.saved = id /\ base # NoProfile

\* What a process reads or runs with is what was chosen for it.
SettingsAreExact == ChoicesAreKept /\ RunsAsConfigured
=============================================================================
