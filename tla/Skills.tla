------------------------------- MODULE Skills -------------------------------
(* Slash commands (internal/slash, internal/slash/skilltool): command files of *)
(* the user and the project, the registry that keeps one command for each name *)
(* and holds back the ones that wait for a path, its cached views, and the     *)
(* pipeline that runs a command for the user or for the model.  Texts are left *)
(* out but for what is run: shell embeddings, hooks and the child's tools.     *)
EXTENDS Naturals, Sequences, SequencesExt, FiniteSetsExt

CONSTANTS
    Disks,          \* command files on disk, a set of files for each case
    GitLevel,       \* directories from the work directory up to the git root
    FilePaths,      \* paths the file tools touch
    ParentTools,    \* canonical names of the tools of the run
    ToolAliases,    \* alias -> canonical name
    MaxSteps        \* bound: file tools, turns and commands that are run

Sources == 1 .. 4                   \* Claude user, fox user, Claude project, fox project
Missing == [name |-> 0]
Miss == <<>>                          \* nothing is cached under the key
Unrestricted == <<>>                  \* no list of tools
ViewKeys == {"all", "user", "model"}
Readers == {"screen", "run"}

VARIABLES
    disk,         \* the command files
    active,       \* name -> the command it stands for
    dormant,      \* name -> the command that waits for one of its paths
    tried,        \* ConditionalSkills.activated
    views,        \* Cache
    reading,      \* reader -> what it has read under the lock
    pendingTold,  \* runtimeActivations: reminders not yet given
    told,         \* reminders of each turn
    turnPc,       \* the run: "idle", "collect", "turn" or "assessed"
    assessed,     \* the plan the skill call was assessed with
    pipeline,     \* the command that is run
    formalPlan,   \* the session is in Formal Plan mode
    skillSteps,   \* bound
    skillHist     \* history: commands activated by a path, paths touched, views that were overtaken

skillVars == <<disk, active, dormant, tried, views, reading, pendingTold, told, turnPc, assessed,
               pipeline, formalPlan, skillSteps, skillHist>>

-----------------------------------------------------------------------------
(* Files.                                                                     *)

\* ParseFrontmatter: what cannot be parsed is a command without any field.
Parsed(f) ==
    IF f.form = "ok" THEN f
    ELSE [f EXCEPT !.aliases = {}, !.paths = {}, !.tools = <<>>, !.fork = FALSE, !.before = FALSE,
                   !.after = FALSE, !.userOff = FALSE, !.modelOff = FALSE]

\* normalizeAllowedTool: arguments in parentheses are cut, known names are translated.
Normalized(raw) ==
    CASE raw = "Read" -> "read_file"
      [] raw = "Bash(git:*)" -> "bash"
      [] raw = "AskUserQuestion" -> "askuserquestion"
      [] OTHER -> raw

\* parseAllowedTools: an empty list restricts nothing.
AllowedTools(f) == IF f.tools = <<>> THEN Unrestricted ELSE <<{Normalized(f.tools[i]) : i \in DOMAIN f.tools} \ {""}>>

\* findProjectConfigRoot: the nearest directory up to the git root.
NearestLevel(source) == Min({f.level : f \in {g \in disk : g.source = source}})
Found(f) ==
    /\ f.at # "loose"
    /\ f.source \in {3, 4} => f.level <= GitLevel /\ f.level = NearestLevel(f.source)

\* Of the files of a scope that are one file, the first; then by source, skills after commands.
FileOrder(f, g) ==
    \/ f.source < g.source
    \/ f.source = g.source /\ f.at = "commands" /\ g.at = "skills"
    \/ f.source = g.source /\ f.at = g.at /\ f.inode < g.inode

Discovered(scope) ==
    LET found == {f \in disk : f.source \in scope /\ Found(f)}
        first == {f \in found : \A g \in found : g.inode = f.inode /\ g # f => FileOrder(f, g)}
    IN  [i \in 1 .. Cardinality(first) |-> Parsed(SetToSortSeq(first, FileOrder)[i])]

DiscoverCommands == Discovered({1, 2}) \o Discovered({3, 4})

-----------------------------------------------------------------------------
(* The registry.                                                              *)

\* Mutant: what comes last is active.
ActivateLast(active0, cmd) == [active0 EXCEPT ![cmd.name] = cmd]

\* activateLocked: a command of lower precedence never replaces another.
Activate(active0, cmd) ==
    IF active0[cmd.name] # Missing /\ active0[cmd.name].source > cmd.source THEN active0
    ELSE [active0 EXCEPT ![cmd.name] = cmd]

Register(reg, cmd) ==
    IF cmd.paths = {} THEN [reg EXCEPT !.active = Activate(@, cmd)]
    ELSE [reg EXCEPT !.dormant = Activate(@, cmd)]

Names == {f.name : f \in UNION Disks}

Loaded == FoldLeft(Register, [active |-> [n \in Names |-> Missing], dormant |-> [n \in Names |-> Missing]],
                   DiscoverCommands)

\* Lookup: the name, then the alias of the highest precedence, then of the first name.
Lookup(name) ==
    LET aliased == {n \in Names : active[n] # Missing /\ name \in active[n].aliases}
        highest == {n \in aliased : \A m \in aliased : active[m].source <= active[n].source}
    IN  IF name \in Names /\ active[name] # Missing THEN active[name]
        ELSE IF aliased = {} THEN Missing
        ELSE active[CHOOSE n \in highest : \A m \in highest : n <= m]

ViewOf(key, list) ==
    CASE key = "all" -> list
      [] key = "user" -> {c \in list : ~c.userOff}
      [] key = "model" -> {c \in list : ~c.modelOff}

Listed == {active[n] : n \in {m \in Names : active[m] # Missing}}

NotReading == [pc |-> "no", list |-> {}]
NoPipeline == [by |-> "nobody", cmd |-> Missing, steps |-> <<>>, ran |-> <<>>, cancelled |-> FALSE,
               tools |-> Unrestricted, typed |-> FALSE]
NoPlan == [name |-> 0, typed |-> FALSE, steps |-> <<>>]

SkillsInit ==
    /\ disk \in Disks
    /\ active = Loaded.active /\ dormant = Loaded.dormant
    /\ tried = {}
    /\ views = [k \in ViewKeys |-> Miss]
    /\ reading = [r \in Readers |-> NotReading]
    /\ pendingTold = {} /\ told = <<>>
    /\ turnPc = "idle" /\ assessed = NoPlan /\ pipeline = NoPipeline
    /\ formalPlan \in BOOLEAN
    /\ skillSteps = 0
    /\ skillHist = [activated |-> {}, touched |-> {}, overtaken |-> {}]

\* CheckConditional, after a file tool that went well: all under the registry's lock.
CheckConditional(path) ==
    LET hit == {n \in Names : dormant[n] # Missing /\ n \notin tried /\ path \in dormant[n].paths}
        fresh == {n \in hit : Activate(active, dormant[n]) # active}
    IN  /\ active' = [n \in Names |-> IF n \in fresh THEN dormant[n] ELSE active[n]]
        /\ dormant' = [n \in Names |-> IF n \in hit THEN Missing ELSE dormant[n]]
        /\ tried' = tried \cup hit
        /\ pendingTold' = pendingTold \cup {dormant[n] : n \in {m \in fresh : ~dormant[m].modelOff}}
        /\ views' = IF hit = {} THEN views ELSE [k \in ViewKeys |-> Miss]
        /\ skillHist' = [activated |-> skillHist.activated \cup {dormant[n] : n \in fresh},
                         touched |-> skillHist.touched \cup {path},
                         overtaken |-> IF hit = {} THEN skillHist.overtaken
                                       ELSE {r \in Readers : reading[r].pc \in {"list", "view"}}]

-----------------------------------------------------------------------------
(* Cached views: the screen's suggestions and the skill list of a turn.       *)

KeyOf(r) == IF r = "screen" THEN "user" ELSE "model"

BeginView(r) ==
    /\ reading[r].pc = "no"
    /\ reading' = [reading EXCEPT ![r] =
           IF views[KeyOf(r)] # Miss THEN [pc |-> "got", list |-> views[KeyOf(r)][1]]
           ELSE IF views["all"] # Miss THEN [pc |-> "view", list |-> views["all"][1]]
           ELSE [pc |-> "list", list |-> Listed]]
    /\ UNCHANGED views

\* The list is stored after the lock was given back.
StoreView(r) ==
    /\ reading[r].pc \in {"list", "view"}
    /\ IF reading[r].pc = "list"
       THEN /\ views' = [views EXCEPT !["all"] = <<reading[r].list>>]
            /\ reading' = [reading EXCEPT ![r].pc = "view"]
       ELSE /\ views' = [views EXCEPT ![KeyOf(r)] = <<ViewOf(KeyOf(r), reading[r].list)>>]
            /\ reading' = [reading EXCEPT ![r] = [pc |-> "got", list |-> ViewOf(KeyOf(r), @.list)]]

ReadView(r) ==
    /\ BeginView(r) \/ StoreView(r)
    /\ UNCHANGED <<disk, active, dormant, tried, pendingTold, told, turnPc, assessed, pipeline, formalPlan,
                   skillSteps, skillHist>>

Suggest ==
    /\ reading["screen"].pc = "got"
    /\ reading' = [reading EXCEPT !["screen"] = NotReading]
    /\ UNCHANGED <<disk, active, dormant, tried, views, pendingTold, told, turnPc, assessed, pipeline, formalPlan,
                   skillSteps, skillHist>>

-----------------------------------------------------------------------------
(* The pipeline.                                                              *)

\* Plan: shell embeddings in order, also those that came with the arguments, then the hooks.
Embedded(c, typed) == 
    [i \in 1 .. c.embeds |-> <<"shell", c.name, i>>] \o IF typed /\ c.takesArgs THEN <<<<"typed", 0, 1>>>> ELSE <<>>
PlannedSteps(c, typed) ==
    Embedded(c, typed)
        \o (IF c.before THEN <<<<"before", c.name, 1>>>> ELSE <<>>)
        \o (IF c.after THEN <<<<"after", c.name, 1>>>> ELSE <<>>)

\* Execute: the content is used between the hooks, by a child run or by the next turn.
ExecutionSteps(c, typed) ==
    Embedded(c, typed)
        \o (IF c.before THEN <<<<"before", c.name, 1>>>> ELSE <<>>)
        \o <<<<IF c.fork THEN "fork" ELSE "inline", c.name, 1>>>>
        \o (IF c.after THEN <<<<"after", c.name, 1>>>> ELSE <<>>)

\* forkAllowedTools: what the command allows, of what the caller has.
ForkTools(by, allowed) ==
    CASE by = "user" -> allowed
      [] allowed = Unrestricted -> <<ParentTools>>
      [] OTHER -> <<ParentTools \cap allowed[1]>>

\* NewFilteredRegistry: an alias is there when its tool is allowed, or it is itself.
Callable(allowed) ==
    LET offered == ParentTools \cup {a \in DOMAIN ToolAliases : ToolAliases[a] \in ParentTools}
    IN  IF allowed = Unrestricted THEN offered
        ELSE {t \in offered : \/ t \in allowed[1]
                              \/ t \in DOMAIN ToolAliases /\ ToolAliases[t] \in allowed[1]}

Started(by, c, typed) ==
    [NoPipeline EXCEPT !.by = by, !.cmd = c, !.typed = typed, !.steps = ExecutionSteps(c, typed),
                       !.tools = IF c.fork THEN ForkTools(by, AllowedTools(c)) ELSE AllowedTools(c)]

\* executePromptCommand: a Formal Plan runs neither a child nor the command's shell.
RunPromptCommand(name, typed) ==
    LET c == Lookup(name)
    IN  /\ pipeline.by = "nobody" /\ turnPc = "idle" /\ skillSteps < MaxSteps
        /\ c # Missing
        /\ formalPlan => ~c.fork /\ c.embeds = 0 /\ ~c.before /\ ~c.after
        /\ pipeline' = Started("user", c, typed)
        /\ skillSteps' = skillSteps + 1
        /\ UNCHANGED <<disk, active, dormant, tried, views, reading, pendingTold, told, turnPc, assessed, formalPlan, skillHist>>

\* resolve: the model may not run every command, nor one whose tools nobody would restrict.
Resolvable(c) == c # Missing /\ ~c.modelOff /\ (AllowedTools(c) = Unrestricted \/ c.fork)

\* AssessPermission: the exact commands are planned, and shown to whoever decides.
AssessSkill(name, typed) ==
    LET c == Lookup(name)
    IN  /\ turnPc = "turn" /\ pipeline.by = "nobody" /\ skillSteps < MaxSteps
        /\ Resolvable(c)
        /\ assessed' = [name |-> name, typed |-> typed, steps |-> PlannedSteps(c, typed)]
        /\ turnPc' = "assessed"
        /\ skillSteps' = skillSteps + 1
        /\ UNCHANGED <<disk, active, dormant, tried, views, reading, pendingTold, told, pipeline, formalPlan, skillHist>>

\* SkillTool.Execute resolves the name once more; or the call was denied.
ExecuteSkill(allowed) ==
    /\ turnPc = "assessed" /\ turnPc' = "turn"
    /\ pipeline' = IF allowed /\ Resolvable(Lookup(assessed.name))
                   THEN Started("model", Lookup(assessed.name), assessed.typed) ELSE pipeline
    /\ assessed' = IF allowed THEN assessed ELSE NoPlan
    /\ UNCHANGED <<disk, active, dormant, tried, views, reading, pendingTold, told, formalPlan, skillSteps, skillHist>>

\* A shell step of a cancelled pipeline is not run; a hook or an embedding that fails stops nothing.
RunStep ==
    /\ pipeline.steps # <<>>
    /\ pipeline' = [pipeline EXCEPT !.steps = Tail(@),
                                    !.ran = IF pipeline.cancelled THEN @ ELSE Append(@, Head(pipeline.steps))]
    /\ UNCHANGED <<disk, active, dormant, tried, views, reading, pendingTold, told, turnPc, assessed, formalPlan, skillSteps, skillHist>>

\* The user's command is not run after all: its text is empty, or its effort is invalid.
AbandonInline ==
    /\ pipeline.by = "user" /\ pipeline.steps # <<>> /\ Head(pipeline.steps)[1] = "inline"
    /\ pipeline' = [pipeline EXCEPT !.steps = <<>>]
    /\ UNCHANGED <<disk, active, dormant, tried, views, reading, pendingTold, told, turnPc, assessed, formalPlan, skillSteps, skillHist>>

CancelPipeline ==
    /\ pipeline.steps # <<>> /\ ~pipeline.cancelled
    /\ pipeline' = [pipeline EXCEPT !.cancelled = TRUE]
    /\ UNCHANGED <<disk, active, dormant, tried, views, reading, pendingTold, told, turnPc, assessed, formalPlan, skillSteps, skillHist>>

EndPipeline ==
    /\ pipeline.by # "nobody" /\ pipeline.steps = <<>>
    /\ pipeline' = NoPipeline /\ assessed' = NoPlan
    /\ UNCHANGED <<disk, active, dormant, tried, views, reading, pendingTold, told, turnPc, formalPlan, skillSteps, skillHist>>

-----------------------------------------------------------------------------
(* The turns of a run.                                                        *)

\* The system prompt lists the skills as they are cached; then the reminders are drained.
BeginSkillTurn ==
    /\ turnPc \in {"idle", "turn"} /\ pipeline.by # "model" /\ reading["run"].pc = "no" /\ skillSteps < MaxSteps
    /\ skillSteps' = skillSteps + 1
    /\ turnPc' = "collect"
    /\ told' = Append(told, pendingTold) /\ pendingTold' = {}
    /\ UNCHANGED <<disk, active, dormant, tried, views, reading, assessed, pipeline, formalPlan, skillHist>>

CollectSkills ==
    /\ turnPc = "collect" /\ reading["run"].pc = "got"
    /\ turnPc' = "turn"
    /\ reading' = [reading EXCEPT !["run"] = NotReading]
    /\ UNCHANGED <<disk, active, dormant, tried, views, pendingTold, told, assessed, pipeline, formalPlan, skillSteps, skillHist>>

\* conditionalSkillHook.
TouchFile(path) ==
    /\ turnPc = "turn" /\ pipeline.by # "model" /\ skillSteps < MaxSteps
    /\ skillSteps' = skillSteps + 1
    /\ CheckConditional(path)
    /\ UNCHANGED <<disk, reading, told, turnPc, assessed, pipeline, formalPlan>>

SkillsNext ==
    \/ ReadView("screen") \/ Suggest
    \/ turnPc = "collect" /\ ReadView("run")
    \/ BeginSkillTurn \/ CollectSkills
    \/ \E path \in FilePaths : TouchFile(path)
    \/ \E n \in Names \cup UNION {active[m].aliases : m \in {k \in Names : active[k] # Missing}}, typed \in BOOLEAN :
          RunPromptCommand(n, typed) \/ AssessSkill(n, typed)
    \/ \E allowed \in BOOLEAN : ExecuteSkill(allowed)
    \/ RunStep \/ AbandonInline \/ CancelPipeline \/ EndPipeline

-----------------------------------------------------------------------------
\* A name stands for the command of the highest precedence among the files that were found
\* and either wait for no path or were activated by one; and what was touched waits no more.
NamesAreExact ==
  /\ LET known == {Parsed(f) : f \in {g \in disk : Found(g)}}
        up == {f \in known : f.paths = {}} \cup skillHist.activated
    IN  \A n \in Names :
          /\ active[n] # Missing => active[n] \in known
          /\ \A f \in {g \in up : g.name = n} : active[n] # Missing /\ active[n].source >= f.source
  /\ \A n \in Names : dormant[n] # Missing => dormant[n].paths \cap skillHist.touched = {}

\* A cached view is that of the registry, unless a path was touched while it was made.
ViewsAreFresh ==
    \A k \in ViewKeys : views[k] # Miss /\ skillHist.overtaken = {} => views[k][1] = ViewOf(k, Listed)

\* Every skill a path activated for the model is announced exactly once.
ActivationsAreTold ==
    \A c \in skillHist.activated :
        ~c.modelOff => Cardinality({i \in DOMAIN told : c \in told[i]}) + (IF c \in pendingTold THEN 1 ELSE 0) = 1

\* What a skill runs is what was assessed, in order: the hooks around its content and nothing
\* beside it; a child run has tools of its parent and of its command only; and in a Formal
\* Plan a command of the user runs no shell but the one the user typed.
RanIsPlanned ==
    LET shell == SelectSeq(pipeline.ran, LAMBDA s : s[1] \notin {"fork", "inline"})
        used == \E i \in DOMAIN pipeline.ran : pipeline.ran[i][1] \in {"fork", "inline"}
        allowed == AllowedTools(pipeline.cmd)
    IN  pipeline.by # "nobody" =>
          /\ pipeline.by = "model" => IsPrefix(shell, assessed.steps)
          /\ (\E i \in DOMAIN shell : shell[i][1] = "after") => used
          /\ pipeline.by = "model" /\ pipeline.cmd.fork => pipeline.tools[1] \subseteq ParentTools
          /\ allowed # Unrestricted => pipeline.tools # Unrestricted /\ pipeline.tools[1] \subseteq allowed[1]
          /\ \A t \in Callable(pipeline.tools) :
                allowed = Unrestricted \/ t \in allowed[1] \/ ToolAliases[t] \in allowed[1]
          /\ pipeline.by = "user" /\ formalPlan /\ ~pipeline.typed => shell = <<>>

\* The registry answers with the right command, and a command does what was decided about it.
SkillsAreExact == NamesAreExact /\ ViewsAreFresh /\ ActivationsAreTold /\ RanIsPlanned
=============================================================================
