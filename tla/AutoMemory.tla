----------------------------- MODULE AutoMemory -----------------------------
(* Persistent memory (internal/automemory, internal/middleware): typed files   *)
(* in two directories, written by the agent of a run with its file tools, and  *)
(* by a pass that is launched when the run returns and that works beside the   *)
(* runs that follow.  The pass leaves out a run whose agent saved something    *)
(* itself, and may write nothing but memories.  Bodies, prompts and the sizes  *)
(* of the index are left out.                                                  *)
EXTENDS Naturals, Sequences, SequencesExt, FiniteSetsExt

CONSTANTS
    NumSlugs,      \* bound: names of memories
    MaxTurns,      \* defaultExtractionTurns
    MaxIndex,      \* maxIndexLines
    MaxRuns,       \* bound: runs of the session
    MaxWrites      \* bound: tool calls that write, of the agent and the passes together

ASSUME MemoryAssumption ==
    /\ NumSlugs \in Nat /\ MaxTurns \in Nat /\ MaxIndex \in Nat
    /\ MaxRuns \in Nat /\ MaxWrites \in Nat

Slugs == 1 .. NumSlugs
IndexFile == 0
Nested == NumSlugs + 1      \* a file in a directory below
Scopes == {"user", "project"}
Places == (Scopes \X Slugs) \cup {<<"user", IndexFile>>, <<"project", Nested>>, <<"work", 1>>}

\* What a file may hold: a memory says its name and its type.
Missing == <<"absent">>
Blank == <<"blank">>
Broken == <<"broken">>
Bodies == {Blank, Broken} \cup (Slugs \X {"user", "feedback"})
\* What a tool may write where: what is no memory's file is only ever spoilt.
Texts(place) == IF place \in Scopes \X Slugs THEN Bodies ELSE {Broken}

VARIABLES
    memories,     \* place -> what it holds
    spoken,       \* the session's messages: the run each belongs to
    agent,        \* the run that is under way, its tool call, whether its tracker saw a memory
    passes,       \* run -> its extraction pass
    surface,      \* who owns the passes: the command line or the terminal UI
    closing,      \* Drain or Close: no, waiting or done
    drained,      \* the wait for the passes ended by itself
    writes,       \* bound: how many files were written
    runsMade,     \* bound: how many runs there were
    doings        \* history: the files a run wrote, the runs that saved something, the files a pass wrote

memoryVars == <<memories, spoken, agent, passes, surface, closing, drained, writes, runsMade, doings>>

Runs == 1 .. MaxRuns
NoAgent == [run |-> 0, pending |-> <<>>, wrote |-> FALSE]
NoPass == [at |-> "none", wrote |-> FALSE, turn |-> 0, saw |-> {}, cancelled |-> FALSE]
Over == [NoPass EXCEPT !.at = "over"]

MemoryInit ==
    /\ memories = [p \in Places |-> Missing]
    /\ spoken = <<>>
    /\ agent = NoAgent
    /\ passes = [r \in Runs |-> NoPass]
    /\ surface \in {"cli", "tui"}
    /\ closing = "no" /\ drained = FALSE
    /\ writes = 0 /\ runsMade = 0
    /\ doings = [touched |-> {}, saved |-> {}, wrote |-> {}, late |-> FALSE]

-----------------------------------------------------------------------------
(* Files that are memories.                                                   *)

ScopeForType(type) == IF type = "user" THEN "user" ELSE "project"

\* safeFileName: the index is no memory, nor is a file with another name or further down.
SafeName(name) == name \in Slugs

\* A file right in a memory directory, with a name a memory may have.
DirectMemoryFile(place) == place[1] \in Scopes /\ SafeName(place[2])

InMemoryDir(place) == place[1] \in Scopes

\* ParseMemory and Validate: the frontmatter and what a memory of its type has to say.
Parses(content) == Len(content) = 2

\* loadableMemory: the file's name and its directory are those its frontmatter stands for.
LoadableIn(fs, place) ==
    /\ DirectMemoryFile(place) /\ Parses(fs[place])
    /\ fs[place][1] = place[2] /\ ScopeForType(fs[place][2]) = place[1]

LoadScope(scope) == {n \in Slugs : LoadableIn(memories, <<scope, n>>)}

\* The place of a name in a set of names that is sorted.
Rank(n, names) == Cardinality({m \in names : m <= n})

\* BuildIndex: sorted by name, and cut with a notice.
BuildIndex(scope) ==
    LET names == LoadScope(scope)
        shown == Min({Cardinality(names), MaxIndex})
    IN  [entries |-> [i \in 1 .. shown |-> CHOOSE n \in names : Rank(n, names) = i],
         more |-> Cardinality(names) - shown]

\* What the next turn's system prompt says of both scopes.
MergedIndex == [scope \in Scopes |-> BuildIndex(scope)]

-----------------------------------------------------------------------------
(* The runs of the session.                                                   *)

\* A run begins with its prompt in the log and a fresh tracker.
BeginMainRun ==
    /\ agent.run = 0 /\ closing = "no" /\ runsMade < MaxRuns
    /\ surface = "cli" => runsMade = 0
    /\ runsMade' = runsMade + 1
    /\ agent' = [NoAgent EXCEPT !.run = runsMade']
    /\ spoken' = Append(spoken, runsMade')
    /\ UNCHANGED <<memories, passes, surface, closing, drained, writes, doings>>

\* write_file makes a file whatever was there; edit_file needs text to replace.
Writable(tool, place, content) == tool = "edit_file" => memories[place] \notin {Missing, Blank}

\* A file tool of the run writes; its result hook comes next.
AgentWrites(tool, place, content) ==
    /\ agent.run # 0 /\ agent.pending = <<>> /\ writes < MaxWrites
    /\ Writable(tool, place, content)
    /\ memories' = [memories EXCEPT ![place] = content]
    /\ writes' = writes + 1
    /\ agent' = [agent EXCEPT !.pending = <<tool, place, content>>]
    /\ doings' = [doings EXCEPT
           !.touched = @ \cup {<<agent.run, place>>},
           !.saved = IF DirectMemoryFile(place) /\ (\/ tool = "write_file" /\ content = Blank
                                                   \/ LoadableIn(memories', place))
                     THEN @ \cup {agent.run} ELSE @]
    /\ UNCHANGED <<spoken, passes, surface, closing, drained, runsMade>>

\* A changed form: the validator is not asked.
RemembersAny(tool, place, content) == InMemoryDir(place)

\* MarkSuccess: a memory was forgotten, or the file that was written is one now.
Remembers(tool, place, content) ==
    IF tool = "write_file" /\ content = Blank THEN DirectMemoryFile(place)
    ELSE InMemoryDir(place) /\ LoadableIn(memories, place)

MarkSuccess ==
    /\ agent.pending # <<>>
    /\ LET tool == agent.pending[1]
           place == agent.pending[2]
           content == agent.pending[3]
       IN  agent' = [agent EXCEPT !.pending = <<>>, !.wrote = @ \/ Remembers(tool, place, content)]
    /\ UNCHANGED <<memories, spoken, passes, surface, closing, drained, writes, runsMade, doings>>

\* AfterRun: a run that returned a result launches its pass - one of a Formal Plan only if the
\* plan was approved.
EndMainRun(returned, allowed) ==
    /\ agent.run # 0 /\ agent.pending = <<>>
    /\ surface = "cli" => allowed
    /\ passes' = IF returned /\ allowed
                 THEN [passes EXCEPT ![agent.run] = [NoPass EXCEPT
                           !.at = "fired", !.wrote = agent.wrote,
                           !.cancelled = closing = "done" \/ (surface = "tui" /\ closing # "no")]]
                 ELSE passes
    /\ agent' = NoAgent
    /\ spoken' = IF returned THEN Append(spoken, agent.run) ELSE spoken
    /\ UNCHANGED <<memories, surface, closing, drained, writes, runsMade, doings>>

\* The user rewinds the conversation between runs; a pass may still have to read it.
RewindLog(kept) ==
    /\ agent.run = 0 /\ closing = "no" /\ surface = "tui" /\ kept < Len(spoken)
    /\ spoken' = SubSeq(spoken, 1, kept)
    /\ UNCHANGED <<memories, agent, passes, surface, closing, drained, writes, runsMade, doings>>

-----------------------------------------------------------------------------
(* The extraction pass of run r.                                              *)

\* LoadMessagesForRun: by run, whatever was appended since.
MessagesForRun(r) == {m \in ToSet(spoken) : m = r}

\* RunExtraction loads the run's messages, and leaves a run alone that saved a memory.
StartPass(r) ==
    /\ passes[r].at = "fired"
    /\ passes' = [passes EXCEPT ![r] =
           IF @.wrote THEN Over ELSE [@ EXCEPT !.saw = MessagesForRun(r), !.at = "asking"]]
    /\ UNCHANGED <<memories, spoken, agent, surface, closing, drained, writes, runsMade, doings>>

\* The log cannot be read.
PassCannotLoad(r) ==
    /\ passes[r].at = "fired"
    /\ passes' = [passes EXCEPT ![r] = Over]
    /\ UNCHANGED <<memories, spoken, agent, surface, closing, drained, writes, runsMade, doings>>

\* The model answers with a call, or there is nothing (more) to save: it says so, it
\* fails, it panics, its time is over, or the turns are used up.
PassAsks(r, calls) ==
    /\ passes[r].at = "asking"
    /\ IF calls /\ ~passes[r].cancelled /\ passes[r].turn < MaxTurns
       THEN passes' = [passes EXCEPT ![r].at = "calling", ![r].turn = @ + 1]
       ELSE passes' = [passes EXCEPT ![r] = Over]
    /\ UNCHANGED <<memories, spoken, agent, surface, closing, drained, writes, runsMade, doings>>

\* MemoryDirGuard: read anything, write only a file that may be a memory.
GuardAllows(tool, place) == tool = "read_file" \/ DirectMemoryFile(place)

\* The context of the pass is not asked any more between an answer and its calls, of which
\* there may be more.
PassWrites(r, tool, place, content, then) ==
    /\ passes[r].at = "calling" /\ writes < MaxWrites
    /\ passes' = [passes EXCEPT ![r].at = then]
    /\ IF GuardAllows(tool, place) /\ Writable(tool, place, content)
       THEN /\ memories' = [memories EXCEPT ![place] = content]
            /\ writes' = writes + 1
            /\ doings' = [doings EXCEPT !.wrote = @ \cup {<<r, place>>}, !.late = @ \/ drained]
       ELSE UNCHANGED <<memories, writes, doings>>
    /\ UNCHANGED <<spoken, agent, surface, closing, drained, runsMade>>

PassReads(r) ==
    /\ passes[r].at = "calling"
    /\ passes' = [passes EXCEPT ![r].at = "asking"]
    /\ UNCHANGED <<memories, spoken, agent, surface, closing, drained, writes, runsMade, doings>>

-----------------------------------------------------------------------------
(* The end of the process.                                                    *)

Busy(r) == passes[r].at \in {"fired", "asking", "calling"}
Cancelled(ps) == [r \in Runs |-> IF ps[r].at \in {"none", "over"} THEN ps[r] ELSE [ps[r] EXCEPT !.cancelled = TRUE]]

\* Drain waits first and cancels then; the terminal UI cancels first. The terminal UI may
\* close with a run under way.
BeginClose ==
    /\ closing = "no"
    /\ surface = "cli" => agent.run = 0
    /\ closing' = "waiting"
    /\ passes' = IF surface = "tui" THEN Cancelled(passes) ELSE passes
    /\ UNCHANGED <<memories, spoken, agent, surface, drained, writes, runsMade, doings>>

\* waitForExtraction: every pass is over, or the wait's context is.
WaitEnds(timeout) ==
    /\ closing = "waiting"
    /\ timeout \/ \A r \in Runs : ~Busy(r)
    /\ drained' = ~timeout
    /\ closing' = "done"
    /\ passes' = Cancelled(passes)
    /\ UNCHANGED <<memories, spoken, agent, surface, writes, runsMade, doings>>

MemoryNext ==
    \/ BeginMainRun
    \/ \E tool \in {"write_file", "edit_file"}, place \in Places : \E content \in Texts(place) :
          \/ AgentWrites(tool, place, content)
          \/ \E r \in Runs, then \in {"asking", "calling"} : PassWrites(r, tool, place, content, then)
    \/ MarkSuccess
    \/ \E returned, allowed \in BOOLEAN : EndMainRun(returned, allowed)
    \/ \E kept \in 0 .. Len(spoken) : RewindLog(kept)
    \/ \E r \in Runs : StartPass(r) \/ PassCannotLoad(r) \/ PassReads(r)
    \/ \E r \in Runs, calls \in BOOLEAN : PassAsks(r, calls)
    \/ BeginClose
    \/ \E timeout \in BOOLEAN : WaitEnds(timeout)

-----------------------------------------------------------------------------

\* A pass reads its own run's messages, although later runs appended theirs and a rewind
\* cut the log meanwhile; it writes nothing but files that may be memories.
PassesAreIsolated ==
    /\ \A r \in Runs : passes[r].saw \subseteq {r}
    /\ \A w \in doings.wrote : DirectMemoryFile(w[2])

\* A run that saved or forgot a memory itself is left alone, and one that did not is not -
\* unless the pass of another run wrote the very file before the tracker looked at it.
OneWriterPerRun ==
    \A r \in Runs : passes[r].at \notin {"none", "over"} =>
        /\ passes[r].wrote => \A w \in doings.wrote : w[1] # r
        /\ \/ passes[r].wrote <=> r \in doings.saved
           \/ \E w \in doings.wrote : w[1] # r /\ <<r, w[2]>> \in doings.touched

\* Once the wait for the passes ended by itself no pass writes any more: those that were
\* waited for are over, and one launched by a run that outlived the screen gets no answer.
NoLateWrite == ~doings.late

\* What the next prompt says is there: of a scope's memories, in order, as many as fit, and
\* it counts the rest; every entry opens to the memory it names.
IndexIsTrue ==
    \A scope \in Scopes :
        LET index == MergedIndex[scope]
        IN  /\ Len(index.entries) + index.more = Cardinality(LoadScope(scope))
            /\ \A i \in DOMAIN index.entries :
                  /\ LoadableIn(memories, <<scope, index.entries[i]>>)
                  /\ i > 1 => index.entries[i - 1] < index.entries[i]

\* Passes keep to their run and to the memories, and what is advertised is there.
MemoryIsSafe == PassesAreIsolated /\ OneWriterPerRun /\ NoLateWrite /\ IndexIsTrue
=============================================================================
