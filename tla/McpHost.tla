------------------------------- MODULE McpHost -------------------------------
(***************************************************************************)
(* The MCP host of a live session: mcpintegration/host.go and tools.go,    *)
(* the connection of mcpclient/client.go, and the part of mcpconfig and    *)
(* management.go that decides which definition a server gets.              *)
(*                                                                         *)
(* Each server has one gate, one client and a generation.  The runs of the *)
(* session and the child runs that borrow the host call its tools through  *)
(* adapters that remember the generation they were mounted on.  Reconnect  *)
(* takes the gate, closes the client, dials again and publishes a new      *)
(* generation; Close takes no gate.                                        *)
(***************************************************************************)
EXTENDS Integers, FiniteSets, Sequences, Functions

CONSTANTS
    Servers,      \* server names
    Callers,      \* runs and child runs with tools mounted
    Managers,     \* goroutines inside Reconnect
    Allowed,      \* the capabilities of each caller
    Catalogs,     \* what a server may answer to tools/list: cursor -> page
    Transports,   \* the transport of each server's definition
    Documents,    \* the contents a configuration scope may have
    EditedScopes, \* the scopes edited while the host runs
    MaxCalls,     \* bound: calls
    MaxReconnects,\* bound: reconnects
    MaxEdits,     \* bound: edits of a configuration scope
    None

ASSUME McpAssumption ==
    /\ None \notin Callers \cup Managers /\ Callers \cap Managers = {}
    /\ Documents \subseteq [Servers -> {"absent", "off", "invalid", "on"}]
    /\ EditedScopes \subseteq {"user", "project"}

\* ResourceToolName(server)
Reader == "read_resource"

VARIABLES
    config,     \* the two mcp.json files: scope -> server -> definition
    up,         \* starting, up or closed; Close, which may return early, changes nothing more
    entry,      \* Host.servers
    conns,      \* every mcpclient.Session opened so far
    doomed,     \* clients Close handed to goroutines that have not begun
    manager,    \* where each Reconnect is
    caller,     \* where each invoke is
    adapters,   \* the generation and tools each caller mounted of each server
    shown,      \* ghost: the tools that returned the link through each connection
    calls, reconnects, edits

host == <<up, entry, doomed>>
bounded == <<calls, reconnects, edits>>
mcpVars == <<config, up, entry, conns, doomed, manager, caller, adapters, shown, calls, reconnects, edits>>

Closed == up = "closed"
Ended(k) == conns[k].state \in {"closed", "stuck"}
Definitions == {"absent", "off", "invalid", "on"}

NoEntry == [known |-> FALSE, client |-> 0, gen |-> 0, state |-> "none", tools |-> {},
            links |-> {}, gate |-> None]
Idle == [at |-> "idle"]

Init ==
    /\ config \in [{"user", "project"} -> Documents]
    /\ up = "starting"
    /\ entry = [s \in Servers |-> NoEntry]
    /\ conns = <<>> /\ doomed = {}
    /\ manager = [m \in Managers |-> Idle]
    /\ caller = [c \in Callers |-> Idle]
    /\ adapters = [c \in Callers |-> [s \in Servers |-> [gen |-> 0, tools |-> {}]]]
    /\ shown = <<>>
    /\ calls = 0 /\ reconnects = 0 /\ edits = 0

-----------------------------------------------------------------------------
(* Configuration and connection. *)

\* Load: a project definition replaces the user's; a removed server is loaded as disabled.
Effective(s) ==
    IF config["project"][s] # "absent" THEN config["project"][s] ELSE config["user"][s]

Failed == [state |-> "failed", tools |-> {}]

\* tools/list, page after page from the empty cursor: the pages of a discovery that ends, in
\* which no cursor comes back and no tool is named twice.
Named(page) == {page.tools[i] : i \in DOMAIN page.tools}
Walks(catalog) ==
    {p \in UNION {[1 .. n -> DOMAIN catalog] : n \in 1 .. Cardinality(DOMAIN catalog)} :
        /\ p[1] = "" /\ IsInjective(p)
        /\ \A i \in DOMAIN p : catalog[p[i]].next = IF i = Len(p) THEN "" ELSE p[i + 1]
        /\ \A i \in DOMAIN p : IsInjective(catalog[p[i]].tools)
        /\ \A i, j \in DOMAIN p : Named(catalog[p[i]]) \cap Named(catalog[p[j]]) # {} => i = j}

Discover(catalog) ==
    IF Walks(catalog) = {} THEN Failed
    ELSE [state |-> "ready",
          tools |-> UNION {UNION {Named(catalog[p[i]]) : i \in DOMAIN p} : p \in Walks(catalog)}]

Discoveries == {Discover(catalog) : catalog \in Catalogs}

\* The handshake: only the automatic transport falls back, and only on an old server's answer.
Negotiate(transport, first, second) ==
    IF first = "old" /\ transport = "http" THEN second ELSE first

\* What Connect returns: the tools, or why it failed.
Outcomes(s) ==
    LET answers == {Negotiate(Transports[s], a, b) : a, b \in {"ok", "old", "denied", "lost"}}
    IN  {[Failed EXCEPT !.state = "authorization-required"] : a \in answers \cap {"denied"}}
        \cup {Failed}                            \* lost, refused, or the startup deadline
        \cup Discoveries

Connected(o) == o.state = "ready"

\* connect, for a definition that opens no connection
Unconnected(def) == IF def \in {"off", "absent"} THEN "disabled" ELSE "failed"

\* One connection of newHost, which returns when every configured server has been tried.
StartServer(s) ==
    LET first == [entry[s] EXCEPT !.known = TRUE, !.gen = 1, !.links = {}]
    IN  /\ up = "starting" /\ ~entry[s].known /\ Effective(s) # "absent"
        /\ \/ /\ Effective(s) # "on"
              /\ entry' = [entry EXCEPT ![s] = [first EXCEPT !.state = Unconnected(Effective(s))]]
              /\ UNCHANGED <<conns, shown>>
           \/ /\ Effective(s) = "on"
              /\ \E o \in Outcomes(s) :
                    /\ conns' = Append(conns, [server |-> s, gen |-> 1,
                                               state |-> IF Connected(o) THEN "open" ELSE "closed"])
                    /\ shown' = Append(shown, {})
                    /\ entry' = [entry EXCEPT ![s] =
                          IF Connected(o)
                          THEN [first EXCEPT !.state = "ready", !.client = Len(conns) + 1, !.tools = o.tools]
                          ELSE [first EXCEPT !.state = o.state]]
        /\ UNCHANGED <<config, up, doomed, manager, caller, adapters, bounded>>

Started ==
    /\ up = "starting"
    /\ \A s \in Servers : entry[s].known \/ Effective(s) = "absent"
    /\ up' = "up"
    /\ UNCHANGED <<config, entry, conns, doomed, manager, caller, adapters, shown, bounded>>

\* Add, Remove or SetEnabled of one scope, from this process or another.
EditConfig(scope) ==
    /\ up # "starting" /\ edits < MaxEdits
    /\ edits' = edits + 1
    /\ \E s \in Servers : \E def \in Definitions \ {config[scope][s]} :
          config' = [config EXCEPT ![scope][s] = def]
    /\ UNCHANGED <<host, conns, manager, caller, adapters, shown, calls, reconnects>>

-----------------------------------------------------------------------------
(* Session.Close of a connection: once, and bounded; who closes again gets the first result. *)

Retire(k) == IF conns[k].state = "open" THEN [conns EXCEPT ![k].state = "closing"] ELSE conns

CloseEnds(k) ==
    /\ k \in DOMAIN conns /\ conns[k].state = "closing"
    /\ \E end \in {"closed", "stuck"} : conns' = [conns EXCEPT ![k].state = end]
    /\ UNCHANGED <<config, host, manager, caller, adapters, shown, bounded>>

-----------------------------------------------------------------------------
(* Mount and invoke. *)

Mount(c) ==
    /\ up # "starting" /\ caller[c].at = "idle"
    /\ adapters' = [adapters EXCEPT ![c] =
          [s \in Servers |-> IF entry[s].state = "ready"
                             THEN [gen |-> entry[s].gen, tools |-> entry[s].tools \cup {Reader}]
                             ELSE [gen |-> 0, tools |-> {}]]]
    /\ adapters' # adapters
    /\ UNCHANGED <<config, host, conns, manager, caller, shown, bounded>>

\* ExecuteResult: callerAllows, then invoke queues on the server's gate.
Call(c, s, tool) ==
    /\ caller[c].at = "idle" /\ calls < MaxCalls
    /\ tool \in adapters[c][s].tools \cap Allowed[c]
    /\ calls' = calls + 1
    /\ caller' = [caller EXCEPT ![c] = [at |-> "queued", server |-> s, tool |-> tool,
                     gen |-> adapters[c][s].gen, client |-> 0, ctx |-> "live"]]
    /\ UNCHANGED <<config, host, conns, manager, adapters, shown, reconnects, edits>>

\* The caller's context is cancelled, or the call's deadline, which counts from the queue, passes.
ContextEnds(c, how) ==
    /\ caller[c].at \in {"queued", "gated", "calling"} /\ caller[c].ctx = "live"
    /\ caller' = [caller EXCEPT ![c].ctx = how]
    /\ UNCHANGED <<config, host, conns, manager, adapters, shown, bounded>>

LeaveQueue(c) ==
    /\ caller[c].at = "queued" /\ (caller[c].ctx # "live" \/ Closed)
    /\ caller' = [caller EXCEPT ![c] = Idle]
    /\ UNCHANGED <<config, host, conns, manager, adapters, shown, bounded>>

TakeGate(c) ==
    /\ caller[c].at = "queued" /\ entry[caller[c].server].gate = None
    /\ entry' = [entry EXCEPT ![caller[c].server].gate = c]
    /\ caller' = [caller EXCEPT ![c].at = "gated"]
    /\ UNCHANGED <<config, up, doomed, conns, manager, adapters, shown, bounded>>

\* A read is allowed when a tool the caller may use returned the link on this generation.
LinkAllowed(c, s) == entry[s].links \cap Allowed[c] # {}

\* Mutant: the adapter's generation is not compared.
AnyGeneration(c) ==
    LET s == caller[c].server
    IN  /\ ~Closed /\ entry[s].client # 0 /\ entry[s].state = "ready"
        /\ caller[c].tool = Reader => LinkAllowed(c, s)

Dispatchable(c) ==
    LET s == caller[c].server
    IN  /\ ~Closed /\ entry[s].client # 0
        /\ entry[s].gen = caller[c].gen
        /\ entry[s].state = "ready"
        /\ caller[c].tool = Reader => LinkAllowed(c, s)

Refuse(c) ==
    /\ caller[c].at = "gated" /\ (caller[c].ctx # "live" \/ ~Dispatchable(c))
    /\ caller' = [caller EXCEPT ![c] = Idle]
    /\ entry' = [entry EXCEPT ![caller[c].server].gate = None]
    /\ UNCHANGED <<config, up, doomed, conns, manager, adapters, shown, bounded>>

Dispatch(c) ==
    /\ caller[c].at = "gated" /\ caller[c].ctx = "live" /\ Dispatchable(c)
    /\ caller' = [caller EXCEPT ![c].at = "calling", ![c].client = entry[caller[c].server].client]
    /\ UNCHANGED <<config, host, conns, manager, adapters, shown, bounded>>

Leave(c, e) ==
    /\ caller' = [caller EXCEPT ![c] = Idle]
    /\ entry' = [entry EXCEPT ![caller[c].server] = [e EXCEPT !.gate = None]]

\* The server answers; a tool's answer may hold the resource link.
Answered(c, linked) ==
    LET s == caller[c].server
        k == caller[c].client
        origins == IF linked /\ caller[c].tool # Reader THEN {caller[c].tool} ELSE {}
    IN  /\ caller[c].at = "calling" /\ conns[k].state = "open"
        /\ Leave(c, [entry[s] EXCEPT !.links = @ \cup origins])
        /\ shown' = [shown EXCEPT ![k] = @ \cup origins]
        /\ UNCHANGED <<config, up, doomed, conns, manager, adapters, bounded>>

\* A failure the caller did not ask for marks the server.
Blames(c, why) == caller[c].ctx # "cancelled" \/ why = "authorization-required"

\* The call fails: the server, the connection, or the ended context.
CallFails(c, why) ==
    LET s == caller[c].server
    IN  /\ caller[c].at = "calling"
        /\ Leave(c, IF Blames(c, why) /\ ~Closed THEN [entry[s] EXCEPT !.state = why] ELSE entry[s])
        /\ UNCHANGED <<config, up, doomed, conns, manager, adapters, shown, bounded>>

-----------------------------------------------------------------------------
(* Reconnect. *)

Reconnect(m, s) ==
    /\ manager[m].at = "idle" /\ up = "up" /\ reconnects < MaxReconnects
    /\ reconnects' = reconnects + 1
    /\ entry' = [entry EXCEPT ![s].known = TRUE]
    /\ manager' = [manager EXCEPT ![m] = [at |-> "queued", server |-> s]]
    /\ UNCHANGED <<config, up, doomed, conns, caller, adapters, shown, calls, edits>>

Return(m) == manager' = [manager EXCEPT ![m] = Idle]

\* /mcp cancel, or Close, while it waits for the gate.
ReconnectCancelled(m) ==
    /\ manager[m].at = "queued"
    /\ Return(m)
    /\ UNCHANGED <<config, host, conns, caller, adapters, shown, bounded>>

\* The gate is taken; a closed host is left alone, otherwise the client is closed.
Drain(m) ==
    LET s == manager[m].server
        previous == entry[s].client
    IN  /\ manager[m].at = "queued" /\ entry[s].gate = None
        /\ \/ /\ Closed /\ Return(m) /\ UNCHANGED <<entry, conns>>
           \/ /\ ~Closed
              /\ entry' = [entry EXCEPT ![s].gate = m, ![s].state = "connecting"]
              /\ conns' = IF previous = 0 THEN conns ELSE Retire(previous)
              /\ manager' = [manager EXCEPT ![m] = [at |-> "draining", server |-> s,
                                                    previous |-> previous]]
        /\ UNCHANGED <<config, up, doomed, caller, adapters, shown, bounded>>

\* The previous connection could not be cleaned up: the server is failed and nothing is dialled.
DrainFails(m) ==
    LET s == manager[m].server
        k == manager[m].previous
    IN  /\ manager[m].at = "draining" /\ k # 0 /\ conns[k].state = "stuck"
        /\ entry' = [entry EXCEPT ![s].state = "failed", ![s].gate = None]
        /\ Return(m)
        /\ UNCHANGED <<config, up, doomed, conns, caller, adapters, shown, bounded>>

Drained(m) ==
    LET k == manager[m].previous
    IN  manager[m].at = "draining" /\ k \in {0} \cup {j \in DOMAIN conns : conns[j].state = "closed"}

\* The configuration is loaded afresh, and connect starts the next generation.
Dial(m) ==
    LET s == manager[m].server
        gen == entry[s].gen + 1
        next(state, client, tools) ==
            [manager EXCEPT ![m] = [at |-> IF client = 0 THEN "dialled" ELSE "dialling",
                server |-> s, gen |-> gen, state |-> state, client |-> client, conn |-> client,
                tools |-> tools]]
    IN  /\ Drained(m)
        /\ \/ /\ Effective(s) # "on"
              /\ manager' = next(Unconnected(Effective(s)), 0, {})
              /\ UNCHANGED <<conns, shown>>
           \/ /\ Effective(s) = "on"
              /\ manager' = next("connecting", Len(conns) + 1, {})
              /\ conns' = Append(conns, [server |-> s, gen |-> gen, state |-> "open"])
              /\ shown' = Append(shown, {})
        /\ UNCHANGED <<config, host, caller, adapters, bounded>>

\* Connect returns; one that failed has closed what it had opened.
Dialled(m) ==
    LET s == manager[m].server
        k == manager[m].client
    IN  /\ manager[m].at = "dialling"
        /\ \E o \in Outcomes(s) :
              IF Connected(o)
              THEN /\ conns[k].state = "open"
                   /\ manager' = [manager EXCEPT ![m] =
                         [@ EXCEPT !.at = "dialled", !.state = "ready", !.tools = o.tools]]
                   /\ UNCHANGED conns
              ELSE /\ conns' = Retire(k)
                   /\ manager' = [manager EXCEPT ![m] =
                         [@ EXCEPT !.at = "dialled", !.state = o.state, !.client = 0]]
        /\ UNCHANGED <<config, host, caller, adapters, shown, bounded>>

ClosingFailed(k) == k \in {j \in DOMAIN conns : conns[j].state = "closing"}

\* Mutant: the host may have been closed while Reconnect dialled.
PublishUnchecked(m) ==
    LET s == manager[m].server
        n == manager[m]
    IN  /\ n.at = "dialled" /\ ~ClosingFailed(n.conn) /\ Return(m)
        /\ entry' = [entry EXCEPT ![s] =
              [@ EXCEPT !.client = n.client, !.gen = n.gen, !.state = n.state,
                        !.tools = n.tools, !.links = {}, !.gate = None]]
        /\ UNCHANGED <<config, up, doomed, conns, caller, adapters, shown, bounded>>

\* The new generation is published, or closed when the host was closed meanwhile.
Publish(m) ==
    LET s == manager[m].server
        n == manager[m]
    IN  /\ n.at = "dialled" /\ ~ClosingFailed(n.conn) /\ Return(m)
        /\ \/ /\ Closed
              /\ conns' = IF n.client = 0 THEN conns ELSE Retire(n.client)
              /\ entry' = [entry EXCEPT ![s].gate = None]
           \/ /\ ~Closed
              /\ entry' = [entry EXCEPT ![s] =
                    [@ EXCEPT !.client = n.client, !.gen = n.gen, !.state = n.state,
                              !.tools = n.tools, !.links = {}, !.gate = None]]
              /\ UNCHANGED conns
        /\ UNCHANGED <<config, up, doomed, caller, adapters, shown, bounded>>

-----------------------------------------------------------------------------
(* Host.Close. *)

Close ==
    /\ up = "up"
    /\ up' = "closed"
    /\ doomed' = {entry[s].client : s \in Servers} \ {0}
    /\ entry' = [s \in Servers |-> IF entry[s].known
                                   THEN [entry[s] EXCEPT !.client = 0, !.state = "closed"]
                                   ELSE entry[s]]
    /\ UNCHANGED <<config, conns, manager, caller, adapters, shown, bounded>>

CloseClient(k) ==
    /\ k \in doomed
    /\ doomed' = doomed \ {k}
    /\ conns' = Retire(k)
    /\ UNCHANGED <<config, up, entry, manager, caller, adapters, shown, bounded>>

-----------------------------------------------------------------------------
Calling(c) ==
    \/ \E s \in Servers : \E tool \in adapters[c][s].tools : Call(c, s, tool)
    \/ ContextEnds(c, "cancelled")
    \/ Mount(c)

Serving(c) ==
    \/ LeaveQueue(c) \/ TakeGate(c) \/ Refuse(c) \/ Dispatch(c)
    \/ \E linked \in BOOLEAN : Answered(c, linked)
    \/ \E why \in {"failed", "authorization-required"} : CallFails(c, why)

Reconnecting(m) ==
    \/ Drain(m) \/ DrainFails(m) \/ Dial(m) \/ Dialled(m) \/ Publish(m)

HostNext ==
    \/ \E s \in Servers : StartServer(s)
    \/ Started
    \/ \E scope \in EditedScopes : EditConfig(scope)
    \/ \E c \in Callers : Calling(c) \/ ContextEnds(c, "timeout") \/ Serving(c)
    \/ \E m \in Managers : Reconnecting(m) \/ ReconnectCancelled(m)
                           \/ \E s \in Servers : Reconnect(m, s)
    \/ Close
    \/ \E k \in DOMAIN conns : CloseEnds(k) \/ CloseClient(k)

\* Goroutines are scheduled; every call has a deadline and every cleanup a bound.
HostFairness ==
    /\ \A c \in Callers : /\ WF_mcpVars(Serving(c))
                          /\ WF_mcpVars(ContextEnds(c, "timeout"))
    /\ \A m \in Managers : WF_mcpVars(Reconnecting(m))
    /\ \A k \in 1 .. Cardinality(Servers) + MaxReconnects : WF_mcpVars(CloseEnds(k)) /\ WF_mcpVars(CloseClient(k))

HostSpec == Init /\ [][HostNext]_mcpVars /\ HostFairness

-----------------------------------------------------------------------------
(* Properties. *)

\* A call reaches a server only over the connection its tools were discovered on: the
\* adapter's generation, one call at a time, and never one that Reconnect has retired.
\* A linked resource is read only if a tool this caller may use returned the link on that
\* same connection (docs/mcp.md: existing adapters cannot dispatch against a new generation).
CallsUseTheirGeneration ==
    \A c \in Callers : caller[c].at = "calling" =>
        LET k == caller[c].client
        IN  /\ conns[k].server = caller[c].server /\ conns[k].gen = caller[c].gen
            /\ conns[k].state = "open" \/ Closed
            /\ \A d \in Callers \ {c} : caller[d].at = "calling" =>
                  caller[d].server # caller[c].server
            /\ caller[c].tool = Reader => shown[k] \cap Allowed[c] # {}

\* Reconnect drains a server before it dials again: at most one connection of a server is
\* open or still closing, and what the status calls ready is that connection, open and of
\* the published generation.
ReadyIsLive ==
    \A s \in Servers :
        /\ Cardinality({k \in DOMAIN conns : conns[k].server = s /\ conns[k].state \in {"open", "closing"}}) <= 1
        /\ entry[s].state = "ready" =>
              LET k == entry[s].client
              IN  k # 0 /\ conns[k].state = "open" /\ conns[k].gen = entry[s].gen

\* One live connection per server and every call on the one it was mounted on.
GenerationsAreExact == ReadyIsLive /\ CallsUseTheirGeneration

\* After Close every connection ends, the one a concurrent Reconnect was dialling too, and
\* every call and reconnect comes back.
HostSettles ==
    /\ Closed ~> \A k \in DOMAIN conns : Ended(k)
    /\ \A c \in Callers : caller[c].at = "queued" ~> caller[c].at = "idle"
    /\ \A m \in Managers : manager[m].at = "draining" ~> manager[m].at = "idle"
=============================================================================
