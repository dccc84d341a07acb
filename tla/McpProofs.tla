------------------------------ MODULE McpProofs ------------------------------
(***************************************************************************)
(* One live connection per MCP server and every call on the generation it  *)
(* was mounted on, for any number of servers, runs, reconnects, catalogs   *)
(* and edits of the configuration.  The invariant is stated per server:    *)
(* who holds its gate, whose the live connection is, and what the client   *)
(* and the Reconnect inside know of it.  Every step is about one server    *)
(* and leaves what is said of the others alone.                            *)
(*                                                                         *)
(* The second half is about the files MCP shares between processes: no     *)
(* write undoes another's, whoever dies with a lock held.                  *)
(***************************************************************************)
EXTENDS McpHost, McpStore, FiniteSetTheorems, TLAPS

ToolNames == {Reader} \cup UNION {UNION {Named(catalog[c]) : c \in DOMAIN catalog} : catalog \in Catalogs}
States == {"none", "disabled", "failed", "ready", "connecting", "authorization-required", "closed"}
Entries == [known : BOOLEAN, client : Nat, gen : Nat, state : States, tools : SUBSET ToolNames,
            links : SUBSET ToolNames, gate : Callers \cup Managers \cup {None}]
Connections == [server : Servers, gen : Nat, state : {"open", "closing", "closed", "stuck"}]
Queued == [at : {"queued"}, server : Servers]
Draining == [at : {"draining"}, server : Servers, previous : Nat]
Diallings == [at : {"dialling", "dialled"}, server : Servers, gen : Nat, state : States,
              client : Nat, conn : Nat, tools : SUBSET ToolNames]
Reconnects == {Idle} \cup Queued \cup Draining \cup Diallings
Invocations == [at : {"queued", "gated", "calling"}, server : Servers, tool : ToolNames, gen : Nat,
                client : Nat, ctx : {"live", "cancelled", "timeout"}]
Invokes == {Idle} \cup Invocations
Mounted == [gen : Nat, tools : SUBSET ToolNames]

HostTypeOK ==
    /\ config \in [{"user", "project"} -> [Servers -> Definitions]]
    /\ up \in {"starting", "up", "closed"}
    /\ entry \in [Servers -> Entries]
    /\ conns \in Seq(Connections) /\ shown \in Seq(SUBSET ToolNames) /\ Len(shown) = Len(conns)
    /\ doomed \subseteq Nat
    /\ manager \in [Managers -> Reconnects]
    /\ caller \in [Callers -> Invokes]
    /\ adapters \in [Callers -> [Servers -> Mounted]]
    /\ calls \in Nat /\ reconnects \in Nat /\ edits \in Nat

IsDialling(m) == manager[m].at \in {"dialling", "dialled"}
HoldsGate(m) == manager[m].at = "draining" \/ IsDialling(m)
IsInside(c) == caller[c].at \in {"gated", "calling"}
Live(k) == conns[k].state \in {"open", "closing"}

\* The client of a server is a connection of its generation, open when the server is ready, and
\* the links it keeps were shown there; Close takes every client away.
ClientFits(s) ==
    /\ entry[s].client # 0 =>
          /\ entry[s].client \in DOMAIN conns /\ entry[s].known
          /\ conns[entry[s].client].server = s /\ conns[entry[s].client].gen = entry[s].gen
          /\ entry[s].links \subseteq shown[entry[s].client]
    /\ entry[s].state = "ready" => entry[s].client # 0 /\ conns[entry[s].client].state = "open"
    /\ Closed => entry[s].client = 0

\* A Reconnect past the queue holds its server's gate and the server is not ready; what it
\* dials is a connection of that server and stays open unless it gave it up.
ManagerFits(m) ==
    LET n == manager[m]
    IN  /\ entry[n.server].known
        /\ HoldsGate(m) => entry[n.server].gate = m /\ entry[n.server].state # "ready"
        /\ IsDialling(m) =>
              /\ n.at = "dialling" => n.client # 0
              /\ n.client \in {0, n.conn}
              /\ n.conn # 0 => n.conn \in DOMAIN conns /\ conns[n.conn].server = n.server
              /\ n.client # 0 => conns[n.conn].gen = n.gen /\ (~Closed => conns[n.conn].state = "open")
              /\ n.conn # 0 /\ n.client = 0 => conns[n.conn].state # "open"
              /\ n.state = "ready" => n.client # 0

\* A call inside holds its server's gate; one under way is on a connection of its generation,
\* the server's client, and reads a resource whose link was shown on it.
CallerFits(c) ==
    LET k == caller[c].client
        s == caller[c].server
    IN  /\ IsInside(c) => entry[s].gate = c
        /\ caller[c].at = "calling" =>
              /\ k \in DOMAIN conns /\ conns[k].server = s /\ conns[k].gen = caller[c].gen
              /\ ~Closed => entry[s].client = k /\ conns[k].state = "open"
              /\ caller[c].tool = Reader => shown[k] \cap Allowed[c] # {}

\* A live connection of server s is in the hands of the Reconnect that is inside, and of the
\* host when none is.
LiveIsOwned(k, s) ==
    /\ entry[s].known
    /\ \A m \in Managers : manager[m].at = "draining" /\ manager[m].server = s => manager[m].previous = k
    /\ \A m \in Managers : IsDialling(m) /\ manager[m].server = s => manager[m].conn = k
    /\ ~Closed /\ (\A m \in Managers : ~(IsDialling(m) /\ manager[m].server = s)) => entry[s].client = k

LiveAreOwned(s) ==
    /\ \A k \in DOMAIN conns : conns[k].server = s /\ Live(k) => LiveIsOwned(k, s)
    /\ \A j, k \in DOMAIN conns : Live(j) /\ Live(k) /\ conns[j].server = s /\ conns[k].server = s => j = k

OnServer(m, s) == manager[m].at # "idle" => manager[m].server = s
CallsServer(c, s) == caller[c].at # "idle" => caller[c].server = s

ManagersFit(s) == \A m \in Managers : manager[m].at # "idle" /\ manager[m].server = s => ManagerFits(m)
CallersFit(s) == \A c \in Callers : caller[c].at # "idle" /\ caller[c].server = s => CallerFits(c)

Here(s) == ClientFits(s) /\ ManagersFit(s) /\ CallersFit(s) /\ LiveAreOwned(s)

DoomedAreClosed == doomed # {} => Closed

IInv == HostTypeOK /\ (\A s \in Servers : Here(s)) /\ DoomedAreClosed

-----------------------------------------------------------------------------
(* What a step on one server leaves alone.                                    *)

ConnsKept(s) ==
    /\ \A j \in DOMAIN conns : /\ j \in DOMAIN conns' /\ conns'[j].server = conns[j].server
                               /\ conns'[j].gen = conns[j].gen /\ shown[j] \subseteq shown'[j]
                               /\ conns[j].server # s => conns'[j].state = conns[j].state
    /\ \A j \in DOMAIN conns' \ DOMAIN conns : conns'[j].server = s

Elsewhere(s) ==
    /\ up' = up
    /\ \A x \in Servers \ {s} : entry'[x] = entry[x]
    /\ ConnsKept(s)
    /\ \A m \in Managers : manager'[m] = manager[m] \/ (OnServer(m, s) /\ OnServer(m, s)')
    /\ \A c \in Callers : caller'[c] = caller[c] \/ (CallsServer(c, s) /\ CallsServer(c, s)')

LEMMA ElsewhereKeeps ==
    ASSUME IInv, NEW s \in Servers, HostTypeOK', Elsewhere(s), Here(s)', DoomedAreClosed'
    PROVE  IInv'
<1> SUFFICES ASSUME NEW x \in Servers, x # s PROVE Here(x)'
  BY DEF IInv
<1>1. /\ up' = up /\ entry'[x] = entry[x]
      /\ \A m \in Managers : manager'[m].at # "idle" /\ manager'[m].server = x => manager'[m] = manager[m]
      /\ \A m \in Managers : manager[m].at # "idle" /\ manager[m].server = x => manager'[m] = manager[m]
      /\ \A c \in Callers : caller'[c].at # "idle" /\ caller'[c].server = x => caller'[c] = caller[c]
  BY DEF Elsewhere, OnServer, CallsServer
<1>2. /\ \A j \in DOMAIN conns : /\ j \in DOMAIN conns' /\ conns'[j].server = conns[j].server
                                 /\ conns'[j].gen = conns[j].gen /\ shown[j] \subseteq shown'[j]
                                 /\ conns[j].server = x => conns'[j].state = conns[j].state
      /\ \A j \in DOMAIN conns' : conns'[j].server = x => j \in DOMAIN conns
  BY DEF Elsewhere, ConnsKept
<1>3. Here(x)
  BY DEF IInv
<1>4. ClientFits(x)'
  BY <1>1, <1>2, <1>3 DEF Here, ClientFits, Closed
<1>5. ManagersFit(x)'
  BY <1>1, <1>2, <1>3 DEF Here, ManagersFit, ManagerFits, Closed, HoldsGate, IsDialling
<1>6. CallersFit(x)'
  BY <1>1, <1>2, <1>3 DEF Here, CallersFit, CallerFits, Closed, IsInside
<1>7. LiveAreOwned(x)'
  BY <1>1, <1>2, <1>3 DEF Here, LiveAreOwned, LiveIsOwned, Live, Closed, IsDialling
<1> QED
  BY <1>4, <1>5, <1>6, <1>7 DEF Here

-----------------------------------------------------------------------------
(* Records and connections.                                                   *)

LEMMA Shapes ==
    ASSUME IInv
    PROVE  /\ \A c \in Callers : caller[c] \in Invokes /\ (caller[c].at # "idle" => caller[c] \in Invocations)
           /\ \A c \in Callers : caller[c].at # "idle" => caller[c].server \in Servers
           /\ \A m \in Managers : manager[m] \in Reconnects
           /\ \A m \in Managers : manager[m].at = "queued" => manager[m] \in Queued
           /\ \A m \in Managers : manager[m].at = "draining" => manager[m] \in Draining
           /\ \A m \in Managers : IsDialling(m) => manager[m] \in Diallings
           /\ \A m \in Managers : manager[m].at # "idle" => manager[m].server \in Servers
<1>1. \A c \in Callers : caller[c] \in Invokes
  BY DEF IInv, HostTypeOK
<1>2. \A m \in Managers : manager[m] \in Reconnects
  BY DEF IInv, HostTypeOK
<1>3. \A c \in Callers : caller[c].at # "idle" => caller[c] \in Invocations
  BY <1>1 DEF Invokes, Idle
<1>4. \A c \in Callers : caller[c].at # "idle" => caller[c].server \in Servers
  BY <1>3 DEF Invocations
<1>5. \A m \in Managers : manager[m].at = "queued" => manager[m] \in Queued
  BY <1>2 DEF Reconnects, Idle, Draining, Diallings
<1>6. \A m \in Managers : manager[m].at = "draining" => manager[m] \in Draining
  BY <1>2 DEF Reconnects, Idle, Queued, Diallings
<1>7. \A m \in Managers : IsDialling(m) => manager[m] \in Diallings
  BY <1>2 DEF Reconnects, Idle, Queued, Draining, IsDialling
<1>8. \A m \in Managers : manager[m].at # "idle" => manager[m].server \in Servers
  BY <1>2 DEF Reconnects, Idle, Queued, Draining, Diallings
<1> QED
  BY <1>1, <1>2, <1>3, <1>4, <1>5, <1>6, <1>7, <1>8

LEMMA EntryShape ==
    ASSUME IInv
    PROVE  \A s \in Servers : /\ entry[s] \in Entries /\ Here(s)
                              /\ entry[s].client \in Nat /\ entry[s].gen \in Nat /\ entry[s].known \in BOOLEAN
  BY DEF IInv, HostTypeOK, Entries

LEMMA ConnShape ==
    ASSUME IInv
    PROVE  /\ DOMAIN conns = 1 .. Len(conns) /\ Len(conns) \in Nat /\ DOMAIN shown = DOMAIN conns
           /\ conns \in [1 .. Len(conns) -> Connections] /\ shown \in [1 .. Len(conns) -> SUBSET ToolNames]
           /\ \A k \in DOMAIN conns : conns[k] \in Connections
  BY DEF IInv, HostTypeOK

\* A retired connection only stops being open.
LEMMA Retired ==
    ASSUME IInv, NEW k, conns' = Retire(k)
    PROVE  /\ conns' \in Seq(Connections) /\ Len(conns') = Len(conns) /\ DOMAIN conns' = DOMAIN conns
           /\ \A j \in DOMAIN conns : conns'[j].server = conns[j].server /\ conns'[j].gen = conns[j].gen
           /\ \A j \in DOMAIN conns \ {k} : conns'[j].state = conns[j].state
           /\ k \in DOMAIN conns => conns'[k].state = IF conns[k].state = "open" THEN "closing" ELSE conns[k].state
<1>1. CASE k \in DOMAIN conns /\ conns[k].state = "open"
  <2>1. conns' = [conns EXCEPT ![k] = [conns[k] EXCEPT !.state = "closing"]]
    BY <1>1 DEF Retire
  <2>2. conns[k] \in Connections /\ [conns[k] EXCEPT !.state = "closing"] \in Connections
    BY <1>1, ConnShape DEF Connections
  <2>3. conns \in Seq(Connections)
    BY DEF IInv, HostTypeOK
  <2>4. conns' \in Seq(Connections) /\ Len(conns') = Len(conns) /\ DOMAIN conns' = DOMAIN conns
    BY <1>1, <2>1, <2>2, <2>3
  <2>5. \A j \in DOMAIN conns : conns'[j] = IF j = k THEN [conns[k] EXCEPT !.state = "closing"] ELSE conns[j]
    BY <2>1
  <2>6. LET r == [conns[k] EXCEPT !.state = "closing"]
        IN  r.server = conns[k].server /\ r.gen = conns[k].gen /\ r.state = "closing"
    BY <2>2 DEF Connections
  <2> QED
    BY <1>1, <2>4, <2>5, <2>6
<1>2. CASE ~(k \in DOMAIN conns /\ conns[k].state = "open")
  <2>1. conns' = conns \/ (k \notin DOMAIN conns /\ conns' = [conns EXCEPT ![k].state = "closing"])
    BY <1>2 DEF Retire
  <2>2. conns' = conns
    BY <2>1, ConnShape
  <2>3. conns \in Seq(Connections)
    BY DEF IInv, HostTypeOK
  <2> QED
    BY <1>2, <2>2, <2>3
<1> QED
  BY <1>1, <1>2

\* A new connection of server s.
LEMMA Opened ==
    ASSUME IInv, NEW s \in Servers, NEW g \in Nat, NEW st \in {"open", "closed"},
           conns' = Append(conns, [server |-> s, gen |-> g, state |-> st]), shown' = Append(shown, {})
    PROVE  /\ conns' \in Seq(Connections) /\ shown' \in Seq(SUBSET ToolNames) /\ Len(shown') = Len(conns')
           /\ Len(conns') = Len(conns) + 1 /\ DOMAIN conns' = DOMAIN conns \cup {Len(conns) + 1}
           /\ Len(conns) + 1 \notin DOMAIN conns /\ Len(conns) + 1 \in Nat
           /\ \A j \in DOMAIN conns : conns'[j] = conns[j] /\ shown'[j] = shown[j]
           /\ conns'[Len(conns) + 1].server = s /\ conns'[Len(conns) + 1].gen = g
           /\ conns'[Len(conns) + 1].state = st /\ shown'[Len(conns) + 1] = {}
<1>1. conns \in Seq(Connections) /\ shown \in Seq(SUBSET ToolNames) /\ Len(shown) = Len(conns)
  BY DEF IInv, HostTypeOK
<1>2. [server |-> s, gen |-> g, state |-> st] \in Connections
  BY DEF Connections
<1>3. {} \in SUBSET ToolNames
  OBVIOUS
<1> HIDE DEF IInv
<1>4. conns' \in Seq(Connections) /\ shown' \in Seq(SUBSET ToolNames)
  BY <1>1, <1>2, <1>3
<1> QED
  BY <1>1, <1>2, <1>4

\* A discovery names only tools the server's pages hold.
LEMMA OutcomesAreTyped ==
    ASSUME NEW s \in Servers, NEW o \in Outcomes(s)
    PROVE  o.state \in States /\ o.tools \subseteq ToolNames
<1>1. CASE o \in Discoveries
  <2>1. PICK catalog \in Catalogs : o = Discover(catalog)
    BY <1>1 DEF Discoveries
  <2>2. CASE Walks(catalog) = {}
    BY <2>1, <2>2 DEF Discover, Failed, States
  <2>3. CASE Walks(catalog) # {}
    <3>1. /\ o.state = "ready"
          /\ o.tools = UNION {UNION {Named(catalog[p[i]]) : i \in DOMAIN p} : p \in Walks(catalog)}
      BY <2>1, <2>3 DEF Discover
    <3>2. ASSUME NEW t \in o.tools PROVE t \in ToolNames
      <4>1. PICK p \in Walks(catalog) : t \in UNION {Named(catalog[p[i]]) : i \in DOMAIN p}
        BY <3>1
      <4>2. PICK i \in DOMAIN p : t \in Named(catalog[p[i]])
        BY <4>1
      <4>3. p \in UNION {[1 .. n -> DOMAIN catalog] : n \in 1 .. Cardinality(DOMAIN catalog)}
        BY DEF Walks
      <4>4. PICK n \in 1 .. Cardinality(DOMAIN catalog) : p \in [1 .. n -> DOMAIN catalog]
        BY <4>3
      <4>5. p[i] \in DOMAIN catalog
        BY <4>4
      <4> QED
        BY <4>2, <4>5, <2>1 DEF ToolNames
    <3> QED
      BY <3>1, <3>2 DEF States
  <2> QED
    BY <2>2, <2>3
<1>2. CASE o \notin Discoveries
  BY <1>2 DEF Outcomes, Failed, States
<1> QED
  BY <1>1, <1>2

-----------------------------------------------------------------------------
(* The calls.                                                                 *)

LEMMA CallerStep ==
    ASSUME IInv, NEW c \in Callers, NEW s \in Servers, NEW r \in Invokes, NEW e \in Entries,
           caller' = [caller EXCEPT ![c] = r], entry' = [entry EXCEPT ![s] = e],
           UNCHANGED <<config, up, doomed, conns, manager, reconnects, edits>>,
           adapters' \in [Callers -> [Servers -> Mounted]], calls' \in Nat,
           shown' \in Seq(SUBSET ToolNames), Len(shown') = Len(shown),
           \A j \in DOMAIN conns : shown[j] \subseteq shown'[j],
           CallsServer(c, s), r.at # "idle" => r.server = s,
           e.client = entry[s].client, e.gen = entry[s].gen, e.known = entry[s].known,
           e.state = "ready" => entry[s].state = "ready",
           e.client # 0 => e.links \subseteq shown'[e.client],
           e.gate = entry[s].gate \/ entry[s].gate \in {None, c},
           r.at \in {"gated", "calling"} => e.gate = c,
           r.at = "calling" =>
              /\ r.client \in DOMAIN conns /\ conns[r.client].server = s /\ conns[r.client].gen = r.gen
              /\ ~Closed => e.client = r.client /\ conns[r.client].state = "open"
              /\ r.tool = Reader => shown'[r.client] \cap Allowed[c] # {}
    PROVE  IInv'
<1>1. /\ caller'[c] = r /\ \A d \in Callers \ {c} : caller'[d] = caller[d]
      /\ entry'[s] = e /\ \A x \in Servers \ {s} : entry'[x] = entry[x]
  BY DEF IInv, HostTypeOK
<1>2. HostTypeOK'
  BY DEF IInv, HostTypeOK
<1>3. Elsewhere(s)
  BY <1>1 DEF Elsewhere, ConnsKept, CallsServer
<1>4. Here(s)
  BY DEF IInv
<1>5. ClientFits(s)'
  BY <1>1, <1>4 DEF Here, ClientFits, Closed
<1>6. ManagersFit(s)'
  BY <1>1, <1>4, McpAssumption DEF Here, ManagersFit, ManagerFits, Closed, HoldsGate, IsDialling
<1>7. CallersFit(s)'
  <2> SUFFICES ASSUME NEW d \in Callers, caller'[d].at # "idle", caller'[d].server = s
               PROVE  CallerFits(d)'
    BY DEF CallersFit
  <2>1. CASE d = c
    BY <1>1, <2>1 DEF CallerFits, Closed, IsInside
  <2>2. CASE d # c
    <3>1. caller'[d] = caller[d] /\ CallerFits(d)
      BY <1>1, <1>4, <2>2 DEF Here, CallersFit
    <3>2. IsInside(d) => entry'[s].gate = d
      BY <1>1, <2>2, <3>1, McpAssumption DEF CallerFits, IsInside
    <3> QED
      BY <1>1, <3>1, <3>2 DEF CallerFits, Closed, IsInside
  <2> QED
    BY <2>1, <2>2
<1>8. LiveAreOwned(s)'
  BY <1>1, <1>4 DEF Here, LiveAreOwned, LiveIsOwned, Live, Closed, IsDialling
<1>9. DoomedAreClosed'
  BY DEF IInv, DoomedAreClosed, Closed
<1> QED
  BY <1>2, <1>3, <1>5, <1>6, <1>7, <1>8, <1>9, ElsewhereKeeps DEF Here

\* Most of these steps leave the entry and what was shown alone.
LEMMA CallerStepAlone ==
    ASSUME IInv, NEW c \in Callers, NEW s \in Servers, NEW r \in Invokes,
           caller' = [caller EXCEPT ![c] = r],
           UNCHANGED <<config, host, conns, manager, shown, reconnects, edits>>,
           adapters' \in [Callers -> [Servers -> Mounted]], calls' \in Nat,
           CallsServer(c, s), r.at # "idle" => r.server = s,
           r.at \in {"gated", "calling"} => entry[s].gate = c,
           r.at = "calling" =>
              /\ r.client \in DOMAIN conns /\ conns[r.client].server = s /\ conns[r.client].gen = r.gen
              /\ ~Closed => entry[s].client = r.client /\ conns[r.client].state = "open"
              /\ r.tool = Reader => shown[r.client] \cap Allowed[c] # {}
    PROVE  IInv'
<1> DEFINE e == entry[s]
<1>1. e \in Entries /\ e = entry[s] /\ entry' = [entry EXCEPT ![s] = e]
  BY DEF IInv, HostTypeOK, host
<1>2. UNCHANGED <<config, up, doomed, conns, manager, reconnects, edits>> /\ shown' = shown
  BY DEF host
<1>3. shown' \in Seq(SUBSET ToolNames) /\ Len(shown') = Len(shown)
  BY <1>2 DEF IInv, HostTypeOK
<1>4. e.client # 0 => e.links \subseteq shown'[e.client]
  BY <1>2 DEF IInv, Here, ClientFits
<1> HIDE DEF e
<1> QED
  BY <1>1, <1>2, <1>3, <1>4, CallerStep

LEMMA CallPreserves ==
    ASSUME IInv, NEW c \in Callers, NEW s \in Servers, NEW tool \in adapters[c][s].tools, Call(c, s, tool)
    PROVE  IInv'
<1> DEFINE r == [at |-> "queued", server |-> s, tool |-> tool,
                 gen |-> adapters[c][s].gen, client |-> 0, ctx |-> "live"]
<1>1. /\ caller' = [caller EXCEPT ![c] = r] /\ caller[c].at = "idle" /\ calls' = calls + 1
      /\ UNCHANGED <<config, host, conns, manager, adapters, shown, reconnects, edits>>
  BY DEF Call
<1>2. adapters[c][s] \in Mounted /\ calls \in Nat /\ adapters \in [Callers -> [Servers -> Mounted]]
  BY DEF IInv, HostTypeOK
<1>3. r \in Invokes
  BY <1>2 DEF Invokes, Invocations, Mounted
<1>4. r.at = "queued" /\ r.server = s
  OBVIOUS
<1>5. calls' \in Nat /\ adapters' \in [Callers -> [Servers -> Mounted]]
  BY <1>1, <1>2
<1> HIDE DEF r
<1> QED
  BY <1>1, <1>3, <1>4, <1>5, CallerStepAlone DEF CallsServer

\* The call of c as a member of Invocations, and its server.
LEMMA CallAt ==
    ASSUME IInv, NEW c \in Callers, caller[c].at # "idle"
    PROVE  /\ caller[c] \in Invocations /\ caller[c].server \in Servers
           /\ Here(caller[c].server) /\ CallerFits(c)
           /\ calls \in Nat /\ adapters \in [Callers -> [Servers -> Mounted]]
           /\ Idle \in Invokes /\ Idle.at = "idle"
  BY Shapes DEF IInv, HostTypeOK, Here, CallersFit, Invokes, Idle

LEMMA ContextEndsPreserves ==
    ASSUME IInv, NEW c \in Callers, NEW how \in {"cancelled", "timeout"}, ContextEnds(c, how)
    PROVE  IInv'
<1> DEFINE r == [caller[c] EXCEPT !.ctx = how]
           s == caller[c].server
<1>1. /\ caller' = [caller EXCEPT ![c] = r] /\ caller[c].at \in {"queued", "gated", "calling"}
      /\ UNCHANGED <<config, host, conns, manager, adapters, shown, bounded>>
  BY DEF ContextEnds
<1>2. caller[c] \in Invocations /\ s \in Servers /\ CallerFits(c)
  BY <1>1, CallAt
<1>3. r \in Invokes
  BY <1>2 DEF Invokes, Invocations
<1>4. r.at = caller[c].at /\ r.server = s /\ r.gen = caller[c].gen /\ r.client = caller[c].client /\ r.tool = caller[c].tool
  BY <1>2 DEF Invocations
<1>5. calls' \in Nat /\ adapters' \in [Callers -> [Servers -> Mounted]] /\ UNCHANGED <<reconnects, edits>>
  BY <1>1, CallAt DEF bounded
<1>6. /\ s = caller[c].server
      /\ r.at \in {"gated", "calling"} => entry[s].gate = c
      /\ r.at = "calling" =>
            /\ r.client \in DOMAIN conns /\ conns[r.client].server = s /\ conns[r.client].gen = r.gen
            /\ ~Closed => entry[s].client = r.client /\ conns[r.client].state = "open"
            /\ r.tool = Reader => shown[r.client] \cap Allowed[c] # {}
  BY <1>2, <1>4 DEF CallerFits, IsInside
<1> HIDE DEF r, s
<1> QED
  BY <1>1, <1>2, <1>3, <1>4, <1>5, <1>6, CallerStepAlone DEF CallsServer

LEMMA MountPreserves ==
    ASSUME IInv, NEW c \in Callers, Mount(c)
    PROVE  IInv'
<1>1. /\ UNCHANGED <<config, host, conns, manager, caller, shown, bounded>>
      /\ adapters' = [adapters EXCEPT ![c] =
            [s \in Servers |-> IF entry[s].state = "ready"
                               THEN [gen |-> entry[s].gen, tools |-> entry[s].tools \cup {Reader}]
                               ELSE [gen |-> 0, tools |-> {}]]]
  BY DEF Mount
<1>2. \A s \in Servers : /\ [gen |-> entry[s].gen, tools |-> entry[s].tools \cup {Reader}] \in Mounted
                         /\ [gen |-> 0, tools |-> {}] \in Mounted
  <2> SUFFICES ASSUME NEW s \in Servers
               PROVE  entry[s].gen \in Nat /\ entry[s].tools \cup {Reader} \subseteq ToolNames
    BY DEF Mounted
  <2>1. entry[s] \in Entries
    BY EntryShape
  <2>2. Reader \in ToolNames
    BY DEF ToolNames
  <2> QED
    BY <2>1, <2>2 DEF Entries
<1>3. adapters' \in [Callers -> [Servers -> Mounted]]
  BY <1>1, <1>2 DEF IInv, HostTypeOK
<1>4. HostTypeOK'
  BY <1>1, <1>3 DEF IInv, HostTypeOK, host, bounded
<1>5. (\A s \in Servers : Here(s)') /\ DoomedAreClosed'
  BY <1>1 DEF IInv, host, Here, ClientFits, ManagersFit, ManagerFits, CallersFit, CallerFits, LiveAreOwned,
     LiveIsOwned, Live, IsDialling, HoldsGate, IsInside, DoomedAreClosed, Closed
<1> QED
  BY <1>4, <1>5 DEF IInv

LEMMA LeaveQueuePreserves ==
    ASSUME IInv, NEW c \in Callers, LeaveQueue(c)
    PROVE  IInv'
<1> DEFINE s == caller[c].server
<1>1. /\ caller' = [caller EXCEPT ![c] = Idle] /\ caller[c].at = "queued"
      /\ UNCHANGED <<config, host, conns, manager, adapters, shown, bounded>>
  BY DEF LeaveQueue
<1>2. s \in Servers /\ s = caller[c].server /\ Idle \in Invokes /\ Idle.at = "idle"
  BY <1>1, CallAt
<1>3. calls' \in Nat /\ adapters' \in [Callers -> [Servers -> Mounted]] /\ UNCHANGED <<reconnects, edits>>
  BY <1>1, CallAt DEF bounded
<1> HIDE DEF s
<1> QED
  BY <1>1, <1>2, <1>3, CallerStepAlone DEF CallsServer

LEMMA TakeGatePreserves ==
    ASSUME IInv, NEW c \in Callers, TakeGate(c)
    PROVE  IInv'
<1> DEFINE s == caller[c].server
           r == [caller[c] EXCEPT !.at = "gated"]
           e == [entry[s] EXCEPT !.gate = c]
<1>1. /\ caller' = [caller EXCEPT ![c] = r] /\ entry' = [entry EXCEPT ![s] = e]
      /\ caller[c].at = "queued" /\ entry[s].gate = None
      /\ UNCHANGED <<config, up, doomed, conns, manager, adapters, shown, bounded>>
  BY DEF TakeGate
<1>2. s \in Servers /\ s = caller[c].server /\ caller[c] \in Invocations /\ entry[s] \in Entries /\ ClientFits(s)
  BY <1>1, CallAt, EntryShape DEF Here
<1>3. r \in Invokes /\ e \in Entries
  BY <1>2 DEF Invokes, Invocations, Entries
<1>4. r.at = "gated" /\ r.server = s
  BY <1>2 DEF Invocations
<1>5. /\ e.client = entry[s].client /\ e.gen = entry[s].gen /\ e.known = entry[s].known /\ e.gate = c
      /\ e.state = entry[s].state /\ e.links = entry[s].links
  BY <1>2 DEF Entries
<1>6. calls' \in Nat /\ adapters' \in [Callers -> [Servers -> Mounted]] /\ UNCHANGED <<reconnects, edits>>
  BY <1>1, CallAt DEF bounded
<1>7. shown' \in Seq(SUBSET ToolNames) /\ shown' = shown
  BY <1>1 DEF IInv, HostTypeOK
<1>8. e.client # 0 => e.links \subseteq shown'[e.client]
  BY <1>2, <1>5, <1>7 DEF ClientFits
<1> HIDE DEF s, r, e
<1> QED
  BY <1>1, <1>2, <1>3, <1>4, <1>5, <1>6, <1>7, <1>8, CallerStep DEF CallsServer

LEMMA RefusePreserves ==
    ASSUME IInv, NEW c \in Callers, Refuse(c)
    PROVE  IInv'
<1> DEFINE s == caller[c].server
           e == [entry[s] EXCEPT !.gate = None]
<1>1. /\ caller' = [caller EXCEPT ![c] = Idle] /\ entry' = [entry EXCEPT ![s] = e]
      /\ caller[c].at = "gated"
      /\ UNCHANGED <<config, up, doomed, conns, manager, adapters, shown, bounded>>
  BY DEF Refuse
<1>2. /\ s \in Servers /\ s = caller[c].server /\ entry[s] \in Entries /\ ClientFits(s)
      /\ entry[s].gate = c /\ Idle \in Invokes /\ Idle.at = "idle"
  BY <1>1, CallAt, EntryShape DEF Here, CallerFits, IsInside
<1>3. e \in Entries
  BY <1>2 DEF Entries
<1>5. /\ e.client = entry[s].client /\ e.gen = entry[s].gen /\ e.known = entry[s].known /\ e.gate = None
      /\ e.state = entry[s].state /\ e.links = entry[s].links
  BY <1>2 DEF Entries
<1>6. calls' \in Nat /\ adapters' \in [Callers -> [Servers -> Mounted]] /\ UNCHANGED <<reconnects, edits>>
  BY <1>1, CallAt DEF bounded
<1>7. shown' \in Seq(SUBSET ToolNames) /\ shown' = shown
  BY <1>1 DEF IInv, HostTypeOK
<1>8. e.client # 0 => e.links \subseteq shown'[e.client]
  BY <1>2, <1>5, <1>7 DEF ClientFits
<1> HIDE DEF s, e
<1> QED
  BY <1>1, <1>2, <1>3, <1>5, <1>6, <1>7, <1>8, CallerStep DEF CallsServer

LEMMA DispatchPreserves ==
    ASSUME IInv, NEW c \in Callers, Dispatch(c)
    PROVE  IInv'
<1> DEFINE s == caller[c].server
           r == [caller[c] EXCEPT !.at = "calling", !.client = entry[s].client]
<1>1. /\ caller' = [caller EXCEPT ![c] = r] /\ caller[c].at = "gated"
      /\ ~Closed /\ entry[s].client # 0 /\ entry[s].gen = caller[c].gen /\ entry[s].state = "ready"
      /\ caller[c].tool = Reader => entry[s].links \cap Allowed[c] # {}
      /\ UNCHANGED <<config, host, conns, manager, adapters, shown, bounded>>
  BY DEF Dispatch, Dispatchable, LinkAllowed
<1>2. /\ s \in Servers /\ s = caller[c].server /\ caller[c] \in Invocations /\ ClientFits(s)
      /\ entry[s].gate = c /\ entry[s].client \in Nat
  BY <1>1, CallAt, EntryShape DEF Here, CallerFits, IsInside
<1>3. r \in Invokes
  BY <1>2 DEF Invokes, Invocations
<1>4. /\ r.at = "calling" /\ r.server = s /\ r.client = entry[s].client
      /\ r.gen = caller[c].gen /\ r.tool = caller[c].tool
  BY <1>2 DEF Invocations
<1>5. calls' \in Nat /\ adapters' \in [Callers -> [Servers -> Mounted]] /\ UNCHANGED <<reconnects, edits>>
  BY <1>1, CallAt DEF bounded
<1>6. /\ r.client \in DOMAIN conns /\ conns[r.client].server = s /\ conns[r.client].gen = r.gen
      /\ entry[s].client = r.client /\ conns[r.client].state = "open"
      /\ r.tool = Reader => shown[r.client] \cap Allowed[c] # {}
  BY <1>1, <1>2, <1>4 DEF ClientFits
<1> HIDE DEF r, s
<1> QED
  BY <1>1, <1>2, <1>3, <1>4, <1>5, <1>6, CallerStepAlone DEF CallsServer

LEMMA AnsweredPreserves ==
    ASSUME IInv, NEW c \in Callers, NEW linked \in BOOLEAN, Answered(c, linked)
    PROVE  IInv'
<1> DEFINE s == caller[c].server
           k == caller[c].client
           origins == IF linked /\ caller[c].tool # Reader THEN {caller[c].tool} ELSE {}
           e == [[entry[s] EXCEPT !.links = @ \cup origins] EXCEPT !.gate = None]
<1>1. /\ caller' = [caller EXCEPT ![c] = Idle] /\ entry' = [entry EXCEPT ![s] = e]
      /\ caller[c].at = "calling" /\ shown' = [shown EXCEPT ![k] = @ \cup origins]
      /\ UNCHANGED <<config, up, doomed, conns, manager, adapters, bounded>>
  BY DEF Answered, Leave
<1>2. /\ s \in Servers /\ s = caller[c].server /\ entry[s] \in Entries /\ ClientFits(s)
      /\ entry[s].gate = c /\ Idle \in Invokes /\ Idle.at = "idle" /\ caller[c] \in Invocations
      /\ k \in DOMAIN conns /\ (~Closed => entry[s].client = k)
  BY <1>1, CallAt, EntryShape DEF Here, CallerFits, IsInside
<1>3. origins \subseteq ToolNames
  BY <1>2 DEF Invocations
<1> HIDE DEF origins
<1>4. e \in Entries
  BY <1>2, <1>3 DEF Entries
<1>5. /\ e.client = entry[s].client /\ e.gen = entry[s].gen /\ e.known = entry[s].known /\ e.gate = None
      /\ e.state = entry[s].state /\ e.links = entry[s].links \cup origins
  BY <1>2 DEF Entries
<1>6. calls' \in Nat /\ adapters' \in [Callers -> [Servers -> Mounted]] /\ UNCHANGED <<reconnects, edits>>
  BY <1>1, CallAt DEF bounded
<1>7. /\ k \in DOMAIN shown /\ shown \in Seq(SUBSET ToolNames)
      /\ shown[k] \cup origins \in SUBSET ToolNames
  BY <1>2, <1>3, ConnShape DEF IInv, HostTypeOK
<1>8. shown' \in Seq(SUBSET ToolNames) /\ Len(shown') = Len(shown)
  BY <1>1, <1>7
<1>9. \A j \in DOMAIN conns : shown'[j] = IF j = k THEN shown[k] \cup origins ELSE shown[j]
  BY <1>1, <1>7, ConnShape
<1>10. e.client # 0 => e.links \subseteq shown'[e.client]
  BY <1>2, <1>5, <1>9 DEF ClientFits
<1>11. \A j \in DOMAIN conns : shown[j] \subseteq shown'[j]
  BY <1>9
<1> HIDE DEF s, e, k
<1> QED
  BY <1>1, <1>2, <1>4, <1>5, <1>6, <1>8, <1>10, <1>11, CallerStep DEF CallsServer

LEMMA CallFailsPreserves ==
    ASSUME IInv, NEW c \in Callers, NEW why \in {"failed", "authorization-required"}, CallFails(c, why)
    PROVE  IInv'
<1> DEFINE s == caller[c].server
           st == IF Blames(c, why) /\ ~Closed THEN why ELSE entry[s].state
           e == [entry[s] EXCEPT !.state = st, !.gate = None]
<1>1. /\ caller' = [caller EXCEPT ![c] = Idle] /\ caller[c].at = "calling"
      /\ UNCHANGED <<config, up, doomed, conns, manager, adapters, shown, bounded>>
  BY DEF CallFails, Leave
<1>10. entry' = [entry EXCEPT ![s] = [(IF Blames(c, why) /\ ~Closed THEN [entry[s] EXCEPT !.state = why]
                                         ELSE entry[s]) EXCEPT !.gate = None]]
  BY DEF CallFails, Leave
<1>2. /\ s \in Servers /\ s = caller[c].server /\ entry[s] \in Entries /\ ClientFits(s)
      /\ entry[s].gate = c /\ Idle \in Invokes /\ Idle.at = "idle"
  BY <1>1, CallAt, EntryShape DEF Here, CallerFits, IsInside
<1>3. entry' = [entry EXCEPT ![s] = e]
  BY <1>10, <1>2 DEF Entries
<1>4. st \in States /\ (st = "ready" => entry[s].state = "ready")
  BY <1>2 DEF Entries, States
<1> HIDE DEF st
<1>5. e \in Entries
  BY <1>2, <1>4 DEF Entries
<1>6. /\ e.client = entry[s].client /\ e.gen = entry[s].gen /\ e.known = entry[s].known /\ e.gate = None
      /\ e.state = st /\ e.links = entry[s].links
  BY <1>2 DEF Entries
<1>7. calls' \in Nat /\ adapters' \in [Callers -> [Servers -> Mounted]] /\ UNCHANGED <<reconnects, edits>>
  BY <1>1, CallAt DEF bounded
<1>8. shown' \in Seq(SUBSET ToolNames) /\ shown' = shown
  BY <1>1 DEF IInv, HostTypeOK
<1>9. /\ e.client # 0 => e.links \subseteq shown'[e.client]
      /\ e.state = "ready" => entry[s].state = "ready"
      /\ CallsServer(c, s)
  BY <1>2, <1>4, <1>6, <1>8 DEF ClientFits, CallsServer
<1> HIDE DEF s, e
<1> QED
  BY <1>1, <1>2, <1>3, <1>5, <1>6, <1>7, <1>8, <1>9, CallerStep DEF CallsServer

-----------------------------------------------------------------------------
(* Reconnect.                                                                 *)

LEMMA ReconnectStep ==
    ASSUME IInv, NEW m \in Managers, NEW s \in Servers, NEW r \in Reconnects, NEW e \in Entries,
           manager' = [manager EXCEPT ![m] = r], entry' = [entry EXCEPT ![s] = e],
           UNCHANGED <<config, up, doomed, caller, adapters, calls, edits>>, reconnects' \in Nat,
           conns' \in Seq(Connections), shown' \in Seq(SUBSET ToolNames), Len(shown') = Len(conns'),
           ConnsKept(s), OnServer(m, s), r.at # "idle" => r.server = s,
           entry[s].known => e.known,
           e.gate = entry[s].gate \/ entry[s].gate \in {None, m},
           entry[s].gate \notin {None, m} =>
               conns' = conns /\ e.client = entry[s].client /\ e.state = entry[s].state,
           ClientFits(s)', r.at # "idle" => ManagerFits(m)', LiveAreOwned(s)'
    PROVE  IInv'
<1>1. /\ manager'[m] = r /\ entry'[s] = e /\ \A d \in Managers \ {m} : manager'[d] = manager[d]
      /\ entry'[s] = e /\ \A x \in Servers \ {s} : entry'[x] = entry[x]
  BY DEF IInv, HostTypeOK
<1>2. HostTypeOK'
  BY DEF IInv, HostTypeOK
<1>3. Elsewhere(s)
  BY <1>1 DEF Elsewhere, OnServer
<1>4. Here(s)
  BY DEF IInv
<1>5. ManagersFit(s)'
  <2> SUFFICES ASSUME NEW d \in Managers, d # m, manager'[d].at # "idle", manager'[d].server = s
               PROVE  ManagerFits(d)'
    BY <1>1 DEF ManagersFit
  <2>1. manager'[d] = manager[d] /\ ManagerFits(d)
    BY <1>1, <1>4 DEF Here, ManagersFit
  <2>2. CASE HoldsGate(d)
    <3>1. entry[s].gate = d /\ entry[s].gate \notin {None, m}
      BY <2>1, <2>2, McpAssumption DEF ManagerFits
    <3> QED
      BY <1>1, <2>1, <2>2, <3>1 DEF ManagerFits, HoldsGate, IsDialling, Closed
  <2>3. CASE ~HoldsGate(d)
    BY <1>1, <2>1, <2>3 DEF ManagerFits, HoldsGate, IsDialling
  <2> QED
    BY <2>2, <2>3
<1>6. CallersFit(s)'
  <2> SUFFICES ASSUME NEW d \in Callers, caller[d].at # "idle", caller[d].server = s, IsInside(d)
               PROVE  CallerFits(d)'
    BY DEF CallersFit, CallerFits, IsInside
  <2>1. CallerFits(d) /\ entry[s].gate = d /\ entry[s].gate \notin {None, m}
    BY <1>4, McpAssumption DEF Here, CallersFit, CallerFits
  <2>2. \A j \in DOMAIN conns : shown[j] \subseteq shown'[j]
    BY DEF ConnsKept
  <2> QED
    BY <1>1, <2>1, <2>2 DEF CallerFits, IsInside, Closed
<1>7. DoomedAreClosed'
  BY DEF IInv, DoomedAreClosed, Closed
<1> QED
  BY <1>2, <1>3, <1>5, <1>6, <1>7, ElsewhereKeeps DEF Here

\* The same with the connections left alone.
LEMMA ConnsAlone ==
    ASSUME IInv, UNCHANGED <<conns, shown>>, NEW s
    PROVE  /\ conns' \in Seq(Connections) /\ shown' \in Seq(SUBSET ToolNames) /\ Len(shown') = Len(conns')
           /\ ConnsKept(s) /\ conns' = conns /\ shown' = shown
  BY DEF IInv, HostTypeOK, ConnsKept

LEMMA CountsKept ==
    ASSUME IInv, UNCHANGED bounded
    PROVE  reconnects' \in Nat /\ UNCHANGED <<calls, edits>>
  BY DEF IInv, HostTypeOK, bounded

LEMMA ReconnectPreserves ==
    ASSUME IInv, NEW m \in Managers, NEW s \in Servers, Reconnect(m, s)
    PROVE  IInv'
<1> DEFINE r == [at |-> "queued", server |-> s]
           e == [entry[s] EXCEPT !.known = TRUE]
<1>1. /\ manager' = [manager EXCEPT ![m] = r] /\ entry' = [entry EXCEPT ![s] = e]
      /\ manager[m].at = "idle" /\ reconnects' = reconnects + 1
      /\ UNCHANGED <<config, up, doomed, conns, caller, adapters, shown, calls, edits>>
  BY DEF Reconnect
<1>2. /\ entry[s] \in Entries /\ Here(s) /\ reconnects' \in Nat
  BY <1>1, EntryShape DEF IInv, HostTypeOK
<1>3. r \in Reconnects /\ e \in Entries /\ r.at = "queued" /\ r.server = s
  BY <1>2 DEF Reconnects, Queued, Entries
<1>4. /\ e.client = entry[s].client /\ e.gen = entry[s].gen /\ e.known /\ e.gate = entry[s].gate
      /\ e.state = entry[s].state /\ e.links = entry[s].links
  BY <1>2 DEF Entries
<1> HIDE DEF r, e
<1>5. /\ manager'[m] = r /\ entry'[s] = e /\ \A d \in Managers \ {m} : manager'[d] = manager[d]
  BY <1>1 DEF IInv, HostTypeOK
<1>6. ClientFits(s)'
  BY <1>1, <1>2, <1>4, <1>5 DEF Here, ClientFits, Closed
<1>7. ManagerFits(m)'
  BY <1>3, <1>4, <1>5 DEF ManagerFits, HoldsGate, IsDialling
<1>8. LiveAreOwned(s)'
  BY <1>1, <1>2, <1>3, <1>4, <1>5 DEF Here, LiveAreOwned, LiveIsOwned, Live, IsDialling, Closed
<1>9. OnServer(m, s)
  BY <1>1 DEF OnServer
<1> QED
  BY <1>1, <1>2, <1>3, <1>4, <1>6, <1>7, <1>8, <1>9, ConnsAlone, ReconnectStep

\* The Reconnect of m returns with the entry as it was.
LEMMA ReturnPreserves ==
    ASSUME IInv, NEW m \in Managers, manager[m].at = "queued", Return(m),
           UNCHANGED <<config, host, conns, caller, adapters, shown, bounded>>
    PROVE  IInv'
<1>2. PICK s \in Servers : s = manager[m].server
  BY Shapes
<1> DEFINE e == entry[s]
<1>1. /\ manager' = [manager EXCEPT ![m] = Idle]
      /\ UNCHANGED <<config, up, doomed, conns, caller, adapters, shown, entry>>
  BY DEF Return, host
<1>3. /\ Here(s) /\ e \in Entries /\ e = entry[s] /\ Idle \in Reconnects /\ Idle.at = "idle"
      /\ entry' = [entry EXCEPT ![s] = e]
  BY <1>1, <1>2, EntryShape DEF Reconnects, Idle, IInv, HostTypeOK
<1> HIDE DEF e
<1>4. /\ manager'[m] = Idle /\ entry'[s] = entry[s]
      /\ \A d \in Managers \ {m} : manager'[d] = manager[d]
  BY <1>1 DEF IInv, HostTypeOK
<1>5. ClientFits(s)'
  BY <1>1, <1>3, <1>4 DEF Here, ClientFits, Closed
<1>6. LiveAreOwned(s)'
  BY <1>1, <1>3, <1>4 DEF Here, LiveAreOwned, LiveIsOwned, Live, IsDialling, Closed
<1>7. OnServer(m, s)
  BY <1>2 DEF OnServer
<1>8. entry[s].known => e.known
  BY <1>3
<1> QED
  BY <1>1, <1>2, <1>3, <1>5, <1>6, <1>7, <1>8, ConnsAlone, CountsKept, ReconnectStep

LEMMA ReconnectCancelledPreserves ==
    ASSUME IInv, NEW m \in Managers, ReconnectCancelled(m)
    PROVE  IInv'
  BY ReturnPreserves DEF ReconnectCancelled

LEMMA DrainPreserves ==
    ASSUME IInv, NEW m \in Managers, Drain(m)
    PROVE  IInv'
<1>4. PICK s \in Servers : manager[m].at = "queued" => s = manager[m].server
  BY Shapes DEF Drain
<1>5. PICK previous : previous = entry[s].client
  OBVIOUS
<1> DEFINE r == [at |-> "draining", server |-> s, previous |-> previous]
           e == [entry[s] EXCEPT !.gate = m, !.state = "connecting"]
<1>1. /\ manager[m].at = "queued" /\ entry[s].gate = None /\ s = manager[m].server
      /\ UNCHANGED <<config, up, doomed, caller, adapters, shown, bounded>>
  BY <1>4 DEF Drain
<1>2. CASE Closed
  <2>1. Return(m) /\ UNCHANGED <<entry, conns>>
    BY <1>2 DEF Drain
  <2> QED
    BY <1>1, <2>1, ReturnPreserves DEF host
<1>3. CASE ~Closed
  <2>1. /\ manager' = [manager EXCEPT ![m] = r]
        /\ conns' = IF previous = 0 THEN conns ELSE Retire(previous)
    BY <1>1, <1>3, <1>5 DEF Drain
  <2>2. s \in Servers /\ s = manager[m].server
    BY <1>1
  <2>3. entry[s] \in Entries /\ Here(s) /\ previous \in Nat /\ previous = entry[s].client
    BY <1>5, EntryShape
  <2>4. entry' = [entry EXCEPT ![s] = e]
    BY <1>1, <1>3 DEF Drain
  <2>5. r \in Reconnects /\ e \in Entries /\ r.at = "draining" /\ r.server = s /\ r.previous = previous
    BY <2>2, <2>3 DEF Reconnects, Draining, Entries, States
  <2>6. /\ e.client = previous /\ e.gen = entry[s].gen /\ e.known = entry[s].known /\ e.gate = m
        /\ e.state = "connecting" /\ e.links = entry[s].links
    BY <2>3 DEF Entries
  <2>7. entry[s].known
    BY <1>1, <2>2, <2>3 DEF Here, ManagersFit, ManagerFits
  <2>8. previous # 0 => previous \in DOMAIN conns /\ conns[previous].server = s
    BY <2>3 DEF Here, ClientFits
  <2> HIDE DEF r, e
  <2>9. /\ conns' \in Seq(Connections) /\ DOMAIN conns' = DOMAIN conns /\ Len(conns') = Len(conns)
        /\ \A j \in DOMAIN conns : conns'[j].server = conns[j].server /\ conns'[j].gen = conns[j].gen
        /\ \A j \in DOMAIN conns \ {previous} : conns'[j].state = conns[j].state
        /\ previous # 0 => conns'[previous].state = IF conns[previous].state = "open" THEN "closing" ELSE conns[previous].state
    <3>1. CASE previous = 0
      BY <2>1, <3>1 DEF IInv, HostTypeOK
    <3>2. CASE previous # 0
      BY <2>1, <2>8, <3>2, Retired
    <3> QED
      BY <3>1, <3>2
  <2>10. ConnsKept(s) /\ shown' \in Seq(SUBSET ToolNames) /\ Len(shown') = Len(conns')
    BY <1>1, <2>8, <2>9 DEF ConnsKept, IInv, HostTypeOK
  <2>11. /\ manager'[m] = r /\ entry'[s] = e /\ \A d \in Managers \ {m} : manager'[d] = manager[d]
    BY <2>1, <2>2, <2>4 DEF IInv, HostTypeOK
  <2>12. ClientFits(s)'
    BY <1>1, <1>3, <2>3, <2>6, <2>9, <2>11 DEF Here, ClientFits, Closed
  <2>13. ManagerFits(m)'
    BY <2>5, <2>6, <2>7, <2>11 DEF ManagerFits, HoldsGate, IsDialling
  <2>14. \A d \in Managers : ~(HoldsGate(d) /\ manager[d].server = s)
    BY <1>1, <2>3, McpAssumption DEF Here, ManagersFit, ManagerFits, HoldsGate, IsDialling
  <2>15. \A k \in DOMAIN conns : conns[k].server = s /\ Live(k) => previous = k
    BY <1>3, <2>3, <2>14 DEF Here, LiveAreOwned, LiveIsOwned, HoldsGate
  <2>16. \A k \in DOMAIN conns' : conns'[k].server = s /\ Live(k)' => previous = k
    BY <2>9, <2>15 DEF Live
  <2>17. LiveAreOwned(s)'
    <3>1. \A d \in Managers : ~(manager'[d].at \in {"dialling", "dialled"} /\ manager'[d].server = s)
      BY <2>5, <2>11, <2>14 DEF HoldsGate, IsDialling
    <3>2. \A d \in Managers : manager'[d].at = "draining" /\ manager'[d].server = s => manager'[d].previous = previous
      BY <2>5, <2>11, <2>14 DEF HoldsGate
    <3>3. entry'[s].known /\ entry'[s].client = previous
      BY <2>6, <2>7, <2>11
    <3> QED
      BY <2>16, <3>1, <3>2, <3>3 DEF LiveAreOwned, LiveIsOwned, IsDialling
  <2>18. OnServer(m, s)
    BY <2>2 DEF OnServer
  <2> QED
    BY <1>1, <2>1, <2>2, <2>4, <2>5, <2>6, <2>7, <2>9, <2>10, <2>12, <2>13, <2>17, <2>18, CountsKept, ReconnectStep
<1> QED
  BY <1>2, <1>3

LEMMA DrainFailsPreserves ==
    ASSUME IInv, NEW m \in Managers, DrainFails(m)
    PROVE  IInv'
<1>2. PICK s \in Servers : s = manager[m].server
  BY Shapes DEF DrainFails
<1> DEFINE k == manager[m].previous
           e == [entry[s] EXCEPT !.state = "failed", !.gate = None]
<1>1. /\ manager[m].at = "draining" /\ k # 0 /\ conns[k].state = "stuck" /\ Return(m)
      /\ entry' = [entry EXCEPT ![s] = e]
      /\ UNCHANGED <<config, up, doomed, conns, caller, adapters, shown, bounded>>
  BY <1>2 DEF DrainFails
<1>11. k = manager[m].previous
  OBVIOUS
<1>3. entry[s] \in Entries /\ Here(s)
  BY <1>2, EntryShape
<1>4. /\ Idle \in Reconnects /\ e \in Entries /\ Idle.at = "idle"
      /\ e.client = entry[s].client /\ e.gen = entry[s].gen /\ e.known = entry[s].known /\ e.gate = None
      /\ e.state = "failed" /\ e.links = entry[s].links
  BY <1>3 DEF Reconnects, Idle, Entries, States
<1>5. entry[s].known /\ entry[s].gate = m
  BY <1>1, <1>2, <1>3 DEF Here, ManagersFit, ManagerFits, HoldsGate
<1> HIDE DEF k, e
<1>6. /\ manager'[m] = Idle /\ entry'[s] = e /\ \A d \in Managers \ {m} : manager'[d] = manager[d]
  BY <1>1, <1>2 DEF IInv, HostTypeOK, Return
<1>7. ClientFits(s)'
  BY <1>1, <1>3, <1>4, <1>6 DEF Here, ClientFits, Closed
<1>8. \A j \in DOMAIN conns : conns[j].server = s => ~Live(j)
  BY <1>1, <1>2, <1>3, <1>11 DEF Here, LiveAreOwned, LiveIsOwned, Live
<1>9. LiveAreOwned(s)'
  BY <1>1, <1>8 DEF LiveAreOwned, Live
<1>10. OnServer(m, s)
  BY <1>2 DEF OnServer
<1> QED
  BY <1>1, <1>2, <1>4, <1>5, <1>7, <1>9, <1>10, ConnsAlone, CountsKept, ReconnectStep DEF Return

LEMMA DialPreserves ==
    ASSUME IInv, NEW m \in Managers, Dial(m)
    PROVE  IInv'
<1>1. PICK s \in Servers : s = manager[m].server
  BY Shapes DEF Dial, Drained
<1>2. PICK gen \in Nat : gen = entry[s].gen + 1
  BY EntryShape
<1> DEFINE e == entry[s]
<1>3. /\ Drained(m) /\ UNCHANGED <<config, up, entry, doomed, caller, adapters, bounded>>
  BY DEF Dial, host
<1>4. /\ entry[s] \in Entries /\ Here(s) /\ entry[s].known /\ entry[s].gate = m /\ entry[s].state # "ready"
      /\ manager[m].at = "draining"
  BY <1>1, <1>3, EntryShape DEF Drained, Here, ManagersFit, ManagerFits, HoldsGate
<1>5. e \in Entries /\ e = entry[s] /\ entry' = [entry EXCEPT ![s] = e]
  BY <1>3, <1>4 DEF IInv, HostTypeOK
<1>6. \A j \in DOMAIN conns : conns[j].server = s => ~Live(j)
  BY <1>1, <1>3, <1>4, ConnShape DEF Drained, Here, LiveAreOwned, LiveIsOwned, Live
<1>7. \A d \in Managers \ {m} : manager[d].server = s => ~IsDialling(d) /\ manager[d].at # "draining"
  BY <1>4, McpAssumption DEF Here, ManagersFit, ManagerFits, HoldsGate, IsDialling
<1>8. OnServer(m, s) /\ reconnects' \in Nat /\ UNCHANGED <<calls, edits>>
  BY <1>1, <1>3, CountsKept DEF OnServer
<1> HIDE DEF e
<1>9. CASE Effective(s) # "on"
  <2> DEFINE st == Unconnected(Effective(s))
             r == [at |-> "dialled", server |-> s, gen |-> gen, state |-> st, client |-> 0, conn |-> 0, tools |-> {}]
  <2>1. manager' = [manager EXCEPT ![m] = r] /\ UNCHANGED <<conns, shown>>
    BY <1>1, <1>2, <1>9 DEF Dial
  <2>2. st \in {"disabled", "failed"}
    BY DEF Unconnected
  <2> HIDE DEF st
  <2>3. r \in Reconnects
    BY <2>2 DEF Reconnects, Diallings, States
  <2>4. r.at = "dialled" /\ r.server = s /\ r.client = 0 /\ r.conn = 0 /\ r.state = st
    OBVIOUS
  <2> HIDE DEF r
  <2>5. manager'[m] = r /\ \A d \in Managers \ {m} : manager'[d] = manager[d]
    BY <2>1 DEF IInv, HostTypeOK
  <2>6. ClientFits(s)'
    BY <1>3, <1>4, <2>1 DEF Here, ClientFits, Closed
  <2>7. ManagerFits(m)'
    BY <1>3, <1>4, <2>2, <2>4, <2>5 DEF ManagerFits, HoldsGate, IsDialling
  <2>8. LiveAreOwned(s)'
    BY <1>6, <2>1 DEF LiveAreOwned, Live
  <2> QED
    BY <1>3, <1>4, <1>5, <1>8, <2>1, <2>3, <2>4, <2>6, <2>7, <2>8, ConnsAlone, ReconnectStep
<1>10. CASE Effective(s) = "on"
  <2>1. PICK k : k = Len(conns) + 1
    OBVIOUS
  <2> DEFINE r == [at |-> "dialling", server |-> s, gen |-> gen, state |-> "connecting", client |-> k, conn |-> k,
                   tools |-> {}]
  <2>2. /\ conns' = Append(conns, [server |-> s, gen |-> gen, state |-> "open"]) /\ shown' = Append(shown, {})
        /\ k \in Nat /\ k # 0
    BY <1>1, <1>2, <1>10, <2>1, ConnShape DEF Dial
  <2>3. manager' = [manager EXCEPT ![m] = r]
    BY <1>1, <1>2, <1>10, <2>1, <2>2 DEF Dial
  <2>4. r \in Reconnects
    BY <2>2 DEF Reconnects, Diallings, States
  <2>5. /\ r.at = "dialling" /\ r.server = s /\ r.client = k /\ r.conn = k /\ r.state = "connecting" /\ r.gen = gen
    OBVIOUS
  <2> HIDE DEF r
  <2>6. manager'[m] = r /\ \A d \in Managers \ {m} : manager'[d] = manager[d]
    BY <2>3 DEF IInv, HostTypeOK
  <2>7. /\ conns' \in Seq(Connections) /\ shown' \in Seq(SUBSET ToolNames) /\ Len(shown') = Len(conns')
        /\ DOMAIN conns' = DOMAIN conns \cup {k} /\ k \notin DOMAIN conns
        /\ \A j \in DOMAIN conns : conns'[j] = conns[j] /\ shown'[j] = shown[j]
        /\ conns'[k].server = s /\ conns'[k].gen = gen /\ conns'[k].state = "open"
    BY <2>1, <2>2, Opened
  <2>8. ConnsKept(s)
    BY <2>7 DEF ConnsKept
  <2>9. ClientFits(s)'
    BY <1>3, <1>4, <2>7 DEF Here, ClientFits, Closed
  <2>10. ManagerFits(m)'
    BY <1>3, <1>4, <2>2, <2>5, <2>6, <2>7 DEF ManagerFits, HoldsGate, IsDialling
  <2>11. \A j \in DOMAIN conns' : conns'[j].server = s /\ Live(j)' => j = k
    BY <1>6, <2>7 DEF Live
  <2>12. LiveAreOwned(s)'
    <3>1. \A d \in Managers : manager'[d].server = s => manager'[d].at # "draining"
      BY <1>7, <2>5, <2>6
    <3>2. \A d \in Managers : manager'[d].at \in {"dialling", "dialled"} /\ manager'[d].server = s => manager'[d].conn = k
      BY <1>7, <2>5, <2>6 DEF IsDialling
    <3>3. entry'[s].known /\ manager'[m].at = "dialling" /\ manager'[m].server = s
      BY <1>3, <1>4, <2>5, <2>6
    <3> QED
      BY <2>11, <3>1, <3>2, <3>3 DEF LiveAreOwned, LiveIsOwned, IsDialling
  <2> QED
    BY <1>3, <1>4, <1>5, <1>8, <2>3, <2>4, <2>5, <2>7, <2>8, <2>9, <2>10, <2>12, ReconnectStep
<1> QED
  BY <1>9, <1>10

LEMMA DialledPreserves ==
    ASSUME IInv, NEW m \in Managers, Dialled(m)
    PROVE  IInv'
<1>0. IsDialling(m) /\ manager[m].at = "dialling" /\ manager[m] \in Diallings
  BY Shapes DEF Dialled, IsDialling
<1>1. PICK s \in Servers : s = manager[m].server
  BY <1>0, Shapes
<1>2. PICK k \in Nat : k = manager[m].client
  BY <1>0 DEF Diallings
<1>3. UNCHANGED <<config, up, entry, doomed, caller, adapters, shown, bounded>>
  BY DEF Dialled, host
<1>4. /\ entry[s] \in Entries /\ Here(s) /\ entry[s].known /\ entry[s].gate = m /\ entry[s].state # "ready"
      /\ k # 0 /\ k = manager[m].conn /\ k \in DOMAIN conns /\ conns[k].server = s /\ conns[k].gen = manager[m].gen
      /\ ~Closed => conns[k].state = "open"
  BY <1>0, <1>1, <1>2, EntryShape DEF Here, ManagersFit, ManagerFits, HoldsGate, IsDialling
<1> DEFINE e == entry[s]
<1>5. e \in Entries /\ e = entry[s] /\ entry' = [entry EXCEPT ![s] = e]
  BY <1>3, <1>4 DEF IInv, HostTypeOK
<1>6. \A j \in DOMAIN conns : conns[j].server = s /\ Live(j) => j = k
  BY <1>0, <1>1, <1>4 DEF Here, LiveAreOwned, LiveIsOwned, Live, IsDialling
<1>7. \A d \in Managers \ {m} : manager[d].server = s => ~IsDialling(d) /\ manager[d].at # "draining"
  BY <1>4, McpAssumption DEF Here, ManagersFit, ManagerFits, HoldsGate, IsDialling
<1>8. OnServer(m, s) /\ reconnects' \in Nat /\ UNCHANGED <<calls, edits>>
  BY <1>1, <1>3, CountsKept DEF OnServer
<1> HIDE DEF e
<1>9. PICK o \in Outcomes(s) :
         IF Connected(o)
         THEN /\ conns[k].state = "open"
              /\ manager' = [manager EXCEPT ![m] = [@ EXCEPT !.at = "dialled", !.state = "ready", !.tools = o.tools]]
              /\ UNCHANGED conns
         ELSE /\ conns' = Retire(k)
              /\ manager' = [manager EXCEPT ![m] = [@ EXCEPT !.at = "dialled", !.state = o.state, !.client = 0]]
  BY <1>1, <1>2 DEF Dialled
<1>10. o.state \in States /\ o.tools \subseteq ToolNames
  BY <1>9, OutcomesAreTyped
<1>11. CASE Connected(o)
  <2> DEFINE r == [manager[m] EXCEPT !.at = "dialled", !.state = "ready", !.tools = o.tools]
  <2>1. manager' = [manager EXCEPT ![m] = r] /\ UNCHANGED <<conns, shown>> /\ conns[k].state = "open"
    BY <1>3, <1>9, <1>11
  <2>2. r \in Reconnects
    BY <1>0, <1>10 DEF Reconnects, Diallings, States
  <2>3. /\ r.at = "dialled" /\ r.server = s /\ r.client = k /\ r.conn = k /\ r.state = "ready"
        /\ r.gen = manager[m].gen
    BY <1>0, <1>1, <1>2, <1>4 DEF Diallings
  <2> HIDE DEF r
  <2>4. manager'[m] = r /\ \A d \in Managers \ {m} : manager'[d] = manager[d]
    BY <2>1 DEF IInv, HostTypeOK
  <2>5. ClientFits(s)'
    BY <1>3, <1>4, <2>1 DEF Here, ClientFits, Closed
  <2>6. ManagerFits(m)'
    BY <1>3, <1>4, <2>1, <2>3, <2>4 DEF ManagerFits, HoldsGate, IsDialling
  <2>7. LiveAreOwned(s)'
    <3>1. \A d \in Managers : manager'[d].server = s => manager'[d].at # "draining"
      BY <1>7, <2>3, <2>4
    <3>2. \A d \in Managers : manager'[d].at \in {"dialling", "dialled"} /\ manager'[d].server = s => manager'[d].conn = k
      BY <1>7, <2>3, <2>4 DEF IsDialling
    <3>3. entry'[s].known /\ manager'[m].at = "dialled" /\ manager'[m].server = s
      BY <1>3, <1>4, <2>3, <2>4
    <3> QED
      BY <1>6, <2>1, <3>1, <3>2, <3>3 DEF LiveAreOwned, LiveIsOwned, IsDialling, Live
  <2> QED
    BY <1>3, <1>4, <1>5, <1>8, <2>1, <2>2, <2>3, <2>5, <2>6, <2>7, ConnsAlone, ReconnectStep
<1>12. CASE ~Connected(o)
  <2> DEFINE r == [manager[m] EXCEPT !.at = "dialled", !.state = o.state, !.client = 0]
  <2>1. manager' = [manager EXCEPT ![m] = r] /\ conns' = Retire(k) /\ o.state # "ready"
    BY <1>9, <1>12 DEF Connected
  <2>2. r \in Reconnects
    BY <1>0, <1>10 DEF Reconnects, Diallings
  <2>3. /\ r.at = "dialled" /\ r.server = s /\ r.client = 0 /\ r.conn = k /\ r.state = o.state
    BY <1>0, <1>1, <1>2, <1>4 DEF Diallings
  <2> HIDE DEF r
  <2>4. manager'[m] = r /\ \A d \in Managers \ {m} : manager'[d] = manager[d]
    BY <2>1 DEF IInv, HostTypeOK
  <2>5. /\ conns' \in Seq(Connections) /\ DOMAIN conns' = DOMAIN conns /\ Len(conns') = Len(conns)
        /\ \A j \in DOMAIN conns : conns'[j].server = conns[j].server /\ conns'[j].gen = conns[j].gen
        /\ \A j \in DOMAIN conns \ {k} : conns'[j].state = conns[j].state
        /\ conns'[k].state = IF conns[k].state = "open" THEN "closing" ELSE conns[k].state
    BY <1>4, <2>1, Retired
  <2>6. ConnsKept(s) /\ shown' \in Seq(SUBSET ToolNames) /\ Len(shown') = Len(conns')
    BY <1>3, <1>4, <2>5 DEF ConnsKept, IInv, HostTypeOK
  <2>7. ClientFits(s)'
    BY <1>3, <1>4, <2>5 DEF Here, ClientFits, Closed
  <2>8. ManagerFits(m)'
    BY <1>3, <1>4, <2>1, <2>3, <2>4, <2>5 DEF ManagerFits, HoldsGate, IsDialling
  <2>9. \A j \in DOMAIN conns' : conns'[j].server = s /\ Live(j)' => j = k
    BY <1>6, <2>5 DEF Live
  <2>10. LiveAreOwned(s)'
    <3>1. \A d \in Managers : manager'[d].server = s => manager'[d].at # "draining"
      BY <1>7, <2>3, <2>4
    <3>2. \A d \in Managers : manager'[d].at \in {"dialling", "dialled"} /\ manager'[d].server = s => manager'[d].conn = k
      BY <1>7, <2>3, <2>4 DEF IsDialling
    <3>3. entry'[s].known /\ manager'[m].at = "dialled" /\ manager'[m].server = s
      BY <1>3, <1>4, <2>3, <2>4
    <3> QED
      BY <2>9, <3>1, <3>2, <3>3 DEF LiveAreOwned, LiveIsOwned, IsDialling
  <2> QED
    BY <1>3, <1>4, <1>5, <1>8, <2>1, <2>2, <2>3, <2>5, <2>6, <2>7, <2>8, <2>10, ReconnectStep
<1> QED
  BY <1>11, <1>12

LEMMA PublishPreserves ==
    ASSUME IInv, NEW m \in Managers, Publish(m)
    PROVE  IInv'
<1>0. IsDialling(m) /\ manager[m].at = "dialled" /\ manager[m] \in Diallings
  BY Shapes DEF Publish, IsDialling
<1>1. PICK s \in Servers : s = manager[m].server
  BY <1>0, Shapes
<1>2. PICK n \in Diallings : n = manager[m]
  BY <1>0
<1>3. /\ UNCHANGED <<config, up, doomed, caller, adapters, shown, bounded>>
      /\ ~ClosingFailed(n.conn) /\ manager' = [manager EXCEPT ![m] = Idle]
  BY <1>2 DEF Publish, Return
<1>4. /\ entry[s] \in Entries /\ Here(s) /\ entry[s].known /\ entry[s].gate = m /\ entry[s].state # "ready"
      /\ n.client \in {0, n.conn}
      /\ n.conn # 0 => n.conn \in DOMAIN conns /\ conns[n.conn].server = s
      /\ n.client # 0 => conns[n.conn].gen = n.gen /\ (~Closed => conns[n.conn].state = "open")
      /\ n.conn # 0 /\ n.client = 0 => conns[n.conn].state # "open"
      /\ n.state = "ready" => n.client # 0
  BY <1>0, <1>1, <1>2, EntryShape DEF Here, ManagersFit, ManagerFits, HoldsGate, IsDialling
<1>5. \A j \in DOMAIN conns : conns[j].server = s /\ Live(j) => j = n.conn
  BY <1>0, <1>1, <1>2, <1>4 DEF Here, LiveAreOwned, LiveIsOwned, Live, IsDialling
<1>6. \A d \in Managers \ {m} : manager[d].server = s => ~IsDialling(d) /\ manager[d].at # "draining"
  BY <1>4, McpAssumption DEF Here, ManagersFit, ManagerFits, HoldsGate, IsDialling
<1>7. OnServer(m, s) /\ reconnects' \in Nat /\ UNCHANGED <<calls, edits>> /\ Idle \in Reconnects /\ Idle.at = "idle"
  BY <1>1, <1>3, CountsKept DEF OnServer, Reconnects, Idle
<1>8. manager'[m] = Idle /\ \A d \in Managers \ {m} : manager'[d] = manager[d]
  BY <1>3 DEF IInv, HostTypeOK
<1>9. /\ \A d \in Managers : manager'[d].at # "idle" /\ manager'[d].server = s => manager'[d].at # "draining"
      /\ \A d \in Managers : ~(manager'[d].at \in {"dialling", "dialled"} /\ manager'[d].server = s)
  BY <1>6, <1>7, <1>8 DEF IsDialling
<1>10. CASE Closed
  <2> DEFINE e == [entry[s] EXCEPT !.gate = None]
  <2>1. conns' = IF n.client = 0 THEN conns ELSE Retire(n.client)
    BY <1>2, <1>10 DEF Publish
  <2>2. entry' = [entry EXCEPT ![s] = e]
    BY <1>1, <1>10 DEF Publish
  <2>3. /\ e \in Entries /\ e.client = entry[s].client /\ e.gen = entry[s].gen /\ e.known = entry[s].known
        /\ e.gate = None /\ e.state = entry[s].state /\ e.links = entry[s].links
    BY <1>4 DEF Entries
  <2> HIDE DEF e
  <2>4. entry'[s] = e
    BY <2>2 DEF IInv, HostTypeOK
  <2>5. /\ conns' \in Seq(Connections) /\ DOMAIN conns' = DOMAIN conns /\ Len(conns') = Len(conns)
        /\ \A j \in DOMAIN conns : conns'[j].server = conns[j].server /\ conns'[j].gen = conns[j].gen
        /\ \A j \in DOMAIN conns : conns'[j].state # conns[j].state => j = n.client /\ j # 0 /\ conns[j].state = "open"
        /\ \A j \in DOMAIN conns : conns'[j].state # conns[j].state => conns'[j].state = "closing"
    <3>1. CASE n.client = 0
      BY <2>1, <3>1 DEF IInv, HostTypeOK
    <3>2. CASE n.client # 0
      BY <1>4, <2>1, <3>2, Retired
    <3> QED
      BY <3>1, <3>2
  <2>6. ConnsKept(s) /\ shown' \in Seq(SUBSET ToolNames) /\ Len(shown') = Len(conns')
    BY <1>3, <1>4, <2>5 DEF ConnsKept, IInv, HostTypeOK
  <2>7. ClientFits(s)'
    BY <1>3, <1>4, <1>10, <2>3, <2>4, <2>5 DEF Here, ClientFits, Closed
  <2>8. \A j \in DOMAIN conns' : conns'[j].server = s /\ Live(j)' => j = n.conn
    BY <1>5, <2>5 DEF Live
  <2>9. entry'[s].known /\ Closed'
    BY <1>3, <1>4, <1>10, <2>3, <2>4 DEF Closed
  <2>10. LiveAreOwned(s)'
    BY <1>9, <2>8, <2>9 DEF LiveAreOwned, LiveIsOwned, IsDialling
  <2> QED
    BY <1>3, <1>4, <1>7, <2>2, <2>3, <2>5, <2>6, <2>7, <2>10, ReconnectStep
<1>11. CASE ~Closed
  <2> DEFINE e == [entry[s] EXCEPT !.client = n.client, !.gen = n.gen, !.state = n.state,
                                   !.tools = n.tools, !.links = {}, !.gate = None]
  <2>1. entry' = [entry EXCEPT ![s] = e] /\ UNCHANGED <<conns, shown>>
    BY <1>1, <1>2, <1>11 DEF Publish
  <2>0. n.client \in Nat /\ n.gen \in Nat /\ n.state \in States /\ n.tools \subseteq ToolNames
    BY <1>2 DEF Diallings
  <2>2. /\ e \in Entries /\ e.client = n.client /\ e.gen = n.gen /\ e.known = entry[s].known
        /\ e.gate = None /\ e.state = n.state /\ e.links = {}
    BY <1>4, <2>0 DEF Entries
  <2> HIDE DEF e
  <2>3. entry'[s] = e
    BY <2>1 DEF IInv, HostTypeOK
  <2>4. ClientFits(s)'
    BY <1>3, <1>4, <1>11, <2>1, <2>2, <2>3 DEF ClientFits, Closed
  <2>5. \A j \in DOMAIN conns : conns[j].server = s /\ Live(j) => j = n.conn /\ n.client = n.conn
    BY <1>3, <1>4, <1>5 DEF Live, ClosingFailed
  <2>6. entry'[s].known /\ entry'[s].client = n.client
    BY <1>4, <2>2, <2>3
  <2>7. LiveAreOwned(s)'
    BY <1>9, <2>1, <2>5, <2>6 DEF LiveAreOwned, LiveIsOwned, IsDialling, Live
  <2> QED
    BY <1>3, <1>4, <1>7, <2>1, <2>2, <2>4, <2>7, ConnsAlone, ReconnectStep
<1> QED
  BY <1>10, <1>11

-----------------------------------------------------------------------------
(* The start of the host, its configuration, and its Close.                   *)

\* A server that is not known yet: nobody is inside and nothing of it is live.
LEMMA Unknown ==
    ASSUME IInv, NEW s \in Servers, ~entry[s].known
    PROVE  /\ entry[s].client = 0 /\ entry[s].state # "ready"
           /\ \A m \in Managers : manager[m].at # "idle" => manager[m].server # s
           /\ \A j \in DOMAIN conns : conns[j].server = s => ~Live(j)
           /\ \A c \in Callers : caller[c].at = "calling" /\ caller[c].server = s => Closed
<1>1. Here(s) /\ entry[s] \in Entries
  BY EntryShape
<1>2. entry[s].client = 0 /\ entry[s].state # "ready"
  BY <1>1 DEF Here, ClientFits
<1>3. \A m \in Managers : manager[m].at # "idle" => manager[m].server # s
  BY <1>1 DEF Here, ManagersFit, ManagerFits
<1>4. \A j \in DOMAIN conns : conns[j].server = s => ~Live(j)
  BY <1>1 DEF Here, LiveAreOwned, LiveIsOwned
<1>5. ASSUME NEW c \in Callers, caller[c].at = "calling", caller[c].server = s PROVE Closed
  BY <1>1, <1>2, <1>5, ConnShape DEF Here, CallersFit, CallerFits
<1> QED
  BY <1>2, <1>3, <1>4, <1>5

LEMMA StartServerPreserves ==
    ASSUME IInv, NEW s \in Servers, StartServer(s)
    PROVE  IInv'
<1>1. /\ ~entry[s].known /\ up = "starting"
      /\ UNCHANGED <<config, up, doomed, manager, caller, adapters, calls, reconnects, edits>>
  BY DEF StartServer, bounded
<1>2. entry[s] \in Entries /\ Here(s) /\ ~Closed
  BY <1>1, EntryShape DEF Closed
<1>3. /\ entry[s].client = 0
      /\ \A m \in Managers : manager[m].at # "idle" => manager[m].server # s
      /\ \A j \in DOMAIN conns : conns[j].server = s => ~Live(j)
      /\ \A c \in Callers : caller[c].server = s => caller[c].at # "calling"
  BY <1>1, <1>2, Unknown
<1>4. ASSUME NEW e \in Entries, entry' = [entry EXCEPT ![s] = e], e.known, e.gen = 1, e.links = {},
             e.gate = entry[s].gate, conns' \in Seq(Connections), shown' \in Seq(SUBSET ToolNames),
             Len(shown') = Len(conns'),
             \A j \in DOMAIN conns : j \in DOMAIN conns' /\ conns'[j] = conns[j] /\ shown'[j] = shown[j],
             \A j \in DOMAIN conns' \ DOMAIN conns :
                conns'[j].server = s /\ (conns'[j].state \in {"open", "closing"} => j = e.client),
             \A j, k \in DOMAIN conns' \ DOMAIN conns : j = k,
             e.client # 0 => /\ e.client \in DOMAIN conns' /\ conns'[e.client].server = s
                             /\ conns'[e.client].gen = 1,
             e.state = "ready" => e.client # 0 /\ conns'[e.client].state = "open"
      PROVE  IInv'
  <2>1. entry'[s] = e /\ \A x \in Servers \ {s} : entry'[x] = entry[x]
    BY <1>4 DEF IInv, HostTypeOK
  <2>2. HostTypeOK'
    BY <1>1, <1>4 DEF IInv, HostTypeOK
  <2>3. Elsewhere(s)
    BY <1>1, <1>4, <2>1 DEF Elsewhere, ConnsKept
  <2>4. ClientFits(s)'
    BY <1>1, <1>2, <1>4, <2>1 DEF ClientFits, Closed
  <2>5. ManagersFit(s)'
    BY <1>1, <1>3 DEF ManagersFit
  <2>6. CallersFit(s)'
    BY <1>1, <1>2, <1>3, <1>4, <2>1 DEF Here, CallersFit, CallerFits, IsInside
  <2>7. LiveAreOwned(s)'
    <3>1. \A j \in DOMAIN conns' : conns'[j].server = s /\ Live(j)' => j = e.client /\ j \notin DOMAIN conns
      BY <1>3, <1>4 DEF Live
    <3> QED
      BY <1>1, <1>3, <1>4, <2>1, <3>1 DEF LiveAreOwned, LiveIsOwned, IsDialling
  <2>8. DoomedAreClosed'
    BY <1>1 DEF IInv, DoomedAreClosed, Closed
  <2> QED
    BY <2>2, <2>3, <2>4, <2>5, <2>6, <2>7, <2>8, ElsewhereKeeps DEF Here
<1>5. CASE Effective(s) # "on"
  <2> DEFINE e == [[entry[s] EXCEPT !.known = TRUE, !.gen = 1, !.links = {}]
                      EXCEPT !.state = Unconnected(Effective(s))]
  <2>1. entry' = [entry EXCEPT ![s] = e] /\ UNCHANGED <<conns, shown>>
    BY <1>5 DEF StartServer
  <2>2. /\ e \in Entries /\ e.known /\ e.gen = 1 /\ e.links = {} /\ e.gate = entry[s].gate
        /\ e.client = 0 /\ e.state # "ready"
    BY <1>2, <1>3 DEF Entries, Unconnected, States
  <2>3. conns \in Seq(Connections) /\ shown \in Seq(SUBSET ToolNames) /\ Len(shown) = Len(conns)
    BY DEF IInv, HostTypeOK
  <2> HIDE DEF e
  <2> QED
    BY <1>4, <2>1, <2>2, <2>3
<1>6. CASE Effective(s) = "on"
  <2>1. PICK o \in Outcomes(s) :
           /\ conns' = Append(conns, [server |-> s, gen |-> 1,
                                      state |-> IF Connected(o) THEN "open" ELSE "closed"])
           /\ shown' = Append(shown, {})
           /\ entry' = [entry EXCEPT ![s] =
                 IF Connected(o)
                 THEN [[entry[s] EXCEPT !.known = TRUE, !.gen = 1, !.links = {}]
                         EXCEPT !.state = "ready", !.client = Len(conns) + 1, !.tools = o.tools]
                 ELSE [[entry[s] EXCEPT !.known = TRUE, !.gen = 1, !.links = {}] EXCEPT !.state = o.state]]
    BY <1>6 DEF StartServer
  <2>2. o.state \in States /\ o.tools \subseteq ToolNames
    BY OutcomesAreTyped
  <2>3. PICK k : k = Len(conns) + 1
    OBVIOUS
  <2>4. PICK st \in {"open", "closed"} : st = IF Connected(o) THEN "open" ELSE "closed"
    OBVIOUS
  <2>5. /\ conns' \in Seq(Connections) /\ shown' \in Seq(SUBSET ToolNames) /\ Len(shown') = Len(conns')
        /\ DOMAIN conns' = DOMAIN conns \cup {k} /\ k \notin DOMAIN conns /\ k \in Nat /\ k # 0
        /\ \A j \in DOMAIN conns : conns'[j] = conns[j] /\ shown'[j] = shown[j]
        /\ conns'[k].server = s /\ conns'[k].gen = 1 /\ conns'[k].state = st
    <3>1. conns' = Append(conns, [server |-> s, gen |-> 1, state |-> st]) /\ shown' = Append(shown, {})
      BY <2>1, <2>4
    <3>2. 1 \in Nat
      OBVIOUS
    <3>3. k \in Nat /\ k # 0
      BY <2>3, ConnShape
    <3> QED
      BY <2>3, <3>1, <3>2, <3>3, Opened
  <2>6. CASE Connected(o)
    <3> DEFINE e == [[entry[s] EXCEPT !.known = TRUE, !.gen = 1, !.links = {}]
                        EXCEPT !.state = "ready", !.client = k, !.tools = o.tools]
    <3>1. entry' = [entry EXCEPT ![s] = e]
      BY <2>1, <2>3, <2>6
    <3>2. /\ e \in Entries /\ e.known /\ e.gen = 1 /\ e.links = {} /\ e.gate = entry[s].gate
          /\ e.client = k /\ e.state = "ready"
      BY <1>2, <2>2, <2>5 DEF Entries, States
    <3> HIDE DEF e
    <3>3. st = "open"
      BY <2>4, <2>6
    <3> QED
      BY <1>4, <2>5, <3>1, <3>2, <3>3
  <2>7. CASE ~Connected(o)
    <3> DEFINE e == [[entry[s] EXCEPT !.known = TRUE, !.gen = 1, !.links = {}] EXCEPT !.state = o.state]
    <3>1. entry' = [entry EXCEPT ![s] = e]
      BY <2>1, <2>7
    <3>2. /\ e \in Entries /\ e.known /\ e.gen = 1 /\ e.links = {} /\ e.gate = entry[s].gate
          /\ e.client = 0 /\ e.state # "ready"
      BY <1>2, <1>3, <2>2, <2>7 DEF Entries, Connected
    <3> HIDE DEF e
    <3>3. st = "closed"
      BY <2>4, <2>7
    <3> QED
      BY <1>4, <2>5, <3>1, <3>2, <3>3
  <2> QED
    BY <2>6, <2>7
<1> QED
  BY <1>5, <1>6

\* Nothing the invariant speaks of changes when the host has started or its files are edited.
LEMMA StartedPreserves ==
    ASSUME IInv, Started
    PROVE  IInv'
<1>1. /\ UNCHANGED <<config, entry, conns, doomed, manager, caller, adapters, shown, calls, reconnects, edits>>
      /\ up = "starting" /\ up' = "up"
  BY DEF Started, bounded
<1>2. ~Closed /\ ~Closed'
  BY <1>1 DEF Closed
<1>3. HostTypeOK'
  BY <1>1 DEF IInv, HostTypeOK
<1> QED
  BY <1>1, <1>2, <1>3 DEF IInv, Here, ClientFits, ManagersFit, ManagerFits, CallersFit, CallerFits, LiveAreOwned,
     LiveIsOwned, Live, IsDialling, HoldsGate, IsInside, DoomedAreClosed

LEMMA Untouched ==
    ASSUME IInv, HostTypeOK', UNCHANGED <<up, entry, doomed, conns, manager, caller, shown>>
    PROVE  IInv'
  BY DEF IInv, Here, ClientFits, ManagersFit, ManagerFits, CallersFit, CallerFits, LiveAreOwned,
     LiveIsOwned, Live, IsDialling, HoldsGate, IsInside, DoomedAreClosed, Closed

LEMMA EditConfigPreserves ==
    ASSUME IInv, NEW scope \in EditedScopes, EditConfig(scope)
    PROVE  IInv'
<1>1. /\ UNCHANGED <<up, entry, doomed, conns, manager, caller, adapters, shown, calls, reconnects>>
      /\ edits' = edits + 1
  BY DEF EditConfig, host
<1>2. PICK s \in Servers, def \in Definitions : config' = [config EXCEPT ![scope][s] = def]
  BY DEF EditConfig
<1>3. scope \in {"user", "project"}
  BY McpAssumption
<1>4. config' \in [{"user", "project"} -> [Servers -> Definitions]]
  BY <1>2, <1>3 DEF IInv, HostTypeOK
<1>5. HostTypeOK'
  BY <1>1, <1>4 DEF IInv, HostTypeOK
<1> QED
  BY <1>1, <1>5, Untouched

LEMMA ClosePreserves ==
    ASSUME IInv, Close
    PROVE  IInv'
<1>1. /\ up = "up" /\ up' = "closed" /\ doomed' = {entry[s].client : s \in Servers} \ {0}
      /\ entry' = [s \in Servers |-> IF entry[s].known
                                     THEN [entry[s] EXCEPT !.client = 0, !.state = "closed"]
                                     ELSE entry[s]]
      /\ UNCHANGED <<config, conns, manager, caller, adapters, shown, calls, reconnects, edits>>
  BY DEF Close, bounded
<1>2. ~Closed /\ Closed'
  BY <1>1 DEF Closed
<1>3. \A s \in Servers : /\ entry'[s] \in Entries /\ entry'[s].client = 0 /\ entry'[s].state # "ready"
                         /\ (entry'[s].known <=> entry[s].known) /\ entry'[s].gate = entry[s].gate
  <2> SUFFICES ASSUME NEW s \in Servers
               PROVE  /\ entry'[s] \in Entries /\ entry'[s].client = 0 /\ entry'[s].state # "ready"
                      /\ (entry'[s].known <=> entry[s].known) /\ entry'[s].gate = entry[s].gate
    OBVIOUS
  <2>1. entry[s] \in Entries
    BY EntryShape
  <2>2. CASE entry[s].known
    <3>1. entry'[s] = [entry[s] EXCEPT !.client = 0, !.state = "closed"]
      BY <1>1, <2>2
    <3>2. PICK e \in Entries : e = entry[s]
      BY <2>1
    <3> DEFINE r == [e EXCEPT !.client = 0, !.state = "closed"]
    <3>3. r \in Entries
      BY <3>2 DEF Entries, States
    <3>4. r.client = 0 /\ r.state = "closed" /\ (r.known <=> e.known) /\ r.gate = e.gate
      BY <3>2 DEF Entries
    <3>5. entry'[s] = r
      BY <3>1, <3>2
    <3> HIDE DEF r
    <3> QED
      BY <3>2, <3>3, <3>4, <3>5
  <2>3. CASE ~entry[s].known
    <3>1. entry'[s] = entry[s]
      BY <1>1, <2>3
    <3> QED
      BY <2>1, <2>3, <3>1, Unknown
  <2> QED
    BY <2>2, <2>3
<1>4. HostTypeOK'
  <2>1. entry' \in [Servers -> Entries]
    BY <1>1, <1>3
  <2>2. doomed' \subseteq Nat
    BY <1>1, EntryShape
  <2> QED
    BY <1>1, <2>1, <2>2 DEF IInv, HostTypeOK
<1>5. ASSUME NEW s \in Servers PROVE Here(s)'
  <2>1. Here(s) /\ entry'[s].client = 0 /\ entry'[s].state # "ready"
        /\ (entry'[s].known <=> entry[s].known) /\ entry'[s].gate = entry[s].gate
    BY <1>3, EntryShape
  <2>2. ClientFits(s)'
    BY <2>1 DEF ClientFits
  <2>3. ManagersFit(s)'
    <3> SUFFICES ASSUME NEW m \in Managers, manager'[m].at # "idle", manager'[m].server = s
                 PROVE  ManagerFits(m)'
      BY DEF ManagersFit
    <3>1. manager' = manager /\ conns' = conns
      BY <1>1
    <3>2. ManagerFits(m) /\ manager[m].server = s
      BY <2>1, <3>1 DEF Here, ManagersFit
    <3> QED
      BY <1>2, <2>1, <3>1, <3>2 DEF ManagerFits, IsDialling, HoldsGate
  <2>4. CallersFit(s)'
    BY <1>1, <1>2, <2>1 DEF Here, CallersFit, CallerFits, IsInside
  <2>5. LiveAreOwned(s)'
    BY <1>1, <1>2, <2>1 DEF Here, LiveAreOwned, LiveIsOwned, Live, IsDialling
  <2> QED
    BY <2>2, <2>3, <2>4, <2>5 DEF Here
<1> QED
  BY <1>2, <1>4, <1>5 DEF IInv, DoomedAreClosed

\* A connection that ends, or that is retired when the host is closed.
LEMMA Fades ==
    ASSUME IInv, NEW k \in DOMAIN conns, UNCHANGED <<config, up, entry, manager, caller, adapters, shown>>,
           UNCHANGED bounded, doomed' \subseteq doomed,
           conns' \in Seq(Connections), Len(conns') = Len(conns), DOMAIN conns' = DOMAIN conns,
           \A j \in DOMAIN conns : conns'[j].server = conns[j].server /\ conns'[j].gen = conns[j].gen,
           \A j \in DOMAIN conns \ {k} : conns'[j].state = conns[j].state,
           conns[k].state = "open" => Closed, conns'[k].state = "open" => conns[k].state = "open",
           Live(k)' => Live(k)
    PROVE  IInv'
<1>1. HostTypeOK'
  BY DEF IInv, HostTypeOK, bounded
<1>2. ASSUME NEW s \in Servers PROVE Here(s)'
  <2>1. Here(s)
    BY EntryShape
  <2>2. \A j \in DOMAIN conns : ~Closed /\ conns[j].state = "open" => conns'[j].state = "open"
    OBVIOUS
  <2>3. \A j \in DOMAIN conns : conns'[j].state = "open" => conns[j].state = "open"
    OBVIOUS
  <2>4. \A j \in DOMAIN conns : Live(j)' => Live(j)
    BY DEF Live
  <2>5. ClientFits(s)'
    BY <2>1, <2>2 DEF Here, ClientFits, Closed
  <2>6. ManagersFit(s)'
    <3> SUFFICES ASSUME NEW m \in Managers, manager'[m].at # "idle", manager'[m].server = s
                 PROVE  ManagerFits(m)'
      BY DEF ManagersFit
    <3>1. ManagerFits(m) /\ manager' = manager
      BY <2>1 DEF Here, ManagersFit
    <3> QED
      BY <2>2, <2>3, <3>1 DEF ManagerFits, IsDialling, HoldsGate, Closed
  <2>7. CallersFit(s)'
    <3> SUFFICES ASSUME NEW c \in Callers, caller'[c].at # "idle", caller'[c].server = s
                 PROVE  CallerFits(c)'
      BY DEF CallersFit
    <3>1. CallerFits(c) /\ caller' = caller
      BY <2>1 DEF Here, CallersFit
    <3> QED
      BY <2>2, <3>1 DEF CallerFits, IsInside, Closed
  <2>8. LiveAreOwned(s)'
    <3>1. LiveAreOwned(s)
      BY <2>1 DEF Here
    <3>2. \A j \in DOMAIN conns' : conns'[j].server = s /\ Live(j)' =>
             j \in DOMAIN conns /\ conns[j].server = s /\ Live(j)
      BY <2>4
    <3>3. ASSUME NEW j \in DOMAIN conns', conns'[j].server = s, Live(j)' PROVE LiveIsOwned(j, s)'
      <4>1. LiveIsOwned(j, s)
        BY <3>1, <3>2, <3>3 DEF LiveAreOwned
      <4> QED
        BY <4>1 DEF LiveIsOwned, IsDialling, Closed
    <3>4. \A i, j \in DOMAIN conns' : Live(i)' /\ Live(j)' /\ conns'[i].server = s /\ conns'[j].server = s => i = j
      BY <3>1, <3>2 DEF LiveAreOwned
    <3> QED
      BY <3>3, <3>4 DEF LiveAreOwned
  <2> QED
    BY <2>5, <2>6, <2>7, <2>8 DEF Here
<1>3. DoomedAreClosed'
  BY DEF IInv, DoomedAreClosed, Closed
<1> QED
  BY <1>1, <1>2, <1>3 DEF IInv

LEMMA CloseEndsPreserves ==
    ASSUME IInv, NEW k \in DOMAIN conns, CloseEnds(k)
    PROVE  IInv'
<1>1. PICK end \in {"closed", "stuck"} : conns' = [conns EXCEPT ![k].state = end]
  BY DEF CloseEnds
<1>2. /\ UNCHANGED <<config, up, entry, doomed, manager, caller, adapters, shown, bounded>>
      /\ conns[k].state = "closing"
  BY DEF CloseEnds, host
<1> DEFINE r == [conns[k] EXCEPT !.state = end]
<1>3. conns[k] \in Connections /\ conns \in Seq(Connections)
  BY ConnShape DEF IInv, HostTypeOK
<1>4. r \in Connections /\ r.server = conns[k].server /\ r.gen = conns[k].gen /\ r.state = end
  BY <1>3 DEF Connections
<1>5. conns' = [conns EXCEPT ![k] = r]
  BY <1>1
<1> HIDE DEF r
<1>6. /\ conns' \in Seq(Connections) /\ Len(conns') = Len(conns) /\ DOMAIN conns' = DOMAIN conns
      /\ conns'[k] = r /\ \A j \in DOMAIN conns \ {k} : conns'[j] = conns[j]
  BY <1>3, <1>4, <1>5
<1>7. ~Live(k)' /\ conns'[k].state # "open"
  BY <1>4, <1>6 DEF Live
<1> QED
  BY <1>2, <1>4, <1>6, <1>7, Fades

LEMMA CloseClientPreserves ==
    ASSUME IInv, NEW k \in DOMAIN conns, CloseClient(k)
    PROVE  IInv'
<1>1. /\ UNCHANGED <<config, up, entry, manager, caller, adapters, shown, bounded>>
      /\ k \in doomed /\ doomed' \subseteq doomed /\ conns' = Retire(k)
  BY DEF CloseClient
<1>2. Closed
  BY <1>1 DEF IInv, DoomedAreClosed
<1>3. /\ conns' \in Seq(Connections) /\ Len(conns') = Len(conns) /\ DOMAIN conns' = DOMAIN conns
      /\ \A j \in DOMAIN conns : conns'[j].server = conns[j].server /\ conns'[j].gen = conns[j].gen
      /\ \A j \in DOMAIN conns \ {k} : conns'[j].state = conns[j].state
      /\ conns'[k].state = IF conns[k].state = "open" THEN "closing" ELSE conns[k].state
  BY <1>1, Retired
<1>4. (Live(k)' => Live(k)) /\ (conns'[k].state = "open" => conns[k].state = "open")
  BY <1>3 DEF Live
<1> QED
  BY <1>1, <1>2, <1>3, <1>4, Fades

-----------------------------------------------------------------------------
(* The theorems of the host.                                                  *)

LEMMA InitEstablishes ==
    ASSUME Init
    PROVE  IInv
<1>1. /\ entry = [s \in Servers |-> NoEntry] /\ conns = <<>> /\ shown = <<>> /\ doomed = {} /\ up = "starting"
      /\ manager = [m \in Managers |-> Idle] /\ caller = [c \in Callers |-> Idle]
      /\ adapters = [c \in Callers |-> [s \in Servers |-> [gen |-> 0, tools |-> {}]]]
      /\ config \in [{"user", "project"} -> Documents] /\ calls = 0 /\ reconnects = 0 /\ edits = 0
  BY DEF Init
<1>2. NoEntry \in Entries
  BY DEF NoEntry, Entries, States
<1>3. config \in [{"user", "project"} -> [Servers -> Definitions]]
  BY <1>1, McpAssumption DEF Definitions
<1>4. [gen |-> 0, tools |-> {}] \in Mounted
  BY DEF Mounted
<1>5. adapters \in [Callers -> [Servers -> Mounted]]
  BY <1>1, <1>4
<1>6. manager \in [Managers -> Reconnects] /\ caller \in [Callers -> Invokes]
  BY <1>1 DEF Reconnects, Invokes
<1>7. entry \in [Servers -> Entries]
  BY <1>1, <1>2
<1>8. conns \in Seq(Connections) /\ shown \in Seq(SUBSET ToolNames) /\ Len(shown) = Len(conns)
  BY <1>1
<1>9. HostTypeOK
  BY <1>1, <1>3, <1>5, <1>6, <1>7, <1>8 DEF HostTypeOK
<1>10. ASSUME NEW s \in Servers PROVE Here(s)
  <2>1. entry[s].client = 0 /\ entry[s].state = "none" /\ DOMAIN conns = {}
    BY <1>1 DEF NoEntry
  <2>2. \A m \in Managers : manager[m].at = "idle"
    BY <1>1 DEF Idle
  <2>3. \A c \in Callers : caller[c].at = "idle"
    BY <1>1 DEF Idle
  <2> QED
    BY <2>1, <2>2, <2>3 DEF Here, ClientFits, ManagersFit, CallersFit, LiveAreOwned
<1> QED
  BY <1>1, <1>9, <1>10 DEF IInv, DoomedAreClosed

LEMMA NextPreserves ==
    ASSUME IInv, [HostNext]_mcpVars
    PROVE  IInv'
<1>1. ASSUME NEW s \in Servers, StartServer(s) PROVE IInv'
  BY <1>1, StartServerPreserves
<1>2. CASE Started
  BY <1>2, StartedPreserves
<1>3. ASSUME NEW scope \in EditedScopes, EditConfig(scope) PROVE IInv'
  BY <1>3, EditConfigPreserves
<1>4. ASSUME NEW c \in Callers, Calling(c) PROVE IInv'
  BY <1>4, CallPreserves, ContextEndsPreserves, MountPreserves DEF Calling
<1>5. ASSUME NEW c \in Callers, ContextEnds(c, "timeout") PROVE IInv'
  BY <1>5, ContextEndsPreserves
<1>6. ASSUME NEW c \in Callers, Serving(c) PROVE IInv'
  BY <1>6, LeaveQueuePreserves, TakeGatePreserves, RefusePreserves, DispatchPreserves, AnsweredPreserves,
     CallFailsPreserves DEF Serving
<1>7. ASSUME NEW m \in Managers, Reconnecting(m) PROVE IInv'
  BY <1>7, DrainPreserves, DrainFailsPreserves, DialPreserves, DialledPreserves, PublishPreserves DEF Reconnecting
<1>8. ASSUME NEW m \in Managers, ReconnectCancelled(m) PROVE IInv'
  BY <1>8, ReconnectCancelledPreserves
<1>9. ASSUME NEW m \in Managers, NEW s \in Servers, Reconnect(m, s) PROVE IInv'
  BY <1>9, ReconnectPreserves
<1>10. CASE Close
  BY <1>10, ClosePreserves
<1>11. ASSUME NEW k \in DOMAIN conns, CloseEnds(k) \/ CloseClient(k) PROVE IInv'
  BY <1>11, CloseEndsPreserves, CloseClientPreserves
<1>12. CASE UNCHANGED mcpVars
  <2>1. HostTypeOK'
    BY <1>12 DEF IInv, HostTypeOK, mcpVars
  <2> QED
    BY <1>12, <2>1, Untouched DEF mcpVars
<1> QED
  BY <1>1, <1>2, <1>3, <1>4, <1>5, <1>6, <1>7, <1>8, <1>9, <1>10, <1>11, <1>12 DEF HostNext

THEOREM Invariance == HostSpec => []IInv
<1>1. Init => IInv
  BY InitEstablishes
<1>2. IInv /\ [HostNext]_mcpVars => IInv'
  BY NextPreserves
<1> QED
  BY <1>1, <1>2, PTL DEF HostSpec

\* Every variable of the host keeps its type, in every interleaving of the calls, the
\* reconnects and Close.
THEOREM TypeCorrect == HostSpec => []HostTypeOK
<1>1. IInv => HostTypeOK
  BY DEF IInv
<1> QED
  BY <1>1, Invariance, PTL

LEMMA ReadyIsLiveHolds ==
    ASSUME IInv
    PROVE  ReadyIsLive
<1> SUFFICES ASSUME NEW s \in Servers
             PROVE  /\ Cardinality({k \in DOMAIN conns : conns[k].server = s /\ conns[k].state \in {"open", "closing"}}) <= 1
                    /\ entry[s].state = "ready" =>
                          LET k == entry[s].client
                          IN  k # 0 /\ conns[k].state = "open" /\ conns[k].gen = entry[s].gen
  BY DEF ReadyIsLive
<1>1. Here(s)
  BY EntryShape
<1>2. PICK live : live = {k \in DOMAIN conns : conns[k].server = s /\ conns[k].state \in {"open", "closing"}}
  OBVIOUS
<1>3. \A j, k \in live : j = k
  BY <1>1, <1>2 DEF Here, LiveAreOwned, Live
<1>4. Cardinality(live) <= 1
  <2>1. CASE live = {}
    BY <2>1, FS_EmptySet
  <2>2. CASE live # {}
    <3>1. PICK k : live = {k}
      BY <1>3, <2>2
    <3>2. Cardinality({k}) = 1
      BY FS_Singleton
    <3> QED
      BY <3>1, <3>2
  <2> QED
    BY <2>1, <2>2
<1>5. entry[s].state = "ready" =>
         entry[s].client # 0 /\ conns[entry[s].client].state = "open" /\ conns[entry[s].client].gen = entry[s].gen
  BY <1>1 DEF Here, ClientFits
<1> QED
  BY <1>2, <1>4, <1>5

LEMMA CallsUseTheirGenerationHolds ==
    ASSUME IInv
    PROVE  CallsUseTheirGeneration
<1> SUFFICES ASSUME NEW c \in Callers, caller[c].at = "calling"
             PROVE  LET k == caller[c].client
                    IN  /\ conns[k].server = caller[c].server /\ conns[k].gen = caller[c].gen
                        /\ conns[k].state = "open" \/ Closed
                        /\ \A d \in Callers \ {c} : caller[d].at = "calling" =>
                              caller[d].server # caller[c].server
                        /\ caller[c].tool = Reader => shown[k] \cap Allowed[c] # {}
  BY DEF CallsUseTheirGeneration
<1>1. CallerFits(c)
  BY CallAt
<1>2. ASSUME NEW d \in Callers \ {c}, caller[d].at = "calling" PROVE caller[d].server # caller[c].server
  <2>1. CallerFits(d)
    BY <1>2, CallAt
  <2> QED
    BY <1>1, <1>2, <2>1 DEF CallerFits, IsInside
<1> QED
  BY <1>1, <1>2 DEF CallerFits

\* One live connection per server, ready means that connection is open and of the published
\* generation, and a call runs alone on the generation its adapter was mounted on.
THEOREM GenerationsStayExact == HostSpec => []GenerationsAreExact
<1>1. IInv => GenerationsAreExact
  BY ReadyIsLiveHolds, CallsUseTheirGenerationHolds DEF GenerationsAreExact
<1> QED
  BY <1>1, Invariance, PTL

-----------------------------------------------------------------------------
(* The files shared with other processes.                                     *)

CredentialStages == {"flow", "identity", "store", "reading", "read", "refreshing"}
Files == {<<>>} \cup [Identities -> Nat] \cup [Names -> {"absent", "on", "off"}]
CredentialOps == [at : CredentialStages, kind : {"token", "login", "logout"}, id : Identities, number : Nat,
                  seen : Nat, file : Files]
DefinitionOps == [at : {"editing", "edited"}, kind : {"add", "remove", "enable", "disable"}, id : Names,
                  number : Nat, seen : Nat, file : Files]
Operations == {Resting, [at |-> "dead"]} \cup CredentialOps \cup DefinitionOps

StoreTypeOK ==
    /\ records \in [Identities -> Nat]
    /\ locked \in [Locks -> Processes \cup {Nobody}]
    /\ definitions \in [Names -> {"absent", "on", "off"}]
    /\ op \in [Processes -> Operations]
    /\ ops \in Nat

\* An operation past the identity's lock holds it, and one at the file holds the file's too;
\* what it has read is what the file holds, and the record a refresh was made from is the one
\* that is there.
OperationFits(p) ==
    LET o == op[p]
    IN  /\ o.at \in {"flow", "identity"} => o.seen = NoRecord
        /\ o.at \in {"store", "reading", "read", "refreshing"} =>
              /\ locked[o.id] = p
              /\ o.seen # NoRecord => o.kind = "token" /\ records[o.id] = o.seen
        /\ o.at \in {"reading", "read"} => locked["credentials"] = p
        /\ o.at = "read" => o.file = records
        /\ o.at \in {"editing", "edited"} => locked["mcp.json"] = p
        /\ o.at = "edited" => o.file = definitions

StoreInv == StoreTypeOK /\ \A p \in Processes : OperationFits(p)

LEMMA StoreShapes ==
    ASSUME StoreInv, NEW p \in Processes
    PROVE  /\ op[p] \in Operations /\ OperationFits(p)
           /\ op[p].at \in CredentialStages => op[p] \in CredentialOps
           /\ op[p].at \in {"editing", "edited"} => op[p] \in DefinitionOps
<1>1. op[p] \in Operations /\ OperationFits(p)
  BY DEF StoreInv, StoreTypeOK
<1>2. op[p].at \in CredentialStages => op[p] \in CredentialOps
  BY <1>1 DEF Operations, Resting, DefinitionOps, CredentialStages
<1>3. op[p].at \in {"editing", "edited"} => op[p] \in DefinitionOps
  BY <1>1 DEF Operations, Resting, CredentialOps, CredentialStages
<1> QED
  BY <1>1, <1>2, <1>3

\* What a step of process p may do to the others: nothing they hold or have read.
LEMMA OperationStep ==
    ASSUME StoreInv, NEW p \in Processes, NEW r \in Operations, op' = [op EXCEPT ![p] = r],
           records' \in [Identities -> Nat], definitions' \in [Names -> {"absent", "on", "off"}],
           locked' \in [Locks -> Processes \cup {Nobody}], ops' \in Nat,
           \A l \in Locks : locked[l] \notin {p, Nobody} => locked'[l] = locked[l],
           records' # records => locked["credentials"] = p,
           \A i \in Identities : records'[i] # records[i] => locked[i] = p,
           definitions' # definitions => locked["mcp.json"] = p,
           OperationFits(p)'
    PROVE  StoreInv'
<1>1. op'[p] = r /\ \A q \in Processes \ {p} : op'[q] = op[q]
  BY DEF StoreInv, StoreTypeOK
<1>2. StoreTypeOK'
  BY DEF StoreInv, StoreTypeOK
<1>3. ASSUME NEW q \in Processes \ {p} PROVE OperationFits(q)'
  <2>1. OperationFits(q) /\ op'[q] = op[q] /\ q # p /\ q # Nobody
    BY <1>1, StoreAssumption DEF StoreInv
  <2>2. "credentials" \in Locks /\ "mcp.json" \in Locks /\ \A i \in Identities : i \in Locks
    BY DEF Locks
  <2>3. op[q].at \in {"store", "reading", "read", "refreshing"} => op[q].id \in Identities
    BY StoreShapes DEF CredentialOps, CredentialStages
  <2>4. op[q].at \in {"store", "reading", "read", "refreshing"} =>
           locked'[op[q].id] = q /\ records'[op[q].id] = records[op[q].id]
    BY <2>1, <2>2, <2>3 DEF OperationFits
  <2>5. op[q].at \in {"reading", "read"} => locked'["credentials"] = q /\ records' = records
    BY <2>1, <2>2 DEF OperationFits
  <2>6. op[q].at \in {"editing", "edited"} => locked'["mcp.json"] = q /\ definitions' = definitions
    BY <2>1, <2>2 DEF OperationFits
  <2> QED
    BY <2>1, <2>4, <2>5, <2>6 DEF OperationFits
<1> QED
  BY <1>2, <1>3 DEF StoreInv

\* The lock of the credentials file, of the definitions and of an identity are three locks.
LEMMA LocksAreApart ==
    /\ "credentials" \in Locks /\ "mcp.json" \in Locks /\ Identities \subseteq Locks
    /\ \A i \in Identities : i # "credentials" /\ i # "mcp.json"
  BY StoreAssumption DEF Locks

LEMMA StoreTyped ==
    ASSUME StoreInv
    PROVE  /\ records \in [Identities -> Nat] /\ locked \in [Locks -> Processes \cup {Nobody}]
           /\ definitions \in [Names -> {"absent", "on", "off"}] /\ ops \in Nat /\ op \in [Processes -> Operations]
  BY DEF StoreInv, StoreTypeOK

\* The operation of p is over, whatever it wrote under its locks.
LEMMA OverPreserves ==
    ASSUME StoreInv, NEW p \in Processes, Over(p), UNCHANGED ops,
           records' \in [Identities -> Nat], definitions' \in [Names -> {"absent", "on", "off"}],
           records' # records => locked["credentials"] = p,
           \A i \in Identities : records'[i] # records[i] => locked[i] = p,
           definitions' # definitions => locked["mcp.json"] = p
    PROVE  StoreInv'
<1>1. op' = [op EXCEPT ![p] = Resting] /\ locked' = [l \in Locks |-> IF locked[l] = p THEN Nobody ELSE locked[l]]
  BY DEF Over, Free
<1>2. locked' \in [Locks -> Processes \cup {Nobody}] /\ ops' \in Nat
  BY <1>1, StoreTyped
<1>3. \A l \in Locks : locked[l] \notin {p, Nobody} => locked'[l] = locked[l]
  BY <1>1
<1>4. Resting \in Operations /\ Resting.at = "idle"
  BY DEF Operations, Resting
<1>5. op'[p] = Resting
  BY <1>1, StoreTyped
<1>6. OperationFits(p)'
  BY <1>4, <1>5 DEF OperationFits
<1> QED
  BY <1>1, <1>2, <1>3, <1>4, <1>6, OperationStep

\* Token, Login, Logout or an edit that leaves the files alone.
LEMMA QuietStep ==
    ASSUME StoreInv, NEW p \in Processes, NEW r \in Operations, op' = [op EXCEPT ![p] = r],
           UNCHANGED <<records, definitions>>, locked' \in [Locks -> Processes \cup {Nobody}], ops' \in Nat,
           \A l \in Locks : locked[l] \notin {p, Nobody} => locked'[l] = locked[l],
           r.at \in {"flow", "identity"} => r.seen = NoRecord,
           r.at \in {"store", "reading", "read", "refreshing"} =>
              /\ locked'[r.id] = p
              /\ r.seen # NoRecord => r.kind = "token" /\ records[r.id] = r.seen,
           r.at \in {"reading", "read"} => locked'["credentials"] = p,
           r.at = "read" => r.file = records,
           r.at \in {"editing", "edited"} => locked'["mcp.json"] = p,
           r.at = "edited" => r.file = definitions
    PROVE  StoreInv'
<1>1. op'[p] = r
  BY StoreTyped
<1>2. OperationFits(p)'
  BY <1>1 DEF OperationFits
<1> QED
  BY <1>2, StoreTyped, OperationStep

LEMMA BeginPreserves ==
    ASSUME StoreInv, NEW p \in Processes, NEW kind \in {"token", "login", "logout"}, NEW i \in Identities,
           Begin(p, kind, i)
    PROVE  StoreInv'
<1>1. PICK at \in {"flow", "identity"} : Start(p, at, kind, i)
  BY DEF Begin
<1> DEFINE r == Opening(at, kind, i, ops + 1)
<1>2. op' = [op EXCEPT ![p] = r] /\ UNCHANGED <<records, locked, definitions>> /\ ops' = ops + 1
  BY <1>1 DEF Start
<1>3. r.at = at /\ r.seen = NoRecord
  BY DEF Opening
<1>4. r \in CredentialOps
  BY StoreTyped DEF Opening, CredentialOps, CredentialStages, NoRecord, Files
<1>5. r \in Operations
  BY <1>4 DEF Operations
<1> HIDE DEF r
<1>6. ops' \in Nat /\ locked' \in [Locks -> Processes \cup {Nobody}]
  BY <1>2, StoreTyped
<1> QED
  BY <1>2, <1>3, <1>5, <1>6, QuietStep

LEMMA AuthorizePreserves ==
    ASSUME StoreInv, NEW p \in Processes, Authorize(p)
    PROVE  StoreInv'
<1>1. UNCHANGED <<records, definitions, ops>> /\ op[p].at = "flow"
  BY DEF Authorize
<1>2. CASE Over(p)
  BY <1>1, <1>2, OverPreserves, StoreTyped
<1>3. CASE MoveTo(p, "identity") /\ UNCHANGED locked
  <2> DEFINE r == [op[p] EXCEPT !.at = "identity"]
  <2>1. op' = [op EXCEPT ![p] = r]
    BY <1>3 DEF MoveTo
  <2>2. op[p] \in CredentialOps /\ OperationFits(p)
    BY <1>1, StoreShapes DEF CredentialStages
  <2>3. r \in CredentialOps /\ r.at = "identity" /\ r.seen = op[p].seen
    BY <2>2 DEF CredentialOps, CredentialStages
  <2>4. r \in Operations /\ r.seen = NoRecord
    BY <1>1, <2>2, <2>3 DEF Operations, OperationFits
  <2> HIDE DEF r
  <2> QED
    BY <1>1, <1>3, <2>1, <2>3, <2>4, QuietStep, StoreTyped
<1> QED
  BY <1>2, <1>3 DEF Authorize

LEMMA LockIdentityPreserves ==
    ASSUME StoreInv, NEW p \in Processes, LockIdentity(p)
    PROVE  StoreInv'
<1> DEFINE r == [op[p] EXCEPT !.at = "store"]
<1>1. /\ UNCHANGED <<records, definitions, ops>> /\ op[p].at = "identity" /\ locked[op[p].id] = Nobody
      /\ locked' = [locked EXCEPT ![op[p].id] = p] /\ op' = [op EXCEPT ![p] = r]
  BY DEF LockIdentity, MoveTo
<1>2. op[p] \in CredentialOps /\ OperationFits(p)
  BY <1>1, StoreShapes DEF CredentialStages
<1>3. PICK i \in Identities : i = op[p].id
  BY <1>2 DEF CredentialOps
<1>4. r \in CredentialOps /\ r.at = "store" /\ r.seen = op[p].seen /\ r.id = i
  BY <1>2, <1>3 DEF CredentialOps, CredentialStages
<1>5. r \in Operations /\ r.seen = NoRecord
  BY <1>1, <1>2, <1>4 DEF Operations, OperationFits
<1> HIDE DEF r
<1>6. /\ locked' \in [Locks -> Processes \cup {Nobody}] /\ locked'[i] = p
      /\ \A l \in Locks : locked[l] \notin {p, Nobody} => locked'[l] = locked[l]
  BY <1>1, <1>3, LocksAreApart, StoreTyped
<1> QED
  BY <1>1, <1>4, <1>5, <1>6, QuietStep, StoreTyped

LEMMA LockStorePreserves ==
    ASSUME StoreInv, NEW p \in Processes, LockStore(p)
    PROVE  StoreInv'
<1> DEFINE r == [op[p] EXCEPT !.at = "reading"]
<1>1. /\ UNCHANGED <<records, definitions, ops>> /\ op[p].at = "store" /\ locked["credentials"] = Nobody
      /\ locked' = [locked EXCEPT !["credentials"] = p] /\ op' = [op EXCEPT ![p] = r]
  BY DEF LockStore, MoveTo
<1>2. op[p] \in CredentialOps /\ OperationFits(p)
  BY <1>1, StoreShapes DEF CredentialStages
<1>3. PICK i \in Identities : i = op[p].id
  BY <1>2 DEF CredentialOps
<1>4. r \in CredentialOps /\ r.at = "reading" /\ r.seen = op[p].seen /\ r.id = i /\ r.kind = op[p].kind
  BY <1>2, <1>3 DEF CredentialOps, CredentialStages
<1>5. /\ r \in Operations /\ locked[i] = p
      /\ r.seen # NoRecord => r.kind = "token" /\ records[i] = r.seen
  BY <1>1, <1>2, <1>3, <1>4 DEF Operations, OperationFits
<1> HIDE DEF r
<1>6. /\ locked' \in [Locks -> Processes \cup {Nobody}] /\ locked'["credentials"] = p /\ locked'[i] = p
      /\ \A l \in Locks : locked[l] \notin {p, Nobody} => locked'[l] = locked[l]
  BY <1>1, <1>5, LocksAreApart, StoreTyped
<1> QED
  BY <1>1, <1>4, <1>5, <1>6, QuietStep, StoreTyped

LEMMA ReadStorePreserves ==
    ASSUME StoreInv, NEW p \in Processes, ReadStore(p)
    PROVE  StoreInv'
<1> DEFINE r == [op[p] EXCEPT !.at = "read", !.file = records]
<1>1. /\ UNCHANGED <<records, locked, definitions, ops>> /\ op[p].at = "reading"
      /\ op' = [op EXCEPT ![p] = r]
  BY DEF ReadStore
<1>2. op[p] \in CredentialOps /\ OperationFits(p) /\ records \in Files
  BY <1>1, StoreShapes, StoreTyped DEF CredentialStages, Files
<1>3. /\ r \in CredentialOps /\ r.at = "read" /\ r.seen = op[p].seen /\ r.id = op[p].id /\ r.kind = op[p].kind
      /\ r.file = records
  BY <1>2 DEF CredentialOps, CredentialStages
<1>4. /\ r \in Operations /\ locked[r.id] = p /\ locked["credentials"] = p
      /\ r.seen # NoRecord => r.kind = "token" /\ records[r.id] = r.seen
  BY <1>1, <1>2, <1>3 DEF Operations, OperationFits
<1> HIDE DEF r
<1> QED
  BY <1>1, <1>3, <1>4, QuietStep, StoreTyped

LEMMA StoreFailsPreserves ==
    ASSUME StoreInv, NEW p \in Processes, StoreFails(p)
    PROVE  StoreInv'
  BY OverPreserves, StoreTyped DEF StoreFails

LEMMA TokenLooksPreserves ==
    ASSUME StoreInv, NEW p \in Processes, TokenLooks(p)
    PROVE  StoreInv'
<1>1. /\ UNCHANGED <<records, definitions, ops>> /\ op[p].at = "read" /\ op[p].kind = "token"
  BY DEF TokenLooks
<1>2. CASE Over(p)
  BY <1>1, <1>2, OverPreserves, StoreTyped
<1>3. CASE ~Over(p)
  <2>1. PICK seen : seen = op[p].file[op[p].id]
    OBVIOUS
  <2> DEFINE r == [op[p] EXCEPT !.at = "refreshing", !.seen = seen]
  <2>2. locked' = [locked EXCEPT !["credentials"] = Nobody] /\ op' = [op EXCEPT ![p] = r]
    BY <1>3, <2>1 DEF TokenLooks, DropStore
  <2>3. op[p] \in CredentialOps /\ OperationFits(p)
    BY <1>1, StoreShapes DEF CredentialStages
  <2>4. op[p].file = records /\ locked[op[p].id] = p /\ locked["credentials"] = p /\ op[p].id \in Identities
    BY <1>1, <2>3 DEF OperationFits, CredentialOps
  <2>5. seen \in Nat /\ seen = records[op[p].id]
    BY <2>1, <2>4, StoreTyped
  <2>6. r \in CredentialOps /\ r.at = "refreshing" /\ r.seen = seen /\ r.id = op[p].id /\ r.kind = op[p].kind
    BY <2>3, <2>5 DEF CredentialOps, CredentialStages
  <2>7. r \in Operations
    BY <2>6 DEF Operations
  <2> HIDE DEF r
  <2>8. /\ locked' \in [Locks -> Processes \cup {Nobody}] /\ locked'[r.id] = p
        /\ \A l \in Locks : locked[l] \notin {p, Nobody} => locked'[l] = locked[l]
    BY <2>2, <2>4, <2>6, LocksAreApart, StoreTyped
  <2>9. r.kind = "token" /\ records[r.id] = r.seen /\ UNCHANGED <<records, definitions>> /\ ops' \in Nat
    BY <1>1, <2>5, <2>6, StoreTyped
  <2> QED
    BY <2>2, <2>6, <2>7, <2>8, <2>9, QuietStep
<1> QED
  BY <1>2, <1>3

LEMMA RefreshPreserves ==
    ASSUME StoreInv, NEW p \in Processes, Refresh(p)
    PROVE  StoreInv'
<1>1. UNCHANGED <<records, definitions, ops>> /\ op[p].at = "refreshing"
  BY DEF Refresh
<1>2. CASE Over(p)
  BY <1>1, <1>2, OverPreserves, StoreTyped
<1>3. CASE MoveTo(p, "store") /\ UNCHANGED locked
  <2> DEFINE r == [op[p] EXCEPT !.at = "store"]
  <2>1. op' = [op EXCEPT ![p] = r]
    BY <1>3 DEF MoveTo
  <2>2. op[p] \in CredentialOps /\ OperationFits(p)
    BY <1>1, StoreShapes DEF CredentialStages
  <2>3. /\ r \in CredentialOps /\ r.at = "store" /\ r.seen = op[p].seen /\ r.id = op[p].id
        /\ r.kind = op[p].kind
    BY <2>2 DEF CredentialOps, CredentialStages
  <2>4. /\ r \in Operations /\ locked[r.id] = p
        /\ r.seen # NoRecord => r.kind = "token" /\ records[r.id] = r.seen
    BY <1>1, <2>2, <2>3 DEF Operations, OperationFits
  <2> HIDE DEF r
  <2> QED
    BY <1>1, <1>3, <2>1, <2>3, <2>4, QuietStep, StoreTyped
<1> QED
  BY <1>2, <1>3 DEF Refresh

LEMMA WriteStorePreserves ==
    ASSUME StoreInv, NEW p \in Processes, WriteStore(p)
    PROVE  StoreInv'
<1>1. UNCHANGED <<definitions, ops>> /\ op[p].at = "read" /\ Over(p)
  BY DEF WriteStore
<1>2. op[p] \in CredentialOps /\ OperationFits(p)
  BY <1>1, StoreShapes DEF CredentialStages
<1>3. op[p].file = records /\ locked[op[p].id] = p /\ locked["credentials"] = p /\ op[p].id \in Identities
  BY <1>1, <1>2 DEF OperationFits, CredentialOps
<1>4. PICK new \in Nat : new = Written(p)
  BY <1>2 DEF Written, CredentialOps, NoRecord
<1>5. records' = [records EXCEPT ![op[p].id] = new] \/ records' = records
  BY <1>3, <1>4 DEF WriteStore
<1>6. records' \in [Identities -> Nat] /\ \A i \in Identities : records'[i] # records[i] => i = op[p].id
  BY <1>5, StoreTyped
<1> QED
  BY <1>1, <1>3, <1>6, OverPreserves, StoreTyped

LEMMA EditPreserves ==
    ASSUME StoreInv, NEW p \in Processes, NEW kind \in {"add", "remove", "enable", "disable"}, NEW n \in Names,
           Edit(p, kind, n)
    PROVE  StoreInv'
<1> DEFINE r == Opening("editing", kind, n, ops + 1)
<1>1. /\ op' = [op EXCEPT ![p] = r] /\ UNCHANGED <<records, definitions>> /\ ops' = ops + 1
      /\ locked["mcp.json"] = Nobody /\ locked' = [locked EXCEPT !["mcp.json"] = p]
  BY DEF Edit
<1>2. r.at = "editing" /\ r.seen = NoRecord
  BY DEF Opening
<1>3. r \in DefinitionOps
  BY StoreTyped DEF Opening, DefinitionOps, NoRecord, Files
<1>4. r \in Operations
  BY <1>3 DEF Operations
<1> HIDE DEF r
<1>5. /\ ops' \in Nat /\ locked' \in [Locks -> Processes \cup {Nobody}] /\ locked'["mcp.json"] = p
      /\ \A l \in Locks : locked[l] \notin {p, Nobody} => locked'[l] = locked[l]
  BY <1>1, LocksAreApart, StoreTyped
<1> QED
  BY <1>1, <1>2, <1>4, <1>5, QuietStep

LEMMA ReadDocumentPreserves ==
    ASSUME StoreInv, NEW p \in Processes, ReadDocument(p)
    PROVE  StoreInv'
<1>1. UNCHANGED <<records, definitions, ops>> /\ op[p].at = "editing"
  BY DEF ReadDocument
<1>2. CASE Over(p)
  BY <1>1, <1>2, OverPreserves, StoreTyped
<1>3. CASE ~Over(p)
  <2> DEFINE r == [op[p] EXCEPT !.at = "edited", !.file = definitions]
  <2>1. op' = [op EXCEPT ![p] = r] /\ UNCHANGED locked
    BY <1>3 DEF ReadDocument
  <2>2. op[p] \in DefinitionOps /\ OperationFits(p) /\ definitions \in Files
    BY <1>1, StoreShapes, StoreTyped DEF Files
  <2>3. r \in DefinitionOps /\ r.at = "edited" /\ r.file = definitions
    BY <2>2 DEF DefinitionOps
  <2>4. r \in Operations /\ locked["mcp.json"] = p
    BY <1>1, <2>2, <2>3 DEF Operations, OperationFits
  <2> HIDE DEF r
  <2> QED
    BY <1>1, <2>1, <2>3, <2>4, QuietStep, StoreTyped
<1> QED
  BY <1>2, <1>3

LEMMA RenameDocumentPreserves ==
    ASSUME StoreInv, NEW p \in Processes, RenameDocument(p)
    PROVE  StoreInv'
<1>1. UNCHANGED <<records, ops>> /\ op[p].at = "edited" /\ Over(p)
  BY DEF RenameDocument
<1>2. op[p] \in DefinitionOps /\ OperationFits(p)
  BY <1>1, StoreShapes
<1>3. op[p].file = definitions /\ locked["mcp.json"] = p /\ op[p].id \in Names
  BY <1>1, <1>2 DEF OperationFits, DefinitionOps
<1>4. PICK result \in {"absent", "on", "off"} :
         definitions' = [definitions EXCEPT ![op[p].id] = result] \/ definitions' = definitions
  BY <1>3 DEF RenameDocument
<1>5. definitions' \in [Names -> {"absent", "on", "off"}]
  BY <1>4, StoreTyped
<1> QED
  BY <1>1, <1>3, <1>5, OverPreserves, StoreTyped

LEMMA DiePreserves ==
    ASSUME StoreInv, NEW p \in Processes, Die(p)
    PROVE  StoreInv'
<1> DEFINE r == [at |-> "dead"]
<1>1. op' = [op EXCEPT ![p] = r] /\ UNCHANGED <<records, locked, definitions, ops>>
  BY DEF Die
<1>2. r \in Operations /\ r.at = "dead"
  BY DEF Operations
<1> HIDE DEF r
<1> QED
  BY <1>1, <1>2, QuietStep, StoreTyped

LEMMA StoreInitEstablishes ==
    ASSUME StoreInit
    PROVE  StoreInv
<1>1. records \in [Identities -> Nat] /\ definitions \in [Names -> {"absent", "on", "off"}] /\ ops \in Nat
  BY DEF StoreInit, NoRecord
<1>2. locked \in [Locks -> Processes \cup {Nobody}] /\ op \in [Processes -> Operations]
  BY DEF StoreInit, Operations
<1>3. \A p \in Processes : op[p].at = "idle"
  BY DEF StoreInit, Resting
<1> QED
  BY <1>1, <1>2, <1>3 DEF StoreInv, StoreTypeOK, OperationFits

LEMMA StoreNextPreserves ==
    ASSUME StoreInv, [StoreNext]_storeVars
    PROVE  StoreInv'
<1>1. ASSUME NEW p \in Processes, Credential(p) PROVE StoreInv'
  BY <1>1, BeginPreserves, AuthorizePreserves, LockIdentityPreserves, LockStorePreserves, ReadStorePreserves,
     StoreFailsPreserves, TokenLooksPreserves, RefreshPreserves, WriteStorePreserves DEF Credential
<1>2. ASSUME NEW p \in Processes, Definition(p) PROVE StoreInv'
  BY <1>2, EditPreserves, ReadDocumentPreserves, RenameDocumentPreserves DEF Definition
<1>3. ASSUME NEW p \in Processes, Die(p) PROVE StoreInv'
  BY <1>3, DiePreserves
<1>4. CASE UNCHANGED storeVars
  BY <1>4 DEF storeVars, StoreInv, StoreTypeOK, OperationFits
<1> QED
  BY <1>1, <1>2, <1>3, <1>4 DEF StoreNext

THEOREM StoreInvariance == StoreSpec => []StoreInv
<1>1. StoreInit => StoreInv
  BY StoreInitEstablishes
<1>2. StoreInv /\ [StoreNext]_storeVars => StoreInv'
  BY StoreNextPreserves
<1> QED
  BY <1>1, <1>2, PTL DEF StoreSpec

\* A step that changes a credential is the write of an operation on that credential, and a
\* refresh that writes still finds the record it was made from.
LEMMA CredentialWrites ==
    ASSUME StoreInv, StoreNext, NEW i \in Identities, records'[i] # records[i]
    PROVE  \E p \in Processes : /\ op[p].at = "read" /\ op[p].id = i
                                /\ op[p].kind = "token" => records[i] = op[p].seen
<1>1. PICK p \in Processes : WriteStore(p)
  BY DEF StoreNext, Credential, Definition, Begin, Start, Authorize, LockIdentity, LockStore, ReadStore, StoreFails,
     TokenLooks, Refresh, Edit, ReadDocument, RenameDocument, Die
<1>2. op[p].at = "read" /\ op[p] \in CredentialOps /\ OperationFits(p)
  BY <1>1, StoreShapes DEF WriteStore, CredentialStages
<1>3. op[p].file = records /\ op[p].id \in Identities
  BY <1>2 DEF OperationFits, CredentialOps
<1>4. records' = [records EXCEPT ![op[p].id] = Written(p)]
  BY <1>1, <1>3 DEF WriteStore
<1>5. op[p].id = i
  BY <1>4, StoreTyped
<1>6. op[p].kind = "token" => records[i] = op[p].seen
  BY <1>1, <1>2, <1>5 DEF WriteStore, OperationFits
<1> QED
  BY <1>2, <1>5, <1>6

LEMMA DefinitionWrites ==
    ASSUME StoreInv, StoreNext, NEW n \in Names, definitions'[n] # definitions[n]
    PROVE  \E p \in Processes : op[p].at = "edited" /\ op[p].id = n
<1>1. PICK p \in Processes : RenameDocument(p)
  BY DEF StoreNext, Credential, Definition, Begin, Start, Authorize, LockIdentity, LockStore, ReadStore, StoreFails,
     TokenLooks, Refresh, Edit, ReadDocument, WriteStore, Die
<1>2. op[p].at = "edited" /\ op[p] \in DefinitionOps /\ OperationFits(p)
  BY <1>1, StoreShapes DEF RenameDocument
<1>3. op[p].file = definitions
  BY <1>2 DEF OperationFits
<1>4. PICK result : definitions' = [definitions EXCEPT ![op[p].id] = result]
  BY <1>1, <1>3 DEF RenameDocument
<1>5. op[p].id = n
  BY <1>4, StoreTyped
<1> QED
  BY <1>2, <1>5

\* No write of the credentials or of the definitions undoes another process's, and no refresh
\* brings back a credential that was replaced or removed while it ran.
THEOREM WritesStayTheirOwn == StoreSpec => WritesAreTheirOwn
<1> DEFINE A == /\ \A i \in Identities : records'[i] # records[i] =>
                      \E p \in Processes : /\ op[p].at = "read" /\ op[p].id = i
                                           /\ op[p].kind = "token" => records[i] = op[p].seen
                /\ \A n \in Names : definitions'[n] # definitions[n] =>
                      \E p \in Processes : op[p].at = "edited" /\ op[p].id = n
<1>1. StoreInv /\ [StoreNext]_storeVars => [A]_storeVars
  BY CredentialWrites, DefinitionWrites
<1> QED
  BY <1>1, StoreInvariance, PTL DEF StoreSpec, WritesAreTheirOwn
=============================================================================
