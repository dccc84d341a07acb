------------------------------- MODULE MCMcp -------------------------------
(* The host of one session, and the files it shares with other processes, each  *)
(* explored by itself: the host takes a configuration file as it finds it, and  *)
(* McpStore says how such files come about.                                     *)
(*                                                                              *)
(* One server, whose project definition may hide the user's; a run with one of  *)
(* its tools, and a child run with the other tool and the linked resource.      *)
EXTENDS McpHost, McpStore, TLC

CONSTANTS browser, run, child, m1, p1, p2, i1, i2

VARIABLE part

MCServers == {browser}
MCCallers == {run, child}
MCManagers == {m1}
MCAllowed == (run :> {"open"}) @@ (child :> {"click", Reader})
MCTransports == browser :> "http"

Page(tools, next) == [tools |-> tools, next |-> next]

\* Two pages; a tool named twice; a cursor that comes back.
MCCatalogs == {("" :> Page(<<"open">>, "b")) @@ ("b" :> Page(<<"click">>, "")),
               ("" :> Page(<<"open">>, "b")) @@ ("b" :> Page(<<"open">>, "")),
               ("" :> Page(<<"open">>, "b")) @@ ("b" :> Page(<<>>, "b"))}

MCDocuments == {browser :> "on", browser :> "absent"}

MCProcesses == {p1, p2}
MCIdentities == {i1, i2}
MCNames == {browser, "other"}

\* The part that is not explored has one initial state.
MCInit ==
    /\ Init /\ StoreInit
    /\ \/ /\ part = "host"
          /\ \A i \in Identities : records[i] = NoRecord
          /\ \A n \in Names : definitions[n] = "absent"
       \/ /\ part = "store"
          /\ \A scope \in DOMAIN config : config[scope][browser] = "absent"

MCNext ==
    \/ part = "host" /\ HostNext /\ UNCHANGED <<part, storeVars>>
    \/ part = "store" /\ StoreNext /\ UNCHANGED <<part, mcpVars>>

MCSpec == MCInit /\ [][MCNext]_<<part, mcpVars, storeVars>> /\ HostFairness
=============================================================================
