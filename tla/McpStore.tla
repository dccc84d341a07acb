------------------------------ MODULE McpStore ------------------------------
(***************************************************************************)
(* The files MCP shares between processes: the OAuth credentials of        *)
(* mcpauth/store.go and login.go, and the server definitions of            *)
(* mcpconfig/mutate.go.                                                    *)
(*                                                                         *)
(* A lock is a directory.  A credential is read, refreshed and written     *)
(* under the lock of its identity; the file that holds all of them is      *)
(* rewritten under a second, short lock.  A definition is edited under one *)
(* lock for which an edit does not wait.  A process may die anywhere and   *)
(* leave its locks behind.                                                 *)
(***************************************************************************)
EXTENDS Integers

CONSTANTS
    Processes,    \* fox processes, each inside one operation
    Identities,   \* credential keys: endpoint, client and scope
    Names,        \* server names of one configuration scope
    MaxOps,       \* bound: operations begun
    Nobody

\* A credential's lock is named by a hash of its key, beside those of the two files.
ASSUME StoreAssumption ==
    /\ Nobody \notin Processes /\ {"credentials", "mcp.json"} \cap Identities = {}

VARIABLES
    records,      \* mcp-credentials.json
    locked,       \* the lock directories, and who made each
    definitions,  \* mcp.json of one scope
    op,           \* where the operation of each process is
    ops

storeVars == <<records, locked, definitions, op, ops>>

\* A credential is known by the operation that wrote it; whether its token has expired, and
\* can be refreshed, is for the clock and the server to say.
NoRecord == 0
Locks == Identities \cup {"credentials", "mcp.json"}
Resting == [at |-> "idle"]

\* An operation before it has looked at its file.
Opening(at, kind, id, number) ==
    [at |-> at, kind |-> kind, id |-> id, number |-> number, seen |-> NoRecord, file |-> <<>>]

StoreInit ==
    /\ records \in [Identities -> {NoRecord, 1}]
    /\ locked = [l \in Locks |-> Nobody]
    /\ definitions \in [Names -> {"absent", "on"}]
    /\ op = [p \in Processes |-> Resting]
    /\ ops = 1

Free(p) == [l \in Locks |-> IF locked[l] = p THEN Nobody ELSE locked[l]]

\* The operation returns, and its deferred Removes drop what it holds.
Over(p) ==
    /\ op' = [op EXCEPT ![p] = Resting]
    /\ locked' = Free(p)

MoveTo(p, at) == op' = [op EXCEPT ![p].at = at]

Start(p, at, kind, i) ==
    /\ op[p].at = "idle" /\ ops <= MaxOps
    /\ ops' = ops + 1
    /\ op' = [op EXCEPT ![p] = Opening(at, kind, i, ops + 1)]
    /\ UNCHANGED <<records, locked, definitions>>

-----------------------------------------------------------------------------
(* Credentials. *)

\* Mutant: Logout goes to the file without the identity's lock.
LogoutUnserialized(p, kind, i) ==
    Start(p, CASE kind = "login" -> "flow" [] kind = "token" -> "identity" [] kind = "logout" -> "store",
          kind, i)

\* Token, Login or Logout of one identity.
Begin(p, kind, i) == Start(p, IF kind = "login" THEN "flow" ELSE "identity", kind, i)

\* The authorization-code flow, outside every lock: a token is obtained, or the user, the
\* callback, the discovery or the deadline ends it.
Authorize(p) ==
    /\ op[p].at = "flow"
    /\ \/ MoveTo(p, "identity") /\ UNCHANGED locked
       \/ Over(p)
    /\ UNCHANGED <<records, definitions, ops>>

\* withCredential: mkdir the identity's lock, polled until it works or the context ends.
LockIdentity(p) ==
    /\ op[p].at = "identity" /\ locked[op[p].id] = Nobody
    /\ locked' = [locked EXCEPT ![op[p].id] = p]
    /\ MoveTo(p, "store")
    /\ UNCHANGED <<records, definitions, ops>>

\* withStore, and the read of the whole file
LockStore(p) ==
    /\ op[p].at = "store" /\ locked["credentials"] = Nobody
    /\ locked' = [locked EXCEPT !["credentials"] = p]
    /\ MoveTo(p, "reading")
    /\ UNCHANGED <<records, definitions, ops>>

ReadStore(p) ==
    /\ op[p].at = "reading"
    /\ op' = [op EXCEPT ![p] = [@ EXCEPT !.at = "read", !.file = records]]
    /\ UNCHANGED <<records, locked, definitions, ops>>

\* A lock that does not come before the context ends, or a file that cannot be read.
StoreFails(p) ==
    /\ op[p].at \in {"identity", "store", "reading"}
    /\ Over(p)
    /\ UNCHANGED <<records, definitions, ops>>

DropStore == locked' = [locked EXCEPT !["credentials"] = Nobody]

\* Token's first visit: a valid token is returned, an expired one is refreshed if it can be.
TokenLooks(p) ==
    LET r == op[p].file[op[p].id]
    IN  /\ op[p].at = "read" /\ op[p].kind = "token" /\ op[p].seen = NoRecord
        /\ \/ /\ r # NoRecord /\ DropStore
              /\ op' = [op EXCEPT ![p] = [@ EXCEPT !.at = "refreshing", !.seen = r]]
           \/ Over(p)
        /\ UNCHANGED <<records, definitions, ops>>

\* The exchange with the authorization server, outside the store's lock.
Refresh(p) ==
    /\ op[p].at = "refreshing"
    /\ \/ MoveTo(p, "store") /\ UNCHANGED locked
       \/ Over(p)
    /\ UNCHANGED <<records, definitions, ops>>

\* What the operation makes of the record it came for.
Written(p) == IF op[p].kind = "logout" THEN NoRecord ELSE op[p].number

\* The temporary file is written, synced and renamed over the store; or that fails.
WriteStore(p) ==
    /\ op[p].at = "read" /\ (op[p].kind = "token" => op[p].seen # NoRecord)
    /\ \/ records' = [op[p].file EXCEPT ![op[p].id] = Written(p)]
       \/ UNCHANGED records
    /\ Over(p)
    /\ UNCHANGED <<definitions, ops>>

-----------------------------------------------------------------------------
(* Definitions. *)

\* Add, Remove and SetEnabled: who finds the lock taken is told to try again.
Edit(p, kind, n) ==
    /\ locked["mcp.json"] = Nobody
    /\ op[p].at = "idle" /\ ops <= MaxOps
    /\ ops' = ops + 1
    /\ locked' = [locked EXCEPT !["mcp.json"] = p]
    /\ op' = [op EXCEPT ![p] = Opening("editing", kind, n, ops + 1)]
    /\ UNCHANGED <<records, definitions>>

\* readDocument; Add refuses a name that is there, the others one that is not.
ReadDocument(p) ==
    LET there == definitions[op[p].id] # "absent"
    IN  /\ op[p].at = "editing"
        /\ IF (op[p].kind = "add") = there
           THEN Over(p)
           ELSE /\ op' = [op EXCEPT ![p] = [@ EXCEPT !.at = "edited", !.file = definitions]]
                /\ UNCHANGED locked
        /\ UNCHANGED <<records, definitions, ops>>

RenameDocument(p) ==
    LET result == CASE op[p].kind = "remove" -> "absent"
                    [] op[p].kind = "disable" -> "off"
                    [] OTHER -> "on"
    IN  /\ op[p].at = "edited"
        /\ \/ definitions' = [op[p].file EXCEPT ![op[p].id] = result]
           \/ UNCHANGED definitions
        /\ Over(p)
        /\ UNCHANGED <<records, ops>>

\* The process dies: files are whole, because they are renamed, and its locks stay.
Die(p) ==
    /\ op[p].at \notin {"idle", "dead"}
    /\ op' = [op EXCEPT ![p] = [at |-> "dead"]]
    /\ UNCHANGED <<records, locked, definitions, ops>>

-----------------------------------------------------------------------------
Credential(p) ==
    \/ \E kind \in {"token", "login", "logout"}, i \in Identities : Begin(p, kind, i)
    \/ Authorize(p) \/ LockIdentity(p) \/ LockStore(p) \/ ReadStore(p) \/ StoreFails(p)
    \/ TokenLooks(p) \/ Refresh(p) \/ WriteStore(p)

Definition(p) ==
    \/ \E kind \in {"add", "remove", "enable", "disable"}, n \in Names : Edit(p, kind, n)
    \/ ReadDocument(p) \/ RenameDocument(p)

StoreNext ==
    \E p \in Processes : Credential(p) \/ Definition(p) \/ Die(p)

StoreSpec == StoreInit /\ [][StoreNext]_storeVars

-----------------------------------------------------------------------------
\* A write changes nothing but the credential, or the definition, its operation is about,
\* whatever the other processes wrote meanwhile; and a refresh replaces only the credential it
\* was made from, so that it can neither undo a later login nor resurrect what Logout removed
\* (mcpauth/store.go: "so a completed refresh cannot resurrect removed credentials").
WritesAreTheirOwn ==
    [][/\ \A i \in Identities : records'[i] # records[i] =>
             \E p \in Processes : /\ op[p].at = "read" /\ op[p].id = i
                                  /\ op[p].kind = "token" => records[i] = op[p].seen
       /\ \A n \in Names : definitions'[n] # definitions[n] =>
             \E p \in Processes : op[p].at = "edited" /\ op[p].id = n]_storeVars
=============================================================================
