------------------------- MODULE FeishuSessionLock -------------------------
(***************************************************************************)
(* The per-session locks of the Feishu runner (internal/feishu/runner.go). *)
(* runOne holds the lock of its chat:sender key around one task.  A lock   *)
(* is a heap object with a one-slot permit channel and a reference count;  *)
(* the map that names it is cleaned of unreferenced locks that were not    *)
(* used for lockTTL, so a key may be bound to a fresh lock later.  Clock   *)
(* readings are abstracted to one bit: "the lock was last used more than   *)
(* lockTTL ago".                                                           *)
(***************************************************************************)
EXTENDS Naturals, FiniteSets

CONSTANTS Tasks,     \* goroutines that run runOne
          Keys,      \* session keys (chat:sender)
          LockIds,   \* addresses a lock object can have
          None       \* no lock

ASSUME SessionLockAssumption ==
    /\ IsFiniteSet(Tasks)
    /\ None \notin LockIds \cup Keys

VARIABLES
    locks,    \* Runner.locks: key -> lock, None when the key is absent
    permit,   \* the locks whose permit channel holds its token
    refs,     \* sessionLock.refs
    stale,    \* the locks with now - lastUsed > lockTTL
    pc,       \* what each goroutine does with the lock
    key,      \* the key a goroutine asked for
    mine      \* the lock object a goroutine has in hand

vars == <<locks, permit, refs, stale, pc, key, mine>>

PCs == {"outside", "waiting", "inside", "returning"}

TypeOK ==
    /\ locks \in [Keys -> LockIds \cup {None}]
    /\ permit \in SUBSET LockIds
    /\ refs \in [LockIds -> Nat]
    /\ stale \in SUBSET LockIds
    /\ pc \in [Tasks -> PCs]
    /\ key \in [Tasks -> Keys \cup {None}]
    /\ mine \in [Tasks -> LockIds \cup {None}]

Init ==
    /\ locks = [k \in Keys |-> None]
    /\ permit = {}
    /\ refs = [l \in LockIds |-> 0]
    /\ stale = {}
    /\ pc = [t \in Tasks |-> "outside"]
    /\ key = [t \in Tasks |-> None]
    /\ mine = [t \in Tasks |-> None]

-----------------------------------------------------------------------------

Expired(l, rs, st) == l \in LockIds /\ rs[l] = 0 /\ l \in st

\* A lock somebody waits for or holds is still the lock of its key: the TTL
\* cleanup never rebinds a key under a goroutine's feet.
LockInUseStaysBound ==
    \A t \in Tasks : pc[t] # "outside" => locks[key[t]] = mine[t]

\* cleanupSessionLocksLocked: drop every lock nobody references whose TTL is over.
Cleanup(ls, rs, st) ==
    [k \in Keys |-> IF Expired(ls[k], rs, st) THEN None ELSE ls[k]]

\* The addresses an allocation can return: no map entry and no goroutine has them.
Unreachable(ls) ==
    {l \in LockIds : (\A k \in Keys : ls[k] # l) /\ (\A t \in Tasks : mine[t] # l)}

Bind(t, k, l) ==
    /\ refs' = [refs EXCEPT ![l] = @ + 1]
    /\ key' = [key EXCEPT ![t] = k]
    /\ mine' = [mine EXCEPT ![t] = l]
    /\ pc' = [pc EXCEPT ![t] = "waiting"]

\* The locked section of acquireSessionLock when the key has a lock.
FindLock(t, k) ==
    LET kept == Cleanup(locks, refs, stale)
    IN  /\ pc[t] = "outside"
        /\ kept[k] # None
        /\ locks' = kept
        /\ Bind(t, k, kept[k])
        /\ UNCHANGED <<permit, stale>>

\* The same section when it has none: a fresh lock with its token in the channel.
CreateLock(t, k) ==
    LET kept == Cleanup(locks, refs, stale)
    IN  /\ pc[t] = "outside"
        /\ kept[k] = None
        /\ \E l \in Unreachable(kept) :
              /\ locks' = [kept EXCEPT ![k] = l]
              /\ permit' = permit \cup {l}
              /\ stale' = stale \ {l}
              /\ Bind(t, k, l)

\* <-lock.permit
Acquire(t) ==
    /\ pc[t] = "waiting"
    /\ mine[t] \in permit
    /\ permit' = permit \ {mine[t]}
    /\ pc' = [pc EXCEPT ![t] = "inside"]
    /\ UNCHANGED <<locks, refs, stale, key, mine>>

\* Mutant: the release closure forgets the token.
ReturnNoPermit(t) ==
    /\ pc[t] = "inside"
    /\ pc' = [pc EXCEPT ![t] = "returning"]
    /\ UNCHANGED <<locks, permit, refs, stale, key, mine>>

\* First half of the release closure: the token goes back, a waiter may take it.
ReturnPermit(t) ==
    /\ pc[t] = "inside"
    /\ permit' = permit \cup {mine[t]}
    /\ pc' = [pc EXCEPT ![t] = "returning"]
    /\ UNCHANGED <<locks, refs, stale, key, mine>>

\* releaseSessionLockReference: one reference less, lastUsed = now, cleanup.
DropReference(t) ==
    LET l == mine[t]
        rs == [refs EXCEPT ![l] = @ - 1]
        st == stale \ {l}
    IN  /\ refs' = rs
        /\ stale' = st
        /\ locks' = Cleanup(locks, rs, st)
        /\ key' = [key EXCEPT ![t] = None]
        /\ mine' = [mine EXCEPT ![t] = None]
        /\ pc' = [pc EXCEPT ![t] = "outside"]
        /\ UNCHANGED permit

Release(t) == pc[t] = "returning" /\ DropReference(t)

\* Mutant: the cancelled wait goes through the release closure, token included.
GiveUpReturningPermit(t) ==
    /\ pc[t] = "waiting"
    /\ permit' = permit \cup {mine[t]}
    /\ pc' = [pc EXCEPT ![t] = "returning"]
    /\ UNCHANGED <<locks, refs, stale, key, mine>>

\* <-ctx.Done() in acquireSessionLock, at any moment of the wait.
GiveUp(t) == pc[t] = "waiting" /\ DropReference(t)

\* lockTTL passes since the lock was last used, whether or not it is in use.
Age(l) ==
    /\ \E k \in Keys : locks[k] = l
    /\ stale' = stale \cup {l}
    /\ UNCHANGED <<locks, permit, refs, pc, key, mine>>

Next ==
    \/ \E t \in Tasks, k \in Keys : FindLock(t, k) \/ CreateLock(t, k)
    \/ \E t \in Tasks : Acquire(t) \/ ReturnPermit(t) \/ Release(t) \/ GiveUp(t)
    \/ \E l \in LockIds : Age(l)

\* A goroutine that runs a task ends it, and a Go channel serves its blocked
\* receivers in arrival order, so a waiter is not passed over for ever.
Fairness ==
    \A t \in Tasks : /\ SF_vars(Acquire(t))
                     /\ WF_vars(ReturnPermit(t))
                     /\ WF_vars(Release(t))

Spec == Init /\ [][Next]_vars /\ Fairness

-----------------------------------------------------------------------------

\* Two tasks of one session never run inside the session lock together, however
\* often idle locks were dropped from the map and created again
\* (acquireSessionLock and cleanupSessionLocksLocked).
MutualExclusion ==
    \A t, u \in Tasks :
        pc[t] = "inside" /\ pc[u] = "inside" /\ key[t] = key[u] => t = u

\* The reference count is the number of goroutines that can still touch the lock,
\* so a zero count means the object is idle and its permit is in the channel.
RefsCountUsers ==
    \A l \in LockIds : refs[l] = Cardinality({t \in Tasks : mine[t] = l})

\* What acquireSessionLock and cleanupSessionLocksLocked promise together: one task of a
\* session at a time, and a count of the goroutines that keep its lock in the map.
LockIsSafe == MutualExclusion /\ RefsCountUsers

\* A task that waits for its session lock gets it or gives up: the token is never
\* lost by a release, a cancelled wait or a cleanup.
WaiterIsServed ==
    \A t \in Tasks : pc[t] = "waiting" ~> pc[t] # "waiting"
=============================================================================
