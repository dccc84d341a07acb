------------------------- MODULE TaskResourceProofs -------------------------
(***************************************************************************)
(* What a task holds or waits for besides the model, and leaves behind:    *)
(* the lock of its session, the operator's verdict on an approval, the     *)
(* processes of its commands and the memories of its runs.                 *)
(*                                                                         *)
(* Mutual exclusion of the session locks holds for any number of tasks,    *)
(* keys and lock addresses.  Its invariant says why the TTL cleanup is     *)
(* harmless: a lock in use has a positive reference count, so it stays     *)
(* bound to its key, and all users of a key share one permit.              *)
(*                                                                         *)
(* Exactly-once remote approval holds for any number of waits, callbacks   *)
(* and IDs.  Its invariant ties the three views of one request together:   *)
(* the map entry, the pending record's verdict and the callback that set   *)
(* it.                                                                     *)
(*                                                                         *)
(* A signal never reaches strangers who were given the number of a process *)
(* group, and a command that returned, or was cleaned up, left nobody in   *)
(* its group: for any set of commands and any number of descendants and    *)
(* killed anchors.  The number is safe because the group keeps a member    *)
(* until it is killed by force or given up: an anchor that died on its own *)
(* was killed by somebody else, and a tree whose input was closed sends no *)
(* more signals.                                                           *)
(*                                                                         *)
(* The passes behind the runs keep to their run, to the memories and to    *)
(* the time they are given, for any number of runs, files and writes.  The *)
(* invariant follows what a run saved from the write through its tracker   *)
(* into the pass; the files are not part of it, so that the index lists    *)
(* what is there whatever they hold.                                       *)
(***************************************************************************)
EXTENDS FeishuSessionLock, ApprovalStore, ShellProcesses, AutoMemory, FiniteSetTheorems, TLAPS

-----------------------------------------------------------------------------
(* The session locks.                                                         *)

Users(l) == {t \in Tasks : mine[t] = l}

OutsideHasNothing == \A t \in Tasks : pc[t] = "outside" => mine[t] = None

UsersAreBound ==
    \A t \in Tasks : pc[t] # "outside" => /\ mine[t] \in LockIds
                                          /\ key[t] \in Keys
                                          /\ locks[key[t]] = mine[t]

OneKeyPerLock ==
    \A k, m \in Keys : locks[k] = locks[m] /\ locks[k] # None => k = m

PermitIsOut == \A t \in Tasks : pc[t] = "inside" => mine[t] \notin permit

OneHolder ==
    \A t, u \in Tasks :
        pc[t] = "inside" /\ pc[u] = "inside" /\ mine[t] = mine[u] => t = u

RefsCount == \A l \in LockIds : refs[l] = Cardinality(Users(l))

LockInv ==
    /\ TypeOK
    /\ OutsideHasNothing
    /\ UsersAreBound
    /\ OneKeyPerLock
    /\ PermitIsOut
    /\ OneHolder
    /\ RefsCount

-----------------------------------------------------------------------------

LEMMA UsersFinite == \A l : IsFiniteSet(Users(l))
  BY SessionLockAssumption, FS_Subset DEF Users

LEMMA CleanupType ==
  ASSUME TypeOK, NEW rs, NEW st
  PROVE  Cleanup(locks, rs, st) \in [Keys -> LockIds \cup {None}]
  BY DEF Cleanup, TypeOK

\* A lock somebody uses has a reference, so a cleanup under the current counts keeps it.
LEMMA UsedLockSurvives ==
  ASSUME LockInv, NEW t \in Tasks, pc[t] # "outside",
         NEW rs \in [LockIds -> Nat], rs[mine[t]] # 0, NEW st
  PROVE  Cleanup(locks, rs, st)[key[t]] = locks[key[t]]
  BY SessionLockAssumption DEF LockInv, UsersAreBound, Cleanup, Expired

LEMMA UsedLockHasReferences ==
  ASSUME LockInv, NEW t \in Tasks, mine[t] \in LockIds
  PROVE  refs[mine[t]] # 0
<1>1. t \in Users(mine[t])
  BY DEF Users
<1>2. Cardinality(Users(mine[t])) # 0
  BY <1>1, UsersFinite, FS_EmptySet
<1> QED
  BY <1>2 DEF LockInv, RefsCount

-----------------------------------------------------------------------------

LEMMA LockInitEstablishes == Init => LockInv
<1> SUFFICES ASSUME Init PROVE LockInv
  OBVIOUS
<1>1. TypeOK
  BY DEF Init, TypeOK, PCs
<1>2. RefsCount
  <2> SUFFICES ASSUME NEW l \in LockIds PROVE refs[l] = Cardinality(Users(l))
    BY DEF RefsCount
  <2>1. Users(l) = {}
    BY SessionLockAssumption DEF Init, Users
  <2> QED
    BY <2>1, FS_EmptySet DEF Init
<1> QED
  BY <1>1, <1>2
     DEF Init, LockInv, OutsideHasNothing, UsersAreBound, OneKeyPerLock, PermitIsOut, OneHolder

\* The two branches of the locked section of acquireSessionLock.
LEMMA BindPreserves ==
  ASSUME LockInv, NEW t \in Tasks, NEW k \in Keys, pc[t] = "outside",
         NEW l \in LockIds, Bind(t, k, l)
  PROVE  /\ refs' \in [LockIds -> Nat]
         /\ pc' \in [Tasks -> PCs]
         /\ key' \in [Tasks -> Keys \cup {None}]
         /\ mine' \in [Tasks -> LockIds \cup {None}]
         /\ RefsCount'
         /\ OutsideHasNothing'
<1>1. /\ refs' \in [LockIds -> Nat]
      /\ pc' \in [Tasks -> PCs]
      /\ key' \in [Tasks -> Keys \cup {None}]
      /\ mine' \in [Tasks -> LockIds \cup {None}]
  BY DEF LockInv, TypeOK, PCs, Bind
<1>2. OutsideHasNothing'
  BY DEF LockInv, TypeOK, OutsideHasNothing, Bind
<1>3. RefsCount'
  <2> SUFFICES ASSUME NEW m \in LockIds PROVE refs'[m] = Cardinality(Users(m)')
    BY DEF RefsCount
  <2>1. mine[t] = None
    BY DEF LockInv, OutsideHasNothing
  <2>2. CASE m = l
    <3>1. Users(m)' = Users(m) \cup {t} /\ t \notin Users(m)
      BY <2>1, <2>2, SessionLockAssumption DEF LockInv, TypeOK, Users, Bind
    <3>2. Cardinality(Users(m)') = Cardinality(Users(m)) + 1
      BY <3>1, UsersFinite, FS_AddElement
    <3> QED
      BY <2>2, <3>2 DEF LockInv, TypeOK, RefsCount, Bind
  <2>3. CASE m # l
    <3>1. Users(m)' = Users(m)
      BY <2>1, <2>3, SessionLockAssumption DEF LockInv, TypeOK, Users, Bind
    <3> QED
      BY <2>3, <3>1 DEF LockInv, TypeOK, RefsCount, Bind
  <2> QED
    BY <2>2, <2>3
<1> QED
  BY <1>1, <1>2, <1>3

LEMMA FindLockPreserves ==
  ASSUME LockInv, NEW t \in Tasks, NEW k \in Keys, FindLock(t, k)
  PROVE  LockInv'
<1> DEFINE kept == Cleanup(locks, refs, stale)
           l == kept[k]
<1>1. kept \in [Keys -> LockIds \cup {None}]
  BY CleanupType DEF LockInv
<1>2. pc[t] = "outside" /\ l \in LockIds /\ locks' = kept /\ Bind(t, k, l)
  BY <1>1 DEF FindLock
<1>3. locks[k] = l
  BY <1>2, SessionLockAssumption DEF Cleanup, LockInv, TypeOK
<1>4. TypeOK' /\ RefsCount' /\ OutsideHasNothing'
  BY <1>1, <1>2, BindPreserves DEF LockInv, TypeOK, FindLock
<1>5. UsersAreBound'
  <2> SUFFICES ASSUME NEW u \in Tasks, pc'[u] # "outside"
               PROVE  mine'[u] \in LockIds /\ key'[u] \in Keys /\ locks'[key'[u]] = mine'[u]
    BY DEF UsersAreBound
  <2>1. CASE u = t
    BY <1>2, <2>1 DEF Bind, LockInv, TypeOK
  <2>2. CASE u # t
    <3>1. pc[u] # "outside" /\ mine'[u] = mine[u] /\ key'[u] = key[u]
      BY <1>2, <2>2 DEF Bind, LockInv, TypeOK
    <3>2. refs[mine[u]] # 0
      BY <3>1, UsedLockHasReferences DEF LockInv, UsersAreBound
    <3>3. kept[key[u]] = locks[key[u]]
      BY <3>1, <3>2, UsedLockSurvives DEF LockInv, TypeOK
    <3> QED
      BY <1>2, <3>1, <3>3 DEF LockInv, UsersAreBound
  <2> QED
    BY <2>1, <2>2
<1>6. OneKeyPerLock'
  BY <1>2 DEF LockInv, OneKeyPerLock, Cleanup, TypeOK
<1>7. PermitIsOut' /\ OneHolder'
  BY <1>2 DEF LockInv, TypeOK, PermitIsOut, OneHolder, Bind, FindLock
<1> QED
  BY <1>4, <1>5, <1>6, <1>7 DEF LockInv
LEMMA CreateLockPreserves ==
  ASSUME LockInv, NEW t \in Tasks, NEW k \in Keys, CreateLock(t, k)
  PROVE  LockInv'
<1> DEFINE kept == Cleanup(locks, refs, stale)
<1>1. kept \in [Keys -> LockIds \cup {None}]
  BY CleanupType DEF LockInv
<1>2. PICK l \in Unreachable(kept) :
        /\ locks' = [kept EXCEPT ![k] = l]
        /\ permit' = permit \cup {l}
        /\ stale' = stale \ {l}
        /\ Bind(t, k, l)
  BY DEF CreateLock
<1>3. /\ pc[t] = "outside" /\ kept[k] = None /\ l \in LockIds
      /\ \A m \in Keys : kept[m] # l
      /\ \A u \in Tasks : mine[u] # l
  BY DEF CreateLock, Unreachable
<1>4. TypeOK' /\ RefsCount' /\ OutsideHasNothing'
  BY <1>1, <1>2, <1>3, BindPreserves DEF LockInv, TypeOK
<1>5. UsersAreBound'
  <2> SUFFICES ASSUME NEW u \in Tasks, pc'[u] # "outside"
               PROVE  mine'[u] \in LockIds /\ key'[u] \in Keys /\ locks'[key'[u]] = mine'[u]
    BY DEF UsersAreBound
  <2>1. CASE u = t
    BY <1>1, <1>2, <1>3, <2>1 DEF Bind, LockInv, TypeOK
  <2>2. CASE u # t
    <3>1. pc[u] # "outside" /\ mine'[u] = mine[u] /\ key'[u] = key[u]
      BY <1>2, <2>2 DEF Bind, LockInv, TypeOK
    <3>2. mine[u] \in LockIds /\ key[u] \in Keys /\ locks[key[u]] = mine[u]
      BY <3>1 DEF LockInv, UsersAreBound
    <3>3. kept[key[u]] = mine[u]
      BY <3>1, <3>2, UsedLockHasReferences, UsedLockSurvives DEF LockInv, TypeOK
    <3>4. key[u] # k
      BY <1>3, <3>2, <3>3, SessionLockAssumption
    <3> QED
      BY <1>1, <1>2, <3>1, <3>2, <3>3, <3>4
  <2> QED
    BY <2>1, <2>2
<1>6. OneKeyPerLock'
  BY <1>1, <1>2, <1>3 DEF LockInv, OneKeyPerLock, Cleanup, TypeOK
<1>7. PermitIsOut' /\ OneHolder'
  BY <1>2, <1>3 DEF LockInv, TypeOK, PermitIsOut, OneHolder, Bind
<1> QED
  BY <1>4, <1>5, <1>6, <1>7 DEF LockInv

LEMMA AcquirePreserves ==
  ASSUME LockInv, NEW t \in Tasks, Acquire(t)
  PROVE  LockInv'
<1>1. TypeOK' /\ OutsideHasNothing' /\ UsersAreBound' /\ OneKeyPerLock'
  BY DEF LockInv, TypeOK, PCs, OutsideHasNothing, UsersAreBound, OneKeyPerLock, Acquire
<1>2. PermitIsOut' /\ OneHolder'
  BY DEF LockInv, TypeOK, PermitIsOut, OneHolder, Acquire
<1>3. RefsCount'
  BY DEF LockInv, RefsCount, Users, Acquire
<1> QED
  BY <1>1, <1>2, <1>3 DEF LockInv

\* The returned token belongs to nobody else: OneHolder.
LEMMA ReturnPermitPreserves ==
  ASSUME LockInv, NEW t \in Tasks, ReturnPermit(t)
  PROVE  LockInv'
<1>0. mine[t] \in LockIds
  BY DEF LockInv, UsersAreBound, ReturnPermit
<1>1. TypeOK' /\ OutsideHasNothing' /\ UsersAreBound' /\ OneKeyPerLock'
  BY <1>0
     DEF LockInv, TypeOK, PCs, OutsideHasNothing, UsersAreBound, OneKeyPerLock, ReturnPermit
<1>2. PermitIsOut' /\ OneHolder'
  BY DEF LockInv, TypeOK, PermitIsOut, OneHolder, ReturnPermit
<1>3. RefsCount'
  BY DEF LockInv, RefsCount, Users, ReturnPermit
<1> QED
  BY <1>1, <1>2, <1>3 DEF LockInv

LEMMA DropReferencePreserves ==
  ASSUME LockInv, NEW t \in Tasks, pc[t] # "outside", pc[t] # "inside", DropReference(t)
  PROVE  LockInv'
<1> DEFINE l == mine[t]
           rs == [refs EXCEPT ![l] = @ - 1]
           st == stale \ {l}
<1>1. /\ l \in LockIds
      /\ refs' = rs /\ stale' = st /\ permit' = permit
      /\ locks' = Cleanup(locks, rs, st)
      /\ mine' = [mine EXCEPT ![t] = None]
      /\ key' = [key EXCEPT ![t] = None]
      /\ pc' = [pc EXCEPT ![t] = "outside"]
  BY DEF LockInv, UsersAreBound, DropReference
<1>2. RefsCount'
  <2> SUFFICES ASSUME NEW m \in LockIds PROVE refs'[m] = Cardinality(Users(m)')
    BY DEF RefsCount
  <2>1. CASE m = l
    <3>1. Users(m)' = Users(m) \ {t} /\ t \in Users(m)
      BY <1>1, <2>1, SessionLockAssumption DEF LockInv, TypeOK, Users
    <3>2. Cardinality(Users(m)') = Cardinality(Users(m)) - 1
      BY <3>1, UsersFinite, FS_RemoveElement
    <3> QED
      BY <1>1, <2>1, <3>2 DEF LockInv, TypeOK, RefsCount
  <2>2. CASE m # l
    <3>1. Users(m)' = Users(m)
      BY <1>1, <2>2, SessionLockAssumption DEF LockInv, TypeOK, Users
    <3> QED
      BY <1>1, <2>2, <3>1 DEF LockInv, TypeOK, RefsCount
  <2> QED
    BY <2>1, <2>2
<1>3. rs \in [LockIds -> Nat]
  BY <1>1, UsedLockHasReferences DEF LockInv, TypeOK
<1>4. TypeOK'
  BY <1>1, <1>3, CleanupType DEF LockInv, TypeOK, PCs
<1>5. OutsideHasNothing' /\ PermitIsOut' /\ OneHolder'
  BY <1>1 DEF LockInv, TypeOK, OutsideHasNothing, PermitIsOut, OneHolder
<1>6. OneKeyPerLock'
  BY <1>1 DEF LockInv, TypeOK, OneKeyPerLock, Cleanup
<1>7. UsersAreBound'
  <2> SUFFICES ASSUME NEW u \in Tasks, pc'[u] # "outside"
               PROVE  mine'[u] \in LockIds /\ key'[u] \in Keys /\ locks'[key'[u]] = mine'[u]
    BY DEF UsersAreBound
  <2>1. u # t /\ pc[u] # "outside" /\ mine'[u] = mine[u] /\ key'[u] = key[u]
    BY <1>1 DEF LockInv, TypeOK
  <2>2. mine[u] \in LockIds /\ key[u] \in Keys /\ locks[key[u]] = mine[u]
    BY <2>1 DEF LockInv, UsersAreBound
  <2>3. ASSUME NEW m \in LockIds, m = mine[u]
        PROVE  rs[m] # 0
    <3>1. u \in Users(m)'
      BY <2>1, <2>3 DEF Users
    <3>2. IsFiniteSet(Users(m)')
      BY FS_Subset, SessionLockAssumption DEF Users
    <3>3. Cardinality(Users(m)') # 0
      BY <3>1, <3>2, FS_EmptySet
    <3> QED
      BY <1>1, <1>2, <3>3 DEF RefsCount
  <2>4. rs[mine[u]] # 0
    BY <2>2, <2>3
  <2>5. Cleanup(locks, rs, st)[key[u]] = locks[key[u]]
    BY <1>3, <2>1, <2>4, UsedLockSurvives
  <2>6. locks'[key[u]] = locks[key[u]]
    <3> HIDE DEF rs, st
    <3> QED
      BY <1>1, <2>5
  <2> QED
    BY <2>1, <2>2, <2>6
<1> QED
  BY <1>2, <1>4, <1>5, <1>6, <1>7 DEF LockInv

LEMMA AgePreserves ==
  ASSUME LockInv, NEW l \in LockIds, Age(l)
  PROVE  LockInv'
  BY DEF LockInv, TypeOK, OutsideHasNothing, UsersAreBound, OneKeyPerLock, PermitIsOut,
         OneHolder, RefsCount, Users, Age

LEMMA LockStutterPreserves == LockInv /\ UNCHANGED vars => LockInv'
  BY DEF LockInv, TypeOK, OutsideHasNothing, UsersAreBound, OneKeyPerLock, PermitIsOut,
         OneHolder, RefsCount, Users, vars

LEMMA LockNextPreserves == LockInv /\ [Next]_vars => LockInv'
<1> SUFFICES ASSUME LockInv, [Next]_vars PROVE LockInv'
  OBVIOUS
<1>1. ASSUME NEW t \in Tasks, NEW k \in Keys, FindLock(t, k) \/ CreateLock(t, k)
      PROVE  LockInv'
  BY <1>1, FindLockPreserves, CreateLockPreserves
<1>2. ASSUME NEW t \in Tasks, Acquire(t) \/ ReturnPermit(t)
      PROVE  LockInv'
  BY <1>2, AcquirePreserves, ReturnPermitPreserves
<1>3. ASSUME NEW t \in Tasks, Release(t) \/ GiveUp(t)
      PROVE  LockInv'
  BY <1>3, DropReferencePreserves DEF Release, GiveUp
<1>4. ASSUME NEW l \in LockIds, Age(l)
      PROVE  LockInv'
  BY <1>4, AgePreserves
<1> QED
  BY <1>1, <1>2, <1>3, <1>4, LockStutterPreserves DEF Next

THEOREM LockInvariance == Spec => []LockInv
  BY LockInitEstablishes, LockNextPreserves, PTL DEF Spec

-----------------------------------------------------------------------------

\* Type correctness of the runner's lock table (Runner.locks and sessionLock):
\* in particular no release ever takes the reference count below zero.
THEOREM LocksTypeCorrect == Spec => []TypeOK
<1>1. LockInv => TypeOK
  BY DEF LockInv
<1> QED
  BY <1>1, LockInvariance, PTL

\* The reference count of a session lock is the number of goroutines that have it in
\* hand (acquireSessionLock, releaseSessionLockReference).
THEOREM RefsAreExact == Spec => []RefsCountUsers
<1>1. LockInv => RefsCountUsers
  BY DEF LockInv, RefsCount, RefsCountUsers, Users
<1> QED
  BY <1>1, LockInvariance, PTL

\* The TTL cleanup never unbinds a lock that is waited for or held
\* (cleanupSessionLocksLocked).
THEOREM CleanupIsSafe == Spec => []LockInUseStaysBound
<1>1. LockInv => LockInUseStaysBound
  BY DEF LockInv, UsersAreBound, LockInUseStaysBound
<1> QED
  BY <1>1, LockInvariance, PTL

\* At most one task of a session is between acquireSessionLock and its release.
THEOREM SessionsAreSerial == Spec => []MutualExclusion
<1>1. LockInv => MutualExclusion
  BY DEF LockInv, UsersAreBound, OneHolder, MutualExclusion
<1> QED
  BY <1>1, LockInvariance, PTL

\* What the lock promises as a whole, for any number of tasks, sessions and locks.
THEOREM LocksAreSafe == Spec => []LockIsSafe
  BY SessionsAreSerial, RefsAreExact, PTL DEF LockIsSafe

-----------------------------------------------------------------------------
(* The approval store.                                                        *)

Open(w) == at[w] \in {"sending", "blocked", "finishing"}

EntriesAreOpen ==
    \A i \in Ids : waiting[i] # Nothing => RequestId[waiting[i]] = i /\ Open(waiting[i])

OpenHaveEntries == \A w \in Waits : Open(w) => waiting[RequestId[w]] = w

NewIsUnresolved == \A w \in Waits : at[w] = "new" => verdict[w] = Nothing

ClaimsMatch ==
    \A c \in Callbacks :
        /\ answer[c] = "204" <=> claim[c] # Nothing
        /\ claim[c] # Nothing => verdict[claim[c]] = Verdict[c]

VerdictsAreClaimed ==
    \A w \in Waits : verdict[w] # Nothing => \E c \in Callbacks : claim[c] = w

ResultsMatch ==
    \A w \in Waits :
        /\ at[w] = "returned" /\ verdict[w] # Nothing => result[w] = verdict[w]
        /\ result[w] = "allow" => verdict[w] = "allow"
        /\ fallback[w] # "allow"

ApprovalInv ==
    /\ ApprovalTypeOK
    /\ EntriesAreOpen
    /\ OpenHaveEntries
    /\ NewIsUnresolved
    /\ ClaimsMatch
    /\ VerdictsAreClaimed
    /\ ResolvedOnce
    /\ ResultsMatch

Map == EntriesAreOpen /\ OpenHaveEntries
Claims == ClaimsMatch /\ VerdictsAreClaimed /\ ResolvedOnce

-----------------------------------------------------------------------------

\* "Not there" is told apart from every value the program stores.
LEMMA NoneIsNoValue ==
  /\ Nothing \notin Waits /\ Nothing \notin Callbacks /\ Nothing \notin Verdicts
  /\ Nothing # "allow" /\ Nothing # "204" /\ Nothing # "404" /\ Nothing # "409"
  /\ \A c \in Callbacks : Verdict[c] \in Verdicts /\ CallbackId[c] \in Ids
  BY ApprovalAssumption DEF Results, Verdicts, Statuses

LEMMA ApprovalInitEstablishes == ApprovalInit => ApprovalInv
  BY NoneIsNoValue
     DEF ApprovalInit, ApprovalInv, ApprovalTypeOK, EntriesAreOpen, OpenHaveEntries, Open, NewIsUnresolved,
         ClaimsMatch, VerdictsAreClaimed, ResolvedOnce, ResultsMatch

\* The steps of a Wait leave every verdict, answer and claim alone.
LEMMA ClaimsUntouched ==
  ASSUME ApprovalInv, UNCHANGED <<verdict, answer, claim>>
  PROVE  Claims'
  BY DEF ApprovalInv, Claims, ClaimsMatch, VerdictsAreClaimed, ResolvedOnce

LEMMA RefusalPreserves ==
  ASSUME ApprovalInv, NEW w \in Waits, at[w] = "new", NEW v \in {"cancelled", "conflict"},
         Return(w, v), UNCHANGED <<waiting, verdict, fallback, answer, claim>>
  PROVE  ApprovalInv'
<1>1. ApprovalTypeOK'
  BY DEF ApprovalInv, ApprovalTypeOK, Return, Results, Fallbacks
<1>2. Map'
  BY ApprovalAssumption
     DEF ApprovalInv, ApprovalTypeOK, Map, EntriesAreOpen, OpenHaveEntries, Open, Return
<1>3. NewIsUnresolved' /\ ResultsMatch'
  BY DEF ApprovalInv, ApprovalTypeOK, NewIsUnresolved, ResultsMatch, Return
<1> QED
  BY <1>1, <1>2, <1>3, ClaimsUntouched DEF ApprovalInv, Map, Claims

LEMMA RegisterPreserves ==
  ASSUME ApprovalInv, NEW w \in Waits, Register(w)
  PROVE  ApprovalInv'
<1>0. RequestId[w] \in Ids
  BY ApprovalAssumption
<1>1. ApprovalTypeOK'
  BY <1>0 DEF ApprovalInv, ApprovalTypeOK, Register
<1>2. Map'
  BY <1>0, ApprovalAssumption
     DEF ApprovalInv, ApprovalTypeOK, Map, EntriesAreOpen, OpenHaveEntries, Open, Register
<1>3. NewIsUnresolved' /\ ResultsMatch'
  BY DEF ApprovalInv, ApprovalTypeOK, NewIsUnresolved, ResultsMatch, Register
<1>4. UNCHANGED <<verdict, answer, claim>>
  BY DEF Register
<1> QED
  BY <1>1, <1>2, <1>3, <1>4, ClaimsUntouched DEF ApprovalInv, Map, Claims

LEMMA SentPreserves ==
  ASSUME ApprovalInv, NEW w \in Waits, Sent(w)
  PROVE  ApprovalInv'
<1>1. ApprovalTypeOK'
  BY DEF ApprovalInv, ApprovalTypeOK, Sent
<1>2. Map'
  BY ApprovalAssumption
     DEF ApprovalInv, ApprovalTypeOK, Map, EntriesAreOpen, OpenHaveEntries, Open, Sent
<1>3. NewIsUnresolved' /\ ResultsMatch'
  BY DEF ApprovalInv, ApprovalTypeOK, NewIsUnresolved, ResultsMatch, Sent
<1>4. UNCHANGED <<verdict, answer, claim>>
  BY DEF Sent
<1> QED
  BY <1>1, <1>2, <1>3, <1>4, ClaimsUntouched DEF ApprovalInv, Map, Claims

LEMMA LeavePreserves ==
  ASSUME ApprovalInv, NEW w \in Waits, NEW from \in {"sending", "blocked"},
         NEW reason \in Fallbacks \cup {Nothing}, reason = Nothing => verdict[w] # Nothing,
         Leave(w, from, reason)
  PROVE  ApprovalInv'
<1>1. ApprovalTypeOK'
  BY DEF ApprovalInv, ApprovalTypeOK, Leave
<1>2. Map'
  BY ApprovalAssumption
     DEF ApprovalInv, ApprovalTypeOK, Map, EntriesAreOpen, OpenHaveEntries, Open, Leave
<1>3. NewIsUnresolved' /\ ResultsMatch'
  BY NoneIsNoValue DEF ApprovalInv, ApprovalTypeOK, NewIsUnresolved, ResultsMatch, Leave, Fallbacks
<1>4. UNCHANGED <<verdict, answer, claim>>
  BY DEF Leave
<1> QED
  BY <1>1, <1>2, <1>3, <1>4, ClaimsUntouched DEF ApprovalInv, Map, Claims

\* A wait that finishes is still the one its ID is bound to, so a verdict it was given
\* is the one it returns.
LEMMA FinishWaitPreserves ==
  ASSUME ApprovalInv, NEW w \in Waits, FinishWait(w)
  PROVE  ApprovalInv'
<1>0. waiting[RequestId[w]] = w /\ RequestId[w] \in Ids /\ w # Nothing
  BY ApprovalAssumption DEF ApprovalInv, OpenHaveEntries, Open, FinishWait
<1>1. /\ waiting' = [waiting EXCEPT ![RequestId[w]] = Nothing]
      /\ Return(w, IF verdict[w] # Nothing THEN verdict[w] ELSE fallback[w])
      /\ UNCHANGED <<verdict, fallback, answer, claim>>
      /\ at[w] = "finishing"
  BY <1>0 DEF FinishWait
<1>2. ApprovalTypeOK'
  BY <1>1 DEF ApprovalInv, ApprovalTypeOK, Return, Results
<1>3. Map'
  BY <1>0, <1>1, ApprovalAssumption
     DEF ApprovalInv, ApprovalTypeOK, Map, EntriesAreOpen, OpenHaveEntries, Open, Return
<1>4. NewIsUnresolved' /\ ResultsMatch'
  BY <1>1 DEF ApprovalInv, ApprovalTypeOK, NewIsUnresolved, ResultsMatch, Return
<1> QED
  BY <1>1, <1>2, <1>3, <1>4, ClaimsUntouched DEF ApprovalInv, Map, Claims

LEMMA ResolvePreserves ==
  ASSUME ApprovalInv, NEW c \in Callbacks, Resolve(c)
  PROVE  ApprovalInv'
<1> DEFINE w == waiting[CallbackId[c]]
<1>0. CallbackId[c] \in Ids /\ w \in Waits /\ Verdict[c] \in Verdicts
  BY ApprovalAssumption DEF ApprovalInv, ApprovalTypeOK, Resolve
<1>1. Open(w) /\ w # Nothing /\ verdict[w] = Nothing /\ answer[c] = Nothing
  BY <1>0 DEF ApprovalInv, EntriesAreOpen, Resolve
<1>2. /\ verdict' = [verdict EXCEPT ![w] = Verdict[c]]
      /\ claim' = [claim EXCEPT ![c] = w]
      /\ answer' = [answer EXCEPT ![c] = "204"]
      /\ UNCHANGED <<waiting, at, fallback, result>>
  BY DEF Resolve, Answer
<1>3. ApprovalTypeOK'
  BY <1>0, <1>2 DEF ApprovalInv, ApprovalTypeOK, Statuses
<1>4. Map'
  BY <1>2 DEF ApprovalInv, Map, EntriesAreOpen, OpenHaveEntries, Open
<1>a. \A d \in Callbacks : claim[d] # w
  BY <1>0, <1>1, NoneIsNoValue DEF ApprovalInv, ClaimsMatch
<1>5. ClaimsMatch'
  BY <1>a, <1>0, <1>1, <1>2, NoneIsNoValue DEF ApprovalInv, ApprovalTypeOK, ClaimsMatch
<1>6. VerdictsAreClaimed'
  BY <1>0, <1>1, <1>2, NoneIsNoValue DEF ApprovalInv, ApprovalTypeOK, VerdictsAreClaimed, ClaimsMatch
<1>7. ResolvedOnce'
  BY <1>a, <1>0, <1>1, <1>2 DEF ApprovalInv, ApprovalTypeOK, ResolvedOnce
<1>8. NewIsUnresolved' /\ ResultsMatch'
  BY <1>0, <1>1, <1>2, NoneIsNoValue DEF ApprovalInv, ApprovalTypeOK, NewIsUnresolved, ResultsMatch, Open
<1> QED
  BY <1>3, <1>4, <1>5, <1>6, <1>7, <1>8 DEF ApprovalInv, Map

\* A callback that is turned away changes nothing but its own answer.
LEMMA RejectionPreserves ==
  ASSUME ApprovalInv, NEW c \in Callbacks, answer[c] = Nothing, NEW status \in {"404", "409"},
         Answer(c, status), UNCHANGED <<waiting, verdict, at, fallback, result, claim>>
  PROVE  ApprovalInv'
<1>1. ApprovalTypeOK'
  BY DEF ApprovalInv, ApprovalTypeOK, Answer, Statuses
<1>2. Claims'
  BY NoneIsNoValue
     DEF ApprovalInv, ApprovalTypeOK, Claims, ClaimsMatch, VerdictsAreClaimed, ResolvedOnce, Answer
<1>3. Map' /\ NewIsUnresolved' /\ ResultsMatch'
  BY DEF ApprovalInv, Map, EntriesAreOpen, OpenHaveEntries, Open, NewIsUnresolved, ResultsMatch
<1> QED
  BY <1>1, <1>2, <1>3 DEF ApprovalInv, Map, Claims

LEMMA ApprovalNextPreserves ==
  ASSUME ApprovalInv, ApprovalNext
  PROVE  ApprovalInv'
<1>1. ASSUME NEW w \in Waits, RefuseCancelled(w) PROVE ApprovalInv'
  BY <1>1, RefusalPreserves DEF RefuseCancelled
<1>2. ASSUME NEW w \in Waits, RefuseConflict(w) PROVE ApprovalInv'
  BY <1>2, RefusalPreserves DEF RefuseConflict
<1>3. ASSUME NEW w \in Waits, SendFails(w) PROVE ApprovalInv'
  BY <1>3, LeavePreserves, NoneIsNoValue, ApprovalAssumption DEF SendFails, Fallbacks, Results
<1>4. ASSUME NEW w \in Waits, TimesOut(w) PROVE ApprovalInv'
  BY <1>4, LeavePreserves, ApprovalAssumption DEF TimesOut, Fallbacks, Results
<1>5. ASSUME NEW w \in Waits, IsCancelled(w) PROVE ApprovalInv'
  BY <1>5, LeavePreserves, ApprovalAssumption DEF IsCancelled, Fallbacks, Results
<1>6. ASSUME NEW w \in Waits, Wakes(w) PROVE ApprovalInv'
  BY <1>6, LeavePreserves DEF Wakes
<1>7. ASSUME NEW c \in Callbacks, ResolveConflict(c) PROVE ApprovalInv'
  BY <1>7, RejectionPreserves DEF ResolveConflict
<1>8. ASSUME NEW c \in Callbacks, ResolveUnknown(c) PROVE ApprovalInv'
  BY <1>8, RejectionPreserves DEF ResolveUnknown
<1> QED
  BY <1>1, <1>2, <1>3, <1>4, <1>5, <1>6, <1>7, <1>8,
     RegisterPreserves, SentPreserves, FinishWaitPreserves, ResolvePreserves
  DEF ApprovalNext

\* The approval store's records, verdicts and answers agree in every reachable state.
THEOREM ApprovalInvariance == ApprovalSpec => []ApprovalInv
<1>1. ApprovalInv /\ UNCHANGED approvalVars => ApprovalInv'
  BY DEF approvalVars, ApprovalInv, ApprovalTypeOK, EntriesAreOpen, OpenHaveEntries, Open, NewIsUnresolved,
         ClaimsMatch, VerdictsAreClaimed, ResolvedOnce, ResultsMatch
<1> QED
  BY <1>1, ApprovalInitEstablishes, ApprovalNextPreserves, PTL DEF ApprovalSpec

-----------------------------------------------------------------------------

\* The variables of Store and of its waits keep their types (approval.go).
THEOREM ApprovalsTypeCorrect == ApprovalSpec => []ApprovalTypeOK
  BY ApprovalInvariance, PTL DEF ApprovalInv

\* A verdict answered with 204 is the one its Wait returns, whatever ended the wait.
THEOREM AcceptedVerdictsWin == ApprovalSpec => []AcceptedVerdictWins
<1>1. ApprovalInv => AcceptedVerdictWins
  BY NoneIsNoValue
     DEF ApprovalInv, ApprovalTypeOK, ClaimsMatch, ResultsMatch, AcceptedVerdictWins
<1> QED
  BY <1>1, ApprovalInvariance, PTL

\* No request is resolved by two callbacks.
THEOREM ResolutionIsUnique == ApprovalSpec => []ResolvedOnce
  BY ApprovalInvariance, PTL DEF ApprovalInv

\* Every approval returned was given by a callback for that very request.
THEOREM FailsClosed == ApprovalSpec => []AllowedByOperator
<1>1. ApprovalInv => AllowedByOperator
  <2> SUFFICES ASSUME ApprovalInv, NEW w \in Waits, result[w] = "allow"
               PROVE  \E c \in Callbacks :
                         claim[c] = w /\ answer[c] = "204" /\ Verdict[c] = "allow"
    BY DEF AllowedByOperator
  <2>1. verdict[w] = "allow" /\ verdict[w] # Nothing
    BY NoneIsNoValue DEF ApprovalInv, ResultsMatch
  <2>2. PICK c \in Callbacks : claim[c] = w
    BY <2>1 DEF ApprovalInv, VerdictsAreClaimed
  <2>3. claim[c] # Nothing
    BY <2>2, NoneIsNoValue
  <2> QED
    BY <2>1, <2>2, <2>3 DEF ApprovalInv, ClaimsMatch
<1> QED
  BY <1>1, ApprovalInvariance, PTL

\* The map holds exactly the requests that have not returned.
THEOREM MapIsExact == ApprovalSpec => []WaitingIsExact
<1>1. ApprovalInv => WaitingIsExact
  BY ApprovalAssumption
     DEF ApprovalInv, EntriesAreOpen, OpenHaveEntries, Open, WaitingIsExact
<1> QED
  BY <1>1, ApprovalInvariance, PTL

\* What Wait answers as a whole, for any waits, approval IDs and callbacks.
THEOREM VerdictsAreKept == ApprovalSpec => []VerdictsAreHonoured
  BY AcceptedVerdictsWin, FailsClosed, PTL DEF VerdictsAreHonoured

-----------------------------------------------------------------------------
(* The processes of commands.                                                 *)

Groups ==
    [leader : {"none", "alive", "zombie", "reaped"}, anchor : {"none", "alive", "zombie", "reaped"},
     child : {"none", "alive", "gone"}, pipe : BOOLEAN, grouped : BOOLEAN, reused : BOOLEAN, foul : BOOLEAN]

Trees == [force : BOOLEAN, input : BOOLEAN, exited : BOOLEAN, failed : BOOLEAN]

ShellTypeOK ==
    /\ call \in [Commands -> {"idle", "running", "killed", "closing", "releasing", "returned",
                              "released", "gaveUp"}]
    /\ waiter \in [Commands -> {"none", "waiting", "exited", "closing", "done"}]
    /\ processes \in [Commands -> Groups]
    /\ tree \in [Commands -> Trees]
    /\ cleanup \in [at : {"no", "terminating", "grace", "killing", "reaping", "clean", "failed"},
                    todo : SUBSET Commands, all : SUBSET Commands, failed : BOOLEAN]
    /\ active \subseteq Commands /\ closed \in BOOLEAN /\ overreach \in BOOLEAN

\* The number of c's group goes to strangers when nobody of the group is left, and the anchor,
\* which nobody else killed, stays until SIGKILL was sent or its input closed. The input is
\* closed after SIGKILL, or when the survivors are released.
NumberIsKept(c) ==
    /\ processes[c].reused => processes[c].anchor = "reaped" /\ Members(processes[c]) = {}
    /\ processes[c].anchor \in {"zombie", "reaped"} =>
          processes[c].foul \/ tree[c].force \/ ~tree[c].input
    /\ waiter[c] # "none" /\ ~tree[c].input =>
          processes[c].foul \/ tree[c].force \/ call[c] \in {"releasing", "released"}

\* After a SIGKILL, recorded or not, nobody is left in the group of c.
ForceEmpties(c) ==
    \/ tree[c].force \/ waiter[c] \in {"closing", "done"}
    \/ call[c] \in {"killed", "closing", "gaveUp", "returned"}
    => GroupIsEmpty(c)

\* The stages a command, its waiter and its processes may be in together.
StagesFit(c) ==
    /\ waiter[c] = "none" <=> processes[c].anchor = "none"
    /\ waiter[c] = "none" =>
          processes[c] = NoProcesses /\ tree[c] = NoTree /\ call[c] \in {"idle", "returned"}
    /\ waiter[c] # "none" => call[c] # "idle" /\ processes[c].leader # "none"
    /\ c \in Supervised => waiter[c] # "exited" /\ call[c] # "closing"
    /\ c \notin Supervised => waiter[c] \notin {"closing", "done"}
    /\ c \in Supervised \cup ReadOnly => call[c] \notin {"releasing", "released"}
    /\ c \in active <=> c \in Supervised /\ waiter[c] \in {"waiting", "closing"}

\* A cleanup has to do with every command that was active when it closed the supervisor.
CleanupFits ==
    /\ closed <=> cleanup.at # "no"
    /\ cleanup.at # "no" => active \subseteq cleanup.all
    /\ cleanup.todo \subseteq cleanup.all /\ cleanup.all \subseteq Supervised
    /\ \A c \in cleanup.all : waiter[c] # "none"
    /\ cleanup.at = "clean" => \A c \in cleanup.all : waiter[c] = "done"

GroupFollows(c) == NumberIsKept(c) /\ ForceEmpties(c) /\ StagesFit(c)

IInv ==
    /\ ShellTypeOK
    /\ \A c \in Commands : GroupFollows(c)
    /\ CleanupFits /\ ~overreach

-----------------------------------------------------------------------------

USE ShellAssumption DEF Groups, Trees, NoProcesses, NoTree, InTable, GroupIsEmpty, Dead


\* Who is in a group: nobody, when neither the leader nor the anchor holds its number and no
\* descendant of the group lives.
LEMMA MembersOf ==
    ASSUME NEW p \in Groups
    PROVE  Members(p) = {} <=> /\ p.leader \notin {"alive", "zombie"}
                               /\ p.anchor \notin {"alive", "zombie"}
                               /\ ~(p.child = "alive" /\ p.grouped)
  BY DEF Members

LEMMA InitEstablishes == ShellInit => IInv
<1> SUFFICES ASSUME ShellInit PROVE IInv
  OBVIOUS
<1>1. ShellTypeOK
  BY DEF ShellInit, ShellTypeOK
<1>2. ASSUME NEW c \in Commands
      PROVE  GroupFollows(c)
  <2>1. /\ processes[c] = NoProcesses /\ tree[c] = NoTree
        /\ call[c] = "idle" /\ waiter[c] = "none" /\ active = {}
    BY DEF ShellInit
  <2>2. /\ processes[c].anchor = "none" /\ ~processes[c].reused
        /\ processes[c].leader = "none" /\ processes[c].child = "none" /\ ~tree[c].force
    BY <2>1
  <2> QED
    BY <2>1, <2>2 DEF GroupFollows, NumberIsKept, ForceEmpties, StagesFit
<1>3. CleanupFits /\ ~overreach
  BY DEF ShellInit, CleanupFits
<1> QED
  BY <1>1, <1>2, <1>3 DEF IInv

-----------------------------------------------------------------------------
\* One command at a time: the others, and the cleanup, are as they were.

Rest(d) ==
    /\ call'[d] = call[d] /\ waiter'[d] = waiter[d]
    /\ processes'[d] = processes[d] /\ tree'[d] = tree[d]
    /\ d \in active' <=> d \in active

LEMMA RestFollows ==
    ASSUME IInv, NEW d \in Commands, Rest(d)
    PROVE  GroupFollows(d)'
<1>1. GroupFollows(d)
  BY DEF IInv
<1> QED
  BY <1>1 DEF Rest, GroupFollows, NumberIsKept, ForceEmpties, StagesFit

LEMMA OneFollows ==
    ASSUME IInv, NEW c \in Commands, ShellTypeOK', GroupFollows(c)', CleanupFits', ~overreach',
           \A d \in Commands \ {c} : Rest(d)
    PROVE  IInv'
<1>1. ASSUME NEW d \in Commands
      PROVE  GroupFollows(d)'
  BY RestFollows, d = c \/ Rest(d)
<1> QED
  BY <1>1 DEF IInv

\* What processes do by themselves, of which only the leader's end, a descendant and the
\* anchor are told apart.
LEMMA ProcessesFollow ==
    ASSUME IInv, NEW c \in Commands, NEW p \in Groups, ChangeProcesses(c, p),
           waiter[c] # "none", p.anchor # "none", p.leader # "none",
           GroupIsEmpty(c) => p.leader # "alive" /\ ~(p.child = "alive" /\ p.grouped),
           p.reused => p.anchor = "reaped" /\ Members(p) = {},
           p.anchor \in {"zombie", "reaped"} => p.foul \/ tree[c].force \/ ~tree[c].input,
           processes[c].foul => p.foul
    PROVE  IInv'
<1>1. /\ processes' = [processes EXCEPT ![c] = p]
      /\ UNCHANGED <<call, waiter, tree, cleanup, active, closed, overreach>>
  BY DEF ChangeProcesses
<1>2. ShellTypeOK' /\ processes'[c] = p
  BY <1>1 DEF IInv, ShellTypeOK
<1>3. CleanupFits' /\ ~overreach'
  BY <1>1 DEF IInv, CleanupFits
<1>4. \A d \in Commands \ {c} : Rest(d)
  BY <1>1 DEF Rest, IInv, ShellTypeOK
<1>5. GroupFollows(c)
  BY DEF IInv
<1>6. NumberIsKept(c)'
  BY <1>1, <1>2, <1>5 DEF GroupFollows, NumberIsKept
<1>7. ForceEmpties(c)'
  BY <1>1, <1>2, <1>5 DEF GroupFollows, ForceEmpties
<1>8. StagesFit(c)'
  BY <1>1, <1>2, <1>5 DEF GroupFollows, StagesFit
<1> QED
  BY <1>2, <1>3, <1>4, <1>6, <1>7, <1>8, OneFollows DEF GroupFollows

LEMMA TypedAt ==
    ASSUME IInv, NEW c \in Commands
    PROVE  /\ processes[c] \in Groups /\ tree[c] \in Trees /\ GroupFollows(c)
           /\ call[c] \in {"idle", "running", "killed", "closing", "releasing", "returned",
                           "released", "gaveUp"}
           /\ waiter[c] \in {"none", "waiting", "exited", "closing", "done"}
           /\ waiter[c] = "none" => processes[c] = NoProcesses
  BY DEF IInv, ShellTypeOK, GroupFollows, StagesFit

LEMMA ForkPreserves ==
    ASSUME IInv, NEW c \in Commands, NEW pipe \in BOOLEAN, NEW grouped \in BOOLEAN, Fork(c, pipe, grouped)
    PROVE  IInv'
<1> DEFINE p == [processes[c] EXCEPT !.child = "alive", !.pipe = pipe, !.grouped = grouped]
<1>1. ChangeProcesses(c, p) /\ processes[c].leader = "alive"
  BY DEF Fork
<1>2. processes[c] \in Groups /\ GroupFollows(c)
  BY TypedAt
<1>3. /\ p \in Groups /\ p.leader = "alive" /\ p.anchor = processes[c].anchor
      /\ p.reused = processes[c].reused /\ p.foul = processes[c].foul
  BY <1>1, <1>2
<1>4. waiter[c] # "none" /\ processes[c].anchor # "none"
  BY <1>1, TypedAt DEF GroupFollows, StagesFit
<1>5. ~processes[c].reused
  BY <1>1, <1>2, MembersOf DEF GroupFollows, NumberIsKept
<1>6. processes[c].anchor \in {"zombie", "reaped"} => processes[c].foul \/ tree[c].force \/ ~tree[c].input
  BY <1>2 DEF GroupFollows, NumberIsKept
<1>7. ~GroupIsEmpty(c)
  BY <1>1
<1> HIDE DEF p
<1> QED
  BY <1>1, <1>3, <1>4, <1>5, <1>6, <1>7, ProcessesFollow

\* The processes of c as they are, for the steps that change one of them.
LEMMA GroupNow ==
    ASSUME IInv, NEW c \in Commands, processes[c] # NoProcesses
    PROVE  /\ waiter[c] # "none" /\ processes[c].anchor # "none" /\ processes[c].leader # "none"
           /\ processes[c] \in Groups
           /\ processes[c].reused => processes[c].anchor = "reaped" /\ Members(processes[c]) = {}
           /\ processes[c].anchor \in {"zombie", "reaped"} =>
                 processes[c].foul \/ tree[c].force \/ ~tree[c].input
  BY TypedAt DEF GroupFollows, StagesFit, NumberIsKept

LEMMA LeaderExitsPreserves ==
    ASSUME IInv, NEW c \in Commands, LeaderExits(c)
    PROVE  IInv'
<1> DEFINE p == [processes[c] EXCEPT !.leader = "zombie"]
<1>1. ChangeProcesses(c, p) /\ processes[c].leader = "alive"
  BY DEF LeaderExits
<1>2. processes[c] # NoProcesses
  BY <1>1
<1>3. /\ p \in Groups /\ p.leader = "zombie" /\ p.anchor = processes[c].anchor
      /\ p.reused = processes[c].reused /\ p.foul = processes[c].foul
      /\ p.child = processes[c].child /\ p.grouped = processes[c].grouped
  BY TypedAt
<1>4. ~processes[c].reused
  BY <1>1, <1>2, GroupNow, MembersOf
<1> HIDE DEF p
<1> QED
  BY <1>1, <1>2, <1>3, <1>4, GroupNow, ProcessesFollow

LEMMA ChildExitsPreserves ==
    ASSUME IInv, NEW c \in Commands, ChildExits(c)
    PROVE  IInv'
<1> DEFINE p == [processes[c] EXCEPT !.child = "gone"]
<1>1. ChangeProcesses(c, p) /\ processes[c].child = "alive"
  BY DEF ChildExits
<1>2. processes[c] # NoProcesses
  BY <1>1
<1>3. /\ p \in Groups /\ p.leader = processes[c].leader /\ p.anchor = processes[c].anchor
      /\ p.reused = processes[c].reused /\ p.foul = processes[c].foul /\ p.child = "gone"
  BY TypedAt
<1>4. p.reused => Members(p) = {}
  BY <1>2, <1>3, GroupNow, MembersOf
<1> HIDE DEF p
<1> QED
  BY <1>1, <1>2, <1>3, <1>4, GroupNow, ProcessesFollow

\* SIGKILL to a group leaves its members dead and the rest as it is.
LEMMA KilledGroup ==
    ASSUME NEW p \in Groups
    PROVE  /\ Killed(p) \in Groups
           /\ Killed(p).leader = Dead(p.leader) /\ Killed(p).anchor = Dead(p.anchor)
           /\ Killed(p).child = "alive" => ~p.grouped /\ p.child = "alive"
           /\ Killed(p).grouped = p.grouped /\ Killed(p).reused = p.reused /\ Killed(p).foul = p.foul
           /\ Killed(p).pipe = p.pipe
  BY DEF Killed

LEMMA KillsOwnGroupPreserves ==
    ASSUME IInv, NEW c \in Commands, KillsOwnGroup(c)
    PROVE  IInv'
<1> DEFINE k == Killed(processes[c])
           p == [k EXCEPT !.foul = TRUE]
<1>1. ChangeProcesses(c, p) /\ processes[c].leader = "alive"
  BY DEF KillsOwnGroup
<1>2. processes[c] # NoProcesses /\ processes[c] \in Groups
  BY <1>1, TypedAt
<1>3. /\ k \in Groups /\ k.leader = "zombie" /\ k.anchor = Dead(processes[c].anchor)
      /\ k.reused = processes[c].reused
      /\ k.child = "alive" => ~k.grouped
  BY <1>1, <1>2, KilledGroup
<1> HIDE DEF k
<1>4. p \in Groups /\ p.leader = k.leader /\ p.anchor = k.anchor /\ p.child = k.child
  BY <1>3
<1>5. p.foul
  BY <1>3
<1>6. p.reused => k.reused
  BY <1>3
<1>7. p.grouped => k.grouped
  BY <1>3
<1>8. ~processes[c].reused
  BY <1>1, <1>2, GroupNow, MembersOf
<1>9. waiter[c] # "none" /\ p.anchor # "none"
  BY <1>2, <1>3, <1>4, GroupNow
<1>10. p.leader = "zombie" /\ ~(p.child = "alive" /\ p.grouped)
  BY <1>3, <1>4, <1>7
<1>11. ~k.reused
  BY <1>3, <1>8
<1> HIDE DEF p
<1> QED
  BY <1>1, <1>4, <1>5, <1>6, <1>9, <1>10, <1>11, ProcessesFollow

LEMMA AnchorIsKilledPreserves ==
    ASSUME IInv, NEW c \in Commands, AnchorIsKilled(c)
    PROVE  IInv'
<1> DEFINE p == [processes[c] EXCEPT !.anchor = "zombie", !.foul = TRUE]
<1>1. ChangeProcesses(c, p) /\ processes[c].anchor = "alive"
  BY DEF AnchorIsKilled
<1>2. processes[c] # NoProcesses
  BY <1>1
<1>3. processes[c] \in Groups
  BY TypedAt
<1>4. p \in Groups
  BY <1>3
<1>5. p.foul = TRUE
  BY <1>3
<1>6. /\ p \in Groups /\ p.leader = processes[c].leader /\ p.anchor = "zombie"
      /\ p.reused = processes[c].reused /\ p.foul = TRUE
      /\ p.child = processes[c].child /\ p.grouped = processes[c].grouped
  BY <1>3, <1>4, <1>5
<1>7. ~processes[c].reused
  BY <1>1, <1>2, GroupNow
<1> HIDE DEF p
<1> QED
  BY <1>1, <1>2, <1>6, <1>7, GroupNow, ProcessesFollow

LEMMA AnchorReadsEOFPreserves ==
    ASSUME IInv, NEW c \in Commands, AnchorReadsEOF(c)
    PROVE  IInv'
<1> DEFINE p == [processes[c] EXCEPT !.anchor = "zombie"]
<1>1. ChangeProcesses(c, p) /\ processes[c].anchor = "alive" /\ ~tree[c].input
  BY DEF AnchorReadsEOF
<1>2. processes[c] # NoProcesses
  BY <1>1
<1>3. /\ p \in Groups /\ p.leader = processes[c].leader /\ p.anchor = "zombie"
      /\ p.reused = processes[c].reused /\ p.foul = processes[c].foul
      /\ p.child = processes[c].child /\ p.grouped = processes[c].grouped
  BY TypedAt
<1>4. ~processes[c].reused
  BY <1>1, <1>2, GroupNow
<1> HIDE DEF p
<1> QED
  BY <1>1, <1>2, <1>3, <1>4, GroupNow, ProcessesFollow

LEMMA AnchorIsReapedPreserves ==
    ASSUME IInv, NEW c \in Commands, AnchorIsReaped(c)
    PROVE  IInv'
<1> DEFINE p == [processes[c] EXCEPT !.anchor = "reaped"]
<1>1. ChangeProcesses(c, p) /\ processes[c].anchor = "zombie"
  BY DEF AnchorIsReaped
<1>2. processes[c] # NoProcesses
  BY <1>1
<1>3. /\ p \in Groups /\ p.leader = processes[c].leader /\ p.anchor = "reaped"
      /\ p.reused = processes[c].reused /\ p.foul = processes[c].foul
      /\ p.child = processes[c].child /\ p.grouped = processes[c].grouped
  BY TypedAt
<1>4. ~processes[c].reused
  BY <1>1, <1>2, GroupNow
<1> HIDE DEF p
<1> QED
  BY <1>1, <1>2, <1>3, <1>4, GroupNow, ProcessesFollow

LEMMA NumberIsReusedPreserves ==
    ASSUME IInv, NEW c \in Commands, NumberIsReused(c)
    PROVE  IInv'
<1> DEFINE p == [processes[c] EXCEPT !.reused = TRUE]
<1>1. ChangeProcesses(c, p) /\ processes[c].anchor = "reaped" /\ Members(processes[c]) = {}
  BY DEF NumberIsReused
<1>2. processes[c] # NoProcesses
  BY <1>1
<1>3. processes[c] \in Groups
  BY TypedAt
<1>4. p \in Groups
  BY <1>3
<1>5. p.reused = TRUE
  BY <1>3
<1>6. /\ p \in Groups /\ p.leader = processes[c].leader /\ p.anchor = "reaped"
      /\ p.foul = processes[c].foul /\ p.reused = TRUE
      /\ p.child = processes[c].child /\ p.grouped = processes[c].grouped
  BY <1>1, <1>3, <1>4, <1>5
<1>7. Members(p) = {}
  BY <1>1, <1>4, <1>6, TypedAt, MembersOf
<1> HIDE DEF p
<1> QED
  BY <1>1, <1>2, <1>6, <1>7, GroupNow, ProcessesFollow

LEMMA LeaderIsReapedPreserves ==
    ASSUME IInv, NEW c \in Commands, LeaderIsReaped(c)
    PROVE  IInv'
<1> DEFINE p == [processes[c] EXCEPT !.leader = "reaped"]
<1>1. ChangeProcesses(c, p) /\ processes[c].leader = "zombie"
  BY DEF LeaderIsReaped
<1>2. processes[c] # NoProcesses
  BY <1>1
<1>3. /\ p \in Groups /\ p.leader = "reaped" /\ p.anchor = processes[c].anchor
      /\ p.reused = processes[c].reused /\ p.foul = processes[c].foul
      /\ p.child = processes[c].child /\ p.grouped = processes[c].grouped
  BY TypedAt
<1>4. ~processes[c].reused
  BY <1>1, <1>2, GroupNow, MembersOf
<1> HIDE DEF p
<1> QED
  BY <1>1, <1>2, <1>3, <1>4, GroupNow, ProcessesFollow

-----------------------------------------------------------------------------
\* Signals.

Empty(p) == p.leader # "alive" /\ ~(p.child = "alive" /\ p.grouped)

\* A signal changes no number and closes nothing; an anchor dies of SIGKILL only, of which the
\* tree then knows; and after a SIGKILL, this one or an earlier one, nobody of the group lives.
SignalLeaves(p, t, force, s) ==
    /\ s.p \in Groups /\ s.t \in Trees
    /\ s.p.foul <=> p.foul
    /\ s.p.reused <=> p.reused
    /\ s.t.input <=> t.input
    /\ s.p.leader = p.leader \/ s.p.leader = Dead(p.leader)
    /\ s.p.anchor = p.anchor \/ (s.p.anchor = Dead(p.anchor) /\ s.t.force)
    /\ Members(p) = {} => s.p = p
    /\ t.force => s.t.force
    /\ s.t.force => Empty(s.p) \/ (t.force /\ s.p = p)
    /\ Empty(p) => Empty(s.p)
    /\ force => Empty(s.p) \/ (t.force /\ s.p = p)
    /\ force /\ p.anchor \in {"alive", "zombie"} => s.t.force
    /\ s.strangers => ~t.force /\ p.reused

LEMMA SignalledGroup ==
    ASSUME NEW p \in Groups, NEW t \in Trees, NEW force \in BOOLEAN, NEW obeys \in BOOLEAN
    PROVE  SignalLeaves(p, t, force, SendSignal(p, t, force, obeys))
<1> DEFINE exited == t.exited \/ p.anchor = "reaped"
           arrives == Members(p) # {} \/ p.reused
           after == IF Members(p) = {} THEN p
                    ELSE IF force THEN Killed(p)
                    ELSE IF obeys THEN [Killed(p) EXCEPT !.anchor = p.anchor] ELSE p
           told == [t EXCEPT !.exited = exited, !.force = force /\ arrives]
           s == SendSignal(p, t, force, obeys)
<1>1. CASE t.force
  <2>1. s.p = p /\ s.t = t /\ s.strangers = FALSE
    BY <1>1 DEF SendSignal, Signalled
  <2> QED
    BY <1>1, <2>1, MembersOf DEF SignalLeaves
<1>2. CASE ~t.force
  <2>1. s.p = after /\ s.t = told
    BY <1>2 DEF SendSignal, Signalled
  <2>2. s.strangers = (Members(p) = {} /\ p.reused)
    BY <1>2 DEF SendSignal, Signalled
  <2>3. told \in Trees
    OBVIOUS
  <2>4. told.input <=> t.input
    OBVIOUS
  <2>5. told.force <=> force /\ arrives
    OBVIOUS
  <2>6. CASE Members(p) = {}
    <3>1. after = p /\ Empty(p)
      BY <2>6, MembersOf DEF Empty
    <3> QED
      BY <1>2, <2>1, <2>2, <2>3, <2>4, <2>5, <2>6, <3>1, MembersOf DEF SignalLeaves
  <2>7. CASE Members(p) # {} /\ force
    <3>1. after = Killed(p)
      BY <2>7
    <3>2. Empty(after)
      BY <3>1, KilledGroup DEF Empty
    <3> QED
      BY <1>2, <2>1, <2>2, <2>3, <2>4, <2>5, <2>7, <3>1, <3>2, KilledGroup DEF SignalLeaves
  <2>8. CASE Members(p) # {} /\ ~force /\ obeys
    <3> DEFINE k == Killed(p)
    <3>1. after = [k EXCEPT !.anchor = p.anchor]
      BY <2>8
    <3>2. /\ k \in Groups /\ k.leader = Dead(p.leader)
          /\ k.child = "alive" => ~p.grouped
          /\ k.grouped <=> p.grouped
          /\ k.reused <=> p.reused
          /\ k.foul <=> p.foul
      BY KilledGroup
    <3> HIDE DEF k
    <3>3. /\ after \in Groups /\ after.leader = k.leader /\ after.anchor = p.anchor
          /\ after.child = k.child
          /\ after.grouped <=> k.grouped
          /\ after.reused <=> k.reused
          /\ after.foul <=> k.foul
      BY <3>1, <3>2
    <3>4. Empty(after)
      BY <3>2, <3>3 DEF Empty
    <3> HIDE DEF after, told
    <3> QED
      BY <1>2, <2>1, <2>2, <2>3, <2>4, <2>5, <2>8, <3>2, <3>3, <3>4 DEF SignalLeaves
  <2>9. CASE Members(p) # {} /\ ~force /\ ~obeys
    <3>1. after = p
      BY <2>9
    <3> QED
      BY <1>2, <2>1, <2>2, <2>3, <2>4, <2>5, <2>9, <3>1 DEF SignalLeaves
  <2> QED
    BY <2>6, <2>7, <2>8, <2>9
<1> QED
  BY <1>1, <1>2

\* A signal to the tree of a command that was not released keeps what NumberIsKept says of it,
\* hits no strangers, and with SIGKILL nobody is left.
AfterSignal(c, force) ==
    /\ processes' \in [Commands -> Groups] /\ tree' \in [Commands -> Trees] /\ ~overreach'
    /\ \A d \in Commands \ {c} : processes'[d] = processes[d] /\ tree'[d] = tree[d]
    /\ processes'[c].leader # "none" /\ processes'[c].anchor # "none"
    /\ processes'[c].reused => processes'[c].anchor = "reaped" /\ Members(processes'[c]) = {}
    /\ processes'[c].anchor \in {"zombie", "reaped"} =>
          processes'[c].foul \/ tree'[c].force \/ ~tree'[c].input
    /\ ~tree'[c].input => processes'[c].foul \/ tree'[c].force
    /\ tree'[c].force \/ force \/ GroupIsEmpty(c) => GroupIsEmpty(c)'

LEMMA SignalFollows ==
    ASSUME IInv, NEW c \in Commands, NEW force \in BOOLEAN, NEW obeys \in BOOLEAN, NEW close \in BOOLEAN,
           Signal(c, force, obeys, close), close => force,
           waiter[c] # "none", call[c] \notin {"releasing", "released"}
    PROVE  AfterSignal(c, force)
<1> DEFINE p == processes[c]
           t == tree[c]
           s == SendSignal(p, t, force, obeys)
           told == IF close THEN [s.t EXCEPT !.input = FALSE] ELSE s.t
<1>1. /\ processes' = [processes EXCEPT ![c] = s.p]
      /\ tree' = [tree EXCEPT ![c] = told]
      /\ overreach' = (overreach \/ (s.strangers /\ ~p.foul))
  BY DEF Signal
<1>2. /\ p \in Groups /\ t \in Trees
      /\ processes \in [Commands -> Groups] /\ tree \in [Commands -> Trees] /\ ~overreach
  BY TypedAt DEF IInv, ShellTypeOK
<1>3. /\ p.leader # "none" /\ p.anchor # "none"
      /\ p.reused => p.anchor = "reaped" /\ Members(p) = {}
      /\ p.anchor \in {"zombie", "reaped"} => p.foul \/ t.force \/ ~t.input
      /\ ~t.input => p.foul \/ t.force
      /\ t.force => Empty(p)
  BY TypedAt DEF GroupFollows, NumberIsKept, ForceEmpties, StagesFit, Empty
<1>4. SignalLeaves(p, t, force, s)
  BY <1>2, SignalledGroup
<1> HIDE DEF s
<1>5. /\ s.p \in Groups /\ told \in Trees
      /\ told.force <=> s.t.force
      /\ told.input <=> s.t.input /\ ~close
  BY <1>4 DEF SignalLeaves
<1> HIDE DEF told
<1>6. /\ processes'[c] = s.p /\ tree'[c] = told
      /\ processes' \in [Commands -> Groups] /\ tree' \in [Commands -> Trees]
      /\ \A d \in Commands \ {c} : processes'[d] = processes[d] /\ tree'[d] = tree[d]
  BY <1>1, <1>2, <1>5
<1>7. ~overreach'
  BY <1>1, <1>2, <1>3, <1>4 DEF SignalLeaves
<1>8. s.p.leader # "none" /\ s.p.anchor # "none"
  BY <1>3, <1>4 DEF SignalLeaves
<1>9. s.p.reused => s.p.anchor = "reaped" /\ Members(s.p) = {}
  BY <1>3, <1>4 DEF SignalLeaves
<1>10. s.p.anchor \in {"zombie", "reaped"} => s.p.foul \/ s.t.force \/ ~s.t.input
  BY <1>2, <1>3, <1>4 DEF SignalLeaves
<1>11. force => s.p.foul \/ s.t.force
  BY <1>2, <1>3, <1>4 DEF SignalLeaves
<1>12. ~told.input => s.p.foul \/ s.t.force
  BY <1>3, <1>4, <1>5, <1>11 DEF SignalLeaves
<1>13. s.t.force \/ force \/ Empty(p) => Empty(s.p)
  BY <1>3, <1>4 DEF SignalLeaves
<1>14. (GroupIsEmpty(c) <=> Empty(p)) /\ (GroupIsEmpty(c)' <=> Empty(s.p))
  BY <1>6 DEF Empty
<1> QED
  BY <1>5, <1>6, <1>7, <1>8, <1>9, <1>10, <1>12, <1>13, <1>14 DEF AfterSignal

-----------------------------------------------------------------------------
\* The commands.

\* A step of c in which a signal is sent, after which c is where its stages and its waiter say.
LEMMA SignalPreserves ==
    ASSUME IInv, NEW c \in Commands, NEW force \in BOOLEAN, NEW obeys \in BOOLEAN, NEW close \in BOOLEAN,
           Signal(c, force, obeys, close), close => force,
           waiter[c] # "none", call[c] \notin {"releasing", "released"},
           NEW k \in {"running", "killed", "closing", "returned", "gaveUp"},
           NEW w \in {"waiting", "exited", "closing", "done"},
           call' = [call EXCEPT ![c] = k], waiter' = [waiter EXCEPT ![c] = w],
           k # call[c] \/ w # waiter[c] => force,
           c \in Supervised => w # "exited" /\ k # "closing",
           c \notin Supervised => w \notin {"closing", "done"},
           w \in {"waiting", "closing"} <=> waiter[c] \in {"waiting", "closing"},
           UNCHANGED <<active, closed>>,
           cleanup' \in [at : {"no", "terminating", "grace", "killing", "reaping", "clean", "failed"},
                         todo : SUBSET Commands, all : SUBSET Commands, failed : BOOLEAN],
           cleanup'.at = cleanup.at, cleanup'.all = cleanup.all, cleanup'.todo \subseteq cleanup.todo,
           waiter[c] = "done" => w = "done"
    PROVE  IInv'
<1>1. AfterSignal(c, force)
  BY SignalFollows
<1>2. /\ call'[c] = k /\ waiter'[c] = w
      /\ \A d \in Commands \ {c} : call'[d] = call[d] /\ waiter'[d] = waiter[d]
  BY DEF IInv, ShellTypeOK
<1>3. overreach' \in BOOLEAN
  BY DEF Signal
<1>4. ShellTypeOK'
  BY <1>1, <1>3 DEF IInv, ShellTypeOK, AfterSignal
<1>5. NumberIsKept(c)'
  BY <1>1 DEF NumberIsKept, AfterSignal
<1>6. ForceEmpties(c)'
  <2>1. GroupFollows(c)
    BY TypedAt
  <2> QED
    BY <1>1, <1>2, <2>1 DEF GroupFollows, ForceEmpties, AfterSignal
<1>7. StagesFit(c)'
  BY <1>1, <1>2, TypedAt DEF GroupFollows, StagesFit, AfterSignal
<1>8. CleanupFits'
  BY <1>2 DEF IInv, CleanupFits
<1>9. \A d \in Commands \ {c} : Rest(d)
  BY <1>1, <1>2 DEF Rest, AfterSignal
<1> QED
  BY <1>1, <1>4, <1>5, <1>6, <1>7, <1>8, <1>9, OneFollows DEF GroupFollows, AfterSignal

LEMMA WaiterClosesPreserves ==
    ASSUME IInv, NEW c \in Commands, WaiterCloses(c)
    PROVE  IInv'
<1>1. /\ c \in Supervised /\ waiter[c] = "waiting" /\ waiter' = [waiter EXCEPT ![c] = "closing"]
      /\ Signal(c, TRUE, FALSE, TRUE) /\ UNCHANGED <<call, cleanup, active, closed>>
  BY DEF WaiterCloses, WaitEndsFor
<1>2. /\ call[c] \in {"running", "killed", "closing", "returned", "gaveUp"}
      /\ call[c] \notin {"releasing", "released", "closing"}
  BY <1>1, TypedAt DEF GroupFollows, StagesFit
<1>3. call' = [call EXCEPT ![c] = call[c]]
  BY <1>1 DEF IInv, ShellTypeOK
<1>4. cleanup' \in [at : {"no", "terminating", "grace", "killing", "reaping", "clean", "failed"},
                    todo : SUBSET Commands, all : SUBSET Commands, failed : BOOLEAN]
  BY <1>1 DEF IInv, ShellTypeOK
<1> QED
  BY <1>1, <1>2, <1>3, <1>4, SignalPreserves

LEMMA CancelCommandPreserves ==
    ASSUME IInv, NEW c \in Commands, CancelCommand(c)
    PROVE  IInv'
<1>1. /\ call[c] = "running" /\ call' = [call EXCEPT ![c] = "killed"] /\ waiter[c] # "closing"
      /\ Signal(c, TRUE, FALSE, FALSE) /\ UNCHANGED <<waiter, cleanup, active, closed>>
  BY DEF CancelCommand, Go
<1>2. /\ waiter[c] \in {"waiting", "exited", "closing", "done"}
      /\ c \in Supervised => waiter[c] # "exited"
      /\ c \notin Supervised => waiter[c] \notin {"closing", "done"}
  BY <1>1, TypedAt DEF GroupFollows, StagesFit
<1>3. waiter' = [waiter EXCEPT ![c] = waiter[c]]
  BY <1>1 DEF IInv, ShellTypeOK
<1>4. cleanup' \in [at : {"no", "terminating", "grace", "killing", "reaping", "clean", "failed"},
                    todo : SUBSET Commands, all : SUBSET Commands, failed : BOOLEAN]
  BY <1>1 DEF IInv, ShellTypeOK
<1> QED
  BY <1>1, <1>2, <1>3, <1>4, SignalPreserves

LEMMA SignalNextPreserves ==
    ASSUME IInv, NEW c \in Commands, NEW obeys \in BOOLEAN, SignalNext(c, obeys)
    PROVE  IInv'
<1> DEFINE force == cleanup.at = "killing"
<1>1. /\ c \in cleanup.todo /\ Signal(c, force, obeys, FALSE)
      /\ cleanup' = [cleanup EXCEPT !.todo = @ \ {c}, !.failed = @ \/ SignalFails(c, force)]
      /\ UNCHANGED <<call, waiter, active, closed>>
  BY DEF SignalNext
<1>2. /\ c \in Supervised /\ waiter[c] \in {"waiting", "closing", "done"}
      /\ call[c] \in {"running", "killed", "returned", "gaveUp"}
  BY <1>1, TypedAt DEF IInv, CleanupFits, GroupFollows, StagesFit
<1>3. waiter' = [waiter EXCEPT ![c] = waiter[c]] /\ call' = [call EXCEPT ![c] = call[c]]
  BY <1>1 DEF IInv, ShellTypeOK
<1>4. cleanup \in [at : {"no", "terminating", "grace", "killing", "reaping", "clean", "failed"},
                   todo : SUBSET Commands, all : SUBSET Commands, failed : BOOLEAN]
  BY DEF IInv, ShellTypeOK
<1>5. cleanup' \in [at : {"no", "terminating", "grace", "killing", "reaping", "clean", "failed"},
                    todo : SUBSET Commands, all : SUBSET Commands, failed : BOOLEAN]
  BY <1>1, <1>4
<1>6. cleanup'.at = cleanup.at /\ cleanup'.all = cleanup.all /\ cleanup'.todo \subseteq cleanup.todo
  BY <1>1, <1>4
<1>7. force \in BOOLEAN
  OBVIOUS
<1>8. Signal(c, force, obeys, FALSE) /\ UNCHANGED <<active, closed>>
  BY <1>1
<1> DEFINE k == call[c]
           w == waiter[c]
<1>9. /\ k \in {"running", "killed", "closing", "returned", "gaveUp"} /\ k # "closing"
      /\ w \in {"waiting", "exited", "closing", "done"} /\ w # "exited"
      /\ waiter[c] # "none" /\ call[c] \notin {"releasing", "released"} /\ c \in Supervised
      /\ call' = [call EXCEPT ![c] = k] /\ waiter' = [waiter EXCEPT ![c] = w]
  BY <1>2, <1>3
<1>10. /\ k = call[c] /\ w = waiter[c]
       /\ w \in {"waiting", "closing"} <=> waiter[c] \in {"waiting", "closing"}
       /\ waiter[c] = "done" => w = "done"
  OBVIOUS
<1> HIDE DEF force, k, w
<1> QED
  BY <1>5, <1>6, <1>7, <1>8, <1>9, <1>10, SignalPreserves

LEMMA StartCommandPreserves ==
    ASSUME IInv, NEW c \in Commands, StartCommand(c)
    PROVE  IInv'
<1> DEFINE p == [NoProcesses EXCEPT !.leader = "alive", !.anchor = "alive"]
           t == [NoTree EXCEPT !.input = TRUE]
<1>1. /\ call[c] = "idle" /\ (c \in Supervised => ~closed)
      /\ processes' = [processes EXCEPT ![c] = p] /\ tree' = [tree EXCEPT ![c] = t]
      /\ waiter' = [waiter EXCEPT ![c] = "waiting"] /\ call' = [call EXCEPT ![c] = "running"]
      /\ active' = IF c \in Supervised THEN active \cup {c} ELSE active
      /\ UNCHANGED <<cleanup, closed, overreach>>
  BY DEF StartCommand, StartProcesses
<1>2. /\ p \in Groups /\ p.leader = "alive" /\ p.anchor = "alive" /\ ~p.reused
      /\ t \in Trees /\ ~t.force /\ t.input
  OBVIOUS
<1> HIDE DEF p, t
<1>3. ShellTypeOK'
  BY <1>1, <1>2 DEF IInv, ShellTypeOK
<1>4. /\ processes'[c] = p /\ tree'[c] = t /\ waiter'[c] = "waiting" /\ call'[c] = "running"
      /\ \A d \in Commands \ {c} : Rest(d)
  BY <1>1 DEF IInv, ShellTypeOK, Rest
<1>5. GroupFollows(c)'
  BY <1>1, <1>2, <1>4, TypedAt DEF GroupFollows, NumberIsKept, ForceEmpties, StagesFit
<1>6. waiter[c] = "none"
  BY <1>1, TypedAt DEF GroupFollows, StagesFit
<1>7. CleanupFits'
  BY <1>1, <1>4, <1>6 DEF IInv, CleanupFits, Rest
<1> QED
  BY <1>1, <1>3, <1>4, <1>5, <1>7, OneFollows DEF IInv

LEMMA DoNotStartPreserves ==
    ASSUME IInv, NEW c \in Commands, DoNotStart(c)
    PROVE  IInv'
<1>1. /\ call[c] = "idle" /\ call' = [call EXCEPT ![c] = "returned"]
      /\ UNCHANGED <<waiter, processes, tree, cleanup, active, closed, overreach>>
  BY DEF DoNotStart
<1>2. ShellTypeOK' /\ CleanupFits' /\ ~overreach'
  BY <1>1 DEF IInv, ShellTypeOK, CleanupFits
<1>3. call'[c] = "returned" /\ \A d \in Commands \ {c} : Rest(d)
  BY <1>1 DEF IInv, ShellTypeOK, Rest
<1>4. waiter[c] = "none" /\ processes[c] = NoProcesses
  BY <1>1, TypedAt DEF GroupFollows, StagesFit
<1>5. GroupFollows(c)'
  BY <1>1, <1>3, <1>4, TypedAt DEF GroupFollows, NumberIsKept, ForceEmpties, StagesFit
<1> QED
  BY <1>2, <1>3, <1>5, OneFollows

LEMMA WaiterIsDonePreserves ==
    ASSUME IInv, NEW c \in Commands, NEW timeout \in BOOLEAN, WaiterIsDone(c, timeout)
    PROVE  IInv'
<1> DEFINE t == [tree[c] EXCEPT !.exited = @ \/ processes[c].anchor = "reaped",
                                !.failed = timeout \/ ~tree[c].force]
<1>1. /\ waiter[c] = "closing" /\ waiter' = [waiter EXCEPT ![c] = "done"]
      /\ tree' = [tree EXCEPT ![c] = t] /\ active' = active \ {c}
      /\ UNCHANGED <<call, processes, cleanup, closed, overreach>>
  BY DEF WaiterIsDone
<1>2. tree[c] \in Trees
  BY TypedAt
<1>3. t \in Trees
  BY <1>2
<1>4. (t.force <=> tree[c].force) /\ (t.input <=> tree[c].input)
  BY <1>2
<1> HIDE DEF t
<1>5. ShellTypeOK'
  BY <1>1, <1>3 DEF IInv, ShellTypeOK
<1>6. tree'[c] = t /\ waiter'[c] = "done" /\ \A d \in Commands \ {c} : Rest(d)
  BY <1>1 DEF IInv, ShellTypeOK, Rest
<1>7. GroupFollows(c)'
  BY <1>1, <1>4, <1>6, TypedAt DEF GroupFollows, NumberIsKept, ForceEmpties, StagesFit
<1>8. CleanupFits' /\ ~overreach'
  BY <1>1, <1>6 DEF IInv, CleanupFits, Rest
<1> QED
  BY <1>5, <1>6, <1>7, <1>8, OneFollows

LEMMA WaiterExitsPreserves ==
    ASSUME IInv, NEW c \in Commands, WaiterExits(c)
    PROVE  IInv'
<1>1. /\ c \notin Supervised /\ waiter[c] = "waiting" /\ waiter' = [waiter EXCEPT ![c] = "exited"]
      /\ UNCHANGED <<call, processes, tree, cleanup, active, closed, overreach>>
  BY DEF WaiterExits, WaitEndsFor
<1>2. ShellTypeOK' /\ ~overreach'
  BY <1>1 DEF IInv, ShellTypeOK
<1>3. waiter'[c] = "exited" /\ \A d \in Commands \ {c} : Rest(d)
  BY <1>1 DEF IInv, ShellTypeOK, Rest
<1>4. GroupFollows(c)'
  BY <1>1, <1>3, TypedAt DEF GroupFollows, NumberIsKept, ForceEmpties, StagesFit
<1>5. CleanupFits'
  BY <1>1, <1>3 DEF IInv, CleanupFits, Rest
<1> QED
  BY <1>2, <1>3, <1>4, <1>5, OneFollows

\* A plain command is let go with its group: only its anchor's input is closed.
LEMMA CompletedPreserves ==
    ASSUME IInv, NEW c \in Commands, Completed(c)
    PROVE  IInv'
<1>1. /\ waiter[c] = "exited" /\ call[c] = "running" /\ UNCHANGED <<waiter, cleanup, active, closed>>
  BY DEF Completed, Go
<1>2. c \notin Supervised
  BY <1>1, TypedAt DEF GroupFollows, StagesFit
<1>3. waiter' = [waiter EXCEPT ![c] = "exited"]
  BY <1>1 DEF IInv, ShellTypeOK
<1>4. CASE c \in ReadOnly
  <2>1. call' = [call EXCEPT ![c] = "closing"] /\ Signal(c, TRUE, FALSE, TRUE)
    BY <1>4 DEF Completed, Go
  <2>2. cleanup' \in [at : {"no", "terminating", "grace", "killing", "reaping", "clean", "failed"},
                      todo : SUBSET Commands, all : SUBSET Commands, failed : BOOLEAN]
    BY <1>1 DEF IInv, ShellTypeOK
  <2> QED
    BY <1>1, <1>2, <1>3, <2>1, <2>2, SignalPreserves
<1>5. CASE c \notin ReadOnly
  <2> DEFINE t == [tree[c] EXCEPT !.input = FALSE]
  <2>1. /\ call' = [call EXCEPT ![c] = "releasing"] /\ tree' = [tree EXCEPT ![c] = t]
        /\ UNCHANGED <<processes, overreach>>
    BY <1>5 DEF Completed, Go
  <2>2. tree[c] \in Trees
    BY TypedAt
  <2>3. t \in Trees /\ (t.force <=> tree[c].force) /\ ~t.input
    BY <2>2
  <2> HIDE DEF t
  <2>4. ShellTypeOK' /\ CleanupFits' /\ ~overreach'
    BY <1>1, <2>1, <2>3 DEF IInv, ShellTypeOK, CleanupFits
  <2>5. call'[c] = "releasing" /\ tree'[c] = t /\ \A d \in Commands \ {c} : Rest(d)
    BY <1>1, <2>1 DEF IInv, ShellTypeOK, Rest
  <2>6. GroupFollows(c)'
    BY <1>1, <1>2, <1>5, <2>1, <2>3, <2>5, TypedAt
      DEF GroupFollows, NumberIsKept, ForceEmpties, StagesFit
  <2> QED
    BY <2>4, <2>5, <2>6, OneFollows
<1> QED
  BY <1>4, <1>5

LEMMA CompletedSupervisedPreserves ==
    ASSUME IInv, NEW c \in Commands, CompletedSupervised(c)
    PROVE  IInv'
<1>1. /\ c \in Supervised /\ waiter[c] = "done" /\ call' = [call EXCEPT ![c] = "returned"]
      /\ UNCHANGED <<waiter, processes, tree, cleanup, active, closed, overreach>>
  BY DEF CompletedSupervised
<1>2. ShellTypeOK' /\ CleanupFits' /\ ~overreach'
  BY <1>1 DEF IInv, ShellTypeOK, CleanupFits
<1>3. call'[c] = "returned" /\ \A d \in Commands \ {c} : Rest(d)
  BY <1>1 DEF IInv, ShellTypeOK, Rest
<1>4. GroupFollows(c)'
  BY <1>1, <1>3, TypedAt DEF GroupFollows, NumberIsKept, ForceEmpties, StagesFit
<1> QED
  BY <1>2, <1>3, <1>4, OneFollows

LEMMA ReapEndsPreserves ==
    ASSUME IInv, NEW c \in Commands, NEW timeout \in BOOLEAN, ReapEnds(c, timeout)
    PROVE  IInv'
<1>1. call[c] = "killed" /\ UNCHANGED <<waiter, cleanup, active, closed>>
  BY DEF ReapEnds
<1>2. CASE c \in Supervised
  <2>1. call' = [call EXCEPT ![c] = "gaveUp"] /\ UNCHANGED <<processes, tree, overreach>>
    BY <1>2 DEF ReapEnds
  <2>2. ShellTypeOK' /\ CleanupFits' /\ ~overreach'
    BY <1>1, <2>1 DEF IInv, ShellTypeOK, CleanupFits
  <2>3. call'[c] = "gaveUp" /\ \A d \in Commands \ {c} : Rest(d)
    BY <1>1, <2>1 DEF IInv, ShellTypeOK, Rest
  <2>4. GroupFollows(c)'
    BY <1>1, <1>2, <2>1, <2>3, TypedAt DEF GroupFollows, NumberIsKept, ForceEmpties, StagesFit
  <2> QED
    BY <2>2, <2>3, <2>4, OneFollows
<1>3. CASE c \notin Supervised
  <2>1. call' = [call EXCEPT ![c] = "closing"] /\ Signal(c, TRUE, FALSE, TRUE)
    BY <1>3 DEF ReapEnds
  <2>2. waiter[c] \in {"waiting", "exited"}
    BY <1>1, <1>3, TypedAt DEF GroupFollows, StagesFit
  <2>3. waiter' = [waiter EXCEPT ![c] = waiter[c]]
    BY <1>1 DEF IInv, ShellTypeOK
  <2>4. cleanup' \in [at : {"no", "terminating", "grace", "killing", "reaping", "clean", "failed"},
                      todo : SUBSET Commands, all : SUBSET Commands, failed : BOOLEAN]
    BY <1>1 DEF IInv, ShellTypeOK
  <2> QED
    BY <1>1, <1>3, <2>1, <2>2, <2>3, <2>4, SignalPreserves
<1> QED
  BY <1>2, <1>3

LEMMA CloseEndsPreserves ==
    ASSUME IInv, NEW c \in Commands, NEW timeout \in BOOLEAN, CloseEnds(c, timeout)
    PROVE  IInv'
<1> DEFINE t == [tree[c] EXCEPT !.exited = @ \/ processes[c].anchor = "reaped"]
           k == IF call[c] = "closing" THEN "returned" ELSE "released"
<1>1. /\ call[c] \in {"closing", "releasing"} /\ call' = [call EXCEPT ![c] = k]
      /\ tree' = [tree EXCEPT ![c] = t]
      /\ UNCHANGED <<waiter, processes, cleanup, active, closed, overreach>>
  BY DEF CloseEnds
<1>2. tree[c] \in Trees
  BY TypedAt
<1>3. t \in Trees
  BY <1>2
<1>4. (t.force <=> tree[c].force) /\ (t.input <=> tree[c].input)
  BY <1>2
<1> HIDE DEF t
<1>5. ShellTypeOK' /\ CleanupFits' /\ ~overreach'
  BY <1>1, <1>3 DEF IInv, ShellTypeOK, CleanupFits
<1>6. tree'[c] = t /\ call'[c] = k /\ \A d \in Commands \ {c} : Rest(d)
  BY <1>1 DEF IInv, ShellTypeOK, Rest
<1>7. GroupFollows(c)'
  BY <1>1, <1>4, <1>6, TypedAt DEF GroupFollows, NumberIsKept, ForceEmpties, StagesFit
<1> QED
  BY <1>5, <1>6, <1>7, OneFollows

-----------------------------------------------------------------------------
\* The cleanup.

LEMMA GroupsStay ==
    ASSUME IInv, UNCHANGED <<call, waiter, processes, tree, active>>
    PROVE  \A c \in Commands : GroupFollows(c)'
  BY DEF IInv, GroupFollows, NumberIsKept, ForceEmpties, StagesFit

LEMMA CleanupPreserves ==
    ASSUME IInv, BeginCleanup \/ SignalsSent \/ CleanedUp \/ GraceEnds \/ CleanupTimesOut
    PROVE  IInv'
<1>1. UNCHANGED <<call, waiter, processes, tree, active, overreach>>
  BY DEF BeginCleanup, SignalsSent, CleanedUp, GraceEnds, CleanupTimesOut
<1>2. ShellTypeOK'
  BY <1>1 DEF IInv, ShellTypeOK, BeginCleanup, SignalsSent, CleanedUp, GraceEnds, CleanupTimesOut
<1>3. CASE BeginCleanup
  <2>1. \A c \in active : c \in Supervised /\ waiter[c] # "none"
    BY TypedAt DEF IInv, ShellTypeOK, GroupFollows, StagesFit
  <2>2. cleanup'.at = "terminating" /\ cleanup'.todo = active /\ cleanup'.all = active /\ closed'
    BY <1>3 DEF BeginCleanup, IInv, ShellTypeOK
  <2>3. CleanupFits'
    BY <1>1, <2>1, <2>2 DEF CleanupFits
  <2> QED
    BY <1>1, <1>2, <2>3, GroupsStay DEF IInv
<1>4. CASE SignalsSent \/ CleanedUp \/ GraceEnds \/ CleanupTimesOut
  <2>1. cleanup.at # "no" /\ closed' = closed
    BY <1>4 DEF SignalsSent, CleanedUp, GraceEnds, CleanupTimesOut
  <2>2. /\ cleanup'.at \in {"grace", "killing", "reaping", "clean", "failed"}
        /\ cleanup'.all = cleanup.all
        /\ cleanup'.todo \in {cleanup.todo, cleanup.all}
        /\ cleanup'.at = "clean" => \A c \in cleanup.all : waiter[c] = "done"
    BY <1>4 DEF SignalsSent, CleanedUp, GraceEnds, CleanupTimesOut, IInv, ShellTypeOK
  <2>3. CleanupFits'
    BY <1>1, <2>1, <2>2 DEF CleanupFits, IInv
  <2> QED
    BY <1>1, <1>2, <2>3, GroupsStay DEF IInv
<1> QED
  BY <1>3, <1>4

LEMMA NextPreserves == IInv /\ [ShellNext]_shellVars => IInv'
<1> SUFFICES ASSUME IInv, [ShellNext]_shellVars PROVE IInv'
  OBVIOUS
<1>1. ASSUME NEW c \in Commands, NEW pipe \in BOOLEAN, NEW grouped \in BOOLEAN, Fork(c, pipe, grouped)
      PROVE  IInv'
  BY <1>1, ForkPreserves
<1>2. ASSUME NEW c \in Commands,
             \/ LeaderExits(c) \/ ChildExits(c) \/ KillsOwnGroup(c) \/ AnchorIsKilled(c)
             \/ AnchorReadsEOF(c) \/ AnchorIsReaped(c) \/ NumberIsReused(c) \/ LeaderIsReaped(c)
      PROVE  IInv'
  BY <1>2, LeaderExitsPreserves, ChildExitsPreserves, KillsOwnGroupPreserves, AnchorIsKilledPreserves,
     AnchorReadsEOFPreserves, AnchorIsReapedPreserves, NumberIsReusedPreserves, LeaderIsReapedPreserves
<1>3. ASSUME NEW c \in Commands,
             \/ StartCommand(c) \/ DoNotStart(c) \/ WaiterCloses(c) \/ WaiterExits(c)
             \/ Completed(c) \/ CompletedSupervised(c) \/ CancelCommand(c)
      PROVE  IInv'
  BY <1>3, StartCommandPreserves, DoNotStartPreserves, WaiterClosesPreserves, WaiterExitsPreserves,
     CompletedPreserves, CompletedSupervisedPreserves, CancelCommandPreserves
<1>4. ASSUME NEW c \in Commands, NEW timeout \in BOOLEAN,
             WaiterIsDone(c, timeout) \/ ReapEnds(c, timeout) \/ CloseEnds(c, timeout)
      PROVE  IInv'
  BY <1>4, WaiterIsDonePreserves, ReapEndsPreserves, CloseEndsPreserves
<1>5. ASSUME NEW c \in Commands, NEW obeys \in BOOLEAN, SignalNext(c, obeys)
      PROVE  IInv'
  BY <1>5, SignalNextPreserves
<1>6. ASSUME BeginCleanup \/ SignalsSent \/ CleanedUp \/ GraceEnds \/ CleanupTimesOut
      PROVE  IInv'
  BY <1>6, CleanupPreserves
<1>7. CASE UNCHANGED shellVars
  BY <1>7 DEF shellVars, IInv, ShellTypeOK, GroupFollows, NumberIsKept, ForceEmpties, StagesFit, CleanupFits
<1> QED
  BY <1>1, <1>2, <1>3, <1>4, <1>5, <1>6, <1>7 DEF ShellNext

\* The inductive invariant holds in every state of every behaviour.
THEOREM Invariance == ShellSpec => []IInv
<1>1. ShellInit => IInv
  BY InitEstablishes
<1>2. IInv /\ [ShellNext]_shellVars => IInv'
  BY NextPreserves
<1> QED
  BY <1>1, <1>2, PTL DEF ShellSpec

\* The records stay what they are declared to be.
THEOREM TypeCorrect == ShellSpec => []ShellTypeOK
<1>1. IInv => ShellTypeOK
  BY DEF IInv
<1> QED
  BY <1>1, Invariance, PTL

\* A signal never reaches strangers, unless somebody else killed the anchor, and a command that
\* returned or was cleaned up left nobody in its group.
THEOREM ProcessesStayContained == ShellSpec => []ProcessesAreContained
<1>1. ASSUME IInv PROVE NothingIsLeft
  <2>1. \A c \in Commands : call[c] \in {"returned", "gaveUp"} => GroupIsEmpty(c)
    BY <1>1, TypedAt DEF GroupFollows, ForceEmpties
  <2>2. \A c \in Supervised : call[c] = "gaveUp" /\ waiter[c] # "done" => c \in active
    BY <1>1, TypedAt DEF GroupFollows, StagesFit
  <2>3. ASSUME cleanup.at = "clean" PROVE active = {} /\ \A c \in Supervised : GroupIsEmpty(c)
    <3>1. active \subseteq cleanup.all /\ \A c \in cleanup.all : c \in Supervised /\ waiter[c] = "done"
      BY <1>1, <2>3 DEF IInv, CleanupFits
    <3>2. active = {}
      BY <1>1, <3>1, TypedAt DEF GroupFollows, StagesFit
    <3>3. ASSUME NEW c \in Supervised PROVE GroupIsEmpty(c)
      <4>1. GroupFollows(c) /\ (waiter[c] = "none" => processes[c] = NoProcesses)
            /\ waiter[c] \in {"none", "waiting", "exited", "closing", "done"}
        BY <1>1, TypedAt
      <4>2. waiter[c] \in {"none", "done"}
        BY <3>2, <4>1 DEF GroupFollows, StagesFit
      <4> QED
        BY <4>1, <4>2 DEF GroupFollows, ForceEmpties
    <3> QED
      BY <3>2, <3>3
  <2> QED
    BY <2>1, <2>2, <2>3 DEF NothingIsLeft
<1>2. IInv => ProcessesAreContained
  BY <1>1 DEF IInv, ProcessesAreContained, StrangersAreSafe
<1> QED
  BY <1>2, Invariance, PTL

-----------------------------------------------------------------------------
(* The memories and the passes behind the runs.                               *)

MemoryTools == {"write_file", "edit_file"}
Bits == {"none", "fired", "asking", "calling", "over"}
PassStates == [at : Bits, wrote : BOOLEAN, turn : 0 .. MaxTurns, saw : SUBSET Runs, cancelled : BOOLEAN]

Calls == MemoryTools \X Places \X Bodies
AgentTypeOK == agent \in [run : 0 .. MaxRuns, pending : {<<>>} \cup Calls, wrote : BOOLEAN]
DoingsTypeOK == doings \in [touched : SUBSET (Runs \X Places), saved : SUBSET Runs,
                            wrote : SUBSET (Runs \X Places), late : BOOLEAN]

MemoryTypeOK ==
    /\ memories \in [Places -> Bodies \cup {Missing}]
    /\ spoken \in Seq(Runs)
    /\ AgentTypeOK
    /\ passes \in [Runs -> PassStates]
    /\ surface \in {"cli", "tui"}
    /\ closing \in {"no", "waiting", "done"}
    /\ drained \in BOOLEAN
    /\ writes \in 0 .. MaxWrites
    /\ runsMade \in 0 .. MaxRuns
    /\ DoingsTypeOK

\* A pass of another run wrote a file that run r wrote.
WrittenOver(r) == \E w \in doings.wrote : w[1] # r /\ <<r, w[2]>> \in doings.touched

\* What the tracker of the run under way knows, or learns from the call that is pending.
TrackerSees ==
    \/ agent.wrote
    \/ /\ agent.pending # <<>>
       /\ Remembers(agent.pending[1], agent.pending[2], agent.pending[3])

\* Runs have their numbers in the order they begin, one after the other.
RunsAreNumbered ==
    /\ agent.run # 0 => agent.run = runsMade
    /\ agent.run = 0 => agent = NoAgent
    /\ \A r \in Runs : passes[r].at # "none" => r <= runsMade /\ r # agent.run
    /\ \A r \in doings.saved : r <= runsMade
    /\ agent.pending # <<>> => <<agent.run, agent.pending[2]>> \in doings.touched

\* A pass that works is one of a run that saved nothing; one that has not begun wrote nothing.
PassesBegin ==
    \A r \in Runs :
        /\ passes[r].at \in {"asking", "calling"} => ~passes[r].wrote
        /\ passes[r].at \in {"none", "fired"} => \A w \in doings.wrote : w[1] # r
        /\ passes[r].saw \subseteq {r}

\* The tracker agrees with what the run saved, while it is under way and behind it.
AgentAgrees == agent.run # 0 => (TrackerSees <=> agent.run \in doings.saved) \/ WrittenOver(agent.run)

PassesAgree ==
    \A r \in Runs : passes[r].at \notin {"none", "over"} =>
        (passes[r].wrote <=> r \in doings.saved) \/ WrittenOver(r)

OnlyMemoriesAreWritten == \A w \in doings.wrote : DirectMemoryFile(w[2])

\* Behind a wait that ended by itself no pass waits for the model's answer to a question that
\* it may still put, nor has one.
DrainIsFinal ==
    /\ ~doings.late
    /\ drained => /\ closing = "done"
                  /\ \A r \in Runs : passes[r].at # "calling" /\ (Busy(r) => passes[r].cancelled)

MemoryInv ==
    /\ MemoryTypeOK
    /\ RunsAreNumbered
    /\ PassesBegin
    /\ AgentAgrees
    /\ PassesAgree
    /\ OnlyMemoriesAreWritten
    /\ DrainIsFinal

LEMMA TextsAreBodies == \A place \in Places : Texts(place) \subseteq Bodies
<1> QED
    BY DEF Texts, Bodies

\* What was written over stays written over.
LEMMA OverStaysOver ==
  ASSUME doings.wrote \subseteq doings'.wrote, doings.touched \subseteq doings'.touched,
         NEW r, WrittenOver(r)
  PROVE  WrittenOver(r)'
<1> QED
    BY DEF WrittenOver

\* A step that changes neither the run under way nor the memories leaves the trackers agreeing.
LEMMA AgentStillAgrees ==
  ASSUME AgentAgrees, UNCHANGED <<agent, memories, doings>>
  PROVE  AgentAgrees'
<1> QED
    BY DEF AgentAgrees, TrackerSees, WrittenOver, Remembers, LoadableIn

\* Nor does one that at most ends passes, or lets them begin their work.
LEMMA PassesStillAgree ==
  ASSUME PassesAgree, UNCHANGED doings,
         \A r \in Runs : passes'[r].at \notin {"none", "over"} =>
             passes[r].at \notin {"none", "over"} /\ passes'[r].wrote = passes[r].wrote
  PROVE  PassesAgree'
<1> QED
    BY DEF PassesAgree, WrittenOver

LEMMA PassChanges ==
  ASSUME passes \in [Runs -> PassStates], NEW r \in Runs, NEW q \in PassStates,
         passes' = [passes EXCEPT ![r] = q]
  PROVE  /\ passes' \in [Runs -> PassStates]
         /\ passes'[r] = q
         /\ \A x \in Runs : x # r => passes'[x] = passes[x]
<1> QED
    OBVIOUS

\* What becomes of a pass by a step of its own.
OverAs(q) == q.at = "over" /\ q.saw = {}
StartedAs(r, q) ==
    \/ OverAs(q)
    \/ /\ q.at = "asking" /\ ~passes[r].wrote
       /\ q.wrote = passes[r].wrote /\ q.saw \subseteq {r} /\ q.cancelled = passes[r].cancelled
AnsweredAs(r, q) ==
    \/ OverAs(q)
    \/ /\ q.at = "calling" /\ ~passes[r].cancelled
       /\ q.wrote = passes[r].wrote /\ q.saw = passes[r].saw /\ q.cancelled = passes[r].cancelled
ContinuedAs(r, q, then) ==
    /\ q.at = then
    /\ q.wrote = passes[r].wrote /\ q.saw = passes[r].saw /\ q.cancelled = passes[r].cancelled

LEMMA OverIsPass == Over \in PassStates /\ OverAs(Over)
<1>1. NoPass \in PassStates
    BY MemoryAssumption DEF NoPass, PassStates, Bits
<1>2. Over \in PassStates
    BY <1>1 DEF Over, PassStates, Bits
<1> QED
    BY <1>2 DEF Over, NoPass, OverAs

LEMMA CancelledPasses ==
  ASSUME passes \in [Runs -> PassStates]
  PROVE  Cancelled(passes) \in [Runs -> PassStates]
<1>1. \A r \in Runs : [passes[r] EXCEPT !.cancelled = TRUE] \in PassStates
  <2> SUFFICES ASSUME NEW r \in Runs PROVE [passes[r] EXCEPT !.cancelled = TRUE] \in PassStates
    OBVIOUS
  <2>1. passes[r] \in PassStates
    OBVIOUS
  <2> QED
    BY <2>1 DEF PassStates
<1>2. \A r \in Runs : passes[r] \in PassStates
    OBVIOUS
<1> QED
    BY <1>1, <1>2 DEF Cancelled

LEMMA MemoryBegins == MemoryInit => MemoryInv
<1> SUFFICES ASSUME MemoryInit PROVE MemoryInv
    OBVIOUS
<1>1. MemoryTypeOK
  <2>1. memories \in [Places -> Bodies \cup {Missing}] /\ spoken \in Seq(Runs)
    BY DEF MemoryInit
  <2>2. AgentTypeOK
    BY MemoryAssumption DEF MemoryInit, AgentTypeOK, NoAgent
  <2>3. passes \in [Runs -> PassStates]
    BY MemoryAssumption DEF MemoryInit, NoPass, PassStates, Bits
  <2>4. DoingsTypeOK
    BY DEF MemoryInit, DoingsTypeOK
  <2>5. surface \in {"cli", "tui"} /\ closing \in {"no", "waiting", "done"} /\ drained \in BOOLEAN
    BY DEF MemoryInit
  <2>6. writes \in 0 .. MaxWrites /\ runsMade \in 0 .. MaxRuns
    BY MemoryAssumption DEF MemoryInit
  <2> QED
    BY <2>1, <2>2, <2>3, <2>4, <2>5, <2>6 DEF MemoryTypeOK
<1>2. RunsAreNumbered
    BY DEF MemoryInit, RunsAreNumbered, NoAgent, NoPass
<1>3. PassesBegin /\ AgentAgrees /\ PassesAgree /\ OnlyMemoriesAreWritten /\ DrainIsFinal
    BY DEF MemoryInit, PassesBegin, AgentAgrees, PassesAgree, OnlyMemoriesAreWritten, DrainIsFinal, NoAgent, NoPass
<1> QED
    BY <1>1, <1>2, <1>3 DEF MemoryInv

LEMMA MemoryBegin ==
  ASSUME MemoryInv, BeginMainRun
  PROVE  MemoryInv'
<1>1. MemoryTypeOK'
  <2>1. memories' \in [Places -> Bodies \cup {Missing}]
    BY MemoryAssumption, TextsAreBodies DEF MemoryInv, MemoryTypeOK, BeginMainRun
  <2>2. spoken' \in Seq(Runs)
    BY MemoryAssumption, TextsAreBodies DEF MemoryInv, MemoryTypeOK, BeginMainRun, AgentTypeOK, Runs
  <2>3. AgentTypeOK'
    <3>1. agent' = [run |-> runsMade', pending |-> <<>>, wrote |-> FALSE]
      BY DEF BeginMainRun, NoAgent
    <3>2. runsMade' \in 0 .. MaxRuns
      BY MemoryAssumption DEF MemoryInv, MemoryTypeOK, BeginMainRun
    <3> QED
      BY <3>1, <3>2 DEF AgentTypeOK
  <2>4. passes' \in [Runs -> PassStates]
    BY MemoryAssumption, TextsAreBodies DEF MemoryInv, MemoryTypeOK, BeginMainRun, PassStates, Bits, NoPass, Over, AgentTypeOK, Runs
  <2>5. /\ surface' \in {"cli", "tui"} /\ closing' \in {"no", "waiting", "done"}
         /\ drained' \in BOOLEAN /\ writes' \in 0 .. MaxWrites /\ runsMade' \in 0 .. MaxRuns
    BY MemoryAssumption, TextsAreBodies DEF MemoryInv, MemoryTypeOK, BeginMainRun
  <2>6. DoingsTypeOK'
    BY MemoryAssumption, TextsAreBodies DEF MemoryInv, MemoryTypeOK, BeginMainRun, DoingsTypeOK, AgentTypeOK, Runs
  <2> QED
    BY <2>1, <2>2, <2>3, <2>4, <2>5, <2>6 DEF MemoryTypeOK
<1>2. RunsAreNumbered'
    BY MemoryAssumption, OverStaysOver DEF MemoryInv, BeginMainRun, RunsAreNumbered, NoAgent, NoPass, Over, MemoryTypeOK, AgentTypeOK, DoingsTypeOK, Runs, PassStates
<1>3. PassesBegin'
    BY MemoryAssumption, OverStaysOver DEF MemoryInv, BeginMainRun, PassesBegin, RunsAreNumbered, NoAgent, NoPass, Over, MemoryTypeOK, AgentTypeOK, DoingsTypeOK, PassStates
<1>4. AgentAgrees'
    BY MemoryAssumption, OverStaysOver DEF MemoryInv, BeginMainRun, AgentAgrees, TrackerSees, WrittenOver, RunsAreNumbered, NoAgent, MemoryTypeOK, AgentTypeOK, DoingsTypeOK
<1>5. PassesAgree'
    BY MemoryAssumption, OverStaysOver DEF MemoryInv, BeginMainRun, PassesAgree, WrittenOver, RunsAreNumbered, PassesBegin, NoPass, Over, MemoryTypeOK, AgentTypeOK, DoingsTypeOK, PassStates
<1>6. OnlyMemoriesAreWritten'
    BY MemoryAssumption, OverStaysOver DEF MemoryInv, BeginMainRun, OnlyMemoriesAreWritten
<1>7. DrainIsFinal'
    BY MemoryAssumption, OverStaysOver DEF MemoryInv, BeginMainRun, DrainIsFinal, Busy, NoPass, Over, MemoryTypeOK, DoingsTypeOK, PassStates
<1> QED
    BY <1>1, <1>2, <1>3, <1>4, <1>5, <1>6, <1>7 DEF MemoryInv

LEMMA MemoryAgentWrites ==
  ASSUME MemoryInv, NEW tool \in MemoryTools, NEW place \in Places, NEW content \in Texts(place),
         AgentWrites(tool, place, content)
  PROVE  MemoryInv'
<1>1. MemoryTypeOK'
  <2>1. memories' \in [Places -> Bodies \cup {Missing}]
    BY MemoryAssumption, TextsAreBodies DEF MemoryInv, MemoryTypeOK, AgentWrites
  <2>2. spoken' \in Seq(Runs)
    BY MemoryAssumption, TextsAreBodies DEF MemoryInv, MemoryTypeOK, AgentWrites, AgentTypeOK, Runs
  <2>3. AgentTypeOK'
    <3>1. <<tool, place, content>> \in Calls
      BY TextsAreBodies DEF Calls
    <3> QED
      BY <3>1 DEF MemoryInv, MemoryTypeOK, AgentTypeOK, AgentWrites
  <2>4. passes' \in [Runs -> PassStates]
    BY MemoryAssumption, TextsAreBodies DEF MemoryInv, MemoryTypeOK, AgentWrites, PassStates, Bits, NoPass, Over, AgentTypeOK, Runs
  <2>5. /\ surface' \in {"cli", "tui"} /\ closing' \in {"no", "waiting", "done"}
         /\ drained' \in BOOLEAN /\ writes' \in 0 .. MaxWrites /\ runsMade' \in 0 .. MaxRuns
    BY MemoryAssumption, TextsAreBodies DEF MemoryInv, MemoryTypeOK, AgentWrites
  <2>6. DoingsTypeOK'
    <3>1. agent.run \in Runs
      BY DEF MemoryInv, MemoryTypeOK, AgentTypeOK, AgentWrites, Runs
    <3>2. /\ doings.touched \cup {<<agent.run, place>>} \in SUBSET (Runs \X Places)
          /\ doings.saved \in SUBSET Runs /\ doings.saved \cup {agent.run} \in SUBSET Runs
      BY <3>1 DEF MemoryInv, MemoryTypeOK, DoingsTypeOK
    <3> QED
      BY <3>2 DEF MemoryInv, MemoryTypeOK, DoingsTypeOK, AgentWrites
  <2> QED
    BY <2>1, <2>2, <2>3, <2>4, <2>5, <2>6 DEF MemoryTypeOK
<1>2. RunsAreNumbered'
    BY MemoryAssumption, OverStaysOver DEF MemoryInv, AgentWrites, RunsAreNumbered, NoAgent, NoPass, Over, MemoryTypeOK, AgentTypeOK, DoingsTypeOK, Runs, PassStates
<1>3. PassesBegin'
    BY MemoryAssumption, OverStaysOver DEF MemoryInv, AgentWrites, PassesBegin, RunsAreNumbered, NoAgent, NoPass, Over, MemoryTypeOK, AgentTypeOK, DoingsTypeOK, PassStates
<1>4. AgentAgrees'
  <2> DEFINE Counts == /\ DirectMemoryFile(place)
                       /\ \/ tool = "write_file" /\ content = Blank
                          \/ LoadableIn(memories', place)
  <2>1. /\ agent.run # 0 /\ agent.pending = <<>>
        /\ agent'.run = agent.run /\ agent'.wrote = agent.wrote
        /\ agent'.pending = <<tool, place, content>> /\ agent'.pending # <<>>
    BY DEF MemoryInv, MemoryTypeOK, AgentTypeOK, AgentWrites
  <2>2. Remembers(tool, place, content)' <=> Counts
    BY DEF Remembers, InMemoryDir, LoadableIn, DirectMemoryFile
  <2>3. TrackerSees' <=> agent.wrote \/ Counts
    BY <2>1, <2>2 DEF TrackerSees
  <2>4. agent.run \in doings'.saved <=> agent.run \in doings.saved \/ Counts
    BY DEF MemoryInv, MemoryTypeOK, DoingsTypeOK, AgentWrites
  <2>5. (agent.wrote <=> agent.run \in doings.saved) \/ WrittenOver(agent.run)
    BY <2>1 DEF MemoryInv, AgentAgrees, TrackerSees
  <2>6. WrittenOver(agent.run) => WrittenOver(agent.run)'
    BY OverStaysOver DEF MemoryInv, MemoryTypeOK, DoingsTypeOK, AgentWrites
  <2> HIDE DEF Counts
  <2> QED
    BY <2>1, <2>3, <2>4, <2>5, <2>6 DEF AgentAgrees
<1>5. PassesAgree'
  <2>1. \A r \in Runs : WrittenOver(r) => WrittenOver(r)'
    BY OverStaysOver DEF MemoryInv, MemoryTypeOK, DoingsTypeOK, AgentWrites
  <2>2. \A r \in Runs : passes[r].at # "none" => r # agent.run
    BY DEF MemoryInv, RunsAreNumbered
  <2>3. \A r \in Runs : r # agent.run => (r \in doings'.saved <=> r \in doings.saved)
    BY DEF MemoryInv, MemoryTypeOK, DoingsTypeOK, AgentWrites
  <2>4. passes' = passes
    BY DEF AgentWrites
  <2> QED
    BY <2>1, <2>2, <2>3, <2>4 DEF MemoryInv, PassesAgree
<1>6. OnlyMemoriesAreWritten'
    BY MemoryAssumption, OverStaysOver DEF MemoryInv, AgentWrites, OnlyMemoriesAreWritten
<1>7. DrainIsFinal'
    BY MemoryAssumption, OverStaysOver DEF MemoryInv, AgentWrites, DrainIsFinal, Busy, NoPass, Over, MemoryTypeOK, DoingsTypeOK, PassStates
<1> QED
    BY <1>1, <1>2, <1>3, <1>4, <1>5, <1>6, <1>7 DEF MemoryInv

LEMMA MemoryMark ==
  ASSUME MemoryInv, MarkSuccess
  PROVE  MemoryInv'
<1>1. MemoryTypeOK'
  <2>1. memories' \in [Places -> Bodies \cup {Missing}]
    BY MemoryAssumption, TextsAreBodies DEF MemoryInv, MemoryTypeOK, MarkSuccess
  <2>2. spoken' \in Seq(Runs)
    BY MemoryAssumption, TextsAreBodies DEF MemoryInv, MemoryTypeOK, MarkSuccess, AgentTypeOK, Runs
  <2>3. AgentTypeOK'
    BY MemoryAssumption, TextsAreBodies DEF MemoryInv, MemoryTypeOK, MarkSuccess, AgentTypeOK, NoAgent, Runs
  <2>4. passes' \in [Runs -> PassStates]
    BY MemoryAssumption, TextsAreBodies DEF MemoryInv, MemoryTypeOK, MarkSuccess, PassStates, Bits, NoPass, Over, AgentTypeOK, Runs
  <2>5. /\ surface' \in {"cli", "tui"} /\ closing' \in {"no", "waiting", "done"}
         /\ drained' \in BOOLEAN /\ writes' \in 0 .. MaxWrites /\ runsMade' \in 0 .. MaxRuns
    BY MemoryAssumption, TextsAreBodies DEF MemoryInv, MemoryTypeOK, MarkSuccess
  <2>6. DoingsTypeOK'
    BY MemoryAssumption, TextsAreBodies DEF MemoryInv, MemoryTypeOK, MarkSuccess, DoingsTypeOK, AgentTypeOK, Runs
  <2> QED
    BY <2>1, <2>2, <2>3, <2>4, <2>5, <2>6 DEF MemoryTypeOK
<1>2. RunsAreNumbered'
    BY MemoryAssumption, OverStaysOver DEF MemoryInv, MarkSuccess, RunsAreNumbered, NoAgent, NoPass, Over, MemoryTypeOK, AgentTypeOK, DoingsTypeOK, Runs, PassStates
<1>3. PassesBegin'
    BY MemoryAssumption, OverStaysOver DEF MemoryInv, MarkSuccess, PassesBegin, RunsAreNumbered, NoAgent, NoPass, Over, MemoryTypeOK, AgentTypeOK, DoingsTypeOK, PassStates
<1>4. AgentAgrees'
    BY MemoryAssumption, OverStaysOver DEF MemoryInv, MarkSuccess, AgentAgrees, TrackerSees, WrittenOver, RunsAreNumbered, NoAgent, MemoryTypeOK, AgentTypeOK, DoingsTypeOK
<1>5. PassesAgree'
    BY MemoryAssumption, OverStaysOver DEF MemoryInv, MarkSuccess, PassesAgree, WrittenOver, RunsAreNumbered, PassesBegin, NoPass, Over, MemoryTypeOK, AgentTypeOK, DoingsTypeOK, PassStates
<1>6. OnlyMemoriesAreWritten'
    BY MemoryAssumption, OverStaysOver DEF MemoryInv, MarkSuccess, OnlyMemoriesAreWritten
<1>7. DrainIsFinal'
    BY MemoryAssumption, OverStaysOver DEF MemoryInv, MarkSuccess, DrainIsFinal, Busy, NoPass, Over, MemoryTypeOK, DoingsTypeOK, PassStates
<1> QED
    BY <1>1, <1>2, <1>3, <1>4, <1>5, <1>6, <1>7 DEF MemoryInv

LEMMA MemoryEnd ==
  ASSUME MemoryInv, NEW returned \in BOOLEAN, NEW allowed \in BOOLEAN,
         EndMainRun(returned, allowed)
  PROVE  MemoryInv'
<1>8. PICK q \in PassStates :
         /\ q.at = "fired" /\ q.wrote = agent.wrote /\ q.saw = {}
         /\ drained => q.cancelled
         /\ \/ passes' = [passes EXCEPT ![agent.run] = q]
            \/ passes' = passes
  <2>1. PICK q : q = [NoPass EXCEPT !.at = "fired", !.wrote = agent.wrote,
                          !.cancelled = closing = "done" \/ (surface = "tui" /\ closing # "no")]
    OBVIOUS
  <2>2. agent.wrote \in BOOLEAN
    BY DEF MemoryInv, MemoryTypeOK, AgentTypeOK
  <2>3. NoPass \in PassStates
    BY MemoryAssumption DEF NoPass, PassStates, Bits
  <2>4. q \in PassStates
    BY <2>1, <2>2, <2>3 DEF PassStates, Bits
  <2>5. q.at = "fired" /\ q.wrote = agent.wrote /\ q.saw = {}
    BY <2>1 DEF NoPass
  <2>6. q.cancelled = (closing = "done" \/ (surface = "tui" /\ closing # "no"))
    BY <2>1 DEF NoPass
  <2>7. drained => q.cancelled
    BY <2>6 DEF MemoryInv, DrainIsFinal
  <2>8. passes' = [passes EXCEPT ![agent.run] = q] \/ passes' = passes
    BY <2>1 DEF EndMainRun
  <2> QED
    BY <2>4, <2>5, <2>7, <2>8
<1>9. agent.run \in Runs /\ agent.pending = <<>>
    BY DEF MemoryInv, MemoryTypeOK, AgentTypeOK, EndMainRun, Runs
<1>10. /\ passes \in [Runs -> PassStates] /\ passes' \in [Runs -> PassStates]
       /\ passes'[agent.run] = q \/ passes'[agent.run] = passes[agent.run]
       /\ \A x \in Runs : x # agent.run => passes'[x] = passes[x]
    BY <1>8, <1>9 DEF MemoryInv, MemoryTypeOK
<1>11. /\ agent'.run = 0 /\ agent'.pending = <<>> /\ agent' = NoAgent
       /\ UNCHANGED <<doings, runsMade, drained, closing>>
    BY DEF EndMainRun, NoAgent
<1>1. MemoryTypeOK'
  <2>1. memories' \in [Places -> Bodies \cup {Missing}]
    BY MemoryAssumption, TextsAreBodies DEF MemoryInv, MemoryTypeOK, EndMainRun
  <2>2. spoken' \in Seq(Runs)
    <3>1. agent.run \in Runs
      BY DEF MemoryInv, MemoryTypeOK, AgentTypeOK, EndMainRun, Runs
    <3> QED
      BY <3>1 DEF MemoryInv, MemoryTypeOK, EndMainRun
  <2>3. AgentTypeOK'
    BY MemoryAssumption, TextsAreBodies DEF MemoryInv, MemoryTypeOK, EndMainRun, AgentTypeOK, NoAgent, Runs
  <2>4. passes' \in [Runs -> PassStates]
    BY <1>10
  <2>5. /\ surface' \in {"cli", "tui"} /\ closing' \in {"no", "waiting", "done"}
         /\ drained' \in BOOLEAN /\ writes' \in 0 .. MaxWrites /\ runsMade' \in 0 .. MaxRuns
    BY MemoryAssumption, TextsAreBodies DEF MemoryInv, MemoryTypeOK, EndMainRun
  <2>6. DoingsTypeOK'
    BY MemoryAssumption, TextsAreBodies DEF MemoryInv, MemoryTypeOK, EndMainRun, DoingsTypeOK, AgentTypeOK, Runs
  <2> QED
    BY <2>1, <2>2, <2>3, <2>4, <2>5, <2>6 DEF MemoryTypeOK
<1>2. RunsAreNumbered'
    BY <1>8, <1>9, <1>10, <1>11 DEF MemoryInv, Runs, RunsAreNumbered
<1>3. PassesBegin'
    BY <1>8, <1>9, <1>10, <1>11 DEF MemoryInv, PassesBegin, RunsAreNumbered, EndMainRun
<1>4. AgentAgrees'
    BY <1>11 DEF AgentAgrees
<1>5. PassesAgree'
  <2>1. (agent.wrote <=> agent.run \in doings.saved) \/ WrittenOver(agent.run)
    BY <1>9 DEF MemoryInv, AgentAgrees, TrackerSees, EndMainRun
  <2>2. \A x \in Runs : WrittenOver(x) => WrittenOver(x)'
    BY <1>11 DEF WrittenOver
  <2> QED
    BY <1>8, <1>9, <1>10, <1>11, <2>1, <2>2 DEF MemoryInv, PassesAgree
<1>6. OnlyMemoriesAreWritten'
    BY MemoryAssumption, OverStaysOver DEF MemoryInv, EndMainRun, OnlyMemoriesAreWritten
<1>7. DrainIsFinal'
    BY <1>8, <1>9, <1>10, <1>11 DEF MemoryInv, DrainIsFinal, Busy
<1> QED
    BY <1>1, <1>2, <1>3, <1>4, <1>5, <1>6, <1>7 DEF MemoryInv

LEMMA MemoryRewind ==
  ASSUME MemoryInv, NEW kept \in 0 .. Len(spoken),
         RewindLog(kept)
  PROVE  MemoryInv'
<1>1. MemoryTypeOK'
  <2>1. memories' \in [Places -> Bodies \cup {Missing}]
    BY MemoryAssumption, TextsAreBodies DEF MemoryInv, MemoryTypeOK, RewindLog
  <2>2. spoken' \in Seq(Runs)
    BY MemoryAssumption, TextsAreBodies DEF MemoryInv, MemoryTypeOK, RewindLog, AgentTypeOK, Runs
  <2>3. AgentTypeOK'
    BY MemoryAssumption, TextsAreBodies DEF MemoryInv, MemoryTypeOK, RewindLog, AgentTypeOK, NoAgent, Runs
  <2>4. passes' \in [Runs -> PassStates]
    BY MemoryAssumption, TextsAreBodies DEF MemoryInv, MemoryTypeOK, RewindLog, PassStates, Bits, NoPass, Over, AgentTypeOK, Runs
  <2>5. /\ surface' \in {"cli", "tui"} /\ closing' \in {"no", "waiting", "done"}
         /\ drained' \in BOOLEAN /\ writes' \in 0 .. MaxWrites /\ runsMade' \in 0 .. MaxRuns
    BY MemoryAssumption, TextsAreBodies DEF MemoryInv, MemoryTypeOK, RewindLog
  <2>6. DoingsTypeOK'
    BY MemoryAssumption, TextsAreBodies DEF MemoryInv, MemoryTypeOK, RewindLog, DoingsTypeOK, AgentTypeOK, Runs
  <2> QED
    BY <2>1, <2>2, <2>3, <2>4, <2>5, <2>6 DEF MemoryTypeOK
<1>2. RunsAreNumbered'
    BY MemoryAssumption, OverStaysOver DEF MemoryInv, RewindLog, RunsAreNumbered, NoAgent, NoPass, Over, MemoryTypeOK, AgentTypeOK, DoingsTypeOK, Runs, PassStates
<1>3. PassesBegin'
    BY MemoryAssumption, OverStaysOver DEF MemoryInv, RewindLog, PassesBegin, RunsAreNumbered, NoAgent, NoPass, Over, MemoryTypeOK, AgentTypeOK, DoingsTypeOK, PassStates
<1>4. AgentAgrees'
    BY MemoryAssumption, OverStaysOver DEF MemoryInv, RewindLog, AgentAgrees, TrackerSees, WrittenOver, RunsAreNumbered, NoAgent, MemoryTypeOK, AgentTypeOK, DoingsTypeOK
<1>5. PassesAgree'
    BY MemoryAssumption, OverStaysOver DEF MemoryInv, RewindLog, PassesAgree, WrittenOver, RunsAreNumbered, PassesBegin, NoPass, Over, MemoryTypeOK, AgentTypeOK, DoingsTypeOK, PassStates
<1>6. OnlyMemoriesAreWritten'
    BY MemoryAssumption, OverStaysOver DEF MemoryInv, RewindLog, OnlyMemoriesAreWritten
<1>7. DrainIsFinal'
    BY MemoryAssumption, OverStaysOver DEF MemoryInv, RewindLog, DrainIsFinal, Busy, NoPass, Over, MemoryTypeOK, DoingsTypeOK, PassStates
<1> QED
    BY <1>1, <1>2, <1>3, <1>4, <1>5, <1>6, <1>7 DEF MemoryInv

LEMMA MemoryStart ==
  ASSUME MemoryInv, NEW r \in Runs,
         StartPass(r)
  PROVE  MemoryInv'
<1>8. PICK q \in PassStates : passes' = [passes EXCEPT ![r] = q] /\ StartedAs(r, q)
  <2>1. PICK q : q = (IF passes[r].wrote THEN Over ELSE [passes[r] EXCEPT !.saw = MessagesForRun(r), !.at = "asking"])
    OBVIOUS
  <2>2. passes[r] \in PassStates
    BY DEF MemoryInv, MemoryTypeOK
  <2>3. q \in PassStates /\ StartedAs(r, q)
    BY <2>1, <2>2, OverIsPass DEF PassStates, Bits, StartedAs, Over, NoPass, MessagesForRun
  <2>4. passes' = [passes EXCEPT ![r] = q]
    BY <2>1 DEF StartPass
  <2> QED
    BY <2>3, <2>4
<1>9. /\ passes[r] \in PassStates /\ passes'[r] = q
      /\ \A x \in Runs : x # r => passes'[x] = passes[x]
    BY <1>8, PassChanges DEF MemoryInv, MemoryTypeOK
<1>1. MemoryTypeOK'
  <2>1. memories' \in [Places -> Bodies \cup {Missing}]
    BY MemoryAssumption, TextsAreBodies DEF MemoryInv, MemoryTypeOK, StartPass, MessagesForRun
  <2>2. spoken' \in Seq(Runs)
    BY MemoryAssumption, TextsAreBodies DEF MemoryInv, MemoryTypeOK, StartPass, AgentTypeOK, Runs, MessagesForRun
  <2>3. AgentTypeOK'
    BY MemoryAssumption, TextsAreBodies DEF MemoryInv, MemoryTypeOK, StartPass, AgentTypeOK, NoAgent, Runs, MessagesForRun
  <2>4. passes' \in [Runs -> PassStates]
    BY <1>8, PassChanges DEF MemoryInv, MemoryTypeOK
  <2>5. /\ surface' \in {"cli", "tui"} /\ closing' \in {"no", "waiting", "done"}
         /\ drained' \in BOOLEAN /\ writes' \in 0 .. MaxWrites /\ runsMade' \in 0 .. MaxRuns
    BY MemoryAssumption, TextsAreBodies DEF MemoryInv, MemoryTypeOK, StartPass, MessagesForRun
  <2>6. DoingsTypeOK'
    BY MemoryAssumption, TextsAreBodies DEF MemoryInv, MemoryTypeOK, StartPass, DoingsTypeOK, AgentTypeOK, Runs, MessagesForRun
  <2> QED
    BY <2>1, <2>2, <2>3, <2>4, <2>5, <2>6 DEF MemoryTypeOK
<1>2. RunsAreNumbered'
    BY MemoryAssumption, OverStaysOver DEF MemoryInv, StartPass, RunsAreNumbered, NoAgent, NoPass, Over, MemoryTypeOK, AgentTypeOK, DoingsTypeOK, Runs, PassStates, MessagesForRun
<1>3. PassesBegin'
    BY <1>8, <1>9 DEF MemoryInv, StartPass, PassesBegin, RunsAreNumbered, StartedAs, OverAs
<1>4. AgentAgrees'
    BY AgentStillAgrees DEF MemoryInv, StartPass
<1>5. PassesAgree'
    BY <1>8, <1>9, PassesStillAgree DEF MemoryInv, StartPass, StartedAs, OverAs
<1>6. OnlyMemoriesAreWritten'
    BY MemoryAssumption, OverStaysOver DEF MemoryInv, StartPass, OnlyMemoriesAreWritten, MessagesForRun
<1>7. DrainIsFinal'
    BY <1>8, <1>9 DEF MemoryInv, StartPass, DrainIsFinal, Busy, StartedAs, OverAs
<1> QED
    BY <1>1, <1>2, <1>3, <1>4, <1>5, <1>6, <1>7 DEF MemoryInv

LEMMA MemoryCannotLoad ==
  ASSUME MemoryInv, NEW r \in Runs,
         PassCannotLoad(r)
  PROVE  MemoryInv'
<1>8. PICK q \in PassStates : passes' = [passes EXCEPT ![r] = q] /\ OverAs(q)
  <2>1. PICK q : q = Over
    OBVIOUS
  <2>2. passes[r] \in PassStates
    BY DEF MemoryInv, MemoryTypeOK
  <2>3. q \in PassStates /\ OverAs(q)
    BY <2>1, <2>2, OverIsPass DEF PassStates, Bits, OverAs, Over, NoPass
  <2>4. passes' = [passes EXCEPT ![r] = q]
    BY <2>1 DEF PassCannotLoad
  <2> QED
    BY <2>3, <2>4
<1>9. /\ passes[r] \in PassStates /\ passes'[r] = q
      /\ \A x \in Runs : x # r => passes'[x] = passes[x]
    BY <1>8, PassChanges DEF MemoryInv, MemoryTypeOK
<1>1. MemoryTypeOK'
  <2>1. memories' \in [Places -> Bodies \cup {Missing}]
    BY MemoryAssumption, TextsAreBodies DEF MemoryInv, MemoryTypeOK, PassCannotLoad
  <2>2. spoken' \in Seq(Runs)
    BY MemoryAssumption, TextsAreBodies DEF MemoryInv, MemoryTypeOK, PassCannotLoad, AgentTypeOK, Runs
  <2>3. AgentTypeOK'
    BY MemoryAssumption, TextsAreBodies DEF MemoryInv, MemoryTypeOK, PassCannotLoad, AgentTypeOK, NoAgent, Runs
  <2>4. passes' \in [Runs -> PassStates]
    BY <1>8, PassChanges DEF MemoryInv, MemoryTypeOK
  <2>5. /\ surface' \in {"cli", "tui"} /\ closing' \in {"no", "waiting", "done"}
         /\ drained' \in BOOLEAN /\ writes' \in 0 .. MaxWrites /\ runsMade' \in 0 .. MaxRuns
    BY MemoryAssumption, TextsAreBodies DEF MemoryInv, MemoryTypeOK, PassCannotLoad
  <2>6. DoingsTypeOK'
    BY MemoryAssumption, TextsAreBodies DEF MemoryInv, MemoryTypeOK, PassCannotLoad, DoingsTypeOK, AgentTypeOK, Runs
  <2> QED
    BY <2>1, <2>2, <2>3, <2>4, <2>5, <2>6 DEF MemoryTypeOK
<1>2. RunsAreNumbered'
    BY MemoryAssumption, OverStaysOver DEF MemoryInv, PassCannotLoad, RunsAreNumbered, NoAgent, NoPass, Over, MemoryTypeOK, AgentTypeOK, DoingsTypeOK, Runs, PassStates
<1>3. PassesBegin'
    BY <1>8, <1>9 DEF MemoryInv, PassCannotLoad, PassesBegin, RunsAreNumbered, OverAs
<1>4. AgentAgrees'
    BY AgentStillAgrees DEF MemoryInv, PassCannotLoad
<1>5. PassesAgree'
    BY <1>8, <1>9, PassesStillAgree DEF MemoryInv, PassCannotLoad, OverAs
<1>6. OnlyMemoriesAreWritten'
    BY MemoryAssumption, OverStaysOver DEF MemoryInv, PassCannotLoad, OnlyMemoriesAreWritten
<1>7. DrainIsFinal'
    BY <1>8, <1>9 DEF MemoryInv, PassCannotLoad, DrainIsFinal, Busy, OverAs
<1> QED
    BY <1>1, <1>2, <1>3, <1>4, <1>5, <1>6, <1>7 DEF MemoryInv

LEMMA MemoryAsks ==
  ASSUME MemoryInv, NEW r \in Runs, NEW calls \in BOOLEAN,
         PassAsks(r, calls)
  PROVE  MemoryInv'
<1>8. PICK q \in PassStates : passes' = [passes EXCEPT ![r] = q] /\ AnsweredAs(r, q)
  <2>1. PICK q : q = (IF calls /\ ~passes[r].cancelled /\ passes[r].turn < MaxTurns
               THEN [passes[r] EXCEPT !.at = "calling", !.turn = @ + 1] ELSE Over)
    OBVIOUS
  <2>2. passes[r] \in PassStates
    BY DEF MemoryInv, MemoryTypeOK
  <2>3. q \in PassStates /\ AnsweredAs(r, q)
    <3>1. CASE calls /\ ~passes[r].cancelled /\ passes[r].turn < MaxTurns
      <4>1. passes[r].turn + 1 \in 0 .. MaxTurns
        BY <2>2, <3>1, MemoryAssumption DEF PassStates
      <4>2. q = [passes[r] EXCEPT !.at = "calling", !.turn = @ + 1]
        BY <2>1, <3>1
      <4> QED
        BY <2>2, <3>1, <4>1, <4>2 DEF PassStates, Bits, AnsweredAs
    <3>2. CASE ~(calls /\ ~passes[r].cancelled /\ passes[r].turn < MaxTurns)
      BY <2>1, <3>2, OverIsPass DEF AnsweredAs
    <3> QED
      BY <3>1, <3>2
  <2>4. passes' = [passes EXCEPT ![r] = q]
    BY <2>1 DEF PassAsks
  <2> QED
    BY <2>3, <2>4
<1>9. /\ passes[r] \in PassStates /\ passes'[r] = q
      /\ \A x \in Runs : x # r => passes'[x] = passes[x]
    BY <1>8, PassChanges DEF MemoryInv, MemoryTypeOK
<1>1. MemoryTypeOK'
  <2>1. memories' \in [Places -> Bodies \cup {Missing}]
    BY MemoryAssumption, TextsAreBodies DEF MemoryInv, MemoryTypeOK, PassAsks
  <2>2. spoken' \in Seq(Runs)
    BY MemoryAssumption, TextsAreBodies DEF MemoryInv, MemoryTypeOK, PassAsks, AgentTypeOK, Runs
  <2>3. AgentTypeOK'
    BY MemoryAssumption, TextsAreBodies DEF MemoryInv, MemoryTypeOK, PassAsks, AgentTypeOK, NoAgent, Runs
  <2>4. passes' \in [Runs -> PassStates]
    BY <1>8, PassChanges DEF MemoryInv, MemoryTypeOK
  <2>5. /\ surface' \in {"cli", "tui"} /\ closing' \in {"no", "waiting", "done"}
         /\ drained' \in BOOLEAN /\ writes' \in 0 .. MaxWrites /\ runsMade' \in 0 .. MaxRuns
    BY MemoryAssumption, TextsAreBodies DEF MemoryInv, MemoryTypeOK, PassAsks
  <2>6. DoingsTypeOK'
    BY MemoryAssumption, TextsAreBodies DEF MemoryInv, MemoryTypeOK, PassAsks, DoingsTypeOK, AgentTypeOK, Runs
  <2> QED
    BY <2>1, <2>2, <2>3, <2>4, <2>5, <2>6 DEF MemoryTypeOK
<1>2. RunsAreNumbered'
    BY MemoryAssumption, OverStaysOver DEF MemoryInv, PassAsks, RunsAreNumbered, NoAgent, NoPass, Over, MemoryTypeOK, AgentTypeOK, DoingsTypeOK, Runs, PassStates
<1>3. PassesBegin'
    BY <1>8, <1>9 DEF MemoryInv, PassAsks, PassesBegin, RunsAreNumbered, AnsweredAs, OverAs
<1>4. AgentAgrees'
    BY AgentStillAgrees DEF MemoryInv, PassAsks
<1>5. PassesAgree'
    BY <1>8, <1>9, PassesStillAgree DEF MemoryInv, PassAsks, AnsweredAs, OverAs
<1>6. OnlyMemoriesAreWritten'
    BY MemoryAssumption, OverStaysOver DEF MemoryInv, PassAsks, OnlyMemoriesAreWritten
<1>7. DrainIsFinal'
    BY <1>8, <1>9 DEF MemoryInv, PassAsks, DrainIsFinal, Busy, AnsweredAs, OverAs
<1> QED
    BY <1>1, <1>2, <1>3, <1>4, <1>5, <1>6, <1>7 DEF MemoryInv

LEMMA MemoryPassWrites ==
  ASSUME MemoryInv, NEW r \in Runs, NEW tool \in MemoryTools, NEW place \in Places,
         NEW content \in Texts(place), NEW then \in {"asking", "calling"},
         PassWrites(r, tool, place, content, then)
  PROVE  MemoryInv'
<1>8. PICK q \in PassStates : passes' = [passes EXCEPT ![r] = q] /\ ContinuedAs(r, q, then)
  <2>1. PICK q : q = [passes[r] EXCEPT !.at = then]
    OBVIOUS
  <2>2. passes[r] \in PassStates
    BY DEF MemoryInv, MemoryTypeOK
  <2>3. q \in PassStates /\ ContinuedAs(r, q, then)
    BY <2>1, <2>2, OverIsPass DEF PassStates, Bits, ContinuedAs
  <2>4. passes' = [passes EXCEPT ![r] = q]
    BY <2>1 DEF PassWrites
  <2> QED
    BY <2>3, <2>4
<1>9. /\ passes[r] \in PassStates /\ passes'[r] = q
      /\ \A x \in Runs : x # r => passes'[x] = passes[x]
    BY <1>8, PassChanges DEF MemoryInv, MemoryTypeOK
<1>10. \/ UNCHANGED <<memories, writes, doings>>
       \/ /\ DirectMemoryFile(place) /\ memories' = [memories EXCEPT ![place] = content]
          /\ doings'.wrote = doings.wrote \cup {<<r, place>>}
          /\ UNCHANGED <<doings.touched, doings.saved>>
          /\ doings'.late = (doings.late \/ drained)
    BY DEF PassWrites, GuardAllows, MemoryTools, MemoryInv, MemoryTypeOK, DoingsTypeOK
<1>11. passes[r].at = "calling" /\ r # agent.run /\ UNCHANGED <<agent, drained, closing>>
    BY DEF MemoryInv, RunsAreNumbered, PassWrites
<1>12. \A x : WrittenOver(x) => WrittenOver(x)'
    BY <1>10, OverStaysOver
<1>1. MemoryTypeOK'
  <2>1. memories' \in [Places -> Bodies \cup {Missing}]
    BY MemoryAssumption, TextsAreBodies DEF MemoryInv, MemoryTypeOK, PassWrites, GuardAllows, MemoryTools
  <2>2. spoken' \in Seq(Runs)
    BY MemoryAssumption, TextsAreBodies DEF MemoryInv, MemoryTypeOK, PassWrites, AgentTypeOK, Runs, GuardAllows, MemoryTools
  <2>3. AgentTypeOK'
    BY MemoryAssumption, TextsAreBodies DEF MemoryInv, MemoryTypeOK, PassWrites, AgentTypeOK, NoAgent, Runs, GuardAllows, MemoryTools
  <2>4. passes' \in [Runs -> PassStates]
    BY <1>8, PassChanges DEF MemoryInv, MemoryTypeOK
  <2>5. /\ surface' \in {"cli", "tui"} /\ closing' \in {"no", "waiting", "done"}
         /\ drained' \in BOOLEAN /\ writes' \in 0 .. MaxWrites /\ runsMade' \in 0 .. MaxRuns
    BY MemoryAssumption, TextsAreBodies DEF MemoryInv, MemoryTypeOK, PassWrites, GuardAllows, MemoryTools
  <2>6. DoingsTypeOK'
    <3>1. doings.wrote \cup {<<r, place>>} \in SUBSET (Runs \X Places)
      BY DEF MemoryInv, MemoryTypeOK, DoingsTypeOK
    <3>2. \/ doings' = doings
          \/ doings' = [doings EXCEPT !.wrote = @ \cup {<<r, place>>}, !.late = @ \/ drained]
      BY DEF PassWrites
    <3>3. (doings.late \/ drained) \in BOOLEAN
      OBVIOUS
    <3> QED
      BY <3>1, <3>2, <3>3 DEF MemoryInv, MemoryTypeOK, DoingsTypeOK
  <2> QED
    BY <2>1, <2>2, <2>3, <2>4, <2>5, <2>6 DEF MemoryTypeOK
<1>2. RunsAreNumbered'
    BY MemoryAssumption, OverStaysOver DEF MemoryInv, PassWrites, RunsAreNumbered, NoAgent, NoPass, Over, MemoryTypeOK, AgentTypeOK, DoingsTypeOK, Runs, PassStates, GuardAllows, MemoryTools
<1>3. PassesBegin'
    BY <1>8, <1>9, <1>10, <1>11 DEF MemoryInv, PassesBegin, ContinuedAs
<1>4. AgentAgrees'
  <2>1. CASE UNCHANGED <<memories, writes, doings>>
    BY <2>1, <1>11, AgentStillAgrees DEF MemoryInv
  <2>2. CASE ~UNCHANGED <<memories, writes, doings>>
    <3>1. ASSUME agent.run # 0, agent.pending # <<>>, agent.pending[2] = place
          PROVE  WrittenOver(agent.run)'
      <4>1. <<r, place>> \in doings'.wrote /\ <<agent.run, place>> \in doings'.touched
        BY <2>2, <3>1, <1>10 DEF MemoryInv, RunsAreNumbered
      <4> QED
        BY <4>1, <1>11 DEF WrittenOver
    <3>2. ASSUME agent.run # 0, agent.pending = <<>> \/ agent.pending[2] # place
          PROVE  TrackerSees' <=> TrackerSees
      <4>1. CASE agent.pending = <<>>
        BY <4>1, <1>11 DEF TrackerSees
      <4>2. CASE agent.pending # <<>>
        <5>1. memories'[agent.pending[2]] = memories[agent.pending[2]]
          BY <1>10, <3>2, <4>2 DEF MemoryInv, MemoryTypeOK, AgentTypeOK, Calls
        <5> QED
          BY <5>1, <1>11 DEF TrackerSees, Remembers, LoadableIn
      <4> QED
        BY <4>1, <4>2
    <3>3. agent.run \in doings'.saved <=> agent.run \in doings.saved
      BY <1>10
    <3> QED
      <4>1. CASE agent.run # 0 /\ agent.pending # <<>> /\ agent.pending[2] = place
        BY <4>1, <3>1 DEF AgentAgrees
      <4>2. CASE agent.run # 0 /\ (agent.pending = <<>> \/ agent.pending[2] # place)
        <5>1. TrackerSees' <=> TrackerSees
          BY <4>2, <3>2
        <5>2. (TrackerSees <=> agent.run \in doings.saved) \/ WrittenOver(agent.run)
          BY <4>2 DEF MemoryInv, AgentAgrees
        <5>3. WrittenOver(agent.run) => WrittenOver(agent.run)'
          BY <1>11, <1>12
        <5> QED
          BY <5>1, <5>2, <5>3, <3>3, <1>11 DEF AgentAgrees
      <4>3. CASE agent.run = 0
        BY <4>3, <1>11 DEF AgentAgrees
      <4> QED
        BY <4>1, <4>2, <4>3
  <2> QED
    BY <2>1, <2>2
<1>5. PassesAgree'
    BY <1>8, <1>9, <1>10, <1>11, <1>12 DEF MemoryInv, PassesAgree, ContinuedAs
<1>6. OnlyMemoriesAreWritten'
    BY <1>10 DEF MemoryInv, OnlyMemoriesAreWritten, DirectMemoryFile
<1>7. DrainIsFinal'
  <2>1. ~drained
    BY <1>11 DEF MemoryInv, DrainIsFinal
  <2> QED
    BY <2>1, <1>10, <1>11 DEF MemoryInv, DrainIsFinal
<1> QED
    BY <1>1, <1>2, <1>3, <1>4, <1>5, <1>6, <1>7 DEF MemoryInv

LEMMA MemoryReads ==
  ASSUME MemoryInv, NEW r \in Runs,
         PassReads(r)
  PROVE  MemoryInv'
<1>8. PICK q \in PassStates : passes' = [passes EXCEPT ![r] = q] /\ ContinuedAs(r, q, "asking")
  <2>1. PICK q : q = [passes[r] EXCEPT !.at = "asking"]
    OBVIOUS
  <2>2. passes[r] \in PassStates
    BY DEF MemoryInv, MemoryTypeOK
  <2>3. q \in PassStates /\ ContinuedAs(r, q, "asking")
    BY <2>1, <2>2, OverIsPass DEF PassStates, Bits, ContinuedAs
  <2>4. passes' = [passes EXCEPT ![r] = q]
    BY <2>1 DEF PassReads
  <2> QED
    BY <2>3, <2>4
<1>9. /\ passes[r] \in PassStates /\ passes'[r] = q
      /\ \A x \in Runs : x # r => passes'[x] = passes[x]
    BY <1>8, PassChanges DEF MemoryInv, MemoryTypeOK
<1>1. MemoryTypeOK'
  <2>1. memories' \in [Places -> Bodies \cup {Missing}]
    BY MemoryAssumption, TextsAreBodies DEF MemoryInv, MemoryTypeOK, PassReads
  <2>2. spoken' \in Seq(Runs)
    BY MemoryAssumption, TextsAreBodies DEF MemoryInv, MemoryTypeOK, PassReads, AgentTypeOK, Runs
  <2>3. AgentTypeOK'
    BY MemoryAssumption, TextsAreBodies DEF MemoryInv, MemoryTypeOK, PassReads, AgentTypeOK, NoAgent, Runs
  <2>4. passes' \in [Runs -> PassStates]
    BY <1>8, PassChanges DEF MemoryInv, MemoryTypeOK
  <2>5. /\ surface' \in {"cli", "tui"} /\ closing' \in {"no", "waiting", "done"}
         /\ drained' \in BOOLEAN /\ writes' \in 0 .. MaxWrites /\ runsMade' \in 0 .. MaxRuns
    BY MemoryAssumption, TextsAreBodies DEF MemoryInv, MemoryTypeOK, PassReads
  <2>6. DoingsTypeOK'
    BY MemoryAssumption, TextsAreBodies DEF MemoryInv, MemoryTypeOK, PassReads, DoingsTypeOK, AgentTypeOK, Runs
  <2> QED
    BY <2>1, <2>2, <2>3, <2>4, <2>5, <2>6 DEF MemoryTypeOK
<1>2. RunsAreNumbered'
    BY MemoryAssumption, OverStaysOver DEF MemoryInv, PassReads, RunsAreNumbered, NoAgent, NoPass, Over, MemoryTypeOK, AgentTypeOK, DoingsTypeOK, Runs, PassStates
<1>3. PassesBegin'
    BY <1>8, <1>9 DEF MemoryInv, PassReads, PassesBegin, RunsAreNumbered, ContinuedAs
<1>4. AgentAgrees'
    BY AgentStillAgrees DEF MemoryInv, PassReads
<1>5. PassesAgree'
    BY <1>8, <1>9, PassesStillAgree DEF MemoryInv, PassReads, ContinuedAs
<1>6. OnlyMemoriesAreWritten'
    BY MemoryAssumption, OverStaysOver DEF MemoryInv, PassReads, OnlyMemoriesAreWritten
<1>7. DrainIsFinal'
    BY <1>8, <1>9 DEF MemoryInv, PassReads, DrainIsFinal, Busy, ContinuedAs
<1> QED
    BY <1>1, <1>2, <1>3, <1>4, <1>5, <1>6, <1>7 DEF MemoryInv

LEMMA MemoryBeginClose ==
  ASSUME MemoryInv, BeginClose
  PROVE  MemoryInv'
<1>1. MemoryTypeOK'
  <2>1. memories' \in [Places -> Bodies \cup {Missing}]
    BY MemoryAssumption, TextsAreBodies DEF MemoryInv, MemoryTypeOK, BeginClose, Cancelled
  <2>2. spoken' \in Seq(Runs)
    BY MemoryAssumption, TextsAreBodies DEF MemoryInv, MemoryTypeOK, BeginClose, AgentTypeOK, Runs, Cancelled
  <2>3. AgentTypeOK'
    BY MemoryAssumption, TextsAreBodies DEF MemoryInv, MemoryTypeOK, BeginClose, AgentTypeOK, NoAgent, Runs, Cancelled
  <2>4. passes' \in [Runs -> PassStates]
    <3>1. Cancelled(passes) \in [Runs -> PassStates]
      BY CancelledPasses DEF MemoryInv, MemoryTypeOK
    <3> QED
      BY <3>1 DEF MemoryInv, MemoryTypeOK, BeginClose
  <2>5. /\ surface' \in {"cli", "tui"} /\ closing' \in {"no", "waiting", "done"}
         /\ drained' \in BOOLEAN /\ writes' \in 0 .. MaxWrites /\ runsMade' \in 0 .. MaxRuns
    BY MemoryAssumption, TextsAreBodies DEF MemoryInv, MemoryTypeOK, BeginClose, Cancelled
  <2>6. DoingsTypeOK'
    BY MemoryAssumption, TextsAreBodies DEF MemoryInv, MemoryTypeOK, BeginClose, DoingsTypeOK, AgentTypeOK, Runs, Cancelled
  <2> QED
    BY <2>1, <2>2, <2>3, <2>4, <2>5, <2>6 DEF MemoryTypeOK
<1>2. RunsAreNumbered'
    BY MemoryAssumption, OverStaysOver DEF MemoryInv, BeginClose, RunsAreNumbered, NoAgent, NoPass, Over, MemoryTypeOK, AgentTypeOK, DoingsTypeOK, Runs, PassStates, Cancelled
<1>3. PassesBegin'
    BY MemoryAssumption, OverStaysOver DEF MemoryInv, BeginClose, PassesBegin, RunsAreNumbered, NoAgent, NoPass, Over, MemoryTypeOK, AgentTypeOK, DoingsTypeOK, PassStates, Cancelled
<1>4. AgentAgrees'
    BY AgentStillAgrees DEF MemoryInv, BeginClose
<1>5. PassesAgree'
    BY PassesStillAgree DEF MemoryInv, BeginClose, MemoryTypeOK, PassStates, Over, NoPass, Cancelled
<1>6. OnlyMemoriesAreWritten'
    BY MemoryAssumption, OverStaysOver DEF MemoryInv, BeginClose, OnlyMemoriesAreWritten, Cancelled
<1>7. DrainIsFinal'
    BY MemoryAssumption, OverStaysOver DEF MemoryInv, BeginClose, DrainIsFinal, Busy, NoPass, Over, MemoryTypeOK, DoingsTypeOK, PassStates, Cancelled
<1> QED
    BY <1>1, <1>2, <1>3, <1>4, <1>5, <1>6, <1>7 DEF MemoryInv

LEMMA MemoryWaitEnds ==
  ASSUME MemoryInv, NEW timeout \in BOOLEAN,
         WaitEnds(timeout)
  PROVE  MemoryInv'
<1>1. MemoryTypeOK'
  <2>1. memories' \in [Places -> Bodies \cup {Missing}]
    BY MemoryAssumption, TextsAreBodies DEF MemoryInv, MemoryTypeOK, WaitEnds, Cancelled
  <2>2. spoken' \in Seq(Runs)
    BY MemoryAssumption, TextsAreBodies DEF MemoryInv, MemoryTypeOK, WaitEnds, AgentTypeOK, Runs, Cancelled
  <2>3. AgentTypeOK'
    BY MemoryAssumption, TextsAreBodies DEF MemoryInv, MemoryTypeOK, WaitEnds, AgentTypeOK, NoAgent, Runs, Cancelled
  <2>4. passes' \in [Runs -> PassStates]
    <3>1. Cancelled(passes) \in [Runs -> PassStates]
      BY CancelledPasses DEF MemoryInv, MemoryTypeOK
    <3> QED
      BY <3>1 DEF MemoryInv, MemoryTypeOK, WaitEnds
  <2>5. /\ surface' \in {"cli", "tui"} /\ closing' \in {"no", "waiting", "done"}
         /\ drained' \in BOOLEAN /\ writes' \in 0 .. MaxWrites /\ runsMade' \in 0 .. MaxRuns
    BY MemoryAssumption, TextsAreBodies DEF MemoryInv, MemoryTypeOK, WaitEnds, Cancelled
  <2>6. DoingsTypeOK'
    BY MemoryAssumption, TextsAreBodies DEF MemoryInv, MemoryTypeOK, WaitEnds, DoingsTypeOK, AgentTypeOK, Runs, Cancelled
  <2> QED
    BY <2>1, <2>2, <2>3, <2>4, <2>5, <2>6 DEF MemoryTypeOK
<1>2. RunsAreNumbered'
    BY MemoryAssumption, OverStaysOver DEF MemoryInv, WaitEnds, RunsAreNumbered, NoAgent, NoPass, Over, MemoryTypeOK, AgentTypeOK, DoingsTypeOK, Runs, PassStates, Cancelled
<1>3. PassesBegin'
    BY MemoryAssumption, OverStaysOver DEF MemoryInv, WaitEnds, PassesBegin, RunsAreNumbered, NoAgent, NoPass, Over, MemoryTypeOK, AgentTypeOK, DoingsTypeOK, PassStates, Cancelled
<1>4. AgentAgrees'
    BY AgentStillAgrees DEF MemoryInv, WaitEnds
<1>5. PassesAgree'
    BY PassesStillAgree DEF MemoryInv, WaitEnds, MemoryTypeOK, PassStates, Over, NoPass, Cancelled
<1>6. OnlyMemoriesAreWritten'
    BY MemoryAssumption, OverStaysOver DEF MemoryInv, WaitEnds, OnlyMemoriesAreWritten, Cancelled
<1>7. DrainIsFinal'
    BY MemoryAssumption, OverStaysOver DEF MemoryInv, WaitEnds, DrainIsFinal, Busy, NoPass, Over, MemoryTypeOK, DoingsTypeOK, PassStates, Cancelled
<1> QED
    BY <1>1, <1>2, <1>3, <1>4, <1>5, <1>6, <1>7 DEF MemoryInv

LEMMA MemoryStep == MemoryInv /\ [MemoryNext]_memoryVars => MemoryInv'
<1> SUFFICES ASSUME MemoryInv, [MemoryNext]_memoryVars PROVE MemoryInv'
    OBVIOUS
<1>1. CASE BeginMainRun
    BY <1>1, MemoryBegin
<1>2. ASSUME NEW tool \in {"write_file", "edit_file"}, NEW place \in Places, NEW content \in Texts(place),
             \/ AgentWrites(tool, place, content)
             \/ \E r \in Runs, then \in {"asking", "calling"} : PassWrites(r, tool, place, content, then)
      PROVE  MemoryInv'
    BY <1>2, MemoryAgentWrites, MemoryPassWrites DEF MemoryTools
<1>3. CASE MarkSuccess
    BY <1>3, MemoryMark
<1>4. ASSUME NEW returned \in BOOLEAN, NEW allowed \in BOOLEAN, EndMainRun(returned, allowed) PROVE MemoryInv'
    BY <1>4, MemoryEnd
<1>5. ASSUME NEW kept \in 0 .. Len(spoken), RewindLog(kept) PROVE MemoryInv'
    BY <1>5, MemoryRewind
<1>6. ASSUME NEW r \in Runs, StartPass(r) \/ PassCannotLoad(r) \/ PassReads(r) PROVE MemoryInv'
    BY <1>6, MemoryStart, MemoryCannotLoad, MemoryReads
<1>7. ASSUME NEW r \in Runs, NEW calls \in BOOLEAN, PassAsks(r, calls) PROVE MemoryInv'
    BY <1>7, MemoryAsks
<1>8. CASE BeginClose
    BY <1>8, MemoryBeginClose
<1>9. ASSUME NEW timeout \in BOOLEAN, WaitEnds(timeout) PROVE MemoryInv'
    BY <1>9, MemoryWaitEnds
<1>10. CASE UNCHANGED memoryVars
    BY <1>10 DEF memoryVars, MemoryInv, MemoryTypeOK, AgentTypeOK, DoingsTypeOK, RunsAreNumbered, PassesBegin,
                 AgentAgrees, TrackerSees, Remembers, LoadableIn, PassesAgree, WrittenOver,
                 OnlyMemoriesAreWritten, DrainIsFinal, Busy
<1> QED
    BY <1>1, <1>2, <1>3, <1>4, <1>5, <1>6, <1>7, <1>8, <1>9, <1>10 DEF MemoryNext

\* In a set of names every place from the first to the last is taken, and names stand in order.
LEMMA RanksAreTaken ==
  ASSUME NEW S \in SUBSET Slugs
  PROVE  /\ IsFiniteSet(S) /\ Cardinality(S) \in Nat
         /\ \A m, n \in S : Rank(m, S) < Rank(n, S) => m < n
         /\ \A i \in 1 .. Cardinality(S) : \E n \in S : Rank(n, S) = i
<1> DEFINE upTo(n) == {m \in S : m <= n}
<1>1. IsFiniteSet(S) /\ S \subseteq Nat /\ Cardinality(S) \in Nat
  <2>1. IsFiniteSet(Slugs) /\ Slugs \subseteq Nat
    BY MemoryAssumption, FS_Interval DEF Slugs
  <2> QED
    BY <2>1, FS_Subset, FS_CardinalityType
<1>2. \A n \in S : /\ IsFiniteSet(upTo(n)) /\ Rank(n, S) = Cardinality(upTo(n))
                   /\ Rank(n, S) \in 1 .. Cardinality(S)
  <2> SUFFICES ASSUME NEW n \in S
               PROVE  /\ IsFiniteSet(upTo(n)) /\ Rank(n, S) = Cardinality(upTo(n))
                      /\ Rank(n, S) \in 1 .. Cardinality(S)
    OBVIOUS
  <2>1. /\ IsFiniteSet(upTo(n)) /\ Cardinality(upTo(n)) \in Nat
        /\ Cardinality(upTo(n)) <= Cardinality(S)
    BY <1>1, FS_Subset, FS_CardinalityType
  <2>2. n \in upTo(n)
    BY <1>1
  <2>3. Cardinality(upTo(n)) # 0
    BY <2>1, <2>2, FS_EmptySet
  <2> QED
    BY <1>1, <2>1, <2>3 DEF Rank
<1>10. \A n \in S : n \in Nat /\ Rank(n, S) \in Nat
  <2> SUFFICES ASSUME NEW n \in S PROVE n \in Nat /\ Rank(n, S) \in Nat
    OBVIOUS
  <2>1. PICK k : k = Rank(n, S)
    OBVIOUS
  <2>2. k \in 1 .. Cardinality(S)
    BY <1>2, <2>1
  <2>3. k \in Nat
    BY <1>1, <2>2
  <2> QED
    BY <1>1, <2>1, <2>3
<1>3. \A m, n \in S : m < n => Rank(m, S) < Rank(n, S)
  <2> SUFFICES ASSUME NEW m \in S, NEW n \in S, m < n PROVE Rank(m, S) < Rank(n, S)
    OBVIOUS
  <2>0. \A x \in S : x \in Nat
    BY <1>1
  <2>3. \A x \in S : x <= m => x <= n
    BY <2>0
  <2>4. n <= n /\ ~(n <= m)
    BY <2>0
  <2>1. upTo(m) \subseteq upTo(n) /\ n \in upTo(n) /\ n \notin upTo(m)
    BY <2>3, <2>4
  <2>2. Cardinality(upTo(m)) <= Cardinality(upTo(n)) /\ Cardinality(upTo(m)) # Cardinality(upTo(n))
    BY <1>2, <2>1, FS_Subset
  <2> QED
    BY <1>1, <1>2, <2>2
<1>4. \A m, n \in S : Rank(m, S) < Rank(n, S) => m < n
  <2> SUFFICES ASSUME NEW m \in S, NEW n \in S, Rank(m, S) < Rank(n, S) PROVE m < n
    OBVIOUS
  <2>1. m \in Nat /\ n \in Nat /\ Rank(m, S) \in Nat /\ Rank(n, S) \in Nat
    BY <1>10
  <2>2. n < m => Rank(n, S) < Rank(m, S)
    BY <1>3
  <2>3. m # n
    BY <2>1
  <2> QED
    BY <2>1, <2>2, <2>3
<1>5. PICK f : f = [n \in S |-> Rank(n, S)]
    OBVIOUS
<1>6. f \in Injection(S, 1 .. Cardinality(S))
  <2>1. f \in [S -> 1 .. Cardinality(S)]
    BY <1>2, <1>5
  <2>2. ASSUME NEW m \in S, NEW n \in S, f[m] = f[n] PROVE m = n
    <3>1. m \in Nat /\ n \in Nat /\ Rank(m, S) \in Nat /\ Rank(m, S) = Rank(n, S)
      BY <1>10, <1>5, <2>2
    <3>2. ~(m < n) /\ ~(n < m)
      BY <1>3, <3>1
    <3> QED
      BY <3>1, <3>2
  <2> QED
    BY <2>1, <2>2 DEF Injection, IsInjective
<1>7. IsFiniteSet(1 .. Cardinality(S)) /\ Cardinality(1 .. Cardinality(S)) = Cardinality(S)
    BY <1>1, FS_Interval
<1>8. f \in Surjection(S, 1 .. Cardinality(S))
    BY <1>6, <1>7, FS_Injection
<1>9. \A i \in 1 .. Cardinality(S) : \E n \in S : Rank(n, S) = i
    BY <1>5, <1>8 DEF Surjection
<1> QED
    BY <1>1, <1>4, <1>9

\* What is advertised is there, in order, and the rest is counted - whatever the files hold.
LEMMA IndexHolds == IndexIsTrue
<1> SUFFICES ASSUME NEW scope \in Scopes, NEW index, index = MergedIndex[scope]
             PROVE  /\ Len(index.entries) + index.more = Cardinality(LoadScope(scope))
                    /\ \A i \in DOMAIN index.entries :
                          /\ LoadableIn(memories, <<scope, index.entries[i]>>)
                          /\ i > 1 => index.entries[i - 1] < index.entries[i]
    BY DEF IndexIsTrue
<1>1. PICK names : names = LoadScope(scope)
    OBVIOUS
<1>2. names \in SUBSET Slugs /\ \A n \in names : LoadableIn(memories, <<scope, n>>)
    BY <1>1 DEF LoadScope
<1>3. PICK shown : shown = Min({Cardinality(names), MaxIndex})
    OBVIOUS
<1>4. Cardinality(names) \in Nat /\ shown \in Nat /\ shown <= Cardinality(names)
  <2>1. Cardinality(names) \in Nat
    BY <1>2, RanksAreTaken
  <2>2. \E x \in {Cardinality(names), MaxIndex} : \A y \in {Cardinality(names), MaxIndex} : x <= y
    BY <2>1, MemoryAssumption
  <2>3. shown \in {Cardinality(names), MaxIndex} /\ \A y \in {Cardinality(names), MaxIndex} : shown <= y
    BY <1>3, <2>2 DEF Min
  <2> QED
    BY <2>1, <2>3, MemoryAssumption
<1>5. PICK listed : listed = [i \in 1 .. shown |-> CHOOSE n \in names : Rank(n, names) = i]
    OBVIOUS
<1>6. index.entries = listed /\ index.more = Cardinality(names) - shown
  <2>1. index = BuildIndex(scope)
    BY DEF MergedIndex
  <2>2. BuildIndex(scope) = [entries |-> listed, more |-> Cardinality(names) - shown]
    BY <1>1, <1>3, <1>5 DEF BuildIndex
  <2> QED
    BY <2>1, <2>2
<1>7. \A i \in 1 .. shown : listed[i] \in names /\ Rank(listed[i], names) = i
  <2> SUFFICES ASSUME NEW i \in 1 .. shown PROVE listed[i] \in names /\ Rank(listed[i], names) = i
    OBVIOUS
  <2>1. \E n \in names : Rank(n, names) = i
    BY <1>2, <1>4, RanksAreTaken
  <2> QED
    BY <1>5, <2>1
<1>8. Len(listed) = shown /\ DOMAIN listed = 1 .. shown
    BY <1>4, <1>5
<1>9. \A i \in 1 .. shown : i > 1 => listed[i - 1] < listed[i]
  <2> SUFFICES ASSUME NEW i \in 1 .. shown, i > 1 PROVE listed[i - 1] < listed[i]
    OBVIOUS
  <2>1. i - 1 \in 1 .. shown /\ i - 1 < i
    BY <1>4
  <2> QED
    BY <1>2, <1>7, <2>1, RanksAreTaken
<1>10. \A i \in 1 .. shown : LoadableIn(memories, <<scope, listed[i]>>)
    BY <1>2, <1>7
<1>11. shown + (Cardinality(names) - shown) = Cardinality(names)
    BY <1>4
<1> QED
    BY <1>1, <1>6, <1>8, <1>9, <1>10, <1>11

LEMMA MemoryInvIsSafe == MemoryInv => MemoryIsSafe
<1> SUFFICES ASSUME MemoryInv PROVE MemoryIsSafe
    OBVIOUS
<1>1. PassesAreIsolated
    BY DEF MemoryInv, PassesBegin, OnlyMemoriesAreWritten, PassesAreIsolated
<1>2. OneWriterPerRun
    BY DEF MemoryInv, MemoryTypeOK, PassStates, Bits, PassesBegin, PassesAgree, WrittenOver, OneWriterPerRun
<1>3. NoLateWrite
    BY DEF MemoryInv, DrainIsFinal, NoLateWrite
<1> QED
    BY <1>1, <1>2, <1>3, IndexHolds DEF MemoryIsSafe

\* The files, the run under way, the passes and the history keep their types (automemory).
THEOREM MemoryTypeCorrect == MemoryInit /\ [][MemoryNext]_memoryVars => []MemoryTypeOK
<1>1. MemoryInv => MemoryTypeOK
    BY DEF MemoryInv
<1> QED
    BY <1>1, MemoryBegins, MemoryStep, PTL

\* However runs, their passes, rewinds and the end of the process interleave: a pass reads its
\* own run's messages and writes nothing but memories, a run that saved something is left alone
\* and one that did not is not, nothing is written behind a wait that ended by itself, and the
\* index lists what is there (Runner.RunExtraction, memory write tracker, BuildIndex).
THEOREM MemoryStaysSafe == MemoryInit /\ [][MemoryNext]_memoryVars => []MemoryIsSafe
<1> QED
    BY MemoryBegins, MemoryStep, MemoryInvIsSafe, PTL

=============================================================================
