------------------------- MODULE FeishuRunnerProofs -------------------------
(***************************************************************************)
(* The scheduler's tables agree with each other and with the goroutines,   *)
(* and the runner implements the serial executor, for any number of tasks, *)
(* sessions and permits.  The invariant says where every accepted task is: *)
(* in the channel, in the queue of its session, running, or done with; and *)
(* that channel and queues keep the order in which tasks were accepted.    *)
(***************************************************************************)
EXTENDS FeishuRunner, FiniteSetTheorems, SequenceTheorems, WellFoundedInduction, TLAPS

\* How many accepted tasks the runner received from the channel.
Received == Len(order) - Len(tasks)

\* An entry has something to do, is marked ready when only a permit is missing, and its
\* active task is one of its own.
EntriesAgree ==
    \A k \in Keys :
        LET q == sessions[k]
        IN  /\ q.present <=> q.tasks # <<>> \/ q.activeTask # None
            /\ q.ready <=> q.tasks # <<>> /\ q.activeTask = None
            /\ q.activeTask # None => SessionOf[q.activeTask] = k

\* The ready list holds the marked sessions, each once.
ReadyAgrees ==
    /\ \A i, j \in DOMAIN ready : ready[i] = ready[j] => i = j
    /\ \A i \in DOMAIN ready : sessions[ready[i]].ready
    /\ \A k \in Keys : sessions[k].ready => \E i \in DOMAIN ready : ready[i] = k

\* A goroutine that lives, or was not heard of, is the active one of its session.
GoroutinesAgree ==
    /\ \A t \in Alive : sessions[SessionOf[t]].activeTask = t
    /\ \A t \in Alive : \A i \in DOMAIN completed : completed[i] # SessionOf[t]
    /\ \A i, j \in DOMAIN completed : completed[i] = completed[j] => i = j
    /\ \A i \in DOMAIN completed : sessions[completed[i]].activeTask # None

\* The channel holds the end of what was accepted, every queue tasks from before it.
ChannelFollows ==
    /\ \A i, j \in DOMAIN order : order[i] = order[j] => i = j
    /\ Len(tasks) <= Len(order)
    /\ \A j \in DOMAIN tasks : tasks[j] = order[Received + j]

QueuesFollow ==
    \A k \in Keys :
        LET q == sessions[k].tasks
        IN  /\ \A i \in DOMAIN q : SessionOf[q[i]] = k /\ \E p \in 1 .. Received : order[p] = q[i]
            /\ \A i, j \in DOMAIN q, m, n \in DOMAIN order :
                  i < j /\ order[m] = q[i] /\ order[n] = q[j] => m < n

\* What nobody started or dropped is what still waits.
Waiting == ToSet(tasks) \cup Queued

WaitingIsPending ==
    /\ \A t \in Waiting : go[t] = "none" /\ notices[t] = <<>>
    /\ \A t \in Tasks \ ToSet(order) : go[t] = "none" /\ notices[t] = <<>>
    /\ \A t \in ToSet(order) : go[t] = "none" /\ notices[t] = <<>> => t \in Waiting

IInv ==
    /\ TypeOK /\ ActiveCountsGoroutines
    /\ EntriesAgree /\ ReadyAgrees /\ GoroutinesAgree
    /\ ChannelFollows /\ QueuesFollow /\ WaitingIsPending

-----------------------------------------------------------------------------
(* Sequences.                                                                 *)

\* A set of numbers has a least one.
LEMMA LeastIndex ==
  ASSUME NEW I \in SUBSET Nat, I # {}
  PROVE  \E m \in I : \A j \in I : m <= j
<1> DEFINE R == {ss \in Nat \X Nat : ss[1] < ss[2]}
<1>1. IsWellFoundedOn(R, Nat)
  BY NatLessThanWellFounded DEF OpToRel
<1>2. I \subseteq Nat
  OBVIOUS
<1>3. \A j, k \in Nat : j < k => <<j, k>> \in R
  OBVIOUS
<1> HIDE DEF R
<1>4. PICK m \in I : \A j \in I : <<j, m>> \notin R
  BY <1>1, <1>2, WFMin
<1>5. ASSUME NEW j \in I PROVE m <= j
  <2>1. j \in Nat /\ m \in Nat /\ ~(j < m)
    BY <1>2, <1>3, <1>4
  <2> QED
    BY <2>1
<1> QED
  BY <1>5

\* nextRunnable passes over dead tasks only, and stops at one that is not.
LEMMA FirstLiveIs ==
  ASSUME NEW q \in Seq(Tasks)
  PROVE  \/ FirstLive(q) = 0 /\ \A j \in DOMAIN q : Dead(q[j])
         \/ /\ FirstLive(q) \in DOMAIN q /\ ~Dead(q[FirstLive(q)])
            /\ \A j \in 1 .. FirstLive(q) - 1 : Dead(q[j])
<1> DEFINE I == {j \in 1 .. Len(q) : ~Dead(q[j])}
<1>1. FirstLive(q) = IF I # {} THEN Min(I) ELSE 0
  BY DEF FirstLive, SelectInSeq
<1>2. CASE I # {}
  <2>1. I \in SUBSET Nat
    OBVIOUS
  <2> HIDE DEF I
  <2>2. PICK m \in I : \A j \in I : m <= j
    BY <1>2, <2>1, LeastIndex
  <2>3. Min(I) \in I /\ \A j \in I : Min(I) <= j
    BY <2>1, <2>2 DEF Min
  <2>4. FirstLive(q) \in I /\ \A j \in I : FirstLive(q) <= j
    BY <1>1, <1>2, <2>3
  <2>5. /\ FirstLive(q) \in 1 .. Len(q) /\ ~Dead(q[FirstLive(q)])
        /\ \A j \in 1 .. Len(q) : j < FirstLive(q) => Dead(q[j])
    BY <2>4 DEF I
  <2> QED
    BY <2>5
<1>3. CASE I = {}
  BY <1>1, <1>3
<1> QED
  BY <1>2, <1>3

LEMMA AppendFacts ==
  ASSUME NEW S, NEW s \in Seq(S), NEW e \in S
  PROVE  /\ Append(s, e) \in Seq(S) /\ Len(Append(s, e)) = Len(s) + 1
         /\ DOMAIN Append(s, e) = 1 .. Len(s) + 1 /\ DOMAIN s = 1 .. Len(s)
         /\ \A i \in DOMAIN s : Append(s, e)[i] = s[i]
         /\ Append(s, e)[Len(s) + 1] = e
  OBVIOUS

LEMMA TailFacts ==
  ASSUME NEW S, NEW s \in Seq(S), s # <<>>
  PROVE  /\ Tail(s) \in Seq(S) /\ Len(Tail(s)) = Len(s) - 1 /\ Len(s) \in Nat \ {0}
         /\ DOMAIN Tail(s) = 1 .. Len(s) - 1 /\ DOMAIN s = 1 .. Len(s)
         /\ \A i \in DOMAIN Tail(s) : Tail(s)[i] = s[i + 1]
         /\ Head(s) = s[1] /\ Head(s) \in S
  OBVIOUS

LEMMA RestFacts ==
  ASSUME NEW S, NEW s \in Seq(S), NEW i \in DOMAIN s
  PROVE  LET rest == SubSeq(s, i + 1, Len(s))
         IN  /\ rest \in Seq(S) /\ Len(rest) = Len(s) - i
             /\ DOMAIN rest = 1 .. Len(s) - i
             /\ \A j \in DOMAIN rest : rest[j] = s[i + j]
  OBVIOUS

LEMMA WaitingAreTasks == TypeOK => Waiting \subseteq Tasks
<1> SUFFICES ASSUME TypeOK PROVE Waiting \subseteq Tasks
  OBVIOUS
<1>1. ToSet(tasks) \subseteq Tasks
  BY DEF TypeOK, ToSet
<1>2. \A k \in Keys : ToSet(sessions[k].tasks) \subseteq Tasks
  BY DEF TypeOK, ToSet
<1> QED
  BY <1>1, <1>2 DEF Waiting, Queued

\* A task waits in the channel or in the queue of its session.
LEMMA WaitingIs ==
  ASSUME TypeOK, NEW t
  PROVE  t \in Waiting <=> \/ \E i \in DOMAIN tasks : tasks[i] = t
                           \/ \E k \in Keys : \E i \in DOMAIN sessions[k].tasks :
                                 sessions[k].tasks[i] = t
  BY DEF Waiting, Queued, ToSet

-----------------------------------------------------------------------------
(* Steps.                                                                     *)

\* Steps that leave the tables, the goroutines and the notices alone.
LEMMA TablesPreserve ==
  ASSUME IInv,
         UNCHANGED <<tasks, order, limit, sessions, ready, active, completed, go, notices>>,
         closed' \in BOOLEAN, cancelled' \in BOOLEAN, input' \in BOOLEAN, watching' \in BOOLEAN,
         loop' \in {"top", "dispatch", "select", "returned"}, expired' \in SUBSET Tasks
  PROVE  IInv'
<1>1. TypeOK'
  BY DEF IInv, TypeOK
<1>2. ActiveCountsGoroutines'
  BY DEF IInv, ActiveCountsGoroutines, Alive
<1>3. EntriesAgree' /\ ReadyAgrees' /\ GoroutinesAgree'
  BY DEF IInv, EntriesAgree, ReadyAgrees, GoroutinesAgree, Alive
<1>4. ChannelFollows' /\ QueuesFollow' /\ WaitingIsPending'
  BY DEF IInv, ChannelFollows, QueuesFollow, Received, WaitingIsPending, Waiting, Queued
<1> QED
  BY <1>1, <1>2, <1>3, <1>4 DEF IInv

\* A goroutine that lives goes through runOne.
LEMMA PhasePreserves ==
  ASSUME IInv, NEW t \in Tasks, NEW to \in {"preparing", "running", "finished"},
         go[t] \in {"locking", "preparing", "running"}, go' = [go EXCEPT ![t] = to],
         \A u \in Tasks \ {t} : notices'[u] = notices[u],
         notices' \in [Tasks -> Seq(Notices)], expired' \in SUBSET Tasks,
         UNCHANGED <<env, loop, sched, completed>>
  PROVE  IInv'
<1>1. TypeOK'
  BY DEF IInv, TypeOK, Phases, env, sched
<1>2. Alive' = Alive
  BY DEF IInv, TypeOK, Alive
<1>3. UNCHANGED <<tasks, order, limit, sessions, ready, active, completed>>
  BY DEF env, sched
<1>4. ActiveCountsGoroutines'
  BY <1>2, <1>3 DEF IInv, ActiveCountsGoroutines
<1>5. EntriesAgree' /\ ReadyAgrees' /\ GoroutinesAgree'
  BY <1>2, <1>3 DEF IInv, EntriesAgree, ReadyAgrees, GoroutinesAgree
<1>6. ChannelFollows' /\ QueuesFollow'
  BY <1>3 DEF IInv, ChannelFollows, QueuesFollow, Received
<1>7. WaitingIsPending'
  <2>1. Waiting' = Waiting /\ t \notin Waiting /\ t \in ToSet(order)
    BY <1>3 DEF IInv, WaitingIsPending, Waiting, Queued
  <2>2. go'[t] # "none" /\ \A u \in Tasks \ {t} : go'[u] = go[u]
    BY DEF IInv, TypeOK
  <2>3. Waiting \subseteq Tasks /\ ToSet(order) \subseteq Tasks
    BY WaitingAreTasks DEF IInv, TypeOK, ToSet
  <2> QED
    BY <1>3, <2>1, <2>2, <2>3 DEF IInv, WaitingIsPending
<1> QED
  BY <1>1, <1>4, <1>5, <1>6, <1>7 DEF IInv

LEMMA AdvancePreserves ==
  ASSUME IInv, NEW t \in Tasks,
         \/ Advance(t, "locking", "preparing") \/ Advance(t, "preparing", "running")
  PROVE  IInv'
  BY PhasePreserves DEF Advance, IInv, TypeOK

LEMMA LeavePreserves ==
  ASSUME IInv, NEW t \in Tasks, go[t] \in {"locking", "preparing", "running"},
         NEW sent \in Seq(Notices), Leave(t, sent)
  PROVE  IInv'
<1>1. notices' \in [Tasks -> Seq(Notices)] /\ \A u \in Tasks \ {t} : notices'[u] = notices[u]
  <2>1. notices[t] \o sent \in Seq(Notices)
    BY DEF IInv, TypeOK
  <2> QED
    BY <2>1 DEF Leave, IInv, TypeOK
<1> QED
  BY <1>1, PhasePreserves DEF Leave, IInv, TypeOK

LEMMA GoroutineSends ==
  <<"cancelled">> \in Seq(Notices) /\ <<"outcome">> \in Seq(Notices) /\ <<>> \in Seq(Notices)
  BY DEF Notices

LEMMA SignalPreserves ==
  ASSUME IInv, NEW t \in Tasks, Signal(t)
  PROVE  IInv'
<1>1. UNCHANGED <<tasks, order, limit, sessions, ready, active, notices>>
  BY DEF Signal, env, sched
<1> DEFINE k == SessionOf[t]
<1>2. k \in Keys /\ completed \in Seq(Keys) /\ t \in Alive
  BY RunnerAssumption DEF IInv, TypeOK, Signal, Alive
<1>3. completed' = Append(completed, k)
  BY DEF Signal
<1>4. /\ completed' \in Seq(Keys) /\ Len(completed') = Len(completed) + 1
      /\ DOMAIN completed' = 1 .. Len(completed) + 1 /\ DOMAIN completed = 1 .. Len(completed)
      /\ \A i \in DOMAIN completed : completed'[i] = completed[i]
      /\ completed'[Len(completed) + 1] = k
  BY <1>2, <1>3, AppendFacts
<1>5. Alive' = Alive \ {t}
  BY DEF Signal, IInv, TypeOK, Alive
<1>6. TypeOK'
  <2>1. Len(completed') <= limit' /\ limit' \in Nat
    BY <1>1, <1>2, <1>4, RunnerAssumption DEF Signal, IInv, TypeOK
  <2>2. go' \in [Tasks -> Phases]
    BY DEF Signal, IInv, TypeOK, Phases
  <2> QED
    BY <1>1, <1>4, <2>1, <2>2 DEF Signal, IInv, TypeOK, env, sched
<1>7. ActiveCountsGoroutines'
  <2>1. IsFiniteSet(Alive)
    BY RunnerAssumption, FS_Subset DEF Alive
  <2>2. Cardinality(Alive') = Cardinality(Alive) - 1 /\ Cardinality(Alive) \in Nat
    BY <1>2, <1>5, <2>1, FS_RemoveElement, FS_CardinalityType
  <2> QED
    BY <1>1, <1>2, <1>4, <2>2 DEF IInv, ActiveCountsGoroutines, TypeOK
<1>8. EntriesAgree' /\ ReadyAgrees'
  BY <1>1 DEF IInv, EntriesAgree, ReadyAgrees
<1>9. GoroutinesAgree'
  <2>1. sessions[k].activeTask = t /\ \A i \in DOMAIN completed : completed[i] # k
    BY <1>2 DEF IInv, GoroutinesAgree
  <2>2. \A u \in Alive \ {t} : sessions[SessionOf[u]].activeTask = u /\ SessionOf[u] # k
    BY <2>1 DEF IInv, GoroutinesAgree
  <2>3. \A u \in Alive' : sessions'[SessionOf[u]].activeTask = u
    BY <1>1, <1>5, <2>2
  <2>4. \A u \in Alive' : \A i \in DOMAIN completed' : completed'[i] # SessionOf[u]
    BY <1>4, <1>5, <2>2 DEF IInv, GoroutinesAgree
  <2>5. \A i, j \in DOMAIN completed' : completed'[i] = completed'[j] => i = j
    BY <1>4, <2>1 DEF IInv, GoroutinesAgree
  <2>6. \A i \in DOMAIN completed' : sessions'[completed'[i]].activeTask # None
    BY <1>1, <1>4, <2>1, RunnerAssumption DEF IInv, GoroutinesAgree
  <2> QED
    BY <2>3, <2>4, <2>5, <2>6 DEF GoroutinesAgree
<1>10. ChannelFollows' /\ QueuesFollow'
  BY <1>1 DEF IInv, ChannelFollows, QueuesFollow, Received
<1>11. WaitingIsPending'
  <2>1. Waiting' = Waiting /\ t \notin Waiting /\ t \in ToSet(order)
    BY <1>1 DEF Signal, IInv, WaitingIsPending, Waiting, Queued
  <2>2. go'[t] # "none" /\ \A u \in Tasks \ {t} : go'[u] = go[u]
    BY DEF Signal, IInv, TypeOK
  <2>3. Waiting \subseteq Tasks /\ ToSet(order) \subseteq Tasks
    BY WaitingAreTasks DEF IInv, TypeOK, ToSet
  <2> QED
    BY <1>1, <2>1, <2>2, <2>3 DEF IInv, WaitingIsPending
<1> QED
  BY <1>6, <1>7, <1>8, <1>9, <1>10, <1>11 DEF IInv

LEMMA SendPreserves ==
  ASSUME IInv, NEW t \in Tasks, Send(t)
  PROVE  IInv'
<1>1. UNCHANGED <<limit, sessions, ready, active, completed, go, notices>>
  BY DEF Send, sched
<1>2. tasks \in Seq(Tasks) /\ order \in Seq(Tasks)
  BY DEF IInv, TypeOK
<1>3. tasks' = Append(tasks, t) /\ order' = Append(order, t) /\ t \notin ToSet(order)
  BY DEF Send
<1>4. /\ tasks' \in Seq(Tasks) /\ Len(tasks') = Len(tasks) + 1
      /\ DOMAIN tasks' = 1 .. Len(tasks) + 1 /\ DOMAIN tasks = 1 .. Len(tasks)
      /\ \A i \in DOMAIN tasks : tasks'[i] = tasks[i]
      /\ tasks'[Len(tasks) + 1] = t
  BY <1>2, <1>3, AppendFacts
<1>5. /\ order' \in Seq(Tasks) /\ Len(order') = Len(order) + 1
      /\ DOMAIN order' = 1 .. Len(order) + 1 /\ DOMAIN order = 1 .. Len(order)
      /\ \A i \in DOMAIN order : order'[i] = order[i]
      /\ order'[Len(order) + 1] = t
  BY <1>2, <1>3, AppendFacts
<1>6. /\ Len(tasks) \in Nat /\ Len(order) \in Nat /\ Received' = Received
      /\ \A i \in DOMAIN order : order[i] # t
  BY <1>2, <1>3, <1>4, <1>5 DEF Received, ToSet
<1>7. TypeOK'
  <2>1. Len(tasks') <= Buffer
    BY <1>4, <1>6, RunnerAssumption DEF Send
  <2> QED
    BY <1>1, <1>4, <1>5, <2>1 DEF Send, IInv, TypeOK, sched
<1>8. ActiveCountsGoroutines' /\ EntriesAgree' /\ ReadyAgrees' /\ GoroutinesAgree'
  BY <1>1 DEF IInv, ActiveCountsGoroutines, EntriesAgree, ReadyAgrees, GoroutinesAgree, Alive
<1>9. ChannelFollows'
  <2>1. \A i, j \in DOMAIN order' : order'[i] = order'[j] => i = j
    BY <1>5, <1>6 DEF IInv, ChannelFollows
  <2>2. Len(tasks') <= Len(order')
    BY <1>4, <1>5, <1>6 DEF IInv, ChannelFollows
  <2>3. ASSUME NEW j \in DOMAIN tasks' PROVE tasks'[j] = order'[Received' + j]
    <3>1. CASE j \in DOMAIN tasks
      <4>1. Received + j \in DOMAIN order
        BY <1>4, <1>5, <1>6, <3>1 DEF IInv, ChannelFollows, Received
      <4> QED
        BY <1>4, <1>5, <1>6, <3>1, <4>1 DEF IInv, ChannelFollows
    <3>2. CASE j = Len(tasks) + 1
      <4>1. Received + j = Len(order) + 1
        BY <1>6, <3>2 DEF Received
      <4> QED
        BY <1>4, <1>5, <1>6, <3>2, <4>1
    <3> QED
      BY <1>4, <1>6, <3>1, <3>2
  <2> QED
    BY <2>1, <2>2, <2>3 DEF ChannelFollows
<1>10. QueuesFollow'
  <2> SUFFICES ASSUME NEW k \in Keys
               PROVE  LET q == sessions[k].tasks
                      IN  /\ \A i \in DOMAIN q :
                                SessionOf[q[i]] = k /\ \E p \in 1 .. Received : order'[p] = q[i]
                          /\ \A i, j \in DOMAIN q, m, n \in DOMAIN order' :
                                i < j /\ order'[m] = q[i] /\ order'[n] = q[j] => m < n
    BY <1>1, <1>6 DEF QueuesFollow
  <2> DEFINE q == sessions[k].tasks
  <2>1. 1 .. Received \subseteq DOMAIN order
    BY <1>5, <1>6 DEF Received
  <2>2. \A i \in DOMAIN q : SessionOf[q[i]] = k /\ \E p \in 1 .. Received : order[p] = q[i]
    BY DEF IInv, QueuesFollow
  <2>3. \A i, j \in DOMAIN q, m, n \in DOMAIN order :
            i < j /\ order[m] = q[i] /\ order[n] = q[j] => m < n
    BY DEF IInv, QueuesFollow
  <2>4. \A i \in DOMAIN q : q[i] # t
    BY <1>6, <2>1, <2>2
  <2> HIDE DEF q
  <2>5. \A i \in DOMAIN q : SessionOf[q[i]] = k /\ \E p \in 1 .. Received : order'[p] = q[i]
    BY <1>5, <2>1, <2>2
  <2>6. \A i, j \in DOMAIN q, m, n \in DOMAIN order' :
            i < j /\ order'[m] = q[i] /\ order'[n] = q[j] => m < n
    BY <1>5, <1>6, <2>3, <2>4
  <2> QED
    BY <2>5, <2>6 DEF q
<1>11. WaitingIsPending'
  <2>1. ToSet(tasks') = ToSet(tasks) \cup {t}
    BY <1>4, <1>6 DEF ToSet
  <2>2. ToSet(order') = ToSet(order) \cup {t}
    BY <1>5, <1>6 DEF ToSet
  <2>3. Waiting' = Waiting \cup {t}
    BY <1>1, <2>1 DEF Waiting, Queued
  <2> QED
    BY <1>1, <1>3, <2>2, <2>3 DEF IInv, WaitingIsPending
<1> QED
  BY <1>7, <1>8, <1>9, <1>10, <1>11 DEF IInv

LEMMA NothingQueued ==
  /\ \A S : <<>> \in Seq(S)
  /\ Len(<<>>) = 0 /\ DOMAIN <<>> = {}
  BY EmptySeq

LEMMA ChannelIsNotQueued == IInv => ToSet(tasks) \cap Queued = {}
<1> SUFFICES ASSUME IInv, NEW j \in DOMAIN tasks, tasks[j] \in Queued PROVE FALSE
  BY DEF ToSet
<1>1. PICK k \in Keys : \E i \in DOMAIN sessions[k].tasks : sessions[k].tasks[i] = tasks[j]
  BY DEF Queued, ToSet
<1>2. PICK p \in 1 .. Received : order[p] = tasks[j]
  BY <1>1 DEF IInv, QueuesFollow
<1>3. /\ tasks \in Seq(Tasks) /\ order \in Seq(Tasks) /\ Len(tasks) <= Len(order)
      /\ order[Received + j] = tasks[j]
  BY DEF IInv, TypeOK, ChannelFollows
<1>4. p \in DOMAIN order /\ Received + j \in DOMAIN order /\ p < Received + j
  BY <1>2, <1>3 DEF Received
<1> QED
  BY <1>2, <1>3, <1>4 DEF IInv, ChannelFollows

LEMMA WaitingIsAccepted == IInv => Waiting \subseteq ToSet(order)
<1> SUFFICES ASSUME IInv PROVE Waiting \subseteq ToSet(order)
  OBVIOUS
<1>1. tasks \in Seq(Tasks) /\ order \in Seq(Tasks) /\ Len(tasks) <= Len(order)
  BY DEF IInv, TypeOK, ChannelFollows
<1>2. ASSUME NEW j \in DOMAIN tasks PROVE tasks[j] \in ToSet(order)
  <2>1. Received + j \in DOMAIN order
    BY <1>1 DEF Received
  <2> QED
    BY <2>1 DEF IInv, ChannelFollows, ToSet
<1>3. ASSUME NEW k \in Keys, NEW i \in DOMAIN sessions[k].tasks
      PROVE  sessions[k].tasks[i] \in ToSet(order)
  <2>1. PICK p \in 1 .. Received : order[p] = sessions[k].tasks[i]
    BY DEF IInv, QueuesFollow
  <2>2. p \in DOMAIN order
    BY <1>1 DEF Received
  <2> QED
    BY <2>1, <2>2 DEF ToSet
<1> QED
  BY <1>2, <1>3 DEF Waiting, Queued, ToSet

\* cancelAll and cancelBufferedTasks.
LEMMA CancelEverythingPreserves ==
  ASSUME IInv, CancelEverything, loop' \in {"top", "select"}
  PROVE  IInv'
<1>1. UNCHANGED <<closed, cancelled, order, limit, active, completed, go>>
  BY DEF CancelEverything
<1>2. tasks' = <<>> \/ tasks' = tasks
  BY DEF CancelEverything
<1>3. ASSUME NEW k \in Keys
      PROVE  \/ sessions[k].activeTask = None /\ sessions'[k] = NoQueue
             \/ /\ sessions[k].activeTask # None
                /\ sessions'[k] = [sessions[k] EXCEPT !.tasks = <<>>, !.ready = FALSE]
  BY DEF CancelEverything, CancelledTables
<1>4. /\ sessions' \in [Keys -> [tasks : Seq(Tasks), activeTask : Tasks \cup {None},
                                 ready : BOOLEAN, present : BOOLEAN]]
      /\ \A k \in Keys : /\ sessions'[k].tasks = <<>> /\ sessions'[k].ready = FALSE
                         /\ sessions'[k].activeTask = sessions[k].activeTask
                         /\ sessions'[k].present <=> sessions[k].activeTask # None
  <2>1. DOMAIN sessions' = Keys /\ sessions' = [k \in Keys |-> sessions'[k]]
    BY DEF CancelEverything, CancelledTables
  <2>2. ASSUME NEW k \in Keys
        PROVE  /\ sessions'[k] \in [tasks : Seq(Tasks), activeTask : Tasks \cup {None},
                                    ready : BOOLEAN, present : BOOLEAN]
               /\ sessions'[k].tasks = <<>> /\ sessions'[k].ready = FALSE
               /\ sessions'[k].activeTask = sessions[k].activeTask
               /\ sessions'[k].present <=> sessions[k].activeTask # None
    <3>1. sessions[k] \in [tasks : Seq(Tasks), activeTask : Tasks \cup {None},
                           ready : BOOLEAN, present : BOOLEAN]
      BY DEF IInv, TypeOK
    <3>2. CASE sessions[k].activeTask = None
      <4>1. sessions'[k] = NoQueue /\ <<>> \in Seq(Tasks)
        BY <1>3, <3>2, NothingQueued
      <4> QED
        BY <3>2, <4>1 DEF NoQueue
    <3>3. CASE sessions[k].activeTask # None
      <4>1. sessions[k].present
        BY <3>3 DEF IInv, EntriesAgree
      <4>2. sessions'[k] = [sessions[k] EXCEPT !.tasks = <<>>, !.ready = FALSE]
        BY <1>3, <3>3
      <4> QED
        BY <3>1, <3>3, <4>1, <4>2, NothingQueued
    <3> QED
      BY <3>2, <3>3
  <2> QED
    BY <2>1, <2>2
<1>5. Queued \subseteq Tasks /\ ActiveTasks \subseteq Tasks /\ ToSet(tasks) \subseteq Tasks
  BY DEF IInv, TypeOK, Queued, ActiveTasks, ToSet
<1>6. /\ notices' \in [Tasks -> Seq(Notices)]
      /\ \A t \in Tasks : notices[t] # <<>> => notices'[t] # <<>>
      /\ \A t \in Tasks : t \notin Waiting => notices'[t] = notices[t]
      /\ \A t \in Queued \cup (ToSet(tasks) \ ToSet(tasks')) : notices'[t] # <<>>
  <2> DEFINE gone == Queued \cup IF input THEN ToSet(tasks) ELSE {}
  <2>1. notices' = CancelNotices(gone) /\ gone \subseteq Waiting /\ gone \subseteq Tasks
    BY <1>5 DEF CancelEverything, Waiting
  <2>2. Queued \cup (ToSet(tasks) \ ToSet(tasks')) \subseteq gone
    BY DEF CancelEverything
  <2>3. \A t \in Tasks : /\ Append(notices[t], "cancelled") \in Seq(Notices)
                         /\ Append(notices[t], "cancelled") # <<>>
    <3> TAKE t \in Tasks
    <3>1. notices[t] \in Seq(Notices) /\ "cancelled" \in Notices
      BY DEF IInv, TypeOK, Notices
    <3> QED
      BY <3>1, AppendProperties
  <2> HIDE DEF gone
  <2> QED
    BY <2>1, <2>2, <2>3 DEF CancelNotices, IInv, TypeOK
<1>7. TypeOK'
  <2>1. expired' \in SUBSET Tasks
    BY <1>5 DEF CancelEverything, IInv, TypeOK
  <2>2. tasks' \in Seq(Tasks) /\ Len(tasks') <= Buffer
    <3>1. <<>> \in Seq(Tasks) /\ Len(<<>>) <= Buffer
      BY NothingQueued, RunnerAssumption
    <3> QED
      BY <1>2, <3>1 DEF IInv, TypeOK
  <2>3. ready' \in Seq(Keys) /\ input' \in BOOLEAN /\ watching' \in BOOLEAN
    BY NothingQueued DEF CancelEverything, CancelledTables
  <2> QED
    BY <1>1, <1>4, <1>6, <2>1, <2>2, <2>3 DEF IInv, TypeOK
<1>8. ActiveCountsGoroutines'
  BY <1>1 DEF IInv, ActiveCountsGoroutines, Alive
<1>9. EntriesAgree'
  BY <1>4 DEF IInv, EntriesAgree
<1>10. ReadyAgrees'
  BY <1>4, NothingQueued DEF CancelEverything, CancelledTables, ReadyAgrees
<1>11. GoroutinesAgree'
  <2>1. \A t \in Alive : SessionOf[t] \in Keys
    BY RunnerAssumption DEF Alive
  <2>2. \A i \in DOMAIN completed : completed[i] \in Keys
    BY DEF IInv, TypeOK
  <2> QED
    BY <1>1, <1>4, <2>1, <2>2 DEF IInv, GoroutinesAgree, Alive
<1>12. ChannelFollows'
  BY <1>1, <1>2 DEF IInv, TypeOK, ChannelFollows, Received
<1>13. QueuesFollow'
  BY <1>4 DEF QueuesFollow
<1>14. WaitingIsPending'
  <2>1. Waiting' = ToSet(tasks')
    BY <1>4 DEF Waiting, Queued, ToSet
  <2>2. ToSet(tasks') \subseteq ToSet(tasks)
    BY <1>2 DEF ToSet
  <2>3. \A t \in ToSet(tasks') : notices'[t] = <<>>
    <3>1. CASE tasks' = <<>>
      BY <3>1 DEF ToSet
    <3>2. CASE ~input
      <4>1. tasks' = tasks /\ notices' = CancelNotices(Queued)
        BY <3>2 DEF CancelEverything
      <4>2. \A t \in ToSet(tasks) : t \in Tasks /\ t \notin Queued /\ notices[t] = <<>>
        BY <1>5, ChannelIsNotQueued DEF IInv, WaitingIsPending, Waiting
      <4> QED
        BY <4>1, <4>2 DEF CancelNotices, ToSet
    <3> QED
      BY <3>1, <3>2 DEF CancelEverything
  <2>4. \A t \in Waiting' : go'[t] = "none" /\ notices'[t] = <<>>
    BY <1>1, <2>1, <2>2, <2>3 DEF IInv, WaitingIsPending, Waiting
  <2>5. \A t \in Tasks \ ToSet(order) : t \notin Waiting
    BY WaitingIsAccepted
  <2>6. \A t \in Tasks \ ToSet(order) : go'[t] = "none" /\ notices'[t] = <<>>
    BY <1>1, <1>6, <2>5 DEF IInv, WaitingIsPending
  <2>7. ASSUME NEW t \in ToSet(order), go'[t] = "none", notices'[t] = <<>>
        PROVE  t \in Waiting'
    <3>1. t \in Tasks
      BY DEF IInv, TypeOK, ToSet
    <3>2. t \in Waiting /\ t \notin Queued \cup (ToSet(tasks) \ ToSet(tasks'))
      BY <1>1, <1>6, <2>7, <3>1 DEF IInv, WaitingIsPending
    <3> QED
      BY <2>1, <3>2 DEF Waiting
  <2> QED
    BY <1>1, <2>4, <2>6, <2>7 DEF WaitingIsPending, ToSet
<1> QED
  BY <1>7, <1>8, <1>9, <1>10, <1>11, <1>12, <1>13, <1>14 DEF IInv

\* markReady puts a session on the list that was not there.
LEMMA MarkedIsListed ==
  ASSUME IInv, NEW k \in Keys, ~sessions[k].ready, sessions'[k].ready,
         \A m \in Keys \ {k} : sessions'[m] = sessions[m], ready' = Append(ready, k)
  PROVE  ready' \in Seq(Keys) /\ ReadyAgrees'
<1>1. ready \in Seq(Keys) /\ \A i \in DOMAIN ready : ready[i] \in Keys
  BY DEF IInv, TypeOK
<1>2. /\ ready' \in Seq(Keys)
      /\ DOMAIN ready' = 1 .. Len(ready) + 1 /\ DOMAIN ready = 1 .. Len(ready)
      /\ \A i \in DOMAIN ready : ready'[i] = ready[i]
      /\ ready'[Len(ready) + 1] = k /\ Len(ready) \in Nat
  BY <1>1, AppendFacts
<1>3. \A i \in DOMAIN ready : ready[i] # k
  BY DEF IInv, ReadyAgrees
<1>4. \A i, j \in DOMAIN ready' : ready'[i] = ready'[j] => i = j
  BY <1>2, <1>3 DEF IInv, ReadyAgrees
<1>5. \A i \in DOMAIN ready' : sessions'[ready'[i]].ready
  BY <1>1, <1>2, <1>3 DEF IInv, ReadyAgrees
<1>6. ASSUME NEW m \in Keys, sessions'[m].ready
      PROVE  \E i \in DOMAIN ready' : ready'[i] = m
  <2>1. CASE m = k
    BY <1>2, <2>1
  <2>2. CASE m # k
    <3>1. PICK i \in DOMAIN ready : ready[i] = m
      BY <1>6, <2>2 DEF IInv, ReadyAgrees
    <3> QED
      BY <1>2, <3>1
  <2> QED
    BY <2>1, <2>2
<1> QED
  BY <1>2, <1>4, <1>5, <1>6 DEF ReadyAgrees

\* Runner.Start receives a task: enqueue.
LEMMA SelectTaskPreserves ==
  ASSUME IInv, SelectTask
  PROVE  IInv'
<1> DEFINE t == Head(tasks)
           k == SessionOf[t]
           old == sessions[k]
           n == Received
<1>1. UNCHANGED <<closed, cancelled, order, limit, input, watching, completed, expired, go,
          notices, active>>
  BY DEF SelectTask, Enqueue
<1>2. /\ tasks \in Seq(Tasks) /\ order \in Seq(Tasks) /\ tasks # <<>> /\ tasks' = Tail(tasks)
      /\ Len(tasks) <= Len(order) /\ Len(order) \in Nat
  BY DEF SelectTask, IInv, TypeOK, ChannelFollows
<1>3. /\ tasks' \in Seq(Tasks) /\ Len(tasks') = Len(tasks) - 1 /\ Len(tasks) \in Nat \ {0}
      /\ DOMAIN tasks' = 1 .. Len(tasks) - 1 /\ DOMAIN tasks = 1 .. Len(tasks)
      /\ \A i \in DOMAIN tasks' : tasks'[i] = tasks[i + 1]
      /\ t = tasks[1] /\ t \in Tasks
  BY <1>2, TailFacts
<1>4. Received' = n + 1 /\ n \in Nat /\ n + 1 <= Len(order) /\ order[n + 1] = t
  <2>1. 1 \in DOMAIN tasks /\ order[n + 1] = tasks[1]
    BY <1>3 DEF IInv, ChannelFollows
  <2>2. Received' = Len(order) - Len(tasks') /\ n = Len(order) - Len(tasks)
    BY <1>1 DEF Received
  <2> HIDE DEF n
  <2> QED
    BY <1>2, <1>3, <2>1, <2>2
<1>5. k \in Keys
  BY <1>3, RunnerAssumption
<1>6. /\ old.tasks \in Seq(Tasks) /\ old.activeTask \in Tasks \cup {None}
      /\ ~old.present => old.tasks = <<>> /\ old.activeTask = None /\ ~old.ready
      /\ old.ready <=> old.tasks # <<>> /\ old.activeTask = None
      /\ old \in [tasks : Seq(Tasks), activeTask : Tasks \cup {None},
                  ready : BOOLEAN, present : BOOLEAN]
  BY <1>5 DEF IInv, TypeOK, EntriesAgree
<1> DEFINE longer == Append(old.tasks, t)
           new == [tasks |-> longer, activeTask |-> old.activeTask,
                   ready |-> old.activeTask = None, present |-> TRUE]
           mark == old.activeTask = None /\ ~old.ready
<1>7. /\ longer \in Seq(Tasks) /\ Len(longer) = Len(old.tasks) + 1 /\ longer # <<>>
      /\ DOMAIN longer = 1 .. Len(old.tasks) + 1 /\ DOMAIN old.tasks = 1 .. Len(old.tasks)
      /\ \A i \in DOMAIN old.tasks : longer[i] = old.tasks[i]
      /\ longer[Len(old.tasks) + 1] = t /\ Len(old.tasks) \in Nat
  BY <1>3, <1>6, AppendFacts, AppendProperties
<1>8. /\ sessions' = [sessions EXCEPT ![k] = new]
      /\ ready' = IF mark THEN Append(ready, k) ELSE ready
  <2> DEFINE q == IF old.present THEN old ELSE EmptyQueue
             grown == [q EXCEPT !.tasks = Append(@, t)]
  <2>1. q = [tasks |-> old.tasks, activeTask |-> old.activeTask, ready |-> old.ready,
            present |-> TRUE]
    BY <1>6 DEF EmptyQueue, NoQueue
  <2>3. sessions' = [sessions EXCEPT ![k] = Marked(grown)] /\ ready' = ReadyWith(k, grown)
    BY DEF SelectTask, Enqueue
  <2> HIDE DEF old, q
  <2>2. grown = [tasks |-> longer, activeTask |-> old.activeTask,
                 ready |-> old.ready, present |-> TRUE]
    <3> DEFINE same == [tasks |-> old.tasks, activeTask |-> old.activeTask,
                        ready |-> old.ready, present |-> TRUE]
    <3>1. grown = [same EXCEPT !.tasks = Append(same.tasks, t)]
      BY <2>1
    <3> HIDE DEF t, grown
    <3> QED
      BY <3>1
  <2> HIDE DEF grown, longer
  <2>4. NeedsMark(grown) <=> mark
    BY <1>7, <2>2 DEF NeedsMark
  <2>5. Marked(grown) = new
    BY <1>6, <2>2, <2>4 DEF Marked
  <2> QED
    BY <2>3, <2>4, <2>5 DEF ReadyWith
<1>9. /\ new \in [tasks : Seq(Tasks), activeTask : Tasks \cup {None}, ready : BOOLEAN,
             present : BOOLEAN]
      /\ new.tasks = longer /\ new.activeTask = old.activeTask /\ new.present
      /\ new.ready <=> old.activeTask = None
  BY <1>6, <1>7
<1> HIDE DEF new, longer
<1>10. /\ sessions'[k] = new /\ \A m \in Keys \ {k} : sessions'[m] = sessions[m]
       /\ sessions' \in [Keys -> [tasks : Seq(Tasks), activeTask : Tasks \cup {None},
                                  ready : BOOLEAN, present : BOOLEAN]]
  BY <1>5, <1>8, <1>9 DEF IInv, TypeOK
<1>11. ready \in Seq(Keys) /\ \A i \in DOMAIN ready : ready[i] \in Keys
  BY DEF IInv, TypeOK
<1>12. ready' \in Seq(Keys)
  <2>1. Append(ready, k) \in Seq(Keys)
    BY <1>5, <1>11, AppendFacts
  <2> QED
    BY <1>8, <1>11, <2>1
<1>13. TypeOK'
  <2>1. Len(tasks') <= Buffer
    BY <1>3, RunnerAssumption DEF IInv, TypeOK
  <2>2. /\ tasks' \in Seq(Tasks) /\ ready' \in Seq(Keys)
        /\ sessions' \in [Keys -> [tasks : Seq(Tasks), activeTask : Tasks \cup {None},
                                   ready : BOOLEAN, present : BOOLEAN]]
    BY <1>3, <1>10, <1>12
  <2>3. loop' = "top"
    BY DEF SelectTask
  <2> HIDE DEF new, longer, old, k, t, n
  <2> QED
    BY <1>1, <2>1, <2>2, <2>3 DEF IInv, TypeOK
<1>14. ActiveCountsGoroutines'
  BY <1>1 DEF IInv, ActiveCountsGoroutines, Alive
<1>15. EntriesAgree'
  <2>1. new.activeTask # None => SessionOf[new.activeTask] = k
    BY <1>5, <1>9 DEF IInv, EntriesAgree
  <2> QED
    <3>1. \A m \in Keys \ {k} : sessions'[m] = sessions[m]
      BY <1>10
    <3>2. /\ new.present <=> new.tasks # <<>> \/ new.activeTask # None
          /\ new.ready <=> new.tasks # <<>> /\ new.activeTask = None
      BY <1>7, <1>9
    <3> HIDE DEF k, old
    <3> QED
      BY <1>10, <2>1, <3>1, <3>2 DEF IInv, EntriesAgree
<1>16. ReadyAgrees'
  <2>1. CASE mark
    <3>1. ready' = Append(ready, k) /\ new.ready
      BY <1>8, <1>9, <2>1
    <3> QED
      BY <1>5, <1>10, <2>1, <3>1, MarkedIsListed
  <2>2. CASE ~mark
    <3>1. ready' = ready /\ (new.ready <=> old.ready)
      BY <1>6, <1>8, <1>9, <2>2
    <3> QED
      BY <1>5, <1>10, <1>11, <3>1 DEF IInv, ReadyAgrees
  <2> QED
    BY <2>1, <2>2
<1>17. GoroutinesAgree'
  <2>1. \A m \in Keys : sessions'[m].activeTask = sessions[m].activeTask
    BY <1>9, <1>10
  <2>2. \A u \in Alive : SessionOf[u] \in Keys
    BY RunnerAssumption DEF Alive
  <2>3. \A i \in DOMAIN completed : completed[i] \in Keys
    BY DEF IInv, TypeOK
  <2> QED
    BY <1>1, <2>1, <2>2, <2>3 DEF IInv, GoroutinesAgree, Alive
<1>18. ChannelFollows'
  <2>1. \A j \in DOMAIN tasks' : tasks'[j] = order[n + (j + 1)] /\ n + (j + 1) = Received' + j
    <3> TAKE j \in DOMAIN tasks'
    <3>1. j + 1 \in DOMAIN tasks /\ tasks'[j] = tasks[j + 1] /\ j \in Nat
      BY <1>3
    <3>2. tasks[j + 1] = order[n + (j + 1)]
      BY <3>1 DEF IInv, ChannelFollows
    <3> QED
      BY <1>4, <3>1, <3>2
  <2>2. Len(tasks') <= Len(order)
    BY <1>2, <1>3
  <2> QED
    BY <1>1, <2>1, <2>2 DEF IInv, ChannelFollows
<1>19. QueuesFollow'
  <2>1. 1 .. n \subseteq 1 .. n + 1 /\ n + 1 \in DOMAIN order /\ 1 .. n \subseteq DOMAIN order
    BY <1>2, <1>4
  <2>2. ASSUME NEW m \in Keys \ {k}
        PROVE  LET q == sessions[m].tasks
               IN  /\ \A i \in DOMAIN q :
                         SessionOf[q[i]] = m /\ \E p \in 1 .. n + 1 : order[p] = q[i]
                   /\ \A i, j \in DOMAIN q, a, b \in DOMAIN order :
                         i < j /\ order[a] = q[i] /\ order[b] = q[j] => a < b
    <3> DEFINE q == sessions[m].tasks
    <3>1. \A i \in DOMAIN q : SessionOf[q[i]] = m /\ \E p \in 1 .. n : order[p] = q[i]
      BY DEF IInv, QueuesFollow
    <3>2. \A i, j \in DOMAIN q, a, b \in DOMAIN order :
              i < j /\ order[a] = q[i] /\ order[b] = q[j] => a < b
      BY DEF IInv, QueuesFollow
    <3> HIDE DEF q, n
    <3>3. \A i \in DOMAIN q : SessionOf[q[i]] = m /\ \E p \in 1 .. n + 1 : order[p] = q[i]
      BY <2>1, <3>1
    <3> QED
      BY <3>2, <3>3 DEF q
  <2>3. \A i \in DOMAIN old.tasks : SessionOf[old.tasks[i]] = k
            /\ \E p \in 1 .. n : order[p] = old.tasks[i]
    BY <1>5 DEF IInv, QueuesFollow
  <2>4. \A i, j \in DOMAIN old.tasks, a, b \in DOMAIN order :
            i < j /\ order[a] = old.tasks[i] /\ order[b] = old.tasks[j] => a < b
    BY <1>5 DEF IInv, QueuesFollow
  <2>5. \A a, b \in DOMAIN order : order[a] = order[b] => a = b
    BY DEF IInv, ChannelFollows
  <2>6. \A i \in DOMAIN longer : SessionOf[longer[i]] = k
            /\ \E p \in 1 .. n + 1 : order[p] = longer[i]
    <3> HIDE DEF n, old, k
    <3> TAKE i \in DOMAIN longer
    <3>1. CASE i \in DOMAIN old.tasks
      <4>1. PICK p \in 1 .. n : order[p] = old.tasks[i]
        BY <2>3, <3>1
      <4>2. p \in 1 .. n + 1
        BY <2>1
      <4> QED
        BY <1>7, <2>3, <3>1, <4>1, <4>2
    <3>2. CASE i = Len(old.tasks) + 1
      <4>1. n + 1 \in 1 .. n + 1
        BY <1>4
      <4> QED
        BY <1>4, <1>7, <3>2, <4>1 DEF k
    <3> QED
      BY <1>7, <3>1, <3>2
  <2>7. ASSUME NEW i \in DOMAIN longer, NEW j \in DOMAIN longer,
               NEW a \in DOMAIN order, NEW b \in DOMAIN order,
               i < j, order[a] = longer[i], order[b] = longer[j]
        PROVE  a < b
    <3>1. i \in DOMAIN old.tasks
      BY <1>7, <2>7
    <3>2. CASE j \in DOMAIN old.tasks
      BY <1>7, <2>4, <2>7, <3>1, <3>2
    <3>3. CASE j = Len(old.tasks) + 1
      <4>1. PICK p \in 1 .. n : order[p] = old.tasks[i]
        BY <2>3, <3>1
      <4>2. a = p /\ b = n + 1
        BY <1>4, <1>7, <2>1, <2>5, <2>7, <3>1, <3>3, <4>1
      <4> QED
        BY <1>4, <4>2
    <3> QED
      BY <1>7, <3>2, <3>3
  <2> QED
    <3> SUFFICES ASSUME NEW m \in Keys
                 PROVE  LET q == sessions'[m].tasks
                        IN  /\ \A i \in DOMAIN q :
                                  SessionOf[q[i]] = m /\ \E p \in 1 .. n + 1 : order[p] = q[i]
                            /\ \A i, j \in DOMAIN q, a, b \in DOMAIN order :
                                  i < j /\ order[a] = q[i] /\ order[b] = q[j] => a < b
      BY <1>1, <1>4 DEF QueuesFollow
    <3>1. CASE m # k
      <4>1. m \in Keys \ {k} /\ sessions'[m].tasks = sessions[m].tasks
        BY <1>10, <3>1
      <4> HIDE DEF k, n
      <4> QED
        BY <2>2, <4>1
    <3>2. CASE m = k
      <4>1. sessions'[m].tasks = longer
        BY <1>9, <1>10, <3>2
      <4> QED
        BY <2>6, <2>7, <3>2, <4>1
    <3> QED
      BY <3>1, <3>2
<1>20. WaitingIsPending'
  <2>1. ToSet(tasks) = ToSet(tasks') \cup {t}
    <3>1. \A i \in DOMAIN tasks : i = 1 \/ (i - 1 \in DOMAIN tasks' /\ tasks'[i - 1] = tasks[i])
      BY <1>3
    <3>2. \A i \in DOMAIN tasks' : i + 1 \in DOMAIN tasks
      BY <1>3
    <3>3. 1 \in DOMAIN tasks
      BY <1>3
    <3> QED
      BY <1>3, <3>1, <3>2, <3>3 DEF ToSet
  <2>2. ToSet(longer) = ToSet(old.tasks) \cup {t}
    <3> HIDE DEF t, old
    <3>1. \A i \in DOMAIN longer : i \in DOMAIN old.tasks \/ i = Len(old.tasks) + 1
      BY <1>7
    <3>2. DOMAIN old.tasks \subseteq DOMAIN longer /\ Len(old.tasks) + 1 \in DOMAIN longer
      BY <1>7
    <3> QED
      BY <1>7, <3>1, <3>2 DEF ToSet
  <2>3. Queued' = Queued \cup {t}
    <3>1. ToSet(sessions'[k].tasks) = ToSet(sessions[k].tasks) \cup {t}
      BY <1>9, <1>10, <2>2
    <3>2. \A m \in Keys \ {k} : ToSet(sessions'[m].tasks) = ToSet(sessions[m].tasks)
      BY <1>10
    <3> HIDE DEF k, t
    <3> QED
      BY <1>5, <3>1, <3>2 DEF Queued
  <2>4. Waiting' = Waiting
    BY <2>1, <2>3 DEF Waiting
  <2> QED
    BY <1>1, <2>4 DEF IInv, WaitingIsPending
<1> QED
  BY <1>13, <1>14, <1>15, <1>16, <1>17, <1>18, <1>19, <1>20 DEF IInv

\* Runner.Start hears that a session's task is over: complete.
LEMMA SelectCompletedPreserves ==
  ASSUME IInv, SelectCompleted
  PROVE  IInv'
<1> DEFINE k == Head(completed)
           old == sessions[k]
           q == [old EXCEPT !.activeTask = None]
           new == IF old.tasks = <<>> THEN NoQueue ELSE Marked(q)
<1>1. UNCHANGED <<tasks, closed, cancelled, order, limit, input, watching, expired, go, notices>>
  BY DEF SelectCompleted, env
<1>2. completed \in Seq(Keys) /\ completed # <<>> /\ completed' = Tail(completed)
  BY DEF SelectCompleted, IInv, TypeOK
<1>3. /\ completed' \in Seq(Keys) /\ Len(completed') = Len(completed) - 1
      /\ Len(completed) \in Nat \ {0}
      /\ DOMAIN completed' = 1 .. Len(completed) - 1 /\ DOMAIN completed = 1 .. Len(completed)
      /\ \A i \in DOMAIN completed' : completed'[i] = completed[i + 1]
      /\ k = completed[1] /\ k \in Keys
  BY <1>2, TailFacts
<1>4. /\ old \in [tasks : Seq(Tasks), activeTask : Tasks \cup {None},
                  ready : BOOLEAN, present : BOOLEAN]
      /\ old.activeTask # None /\ old.present /\ ~old.ready
  <2>1. 1 \in DOMAIN completed /\ completed[1] = k
    BY <1>3
  <2>2. old.activeTask # None
    BY <2>1 DEF IInv, GoroutinesAgree
  <2> QED
    BY <1>3, <2>2 DEF IInv, TypeOK, EntriesAgree
<1>5. /\ q \in [tasks : Seq(Tasks), activeTask : Tasks \cup {None},
                 ready : BOOLEAN, present : BOOLEAN]
      /\ q.tasks = old.tasks /\ q.activeTask = None /\ q.present /\ ~q.ready
      /\ NeedsMark(q) <=> old.tasks # <<>>
  <2> HIDE DEF old
  <2> QED
    BY <1>4 DEF NeedsMark
<1>6. /\ active' = active - 1 /\ sessions' = [sessions EXCEPT ![k] = new]
      /\ ready' = IF old.tasks = <<>> THEN ready ELSE Append(ready, k)
  BY <1>4, <1>5 DEF SelectCompleted, Complete, ReadyWith
<1>7. /\ new \in [tasks : Seq(Tasks), activeTask : Tasks \cup {None}, ready : BOOLEAN,
             present : BOOLEAN]
      /\ new.tasks = old.tasks /\ new.activeTask = None
      /\ new.present <=> old.tasks # <<>>
      /\ new.ready <=> old.tasks # <<>>
  <2> HIDE DEF old
  <2>1. CASE old.tasks = <<>>
    BY <1>4, <2>1 DEF NoQueue
  <2>2. CASE old.tasks # <<>>
    <3>1. new = [q EXCEPT !.ready = TRUE]
      BY <1>5, <2>2 DEF Marked
    <3> HIDE DEF q, new
    <3> QED
      BY <1>5, <2>2, <3>1
  <2> QED
    BY <2>1, <2>2
<1> HIDE DEF new, q
<1>8. /\ sessions'[k] = new /\ \A m \in Keys \ {k} : sessions'[m] = sessions[m]
      /\ sessions' \in [Keys -> [tasks : Seq(Tasks), activeTask : Tasks \cup {None},
                                 ready : BOOLEAN, present : BOOLEAN]]
  BY <1>3, <1>6, <1>7 DEF IInv, TypeOK
<1>9. ready' \in Seq(Keys) /\ ReadyAgrees'
  <2>1. CASE old.tasks = <<>>
    <3>1. ready' = ready /\ new.ready = old.ready
      BY <1>4, <1>6, <1>7, <2>1
    <3>2. \A m \in Keys : sessions'[m].ready = sessions[m].ready
      BY <1>8, <3>1
    <3>3. \A i \in DOMAIN ready : ready[i] \in Keys
      BY DEF IInv, TypeOK
    <3> HIDE DEF k, old
    <3> QED
      BY <3>1, <3>2, <3>3 DEF IInv, TypeOK, ReadyAgrees
  <2>2. CASE old.tasks # <<>>
    <3>1. ready' = Append(ready, k) /\ new.ready
      BY <1>6, <1>7, <2>2
    <3> QED
      BY <1>3, <1>4, <1>8, <3>1, MarkedIsListed
  <2> QED
    BY <2>1, <2>2
<1>10. active = Cardinality(Alive) + Len(completed) /\ active <= limit /\ Cardinality(Alive) \in Nat
  <2>1. IsFiniteSet(Alive)
    BY RunnerAssumption, FS_Subset DEF Alive
  <2> QED
    BY <2>1, FS_CardinalityType DEF IInv, ActiveCountsGoroutines
<1>11. limit \in Nat
  BY RunnerAssumption DEF IInv, TypeOK
<1>12. TypeOK'
  <2>1. active' \in 0 .. limit /\ Len(completed') <= limit
    BY <1>3, <1>6, <1>10, <1>11
  <2>2. loop' = "top"
    BY DEF SelectCompleted
  <2> QED
    BY <1>1, <1>3, <1>8, <1>9, <2>1, <2>2 DEF IInv, TypeOK
<1>13. ActiveCountsGoroutines'
  <2>1. Alive' = Alive
    BY <1>1 DEF Alive
  <2> QED
    BY <1>1, <1>3, <1>6, <1>10, <1>11, <2>1 DEF ActiveCountsGoroutines
<1>14. EntriesAgree'
  BY <1>7, <1>8 DEF IInv, EntriesAgree
<1>15. GoroutinesAgree'
  <2>1. \A i \in DOMAIN completed' : i + 1 \in DOMAIN completed /\ i + 1 # 1
            /\ completed'[i] = completed[i + 1]
    BY <1>3
  <2>2. \A i \in DOMAIN completed' : completed'[i] \in Keys \ {k}
    <3>1. 1 \in DOMAIN completed /\ \A i \in DOMAIN completed : completed[i] \in Keys
      BY <1>3 DEF IInv, TypeOK
    <3>2. \A i \in DOMAIN completed : completed[i] = completed[1] => i = 1
      BY <3>1 DEF IInv, GoroutinesAgree
    <3> QED
      BY <1>3, <2>1, <3>1, <3>2
  <2>3. \A u \in Alive : SessionOf[u] \in Keys \ {k}
    BY <1>3, RunnerAssumption DEF Alive, IInv, GoroutinesAgree
  <2>4. \A u \in Alive : sessions'[SessionOf[u]].activeTask = u
    BY <1>8, <2>3 DEF IInv, GoroutinesAgree
  <2>5. \A u \in Alive : \A i \in DOMAIN completed' : completed'[i] # SessionOf[u]
    BY <2>1 DEF IInv, GoroutinesAgree
  <2>6. \A i, j \in DOMAIN completed' : completed'[i] = completed'[j] => i = j
    <3> TAKE i, j \in DOMAIN completed'
    <3>1. completed'[i] = completed'[j] => i + 1 = j + 1
      BY <2>1 DEF IInv, GoroutinesAgree
    <3> QED
      BY <1>3, <3>1
  <2>7. \A i \in DOMAIN completed' : sessions'[completed'[i]].activeTask # None
    BY <1>8, <2>1, <2>2 DEF IInv, GoroutinesAgree
  <2>8. Alive' = Alive
    BY <1>1 DEF Alive
  <2> QED
    BY <2>4, <2>5, <2>6, <2>7, <2>8 DEF GoroutinesAgree
<1>16. ChannelFollows'
  BY <1>1 DEF IInv, ChannelFollows, Received
<1>17. \A m \in Keys : sessions'[m].tasks = sessions[m].tasks
  BY <1>7, <1>8
<1> HIDE DEF k, old
<1>18. QueuesFollow'
  BY <1>1, <1>17 DEF IInv, QueuesFollow, Received
<1>19. WaitingIsPending'
  <2>1. Queued' = Queued
    BY <1>17 DEF Queued
  <2> QED
    BY <1>1, <2>1 DEF IInv, WaitingIsPending, Waiting
<1> QED
  BY <1>9, <1>12, <1>13, <1>14, <1>15, <1>16, <1>18, <1>19 DEF IInv

-----------------------------------------------------------------------------
(* dispatch.                                                                  *)

NextSession == Head(ready)
NextQueue == sessions[NextSession].tasks
Found == FirstLive(NextQueue)
Passed == {NextQueue[j] : j \in {n \in DOMAIN NextQueue : Found = 0 \/ n < Found}}

Queues == [tasks : Seq(Tasks), activeTask : Tasks \cup {None}, ready : BOOLEAN, present : BOOLEAN]

\* A task is in a queue once.
LEMMA QueuedOnce ==
  ASSUME IInv, NEW k \in Keys, NEW i \in DOMAIN sessions[k].tasks,
      NEW j \in DOMAIN sessions[k].tasks,
         sessions[k].tasks[i] = sessions[k].tasks[j]
  PROVE  i = j
<1> DEFINE q == sessions[k].tasks
<1>1. q \in Seq(Tasks) /\ i \in Nat /\ j \in Nat
  BY DEF IInv, TypeOK
<1>2. PICK p \in 1 .. Received : order[p] = q[i]
  BY DEF IInv, QueuesFollow
<1>3. p \in DOMAIN order /\ p \in Nat
  BY DEF Received, IInv, TypeOK, ChannelFollows
<1>4. ~(i < j) /\ ~(j < i)
  BY <1>2, <1>3 DEF IInv, QueuesFollow
<1> QED
  BY <1>1, <1>4

\* What one turn of dispatch's loop does.
LEMMA DispatchIs ==
  ASSUME IInv, DispatchOne
  PROVE  /\ ready \in Seq(Keys) /\ ready # <<>> /\ ready' = Tail(ready) /\ active < limit
         /\ NextSession \in Keys /\ NextQueue \in Seq(Tasks) /\ NextQueue # <<>>
         /\ sessions[NextSession].ready /\ sessions[NextSession].activeTask = None
         /\ expired' = expired \cup Passed /\ notices' = CancelNotices(Passed)
         /\ sessions' \in [Keys -> Queues]
         /\ \A m \in Keys \ {NextSession} : sessions'[m] = sessions[m]
         /\ ~sessions'[NextSession].ready
         /\ \/ /\ Found = 0 /\ UNCHANGED <<active, go>>
               /\ sessions'[NextSession].tasks = <<>> /\ sessions'[NextSession].activeTask = None
               /\ ~sessions'[NextSession].present
            \/ /\ Found \in DOMAIN NextQueue /\ ~Dead(NextQueue[Found])
               /\ active' = active + 1 /\ go' = [go EXCEPT ![NextQueue[Found]] = "locking"]
               /\ sessions'[NextSession].tasks = SubSeq(NextQueue, Found + 1, Len(NextQueue))
               /\ sessions'[NextSession].activeTask = NextQueue[Found]
               /\ sessions'[NextSession].present
<1> DEFINE k == NextSession
           old == sessions[k]
           q == [old EXCEPT !.ready = FALSE]
<1>1. ready \in Seq(Keys) /\ ready # <<>> /\ ready' = Tail(ready) /\ active < limit
  BY DEF DispatchOne, IInv, TypeOK
<1>2. k = ready[1] /\ k \in Keys /\ 1 \in DOMAIN ready
  BY <1>1, TailFacts DEF NextSession
<1>3. old \in Queues /\ old.ready /\ old.activeTask = None /\ old.present /\ old.tasks # <<>>
  BY <1>2 DEF IInv, TypeOK, ReadyAgrees, EntriesAgree, Queues
<1>4. /\ q \in Queues /\ q.tasks = old.tasks /\ q.activeTask = None /\ ~q.ready /\ q.present
  <2> HIDE DEF old
  <2> QED
    BY <1>3 DEF Queues
<1>5. /\ NextQueue \in Seq(Tasks) /\ NextQueue = old.tasks
      /\ Len(NextQueue) \in Nat /\ DOMAIN NextQueue = 1 .. Len(NextQueue)
  BY <1>3 DEF NextQueue, Queues
<1>6. Found = 0 \/ (Found \in DOMAIN NextQueue /\ ~Dead(NextQueue[Found]))
  BY <1>5, FirstLiveIs DEF Found
<1>7. Passed = ToSet(IF Found = 0 THEN old.tasks ELSE SubSeq(old.tasks, 1, Found - 1))
  <2>1. CASE Found = 0
    BY <1>5, <2>1 DEF Passed, ToSet
  <2>2. CASE Found # 0
    <3> DEFINE s == SubSeq(NextQueue, 1, Found - 1)
    <3>1. Found \in 1 .. Len(NextQueue)
      BY <1>5, <1>6, <2>2
    <3>2. DOMAIN s = 1 .. Found - 1 /\ \A j \in DOMAIN s : s[j] = NextQueue[j]
      BY <1>5, <3>1
    <3>3. {n \in DOMAIN NextQueue : Found = 0 \/ n < Found} = DOMAIN s
      BY <1>5, <2>2, <3>1, <3>2
    <3> HIDE DEF s
    <3>4. Passed = ToSet(s)
      BY <3>2, <3>3 DEF Passed, ToSet
    <3> QED
      BY <1>5, <2>2, <3>4 DEF s
  <2> QED
    BY <2>1, <2>2
<1>8. /\ expired' = expired \cup Passed /\ notices' = CancelNotices(Passed)
      /\ \/ Found = 0 /\ sessions' = [sessions EXCEPT ![k] = NoQueue] /\ UNCHANGED <<active, go>>
         \/ /\ Found # 0 /\ active' = active + 1
            /\ sessions' = [sessions EXCEPT ![k] =
                  [q EXCEPT !.tasks = SubSeq(q.tasks, Found + 1, Len(q.tasks)),
                            !.activeTask = q.tasks[Found]]]
            /\ go' = [go EXCEPT ![q.tasks[Found]] = "locking"]
  <2>1. FirstLive(q.tasks) = Found
    BY <1>4, <1>5 DEF Found
  <2> QED
    BY <1>3, <1>4, <1>7, <2>1 DEF DispatchOne, NextSession
<1>9. CASE Found = 0
  <2>1. NoQueue \in Queues /\ sessions'[k] = NoQueue
    BY <1>2, <1>8, <1>9, NothingQueued DEF NoQueue, Queues, IInv, TypeOK
  <2>2. sessions' \in [Keys -> Queues] /\ \A m \in Keys \ {k} : sessions'[m] = sessions[m]
    BY <1>2, <1>8, <1>9, <2>1 DEF IInv, TypeOK, Queues
  <2> QED
    BY <1>1, <1>2, <1>3, <1>5, <1>8, <1>9, <2>1, <2>2 DEF NoQueue
<1>10. CASE Found # 0
  <2> DEFINE new == [q EXCEPT !.tasks = SubSeq(q.tasks, Found + 1, Len(q.tasks)),
                              !.activeTask = q.tasks[Found]]
  <2>1. Found \in DOMAIN q.tasks /\ q.tasks[Found] \in Tasks
    BY <1>4, <1>5, <1>6, <1>10, ElementOfSeq
  <2>2. SubSeq(q.tasks, Found + 1, Len(q.tasks)) \in Seq(Tasks)
    BY <1>4, <1>5, <2>1, RestFacts
  <2>3. /\ new \in Queues /\ new.tasks = SubSeq(NextQueue, Found + 1, Len(NextQueue))
        /\ new.activeTask = NextQueue[Found] /\ ~new.ready /\ new.present
    <3> HIDE DEF q
    <3> QED
      BY <1>4, <1>5, <2>1, <2>2 DEF Queues
  <2> HIDE DEF new, q
  <2>4. sessions'[k] = new /\ sessions' \in [Keys -> Queues]
            /\ \A m \in Keys \ {k} : sessions'[m] = sessions[m]
    <3>1. sessions' = [sessions EXCEPT ![k] = new]
      BY <1>8, <1>10 DEF new
    <3>2. sessions \in [Keys -> Queues]
      BY DEF IInv, TypeOK, Queues
    <3> QED
      BY <1>2, <2>3, <3>1, <3>2
  <2> QED
    BY <1>1, <1>2, <1>3, <1>4, <1>5, <1>6, <1>8, <1>10, <2>3, <2>4
<1> QED
  BY <1>9, <1>10

\* The tasks dispatch takes off the queue: those it found dead, and the one it starts.
Gone == IF Found = 0 THEN Passed ELSE Passed \cup {NextQueue[Found]}

\* What a turn of dispatch's loop takes off the queue, and that nothing else moves.
LEMMA DispatchShape ==
  ASSUME IInv, Dispatch
  PROVE  /\ UNCHANGED <<tasks, closed, cancelled, order, limit, loop, input, watching, completed>>
         /\ /\ ready \in Seq(Keys) /\ ready # <<>> /\ ready' = Tail(ready) /\ active < limit
            /\ NextSession \in Keys /\ NextQueue \in Seq(Tasks)
                   /\ NextQueue = sessions[NextSession].tasks
            /\ sessions[NextSession].ready /\ sessions[NextSession].activeTask = None
            /\ expired' = expired \cup Passed /\ notices' = CancelNotices(Passed)
            /\ sessions' \in [Keys -> Queues] /\ ~sessions'[NextSession].ready
            /\ \A m \in Keys \ {NextSession} : sessions'[m] = sessions[m]
         /\ \/ /\ Found = 0 /\ UNCHANGED <<active, go>>
               /\ sessions'[NextSession].tasks = <<>>
                      /\ sessions'[NextSession].activeTask = None /\ ~sessions'[NextSession].present
            \/ /\ Found \in DOMAIN NextQueue /\ Found # 0 /\ NextQueue[Found] \in Tasks
               /\ active' = active + 1 /\ go' = [go EXCEPT ![NextQueue[Found]] = "locking"]
               /\ sessions'[NextSession].tasks = SubSeq(NextQueue, Found + 1, Len(NextQueue))
               /\ sessions'[NextSession].activeTask = NextQueue[Found]
                      /\ sessions'[NextSession].present
         /\ Passed \subseteq Tasks /\ Len(NextQueue) \in Nat
                /\ DOMAIN NextQueue = 1 .. Len(NextQueue)
         /\ /\ Tail(ready) \in Seq(Keys) /\ Len(ready) \in Nat \ {0}
            /\ DOMAIN Tail(ready) = 1 .. Len(ready) - 1 /\ DOMAIN ready = 1 .. Len(ready)
            /\ \A i \in DOMAIN Tail(ready) : Tail(ready)[i] = ready[i + 1]
            /\ NextSession = ready[1]
         /\ /\ \A i \in DOMAIN sessions'[NextSession].tasks :
                   /\ Found # 0 /\ i \in Nat \ {0} /\ Found + i \in DOMAIN NextQueue
                   /\ sessions'[NextSession].tasks[i] = NextQueue[Found + i]
            /\ Found # 0 => DOMAIN sessions'[NextSession].tasks = 1 .. Len(NextQueue) - Found
         /\ /\ Gone \subseteq ToSet(NextQueue) /\ Gone \subseteq Tasks
                /\ ToSet(NextQueue) \subseteq Queued
         /\ Waiting' = Waiting \ Gone
<1> DEFINE k == NextSession
           t == NextQueue[Found]
           gone == Gone
<1>1. UNCHANGED <<tasks, closed, cancelled, order, limit, loop, input, watching, completed>>
          /\ DispatchOne
  BY DEF Dispatch, env
<1>2. /\ ready \in Seq(Keys) /\ ready # <<>> /\ ready' = Tail(ready) /\ active < limit
      /\ k \in Keys /\ NextQueue \in Seq(Tasks) /\ NextQueue = sessions[k].tasks
      /\ sessions[k].ready /\ sessions[k].activeTask = None
      /\ expired' = expired \cup Passed /\ notices' = CancelNotices(Passed)
      /\ sessions' \in [Keys -> Queues] /\ ~sessions'[k].ready
      /\ \A m \in Keys \ {k} : sessions'[m] = sessions[m]
  BY <1>1, DispatchIs DEF NextQueue
<1>3. \/ /\ Found = 0 /\ UNCHANGED <<active, go>>
         /\ sessions'[k].tasks = <<>> /\ sessions'[k].activeTask = None /\ ~sessions'[k].present
      \/ /\ Found \in DOMAIN NextQueue /\ Found # 0 /\ t \in Tasks
         /\ active' = active + 1 /\ go' = [go EXCEPT ![t] = "locking"]
         /\ sessions'[k].tasks = SubSeq(NextQueue, Found + 1, Len(NextQueue))
         /\ sessions'[k].activeTask = t /\ sessions'[k].present
  BY <1>1, <1>2, DispatchIs, ElementOfSeq
<1>4. Passed \subseteq Tasks /\ Len(NextQueue) \in Nat /\ DOMAIN NextQueue = 1 .. Len(NextQueue)
  BY <1>2 DEF Passed
<1>5. /\ Tail(ready) \in Seq(Keys) /\ Len(ready) \in Nat \ {0}
      /\ DOMAIN Tail(ready) = 1 .. Len(ready) - 1 /\ DOMAIN ready = 1 .. Len(ready)
      /\ \A i \in DOMAIN Tail(ready) : Tail(ready)[i] = ready[i + 1]
      /\ k = ready[1]
  BY <1>2, TailFacts DEF NextSession
<1>6. /\ \A i \in DOMAIN sessions'[k].tasks :
             /\ Found # 0 /\ i \in Nat \ {0} /\ Found + i \in DOMAIN NextQueue
             /\ sessions'[k].tasks[i] = NextQueue[Found + i]
      /\ Found # 0 => DOMAIN sessions'[k].tasks = 1 .. Len(NextQueue) - Found
  <2>1. CASE Found = 0
    BY <1>3, <2>1, NothingQueued
  <2>2. CASE Found # 0
    <3> DEFINE s == SubSeq(NextQueue, Found + 1, Len(NextQueue))
    <3>1. s = sessions'[k].tasks /\ NextQueue \in Seq(Tasks) /\ Found \in DOMAIN NextQueue
      BY <1>2, <1>3, <2>2
    <3>2. DOMAIN s = 1 .. Len(NextQueue) - Found /\ \A i \in DOMAIN s : s[i] = NextQueue[Found + i]
      BY <3>1, RestFacts
    <3> HIDE DEF s
    <3> QED
      BY <1>4, <2>2, <3>1, <3>2
  <2> QED
    BY <2>1, <2>2
<1>7. ToSet(sessions'[k].tasks) = ToSet(NextQueue) \ gone
  <2>1. CASE Found = 0
    <3>1. Passed = ToSet(NextQueue) /\ sessions'[k].tasks = <<>>
      BY <1>3, <2>1 DEF Passed, ToSet
    <3> QED
      BY <2>1, <3>1, NothingQueued DEF ToSet, Gone
  <2>2. CASE Found # 0
    <3>1. \A a, b \in DOMAIN NextQueue : NextQueue[a] = NextQueue[b] => a = b
      BY <1>2, QueuedOnce
    <3>2. Found \in 1 .. Len(NextQueue)
      BY <1>3, <1>4, <2>2
    <3>3. gone = {NextQueue[j] : j \in 1 .. Found}
      BY <1>4, <2>2, <3>2 DEF Passed, Gone
    <3>4. ASSUME NEW j \in DOMAIN NextQueue, NextQueue[j] \notin gone
          PROVE  NextQueue[j] \in ToSet(sessions'[k].tasks)
      <4>1. j - Found \in 1 .. Len(NextQueue) - Found /\ Found + (j - Found) = j
        BY <1>4, <3>2, <3>3, <3>4
      <4>2. j - Found \in DOMAIN sessions'[k].tasks /\ sessions'[k].tasks[j - Found] = NextQueue[j]
        BY <1>6, <2>2, <4>1
      <4> QED
        BY <4>2 DEF ToSet
    <3>5. ASSUME NEW i \in DOMAIN sessions'[k].tasks
          PROVE  sessions'[k].tasks[i] \in ToSet(NextQueue) \ gone
      <4>1. /\ Found + i \in DOMAIN NextQueue /\ sessions'[k].tasks[i] = NextQueue[Found + i]
            /\ \A j \in 1 .. Found : j \in DOMAIN NextQueue /\ j # Found + i
        BY <1>4, <1>6, <3>2
      <4> QED
        BY <3>1, <3>3, <4>1 DEF ToSet
    <3> QED
      BY <3>4, <3>5 DEF ToSet
  <2> QED
    BY <2>1, <2>2
<1>8. /\ gone \subseteq ToSet(NextQueue) /\ gone \subseteq Tasks
             /\ ToSet(NextQueue) \subseteq Queued
  <2>1. gone \subseteq ToSet(NextQueue) /\ gone \subseteq Tasks
    BY <1>3, <1>4 DEF Passed, ToSet, Gone
  <2> QED
    BY <1>2, <2>1 DEF Queued
<1>9. Waiting' = Waiting \ gone
  <2>1. \A m \in Keys \ {k} : ToSet(sessions'[m].tasks) = ToSet(sessions[m].tasks) \ gone
    <3>1. \A m \in Keys : \A u \in ToSet(sessions[m].tasks) : SessionOf[u] = m
      BY DEF IInv, QueuesFollow, ToSet
    <3>2. \A u \in gone : SessionOf[u] = k
      BY <1>2, <1>8, <3>1
    <3> HIDE DEF gone, k
    <3> QED
      BY <1>2, <3>1, <3>2
  <2>2. Queued' = Queued \ gone
    <3>1. ToSet(sessions'[k].tasks) = ToSet(sessions[k].tasks) \ gone
      BY <1>2, <1>7
    <3> HIDE DEF gone, k
    <3> QED
      BY <2>1, <3>1 DEF Queued
  <2>3. ToSet(tasks) \cap gone = {}
    BY <1>8, ChannelIsNotQueued
  <2> QED
    BY <1>1, <2>2, <2>3 DEF Waiting
<1> QED
  BY <1>1, <1>2, <1>3, <1>4, <1>5, <1>6, <1>8, <1>9

LEMMA DispatchPreserves ==
  ASSUME IInv, Dispatch
  PROVE  IInv'
<1> DEFINE k == NextSession
           t == NextQueue[Found]
           gone == Gone
<1>1. UNCHANGED <<tasks, closed, cancelled, order, limit, loop, input, watching, completed>>
  BY DispatchShape
<1>2. /\ ready \in Seq(Keys) /\ ready # <<>> /\ ready' = Tail(ready) /\ active < limit
      /\ k \in Keys /\ NextQueue \in Seq(Tasks) /\ NextQueue = sessions[k].tasks
      /\ sessions[k].ready /\ sessions[k].activeTask = None
      /\ expired' = expired \cup Passed /\ notices' = CancelNotices(Passed)
      /\ sessions' \in [Keys -> Queues] /\ ~sessions'[k].ready
      /\ \A m \in Keys \ {k} : sessions'[m] = sessions[m]
  BY DispatchShape
<1>3. \/ /\ Found = 0 /\ UNCHANGED <<active, go>>
         /\ sessions'[k].tasks = <<>> /\ sessions'[k].activeTask = None /\ ~sessions'[k].present
      \/ /\ Found \in DOMAIN NextQueue /\ Found # 0 /\ t \in Tasks
         /\ active' = active + 1 /\ go' = [go EXCEPT ![t] = "locking"]
         /\ sessions'[k].tasks = SubSeq(NextQueue, Found + 1, Len(NextQueue))
         /\ sessions'[k].activeTask = t /\ sessions'[k].present
  BY DispatchShape
<1>4. Passed \subseteq Tasks /\ Len(NextQueue) \in Nat /\ DOMAIN NextQueue = 1 .. Len(NextQueue)
  BY DispatchShape
<1>5. /\ Tail(ready) \in Seq(Keys) /\ Len(ready) \in Nat \ {0}
      /\ DOMAIN Tail(ready) = 1 .. Len(ready) - 1 /\ DOMAIN ready = 1 .. Len(ready)
      /\ \A i \in DOMAIN Tail(ready) : Tail(ready)[i] = ready[i + 1]
      /\ k = ready[1]
  BY DispatchShape
<1>6. /\ \A i \in DOMAIN sessions'[k].tasks :
             /\ Found # 0 /\ i \in Nat \ {0} /\ Found + i \in DOMAIN NextQueue
             /\ sessions'[k].tasks[i] = NextQueue[Found + i]
      /\ Found # 0 => DOMAIN sessions'[k].tasks = 1 .. Len(NextQueue) - Found
  BY DispatchShape
<1>8. /\ gone \subseteq ToSet(NextQueue) /\ gone \subseteq Tasks
             /\ ToSet(NextQueue) \subseteq Queued
  BY DispatchShape
<1>9. Waiting' = Waiting \ gone
  BY DispatchShape
<1>10. \A u \in gone : u \in Waiting /\ go[u] = "none"
  BY <1>8 DEF IInv, WaitingIsPending, Waiting
<1>11. /\ notices' \in [Tasks -> Seq(Notices)]
       /\ \A u \in Tasks \ Passed : notices'[u] = notices[u]
       /\ \A u \in Passed : notices'[u] # <<>>
  <2>1. \A u \in Tasks : /\ Append(notices[u], "cancelled") \in Seq(Notices)
                         /\ Append(notices[u], "cancelled") # <<>>
    <3> TAKE u \in Tasks
    <3>1. notices[u] \in Seq(Notices) /\ "cancelled" \in Notices
      BY DEF IInv, TypeOK, Notices
    <3> QED
      BY <3>1, AppendProperties
  <2> QED
    BY <1>2, <1>4, <2>1 DEF CancelNotices, IInv, TypeOK
<1>12. /\ go' \in [Tasks -> Phases] /\ \A u \in Tasks \ gone : go'[u] = go[u]
       /\ Found # 0 => go'[t] = "locking"
  BY <1>3 DEF IInv, TypeOK, Phases, Gone
<1>13. /\ Cardinality(Alive) \in Nat /\ limit \in Nat /\ active \in Nat
       /\ Alive' = (IF Found = 0 THEN Alive ELSE Alive \cup {t}) /\ (Found # 0 => t \notin Alive)
       /\ Cardinality(Alive') = (IF Found = 0 THEN Cardinality(Alive) ELSE Cardinality(Alive) + 1)
  <2>1. IsFiniteSet(Alive)
    BY RunnerAssumption, FS_Subset DEF Alive
  <2>2. limit \in Nat /\ active \in Nat
    BY RunnerAssumption DEF IInv, TypeOK
  <2>3. /\ Alive' = (IF Found = 0 THEN Alive ELSE Alive \cup {t})
        /\ Found # 0 => t \notin Alive
    BY <1>3, <1>10 DEF Alive, IInv, TypeOK, Gone
  <2> QED
    BY <2>1, <2>2, <2>3, FS_AddElement, FS_CardinalityType
<1>14. active' = IF Found = 0 THEN active ELSE active + 1
  BY <1>3
<1>15. TypeOK'
  <2>1. active' \in 0 .. limit
    BY <1>2, <1>13, <1>14 DEF IInv, TypeOK
  <2>2. expired' \in SUBSET Tasks /\ ready' \in Seq(Keys)
    BY <1>2, <1>4, <1>5 DEF IInv, TypeOK
  <2> QED
    BY <1>1, <1>2, <1>11, <1>12, <2>1, <2>2 DEF IInv, TypeOK, Queues
<1>16. ActiveCountsGoroutines'
  <2>1. completed \in Seq(Keys) /\ completed' = completed
    BY <1>1 DEF IInv, TypeOK
  <2>2. active = Cardinality(Alive) + Len(completed) /\ Len(completed) \in Nat
    BY <2>1 DEF IInv, ActiveCountsGoroutines
  <2>3. active' <= limit /\ limit' = limit
    BY <1>1, <1>2, <1>13, <1>14
  <2> QED
    BY <1>13, <1>14, <2>1, <2>2, <2>3 DEF ActiveCountsGoroutines
<1>17. EntriesAgree'
  <2>1. Found # 0 => SessionOf[t] = k
    BY <1>2, <1>3 DEF IInv, QueuesFollow
  <2>2. Found # 0 => t # None
    BY <1>3, RunnerAssumption
  <2>3. sessions'[k].present <=> sessions'[k].tasks # <<>> \/ sessions'[k].activeTask # None
    BY <1>3, <2>2
  <2>4. ~(sessions'[k].tasks # <<>> /\ sessions'[k].activeTask = None)
    BY <1>3, <2>2
  <2> HIDE DEF t
  <2> QED
    BY <1>2, <1>3, <2>1, <2>3, <2>4 DEF IInv, EntriesAgree
<1>18. ReadyAgrees'
  <2>1. \A i \in DOMAIN ready' : i + 1 \in DOMAIN ready /\ i + 1 # 1 /\ i \in Nat
            /\ ready'[i] = ready[i + 1]
    BY <1>2, <1>5
  <2>2. \A i \in DOMAIN ready' : ready'[i] \in Keys \ {k}
    <3>1. 1 \in DOMAIN ready /\ \A i \in DOMAIN ready : ready[i] \in Keys
      BY <1>2, <1>5
    <3> QED
      BY <1>5, <2>1, <3>1 DEF IInv, ReadyAgrees
  <2>3. \A i, j \in DOMAIN ready' : ready'[i] = ready'[j] => i = j
    <3> TAKE i, j \in DOMAIN ready'
    <3>1. ready'[i] = ready'[j] => i + 1 = j + 1
      BY <2>1 DEF IInv, ReadyAgrees
    <3> QED
      BY <2>1, <3>1
  <2>4. \A i \in DOMAIN ready' : sessions'[ready'[i]].ready
    BY <1>2, <2>1, <2>2 DEF IInv, ReadyAgrees
  <2>5. ASSUME NEW m \in Keys, sessions'[m].ready
        PROVE  \E i \in DOMAIN ready' : ready'[i] = m
    <3>1. m # k
      BY <1>2, <2>5
    <3>2. PICK i \in DOMAIN ready : ready[i] = m
      BY <1>2, <2>5, <3>1 DEF IInv, ReadyAgrees
    <3>3. i - 1 \in DOMAIN Tail(ready) /\ (i - 1) + 1 = i
      BY <1>5, <3>1, <3>2
    <3> QED
      BY <1>2, <1>5, <3>2, <3>3
  <2> QED
    BY <2>3, <2>4, <2>5 DEF ReadyAgrees
<1>19. GoroutinesAgree'
  <2>1. \A i \in DOMAIN completed : completed[i] \in Keys \ {k}
    BY <1>2 DEF IInv, TypeOK, GoroutinesAgree
  <2>2. \A u \in Alive : SessionOf[u] \in Keys /\ (u # None)
    BY RunnerAssumption DEF Alive
  <2>3. \A u \in Alive : SessionOf[u] # k
    BY <1>2, <2>2 DEF IInv, GoroutinesAgree
  <2>4. Found # 0 => SessionOf[t] = k
    BY <1>2, <1>3 DEF IInv, QueuesFollow
  <2>5. \A u \in Alive' : sessions'[SessionOf[u]].activeTask = u
    BY <1>2, <1>3, <1>13, <2>2, <2>3, <2>4 DEF IInv, GoroutinesAgree
  <2>6. \A u \in Alive' : \A i \in DOMAIN completed' : completed'[i] # SessionOf[u]
    BY <1>1, <1>13, <2>1, <2>4 DEF IInv, GoroutinesAgree
  <2>7. \A i \in DOMAIN completed' : sessions'[completed'[i]].activeTask # None
    BY <1>1, <1>2, <2>1 DEF IInv, GoroutinesAgree
  <2> QED
    BY <1>1, <2>5, <2>6, <2>7 DEF IInv, GoroutinesAgree
<1>20. ChannelFollows'
  BY <1>1 DEF IInv, ChannelFollows, Received
<1>21. QueuesFollow'
  <2> DEFINE Follows(q, m) ==
        /\ \A i \in DOMAIN q : SessionOf[q[i]] = m /\ \E p \in 1 .. Received : order[p] = q[i]
        /\ \A i, j \in DOMAIN q, a, b \in DOMAIN order :
              i < j /\ order[a] = q[i] /\ order[b] = q[j] => a < b
  <2>1. \A m \in Keys : Follows(sessions[m].tasks, m)
    BY DEF IInv, QueuesFollow
  <2>2. Follows(sessions'[k].tasks, k)
    <3>1. Follows(NextQueue, k)
      BY <1>2, <2>1
    <3>2. \A i, j \in DOMAIN sessions'[k].tasks : i < j => Found + i < Found + j
      BY <1>3, <1>4, <1>6
    <3>3. \A i \in DOMAIN sessions'[k].tasks :
              Found + i \in DOMAIN NextQueue /\ sessions'[k].tasks[i] = NextQueue[Found + i]
      BY <1>6
    <3> HIDE DEF k
    <3> QED
      BY <3>1, <3>2, <3>3
  <2>3. \A m \in Keys : Follows(sessions'[m].tasks, m)
    <3> HIDE DEF Follows, k
    <3> QED
      BY <1>2, <2>1, <2>2
  <2>4. Received' = Received /\ order' = order
    BY <1>1 DEF Received
  <2> QED
    BY <2>3, <2>4 DEF QueuesFollow
<1>22. WaitingIsPending'
  <2>1. \A u \in Waiting' : go'[u] = "none" /\ notices'[u] = <<>>
    <3>1. \A u \in Waiting : u \in Tasks
      BY WaitingAreTasks DEF IInv
    <3>2. Passed \subseteq gone
      BY DEF Gone
    <3> HIDE DEF gone
    <3> QED
      BY <1>9, <1>11, <1>12, <3>1, <3>2 DEF IInv, WaitingIsPending
  <2>2. \A u \in Tasks \ ToSet(order) : u \notin gone
    BY <1>10, WaitingIsAccepted
  <2>3. \A u \in Tasks \ ToSet(order) : go'[u] = "none" /\ notices'[u] = <<>>
    <3>2. Passed \subseteq gone
      BY DEF Gone
    <3> HIDE DEF gone
    <3> QED
      BY <1>11, <1>12, <2>2, <3>2 DEF IInv, WaitingIsPending
  <2>4. ASSUME NEW u \in ToSet(order), go'[u] = "none", notices'[u] = <<>>
        PROVE  u \in Waiting'
    <3>1. u \in Tasks
      BY DEF IInv, TypeOK, ToSet
    <3>2. u \notin gone
      BY <1>3, <1>11, <1>12, <2>4 DEF Gone
    <3>3. go[u] = "none" /\ notices[u] = <<>>
      <4>1. u \notin Passed
        BY <3>2 DEF Gone
      <4> HIDE DEF gone
      <4> QED
        BY <1>11, <1>12, <2>4, <3>1, <3>2, <4>1
    <3> QED
      BY <1>9, <3>2, <3>3 DEF IInv, WaitingIsPending
  <2> QED
    BY <1>1, <2>1, <2>3, <2>4 DEF WaitingIsPending
<1> QED
  BY <1>15, <1>16, <1>17, <1>18, <1>19, <1>20, <1>21, <1>22 DEF IInv

-----------------------------------------------------------------------------

LEMMA InitEstablishes == Init => IInv
<1> SUFFICES ASSUME Init PROVE IInv
  OBVIOUS
<1>1. NoQueue \in [tasks : Seq(Tasks), activeTask : Tasks \cup {None},
                   ready : BOOLEAN, present : BOOLEAN]
  BY NothingQueued DEF NoQueue
<1>2. /\ <<>> \in Seq(Tasks) /\ <<>> \in Seq(Keys) /\ <<>> \in Seq(Notices)
      /\ limit \in Nat /\ limit \in Limits /\ Buffer \in Nat
  BY NothingQueued, RunnerAssumption DEF Init
<1>3. TypeOK
  <2>1. 0 \in 0 .. limit /\ Len(<<>>) <= limit /\ Len(<<>>) <= Buffer
    BY <1>2, NothingQueued
  <2> QED
    BY <1>1, <1>2, <2>1 DEF Init, TypeOK, Phases
<1>4. ActiveCountsGoroutines
  <2>1. Alive = {}
    BY DEF Init, Alive
  <2> QED
    BY <1>2, <2>1, FS_EmptySet, NothingQueued DEF Init, ActiveCountsGoroutines
<1>5. EntriesAgree /\ ReadyAgrees /\ GoroutinesAgree
  BY NothingQueued DEF Init, EntriesAgree, ReadyAgrees, GoroutinesAgree, NoQueue, Alive
<1>6. ChannelFollows /\ QueuesFollow
  BY NothingQueued DEF Init, ChannelFollows, QueuesFollow, Received, NoQueue
<1>7. WaitingIsPending
  <2>1. Waiting = {} /\ ToSet(order) = {}
    BY NothingQueued DEF Init, Waiting, Queued, NoQueue, ToSet
  <2> QED
    BY <2>1 DEF Init, WaitingIsPending
<1> QED
  BY <1>3, <1>4, <1>5, <1>6, <1>7 DEF IInv

LEMMA EnvironmentPreserves ==
  ASSUME IInv, Environment
  PROVE  IInv'
<1>1. ASSUME NEW t \in Tasks, Expire(t) PROVE IInv'
  BY <1>1, TablesPreserve DEF Expire, env, sched, IInv, TypeOK
<1>2. CASE CloseTasks
  BY <1>2, TablesPreserve DEF CloseTasks, sched, IInv, TypeOK
<1>3. CASE CancelRunner
  BY <1>3, TablesPreserve DEF CancelRunner, sched, IInv, TypeOK
<1> QED
  BY <1>1, <1>2, <1>3, SendPreserves DEF Environment

LEMMA LoopPreserves ==
  ASSUME IInv, Loop
  PROVE  IInv'
<1>1. CASE TopCancelled \/ SelectCancelled
  BY <1>1, CancelEverythingPreserves DEF TopCancelled, SelectCancelled
<1>2. CASE TopDispatches
  BY <1>2, TablesPreserve DEF TopDispatches, env, sched, IInv, TypeOK
<1>3. CASE DispatchEnds
  BY <1>3, TablesPreserve DEF DispatchEnds, env, sched, IInv, TypeOK
<1>4. CASE Return
  BY <1>4, TablesPreserve DEF Return, env, sched, IInv, TypeOK
<1>5. CASE SelectClosed
  BY <1>5, TablesPreserve DEF SelectClosed, env, IInv, TypeOK
<1> QED
  BY <1>1, <1>2, <1>3, <1>4, <1>5, DispatchPreserves, SelectTaskPreserves,
     SelectCompletedPreserves DEF Loop

\* Of runOne, the ways out and the notice each delivers.
LEMMA GoroutineSteps ==
  ASSUME NEW t \in Tasks, Goroutine(t)
  PROVE  \/ Advance(t, "locking", "preparing") \/ Advance(t, "preparing", "running")
         \/ /\ go[t] \in {"locking", "preparing", "running"}
            /\ \E sent \in Seq(Notices) : Leave(t, sent)
         \/ Signal(t)
<1>1. CASE LockCancelled(t)
  BY <1>1, GoroutineSends DEF LockCancelled
<1>2. CASE PrepareFails(t)
  BY <1>2, GoroutineSends DEF PrepareFails
<1>3. CASE Panics(t) \/ RunEnds(t)
  BY <1>3, GoroutineSends DEF Panics, RunEnds
<1> QED
  BY <1>1, <1>2, <1>3 DEF Goroutine, LockSession, PrepareTask

LEMMA GoroutinePreserves ==
  ASSUME IInv, NEW t \in Tasks, Goroutine(t)
  PROVE  IInv'
  BY GoroutineSteps, AdvancePreserves, LeavePreserves, SignalPreserves

LEMMA NextPreserves == IInv /\ [Next]_vars => IInv'
<1>1. IInv /\ UNCHANGED vars => IInv'
  BY TablesPreserve DEF vars, env, sched, IInv, TypeOK
<1> QED
  BY <1>1, EnvironmentPreserves, LoopPreserves, GoroutinePreserves DEF Next

\* Where every accepted task is, and that the tables agree, in every reachable state.
THEOREM Invariance == Spec => []IInv
  BY InitEstablishes, NextPreserves, PTL DEF Spec

\* The channels, tables and goroutines of the runner keep their types (runner.go).
THEOREM TypeCorrect == Spec => []TypeOK
  BY Invariance, PTL DEF IInv

\* A session is on the ready list once or not at all.
LEMMA ListedOnce == IInv => QueuedSessionIsReady
<1> SUFFICES ASSUME IInv, NEW k \in Keys
             PROVE  /\ sessions[k].tasks # <<>> /\ sessions[k].activeTask = None
                          => sessions[k].ready
                    /\ Cardinality({i \in DOMAIN ready : ready[i] = k})
                          = IF sessions[k].ready THEN 1 ELSE 0
  BY DEF QueuedSessionIsReady
<1>1. sessions[k].tasks # <<>> /\ sessions[k].activeTask = None => sessions[k].ready
  BY DEF IInv, EntriesAgree
<1>2. CASE sessions[k].ready
  <2>1. PICK i \in DOMAIN ready : ready[i] = k
    BY <1>2 DEF IInv, ReadyAgrees
  <2>2. {j \in DOMAIN ready : ready[j] = k} = {i}
    BY <2>1 DEF IInv, ReadyAgrees
  <2> QED
    BY <1>1, <1>2, <2>2, FS_Singleton
<1>3. CASE ~sessions[k].ready
  <2>1. {j \in DOMAIN ready : ready[j] = k} = {}
    BY <1>3 DEF IInv, ReadyAgrees
  <2> QED
    BY <1>1, <1>3, <2>1, FS_EmptySet
<1> QED
  BY <1>2, <1>3

\* The scheduler's counter, ready list and session entries agree with each other and with
\* the goroutines it started (taskScheduler in runner.go).
THEOREM SchedulerStaysExact == Spec => []SchedulerIsExact
<1>1. IInv => NoLeakedSession
  BY DEF IInv, EntriesAgree, NoLeakedSession
<1>2. IInv => SchedulerIsExact
  BY <1>1, ListedOnce DEF IInv, SchedulerIsExact
<1> QED
  BY <1>2, Invariance, PTL

-----------------------------------------------------------------------------
(* The serial executor.                                                       *)

Running == {"locking", "preparing", "running"}

\* What each status stands for.
StatusFacts ==
    \A t \in Tasks :
        /\ Status(t) = "unsent" <=> t \notin ToSet(order)
        /\ Status(t) = "running" <=> go[t] \in Running
        /\ Status(t) = "pending" <=> t \in Waiting
        /\ Status(t) = "done" <=> t \in ToSet(order) /\ go[t] \notin Running /\ t \notin Waiting
        /\ Status(t) \in {"unsent", "running", "pending", "done"}

LEMMA StatusIs == IInv => StatusFacts
  BY WaitingIsAccepted DEF IInv, WaitingIsPending, Status, StatusFacts, Running

LEMMA StatusIsAfterwards == IInv' => StatusFacts'
  BY StatusIs, PTL

\* A step that moves no task between the channel, the queues and the goroutines stutters.
LEMMA ExecutorStutters ==
  ASSUME IInv, UNCHANGED <<order, limit, notices>>,
         \A t \in Tasks : go'[t] = go[t] \/ (go[t] \in Running /\ go'[t] \in Running)
                             \/ (go[t] = "finished" /\ go'[t] = "exited")
  PROVE  UNCHANGED Executor!vars
<1>1. \A t \in Tasks : Status(t)' = Status(t)
  BY DEF Status, Running
<1> QED
  BY <1>1 DEF Executor!vars

LEMMA SendAccepts ==
  ASSUME IInv, NEW t \in Tasks, Send(t)
  PROVE  Executor!Accept(t)
<1>1. order' = Append(order, t) /\ t \notin ToSet(order) /\ UNCHANGED <<limit, go, notices>>
  BY DEF Send
<1>2. ToSet(order') = ToSet(order) \cup {t}
  <2>1. order \in Seq(Tasks)
    BY DEF IInv, TypeOK
  <2>2. /\ DOMAIN order' = 1 .. Len(order) + 1 /\ DOMAIN order = 1 .. Len(order)
        /\ \A i \in DOMAIN order : order'[i] = order[i]
        /\ order'[Len(order) + 1] = t /\ Len(order) \in Nat
    BY <1>1, <2>1, AppendFacts
  <2> QED
    BY <2>2 DEF ToSet
<1>3. Status(t) = "unsent" /\ Status(t)' = "pending"
  BY <1>1, <1>2 DEF Status, IInv, WaitingIsPending
<1>4. \A u \in Tasks \ {t} : Status(u)' = Status(u)
  BY <1>1, <1>2 DEF Status
<1> QED
  BY <1>1, <1>3, <1>4 DEF Executor!Accept

LEMMA LeaveFinishes ==
  ASSUME IInv, NEW t \in Tasks, go[t] \in Running, NEW sent \in Seq(Notices), Leave(t, sent)
  PROVE  Executor!Finish(t)
<1>1. /\ UNCHANGED <<order, limit>> /\ go' = [go EXCEPT ![t] = "finished"]
      /\ \A u \in Tasks \ {t} : go'[u] = go[u] /\ notices'[u] = notices[u]
      /\ go'[t] = "finished" /\ t \in ToSet(order)
  BY DEF Leave, env, IInv, TypeOK, WaitingIsPending, Running
<1>2. Status(t) = "running" /\ Status(t)' = "done"
  BY <1>1 DEF Status, Running
<1>3. \A u \in Tasks \ {t} : Status(u)' = Status(u)
  BY <1>1 DEF Status
<1> QED
  BY <1>1, <1>2, <1>3 DEF Executor!Finish

\* Tasks that get a cancellation notice while they wait are dropped.
LEMMA NoticesDrop ==
  ASSUME IInv, IInv', NEW dropped \in SUBSET Waiting, UNCHANGED <<order, limit, go>>,
         Waiting' = Waiting \ dropped
  PROVE  [Executor!Next]_Executor!vars
<1>1. Waiting \subseteq Tasks
  BY WaitingAreTasks DEF IInv
<1>2. \A t \in Tasks : Status(t)' = IF t \in dropped THEN "done" ELSE Status(t)
  <2> TAKE t \in Tasks
  <2>1. t \in Waiting => go[t] \notin Running /\ t \in ToSet(order)
    BY WaitingIsAccepted DEF IInv, WaitingIsPending, Running
  <2>2. t \in Waiting' <=> t \in Waiting /\ t \notin dropped
    OBVIOUS
  <2> QED
    BY <2>1, <2>2, StatusIs, StatusIsAfterwards DEF StatusFacts
<1>3. CASE dropped = {}
  BY <1>2, <1>3 DEF Executor!vars
<1>4. CASE dropped # {}
  <2>1. Executor!Drop(dropped)
    BY <1>2, <1>4 DEF Executor!Drop
  <2>2. dropped \in SUBSET Executor!In("pending")
    BY <1>1, StatusIs DEF StatusFacts, Executor!In
  <2> QED
    BY <2>1, <2>2 DEF Executor!Next
<1> QED
  BY <1>3, <1>4

\* The tasks accepted before t, for the executor.
LEMMA EarlierIs ==
  ASSUME NEW t \in Tasks, NEW u \in Executor!Earlier(t)
  PROVE  \E a, b \in DOMAIN order :
            order[a] = u /\ order[b] = t /\ a < b /\ SessionOf[u] = SessionOf[t]
  BY DEF Executor!Earlier

\* dispatch starts a task after everything of its session that was accepted before it, or
\* drops what it finds dead.
LEMMA DispatchImplements ==
  ASSUME IInv, IInv', Dispatch
  PROVE  [Executor!Next]_Executor!vars
<1> DEFINE k == NextSession
           t == NextQueue[Found]
<1>1. UNCHANGED <<tasks, order, limit>> /\ DispatchOne
  BY DEF Dispatch, env
<1>2. CASE Found = 0
  <2>1. Waiting' = Waiting \ Gone /\ UNCHANGED go /\ Gone \subseteq Waiting
    BY <1>2, DispatchShape DEF Waiting
  <2> QED
    BY <1>1, <2>1, NoticesDrop
<1>3. CASE Found # 0
  <2>1. /\ k \in Keys /\ NextQueue \in Seq(Tasks) /\ NextQueue = sessions[k].tasks
        /\ sessions[k].activeTask = None /\ active < limit
        /\ Found \in DOMAIN NextQueue /\ t \in Tasks /\ go' = [go EXCEPT ![t] = "locking"]
    BY <1>1, <1>3, DispatchIs, ElementOfSeq DEF NextQueue
  <2>2. Waiting' = Waiting \ (Passed \cup {t}) /\ Passed \subseteq Waiting /\ t \in Waiting
    BY <1>3, DispatchShape DEF Gone, Waiting
  <2>3. go'[t] = "locking" /\ \A u \in Tasks \ {t} : go'[u] = go[u]
    BY <2>1 DEF IInv, TypeOK
  <2>4. t \notin Passed
    <3>1. \A j \in DOMAIN NextQueue : j < Found => NextQueue[j] # t
      BY <2>1, QueuedOnce
    <3> QED
      BY <1>3, <3>1 DEF Passed
  <2>5. \A u \in Tasks : Status(u)' = IF u = t THEN "running"
                                       ELSE IF u \in Passed THEN "done" ELSE Status(u)
    <3> TAKE u \in Tasks
    <3>1. u \in Waiting => go[u] \notin Running /\ u \in ToSet(order)
      BY WaitingIsAccepted DEF IInv, WaitingIsPending, Running
    <3>2. u \in Waiting' <=> u \in Waiting /\ u \notin Passed /\ u # t
      BY <2>2
    <3>3. u = t => go'[u] \in Running
      BY <2>3 DEF Running
    <3>4. u # t => go'[u] = go[u]
      BY <2>3
    <3> HIDE DEF t
    <3> QED
      BY <1>1, <2>2, <3>1, <3>2, <3>3, <3>4, StatusIs, StatusIsAfterwards DEF StatusFacts
  <2>6. Status(t) = "pending"
    BY <2>1, <2>2, StatusIs DEF StatusFacts
  <2>7. \A u \in Tasks : Status(u) = "pending" <=> u \in Waiting
    BY StatusIs DEF StatusFacts
  <2>8. Executor!Earlier(t) \cap Waiting = Passed
    <3>1. SessionOf[t] = k
      BY <2>1 DEF IInv, QueuesFollow
    <3>2. ASSUME NEW u \in Executor!Earlier(t) \cap Waiting PROVE u \in Passed
      <4>1. PICK a, b \in DOMAIN order : order[a] = u /\ order[b] = t /\ a < b /\ SessionOf[u] = k
        BY <2>1, <3>1, <3>2, EarlierIs
      <4>2. PICK p \in 1 .. Received : order[p] = t
        BY <2>1 DEF IInv, QueuesFollow
      <4>3. order \in Seq(Tasks) /\ Len(tasks) <= Len(order) /\ tasks \in Seq(Tasks)
                /\ p \in DOMAIN order
        BY <4>2 DEF IInv, TypeOK, ChannelFollows, Received
      <4>4. b = p
        BY <4>1, <4>2, <4>3 DEF IInv, ChannelFollows
      <4>5. ASSUME NEW j \in DOMAIN tasks, tasks[j] = u PROVE FALSE
        <5>1. Received + j \in DOMAIN order /\ order[Received + j] = u
          BY <4>3, <4>5 DEF IInv, ChannelFollows, Received
        <5>2. Received + j = a
          BY <4>1, <5>1 DEF IInv, ChannelFollows
        <5> QED
          BY <4>1, <4>3, <4>4, <5>2 DEF Received
      <4>6. PICK m \in Keys : \E i \in DOMAIN sessions[m].tasks : sessions[m].tasks[i] = u
        BY <3>2, <4>5 DEF Waiting, Queued, ToSet
      <4>7. m = k
        BY <4>1, <4>6 DEF IInv, QueuesFollow
      <4>8. PICK i \in DOMAIN NextQueue : NextQueue[i] = u
        BY <2>1, <4>6, <4>7
      <4>9. ~(Found < i) /\ i # Found
        <5>1. Found < i => b < a
          BY <2>1, <4>1, <4>8 DEF IInv, QueuesFollow
        <5>2. a \in Nat /\ b \in Nat
          BY <4>1, <4>3
        <5>3. i = Found => u = t
          BY <4>8
        <5>4. u = t => a = b
          BY <4>1 DEF IInv, ChannelFollows
        <5> HIDE DEF t
        <5> QED
          BY <4>1, <5>1, <5>2, <5>3, <5>4
      <4> QED
        BY <2>1, <4>8, <4>9 DEF Passed
    <3>3. ASSUME NEW i \in DOMAIN NextQueue, i < Found PROVE NextQueue[i] \in Executor!Earlier(t)
      <4>1. \A j \in DOMAIN NextQueue : SessionOf[NextQueue[j]] = k
                /\ \E p \in DOMAIN order : order[p] = NextQueue[j]
        <5>1. 1 .. Received \subseteq DOMAIN order
          BY DEF Received, IInv, TypeOK, ChannelFollows
        <5> QED
          BY <2>1, <5>1 DEF IInv, QueuesFollow
      <4>2. PICK a, b \in DOMAIN order : order[a] = NextQueue[i] /\ order[b] = t
        BY <2>1, <4>1
      <4>3. a < b
        BY <2>1, <3>3, <4>2 DEF IInv, QueuesFollow
      <4> QED
        BY <2>1, <3>1, <4>1, <4>2, <4>3 DEF Executor!Earlier
    <3> QED
      BY <1>3, <2>2, <3>2, <3>3 DEF Passed
  <2>9. ASSUME NEW u \in Executor!Earlier(t), u \notin Waiting PROVE Status(u) = "done"
    <3>1. PICK a \in DOMAIN order : order[a] = u /\ SessionOf[u] = SessionOf[t]
      BY <2>1, EarlierIs
    <3>2. u \in Tasks /\ u \in ToSet(order)
      BY <3>1 DEF IInv, TypeOK, ToSet
    <3>3. SessionOf[u] = k
      BY <2>1, <3>1 DEF IInv, QueuesFollow
    <3>4. go[u] \notin Running
      BY <2>1, <3>2, <3>3, RunnerAssumption DEF IInv, GoroutinesAgree, Alive, Running
    <3> QED
      BY <2>9, <3>2, <3>4, StatusIs DEF StatusFacts
  <2>10. Cardinality(Executor!In("running")) < limit
    <3>1. Executor!In("running") \subseteq Alive
      BY StatusIs DEF StatusFacts, Executor!In, Alive, Running
    <3>2. IsFiniteSet(Alive)
      BY RunnerAssumption, FS_Subset DEF Alive
    <3>3. /\ Cardinality(Executor!In("running")) <= Cardinality(Alive)
          /\ Cardinality(Executor!In("running")) \in Nat /\ Cardinality(Alive) \in Nat
      BY <3>1, <3>2, FS_Subset, FS_CardinalityType
    <3>4. active = Cardinality(Alive) + Len(completed) /\ Len(completed) \in Nat /\ limit \in Nat
      BY RunnerAssumption DEF IInv, TypeOK, ActiveCountsGoroutines
    <3> QED
      BY <2>1, <3>3, <3>4
  <2>11. Executor!Earlier(t) \cap Executor!In("pending") = Passed
    <3>1. Executor!In("pending") = Waiting
      <4>1. Waiting \subseteq Tasks
        BY WaitingAreTasks DEF IInv
      <4> QED
        BY <2>7, <4>1 DEF Executor!In
    <3> QED
      BY <2>8, <3>1
  <2>12. \A u \in Executor!Earlier(t) \ Passed : [v \in Tasks |-> Status(v)][u] = "done"
    <3>1. \A u \in Executor!Earlier(t) : u \in Tasks
      BY DEF Executor!Earlier, IInv, TypeOK
    <3> QED
      BY <2>8, <2>9, <3>1
  <2>13. Executor!Start(t)
    <3>1. t \notin Passed /\ t \in Tasks
      BY <2>1, <2>4
    <3>2. \A u \in Executor!Earlier(t) \ (Executor!Earlier(t) \cap Executor!In("pending")) :
              [v \in Tasks |-> Status(v)][u] = "done"
      BY <2>11, <2>12
    <3>3. [u \in Tasks |-> Status(u)'] =
             [u \in Tasks |-> IF u = t THEN "running"
                ELSE IF u \in Executor!Earlier(t) \cap Executor!In("pending") THEN "done"
                ELSE [v \in Tasks |-> Status(v)][u]]
      <4> HIDE DEF t
      <4> QED
        BY <2>5, <2>11
    <3>4. \A S : Executor!Cardinality(S) = Cardinality(S)
      BY DEF Executor!Cardinality, Cardinality
    <3> HIDE DEF t
    <3> QED
      BY <1>1, <2>6, <2>10, <3>1, <3>2, <3>3, <3>4 DEF Executor!Start
  <2> QED
    BY <2>1, <2>13 DEF Executor!Next
<1> QED
  BY <1>2, <1>3

\* cancelAll and cancelBufferedTasks drop what they take out of the channel and the queues.
LEMMA CancelEverythingImplements ==
  ASSUME IInv, IInv', CancelEverything
  PROVE  [Executor!Next]_Executor!vars
<1>1. UNCHANGED <<order, limit, go>>
  BY DEF CancelEverything
<1>2. ToSet(tasks') \subseteq ToSet(tasks)
  BY NothingQueued DEF CancelEverything, ToSet
<1>3. \A k \in Keys : ToSet(sessions'[k].tasks) \subseteq ToSet(sessions[k].tasks)
  <2> TAKE k \in Keys
  <2>1. sessions'[k] = IF sessions[k].activeTask = None THEN NoQueue
                       ELSE [sessions[k] EXCEPT !.tasks = <<>>, !.ready = FALSE]
    BY DEF CancelEverything, CancelledTables
  <2>2. sessions[k] \in [tasks : Seq(Tasks), activeTask : Tasks \cup {None},
                         ready : BOOLEAN, present : BOOLEAN]
    BY DEF IInv, TypeOK
  <2>3. sessions'[k].tasks = <<>>
    <3>1. CASE sessions[k].activeTask = None
      BY <2>1, <3>1 DEF NoQueue
    <3>2. CASE sessions[k].activeTask # None
      BY <2>1, <2>2, <3>2
    <3> QED
      BY <3>1, <3>2
  <2> QED
    BY <2>3, NothingQueued DEF ToSet
<1>4. Waiting' \subseteq Waiting
  BY <1>2, <1>3 DEF Waiting, Queued
<1> DEFINE dropped == Waiting \ Waiting'
<1>5. dropped \in SUBSET Waiting /\ Waiting' = Waiting \ dropped
  BY <1>4
<1> QED
  BY <1>1, <1>5, NoticesDrop

LEMMA EnvironmentImplements ==
  ASSUME IInv, Environment
  PROVE  [Executor!Next]_Executor!vars
<1>1. ASSUME NEW t \in Tasks, Send(t) PROVE Executor!Next
  BY <1>1, SendAccepts DEF Executor!Next
<1>2. CASE (\E t \in Tasks : Expire(t)) \/ CloseTasks \/ CancelRunner
  BY <1>2, ExecutorStutters DEF Expire, CloseTasks, CancelRunner, env
<1> QED
  BY <1>1, <1>2 DEF Environment

LEMMA LoopImplements ==
  ASSUME IInv, IInv', Loop
  PROVE  [Executor!Next]_Executor!vars
<1>1. CASE TopCancelled \/ SelectCancelled
  BY <1>1, CancelEverythingImplements DEF TopCancelled, SelectCancelled
<1>2. CASE TopDispatches \/ DispatchEnds \/ Return \/ SelectTask \/ SelectClosed \/ SelectCompleted
  BY <1>2, ExecutorStutters
     DEF TopDispatches, DispatchEnds, Return, SelectTask, SelectClosed, SelectCompleted, env
<1> QED
  BY <1>1, <1>2, DispatchImplements DEF Loop

LEMMA GoroutineImplements ==
  ASSUME IInv, NEW t \in Tasks, Goroutine(t)
  PROVE  [Executor!Next]_Executor!vars
<1>1. CASE \/ Advance(t, "locking", "preparing") \/ Advance(t, "preparing", "running")
           \/ Signal(t)
  <2>1. UNCHANGED <<order, limit, notices>> /\ go \in [Tasks -> Phases]
    BY <1>1 DEF Advance, Signal, env, IInv, TypeOK
  <2>2. /\ \A u \in Tasks \ {t} : go'[u] = go[u]
        /\ (go[t] \in Running /\ go'[t] \in Running) \/ (go[t] = "finished" /\ go'[t] = "exited")
    BY <1>1, <2>1 DEF Advance, Signal, Running
  <2> QED
    BY <2>1, <2>2, ExecutorStutters
<1>2. ASSUME NEW sent \in Seq(Notices), go[t] \in Running, Leave(t, sent)
      PROVE  Executor!Next
  BY <1>2, LeaveFinishes DEF Executor!Next
<1> QED
  BY <1>1, <1>2, GoroutineSteps DEF Running

\* Every step of the runner is a step of the serial executor or leaves it alone.
LEMMA StepImplements == IInv /\ IInv' /\ [Next]_vars => [Executor!Next]_Executor!vars
<1> SUFFICES ASSUME IInv, IInv', [Next]_vars PROVE [Executor!Next]_Executor!vars
  OBVIOUS
<1>1. CASE UNCHANGED vars
  BY <1>1, ExecutorStutters DEF vars, env
<1> QED
  BY <1>1, EnvironmentImplements, LoopImplements, GoroutineImplements DEF Next

LEMMA InitImplements == Init => Executor!Init
<1> SUFFICES ASSUME Init PROVE Executor!Init
  OBVIOUS
<1>1. order = <<>> /\ limit \in Nat \ {0}
  BY RunnerAssumption DEF Init
<1>2. \A t \in Tasks : Status(t) = "unsent"
  BY <1>1, NothingQueued DEF Status, ToSet
<1> QED
  BY <1>1, <1>2 DEF Executor!Init

\* The runner implements the serial executor (Runner.Start, taskScheduler in runner.go).
THEOREM RunnerImplementsExecutor == Spec => ImplementsExecutor
  BY InitImplements, StepImplements, Invariance, PTL DEF Spec, ImplementsExecutor, Executor!Spec
=============
