--------------------------- MODULE ToolTurnProofs ---------------------------
(***************************************************************************)
(* A run's calls are executed in the model's order, authorisation lets     *)
(* nothing through that nobody vouched for, work waits for an approved     *)
(* plan, and a run completes only with its gates satisfied: for any calls  *)
(* the model asks for, any verdicts of the reviewer and any turn limit.    *)
(* The invariant says how far the batch has come, which surface the turn   *)
(* runs on, and in which turns the plan moved.                             *)
(***************************************************************************)
EXTENDS ToolTurn, FiniteSetTheorems, SequenceTheorems, WellFoundedInduction, TLAPS

\* The states of a call, and the verdicts a review may hold.
Statuses == Results \cup {"waiting", "authorizing", "running"}
Opinions == Verdicts \cup {NoVerdict}

Authority ==
    [stage : {"idle", "snapshot", "review", "ask", "allowed", "denied"},
     call : Calls \cup {NoCall}, mode : Modes, attempt : 0 .. ReviewerAttempts - 1,
     last : Opinions, verdict : Opinions, answer : Decisions \cup {"none"}]

Plans ==
    [phase : {"formal", "checklist", "implementation"},
     pending : {"none", "checklist", "implementation"}, approved : BOOLEAN, submitted : BOOLEAN]

USE DEF Authority, Plans

\* The records keep their fields.
Records ==
    /\ kind \in RunKinds
    /\ batch \in Batches \cup {<<>>}
    /\ auth \in Authority
    /\ plan \in Plans
    /\ policy \in [gate : {"none", "formal", "checklist"}, reminded : BOOLEAN, updated : BOOLEAN]
    /\ hist \in [approved : Nat, written : Nat]
    /\ sessionYes \subseteq Calls

\* What a review may still approve, and what the session's grants stand for.
AuthorityFollows ==
    /\ auth.stage = "review" => auth.mode = "approve" /\ Classify(auth.call) = "reviewable"
    /\ grants = {GrantKey(c) : c \in sessionYes}

\* How far the batch has come: what precedes the group is finished, what follows it waits,
\* and only parallel-safe calls share a group.
BatchFollows ==
    /\ pc \in {"begin", "model"} => batch = <<>>
    /\ pc \in {"after", "done"} => \A i \in DOMAIN batch : Finished(i)
    /\ group = {} => \A i \in DOMAIN batch : status[i] = "waiting"
    /\ \A i \in DOMAIN batch \ group :
          \/ Finished(i) /\ \A g \in group : i < g
          \/ status[i] = "waiting" /\ \A g \in group : g < i
    /\ \A i, j \in group : i # j => SafeAt(i)

\* A call that is being authorised or runs is one of the frozen surface, and the open
\* authorisation is its own.
CallsFollow ==
    /\ \A i \in DOMAIN batch : Active(i) => batch[i].tool \in snapshot
    /\ \A i \in DOMAIN batch : status[i] = "authorizing" => Decorated /\ auth.call = batch[i]
    /\ auth.stage # "idle" <=> \E i \in DOMAIN batch : status[i] = "authorizing"

\* The surface of a turn is that of the plan's phase, and in which turns the plan moved.
PlanFollows ==
    /\ pc \in {"model", "tools", "after"} => snapshot = Surface(plan.phase)
    /\ hist.approved <= turn /\ hist.written <= turn
    /\ pc = "begin" => hist.approved < turn /\ hist.written < turn
    /\ kind # "formal" => plan.phase = "implementation" /\ plan.pending = "none"
    /\ kind = "formal" =>
       /\ plan.phase = "formal" => /\ plan.pending \in {"none", "checklist"}
                                   /\ plan.pending = "checklist" => 0 < hist.approved
       /\ plan.phase = "checklist" =>
             /\ plan.pending \in {"none", "implementation"}
             /\ 0 < hist.approved /\ hist.approved < turn
             /\ plan.pending = "implementation" => hist.approved < hist.written
       /\ plan.phase = "implementation" =>
             /\ plan.pending = "none"
             /\ 0 < hist.approved /\ hist.approved < hist.written /\ hist.written < turn

\* Whoever is said to have updated TODO.md wrote it, and a completed run earned it.
TodoFollows ==
    /\ policy.updated => 0 < hist.written
    /\ \A i \in DOMAIN batch :
          batch[i].tool = "update_todo" /\ status[i] = "ok" => 0 < hist.written
    /\ outcome = "completed" => pc = "done"
    /\ CompletionIsEarned

IInv ==
    /\ TypeOK /\ Records
    /\ AuthorityFollows /\ BatchFollows /\ CallsFollow /\ PlanFollows /\ TodoFollows

-----------------------------------------------------------------------------
LEMMA CallsAreRecords ==
    ASSUME NEW c \in Calls
    PROVE  c \in [tool : STRING \ {"mutate_file"}, arg : STRING]
<1>1. PICK calls \in Batches : c \in Range(calls)
  BY DEF Calls
<1>2. calls \in Seq([tool : STRING \ {"mutate_file"}, arg : STRING])
  BY ToolTurnAssumption
<1>3. PICK i \in DOMAIN calls : c = calls[i]
  BY <1>1 DEF Range
<1>4. i \in 1 .. Len(calls)
  BY <1>2
<1> QED
  BY <1>2, <1>3, <1>4, ElementOfSeq

LEMMA LeastIndex ==
  ASSUME NEW I \in SUBSET Nat, I # {}
  PROVE  \E m \in I : \A j \in I : m <= j
<1> DEFINE R == {ss \in Nat \X Nat : ss[1] < ss[2]}
<1>1. IsWellFoundedOn(R, Nat)
  BY NatLessThanWellFounded DEF OpToRel
<1>2. I \subseteq Nat
  OBVIOUS
<1>3. \A j, k \in Nat : j < k => <<j, k>> \in R
  OBVIOUS
<1> HIDE DEF R
<1>4. PICK m \in I : \A j \in I : <<j, m>> \notin R
  BY <1>1, <1>2, WFMin
<1>5. ASSUME NEW j \in I PROVE m <= j
  <2>1. j \in Nat /\ m \in Nat /\ ~(j < m)
    BY <1>2, <1>3, <1>4
  <2> QED
    BY <2>1
<1> QED
  BY <1>5

-----------------------------------------------------------------------------
(* The deterministic path of a call, from the tools' own assessments. *)

LEMMA Classified ==
    ASSUME NEW c
    PROVE  Classify(c) \in {"fast_allow", "reviewable", "human_only"}
  BY DEF Classify

\* The fast path is taken by harmless calls only.
LEMMA FastIsHarmless ==
    ASSUME NEW c, Classify(c) = "fast_allow"
    PROVE  Harmless(c)
  BY DEF Classify, Assess, AssessFileCall, AssessBash, TrustedSessionAssessment, AssessDelegation,
         HumanOnlyAssessment, Assessment, InvalidAssessment, Harmless

\* What may be reviewed is not reserved for the user.
LEMMA ReviewableIsNotHumanOnly ==
    ASSUME NEW c, Classify(c) = "reviewable"
    PROVE  ~HumanOnly(c)
  BY DEF Classify, Assess, AssessFileCall, AssessBash, TrustedSessionAssessment, AssessDelegation,
         HumanOnlyAssessment, Assessment, InvalidAssessment, HumanOnly

\* Calls with one grant key have one scope.
LEMMA KeysAreScopes ==
    ASSUME NEW c \in Calls, NEW d \in Calls, GrantKey(c) = GrantKey(d)
    PROVE  SameScope(c, d)
<1>1. /\ c \in [tool : STRING \ {"mutate_file"}, arg : STRING]
      /\ d \in [tool : STRING \ {"mutate_file"}, arg : STRING]
  BY CallsAreRecords
<1>2. c.arg = d.arg
  BY DEF GrantKey
<1>3. CASE c.tool \in {"write_file", "edit_file"}
  <2>1. d.tool \in {"write_file", "edit_file"}
    BY <1>1, <1>3 DEF GrantKey
  <2> QED
    BY <1>2, <1>3, <2>1 DEF SameScope
<1>4. CASE c.tool \notin {"write_file", "edit_file"}
  <2>1. c.tool = d.tool
    BY <1>1, <1>4 DEF GrantKey
  <2> QED
    BY <1>1, <1>2, <2>1 DEF SameScope
<1> QED
  BY <1>3, <1>4

-----------------------------------------------------------------------------
(* Batches. *)

LEMMA BatchShape ==
    ASSUME Records, TypeOK
    PROVE  /\ Len(batch) \in Nat /\ DOMAIN batch = 1 .. Len(batch)
           /\ \A i \in DOMAIN batch : batch[i] \in Calls
           /\ \A i \in DOMAIN batch : status[i] \in Statuses
<1> DEFINE S == [tool : STRING \ {"mutate_file"}, arg : STRING]
<1>1. batch \in Seq(S)
  <2>1. Batches \subseteq Seq(S)
    BY ToolTurnAssumption
  <2>2. batch \in Batches \cup {<<>>}
    BY DEF Records
  <2> HIDE DEF S
  <2>3. <<>> \in Seq(S)
    OBVIOUS
  <2> QED
    BY <2>1, <2>2, <2>3
<1> HIDE DEF S
<1>2. ASSUME NEW i \in DOMAIN batch
      PROVE  batch[i] \in Calls
  <2>1. batch \in Batches
    BY DEF Records
  <2> QED
    BY <2>1 DEF Calls, Range
<1>3. \A i \in DOMAIN batch : status[i] \in Statuses
  BY DEF TypeOK, Statuses
<1> QED
  BY <1>1, <1>2, <1>3

\* When the calls of the group are finished, so are the first calls of the batch, and no
\* other has begun.
LEMMA FinishedIsPrefix ==
    ASSUME Records, TypeOK, BatchFollows, \A i \in group : Finished(i)
    PROVE  LET done == {i \in DOMAIN batch : Finished(i)}
           IN  /\ Cardinality(done) \in 0 .. Len(batch)
               /\ done = 1 .. Cardinality(done)
               /\ \A i \in DOMAIN batch \ done : status[i] = "waiting"
<1> DEFINE done == {i \in DOMAIN batch : Finished(i)}
           n == Len(batch)
<1>1. n \in Nat /\ DOMAIN batch = 1 .. n
  BY BatchShape
<1>2. \A i \in DOMAIN batch \ done :
         i \notin group /\ status[i] = "waiting" /\ \A g \in group : g < i
  BY DEF BatchFollows
<1>3. ASSUME NEW i \in DOMAIN batch, NEW j \in done, i < j
      PROVE  i \in done
  <2> SUFFICES ASSUME i \notin done
               PROVE  FALSE
    OBVIOUS
  <2>1. status[i] = "waiting" /\ \A g \in group : g < i
    BY <1>2
  <2>2. j \in group \/ \A g \in group : j < g
    BY DEF BatchFollows, Finished, Results
  <2>3. j \in Nat /\ i \in Nat /\ group \subseteq Nat
    BY <1>1 DEF TypeOK
  <2>4. group = {}
    BY <1>3, <2>1, <2>2, <2>3
  <2>5. status[j] = "waiting"
    BY <2>4 DEF BatchFollows
  <2> QED
    BY <2>5 DEF Finished, Results
<1>4. ASSUME done = DOMAIN batch
      PROVE  Cardinality(done) \in 0 .. n /\ done = 1 .. Cardinality(done)
  <2>1. 1 \in Int /\ n \in Int
    BY <1>1
  <2>2. Cardinality(1 .. n) = IF 1 > n THEN 0 ELSE n - 1 + 1
    BY <2>1, FS_Interval
  <2>3. Cardinality(1 .. n) = n
    BY <1>1, <2>2
  <2>4. done = 1 .. n
    BY <1>1, <1>4
  <2> HIDE DEF done, n
  <2> QED
    BY <1>1, <2>3, <2>4
<1>5. ASSUME done # DOMAIN batch
      PROVE  Cardinality(done) \in 0 .. n /\ done = 1 .. Cardinality(done)
  <2>1. PICK m \in DOMAIN batch \ done : \A i \in DOMAIN batch \ done : m <= i
    <3> DEFINE I == DOMAIN batch \ done
    <3>1. I \in SUBSET Nat /\ I # {}
      BY <1>1, <1>5
    <3> HIDE DEF I
    <3>2. \E k \in I : \A i \in I : k <= i
      BY <3>1, LeastIndex
    <3> QED
      BY <3>2 DEF I
  <2>2. m \in 1 .. n
    BY <1>1
  <2>3. done \subseteq 1 .. n /\ \A i \in done : ~(m < i) /\ i # m
    BY <1>1, <1>3
  <2> HIDE DEF done
  <2>4. \A i \in 1 .. n : i < m => i \in done
    BY <1>1, <2>1, <2>2
  <2>5. done = 1 .. (m - 1)
    <3> HIDE DEF n
    <3>1. \A i \in 1 .. (m - 1) : i \in 1 .. n /\ i < m
      BY <1>1, <2>2
    <3>2. \A i \in 1 .. n : ~(m < i) /\ i # m => i \in 1 .. (m - 1)
      BY <1>1, <2>2
    <3>3. 1 .. (m - 1) \subseteq done
      BY <2>4, <3>1
    <3>4. done \subseteq 1 .. (m - 1)
      BY <2>3, <3>2
    <3> QED
      BY <3>3, <3>4
  <2>6. m - 1 \in Int /\ 1 \in Int
    BY <1>1, <2>2
  <2>7. Cardinality(1 .. (m - 1)) = IF 1 > m - 1 THEN 0 ELSE (m - 1) - 1 + 1
    BY <2>6, FS_Interval
  <2>8. Cardinality(1 .. (m - 1)) = m - 1
    BY <1>1, <2>2, <2>7
  <2>9. m - 1 \in 0 .. n
    BY <1>1, <2>2
  <2> QED
    BY <2>5, <2>8, <2>9
<1>6. Cardinality(done) \in 0 .. n /\ done = 1 .. Cardinality(done)
  BY <1>4, <1>5
<1> QED
  BY <1>2, <1>6

-----------------------------------------------------------------------------
(* The authorisation. *)

\* Who is authorised is a call of the batch.
LEMMA AuthorizedCall ==
    ASSUME IInv, auth.stage # "idle"
    PROVE  /\ auth.call \in Calls
           /\ pc = "tools"
<1>1. PICK i \in DOMAIN batch : status[i] = "authorizing"
  BY DEF IInv, CallsFollow
<1>2. auth.call = batch[i] /\ batch[i] \in Calls
  BY <1>1, BatchShape DEF IInv, CallsFollow
<1>3. pc = "tools"
  BY <1>1 DEF IInv, BatchFollows, TypeOK, Finished, Results
<1> QED
  BY <1>2, <1>3

\* What the coordinator may have decided when it leaves a step.
LEMMA AuthFields ==
    ASSUME IInv
    PROVE  /\ auth.stage \in {"idle", "snapshot", "review", "ask", "allowed", "denied"}
           /\ auth.call \in Calls \cup {NoCall} /\ auth.mode \in Modes
           /\ auth.attempt \in 0 .. ReviewerAttempts - 1
           /\ auth.last \in Opinions /\ auth.verdict \in Opinions
           /\ auth.answer \in Decisions \cup {"none"}
  BY DEF IInv, Records

LEMMA SettledType ==
    ASSUME IInv, auth.stage = "review", NEW v \in Verdicts
    PROVE  /\ Settled(v) \in Authority
           /\ Settled(v).stage \in {"ask", "allowed"}
           /\ Settled(v).call = auth.call
           /\ Settled(v).stage = "allowed" => Warranted(Settled(v))
<1>1. auth \in Authority
  BY DEF IInv, Records
<1>2. v \in Opinions /\ NoVerdict \in Opinions
  BY DEF Opinions
<1>3. v.risk \in Risks /\ v.authorization \in Authorizations
  BY VerdictsAssumption
<1>4. auth.mode = "approve" /\ ~HumanOnly(auth.call)
  <2>1. auth.mode = "approve" /\ Classify(auth.call) = "reviewable"
    BY DEF IInv, AuthorityFollows
  <2> QED
    BY <2>1, ReviewableIsNotHumanOnly
<1>5. CASE v.decision = "approve" /\ ReviewerApprovalAllowed(v)
  <2>1. Settled(v) = [auth EXCEPT !.stage = "allowed", !.last = NoVerdict, !.verdict = v]
    BY <1>5 DEF Settled
  <2>2. /\ Settled(v).stage = "allowed" /\ Settled(v).call = auth.call
        /\ Settled(v).mode = auth.mode /\ Settled(v).verdict = v
    BY <1>1, <2>1
  <2>3. v.risk # "critical" /\ (v.risk = "high" => v.authorization \in {"high", "medium"})
    BY <1>5 DEF ReviewerApprovalAllowed
  <2>4. Warranted(Settled(v))
    BY <1>4, <1>5, <2>2, <2>3 DEF Warranted
  <2> QED
    BY <1>1, <1>2, <2>1, <2>2, <2>4
<1>6. CASE ~(v.decision = "approve" /\ ReviewerApprovalAllowed(v))
  <2>1. Settled(v) = [auth EXCEPT !.stage = "ask", !.last = NoVerdict]
    BY <1>6 DEF Settled
  <2> QED
    BY <1>1, <1>2, <2>1
<1> QED
  BY <1>5, <1>6

LEMMA NextAttemptType ==
    ASSUME IInv, auth.stage = "review", NEW last \in Opinions
    PROVE  /\ NextAttempt(last) \in Authority
           /\ NextAttempt(last).stage \in {"review", "ask", "allowed"}
           /\ NextAttempt(last).call = auth.call
           /\ NextAttempt(last).stage = "review" => NextAttempt(last).mode = auth.mode
           /\ NextAttempt(last).stage = "allowed" => Warranted(NextAttempt(last))
<1>1. auth \in Authority
  BY DEF IInv, Records
<1>2. NoVerdict \in Opinions
  BY DEF Opinions
<1>3. CASE auth.attempt + 1 < ReviewerAttempts
  <2>1. NextAttempt(last) = [auth EXCEPT !.attempt = @ + 1, !.last = last]
    BY <1>3 DEF NextAttempt
  <2>2. auth.attempt + 1 \in 0 .. ReviewerAttempts - 1
    BY <1>1, <1>3, ReviewerAttemptsAssumption
  <2> QED
    BY <1>1, <2>1, <2>2
<1>4. CASE ~(auth.attempt + 1 < ReviewerAttempts) /\ last # NoVerdict
  <2>1. NextAttempt(last) = Settled(last)
    BY <1>4 DEF NextAttempt
  <2>2. last \in Verdicts
    BY <1>4 DEF Opinions
  <2> QED
    BY <2>1, <2>2, SettledType
<1>5. CASE ~(auth.attempt + 1 < ReviewerAttempts) /\ last = NoVerdict
  <2>1. NextAttempt(last) = [auth EXCEPT !.stage = "ask", !.last = NoVerdict]
    BY <1>5 DEF NextAttempt
  <2> QED
    BY <1>1, <1>2, <2>1
<1> QED
  BY <1>3, <1>4, <1>5

\* What a step of the coordinator makes of the authorisation and of the grants.
LEMMA AuthorizeSteps ==
    ASSUME IInv, AuthorizeStep
    PROVE  /\ auth.stage # "idle"
           /\ auth' \in Authority
           /\ auth'.stage # "idle" /\ auth'.call = auth.call
           /\ auth'.stage = "review" =>
                 auth'.mode = "approve" /\ Classify(auth'.call) = "reviewable"
           /\ auth'.stage = "allowed" => Warranted(auth')
           /\ effective' = effective /\ ctxDead' = ctxDead
           /\ \/ grants' = grants /\ sessionYes' = sessionYes
              \/ /\ grants' = grants \cup {GrantKey(auth.call)}
                 /\ sessionYes' = sessionYes \cup {auth.call}
<1>1. auth \in Authority
  BY DEF IInv, Records
<1>2. NoVerdict \in Opinions
  BY DEF Opinions
<1>3. auth.stage = "review" => auth.mode = "approve" /\ Classify(auth.call) = "reviewable"
  BY DEF IInv, AuthorityFollows
<1>4. CASE Route
  <2>1. /\ auth.stage = "snapshot"
        /\ auth' = [auth EXCEPT !.stage = RouteOf(auth.mode, auth.call)]
        /\ UNCHANGED <<effective, grants, modeChanges, sessionYes, ctxDead>>
    BY <1>4 DEF Route
  <2>2. RouteOf(auth.mode, auth.call) \in {"allowed", "review", "ask"}
    BY DEF RouteOf
  <2>3. /\ auth'.stage = RouteOf(auth.mode, auth.call) /\ auth'.call = auth.call
        /\ auth'.mode = auth.mode
    BY <1>1, <2>1
  <2>4. RouteOf(auth.mode, auth.call) = "review" =>
            auth.mode = "approve" /\ Classify(auth.call) = "reviewable"
    BY Classified DEF RouteOf
  <2>5. ASSUME RouteOf(auth.mode, auth.call) = "allowed"
        PROVE  Warranted(auth')
    <3>1. \/ auth.mode = "full_access"
          \/ Classify(auth.call) = "fast_allow"
          \/ MatchingGrant(auth.call)
      BY <2>5 DEF RouteOf
    <3>2. CASE auth.mode = "full_access"
      BY <2>3, <3>2 DEF Warranted
    <3>3. CASE Classify(auth.call) = "fast_allow"
      BY <2>3, <3>3, FastIsHarmless DEF Warranted
    <3>4. CASE MatchingGrant(auth.call)
      <4>1. PICK c \in sessionYes : GrantKey(c) = GrantKey(auth.call)
        BY <3>4 DEF MatchingGrant, IInv, AuthorityFollows
      <4>2. c \in Calls /\ auth.call \in Calls
        BY <2>1, AuthorizedCall DEF IInv, Records
      <4>3. SameScope(c, auth.call)
        BY <4>1, <4>2, KeysAreScopes
      <4> QED
        BY <2>3, <4>3 DEF Warranted
    <3> QED
      BY <3>1, <3>2, <3>3, <3>4
  <2>6. auth' \in Authority
    BY <1>1, <2>1, <2>2
  <2> QED
    BY <2>1, <2>2, <2>3, <2>4, <2>5, <2>6
<1>5. CASE ReviewStep
  <2>1. /\ auth.stage = "review"
        /\ UNCHANGED <<effective, grants, modeChanges, sessionYes, ctxDead>>
        /\ \/ \E v \in Verdicts : auth' = Settled(v)
           \/ \E v \in Opinions : auth' = NextAttempt(v)
           \/ auth' = [auth EXCEPT !.stage = "ask", !.last = NoVerdict]
    BY <1>1, <1>5 DEF ReviewStep, ReviewAnswered, ReviewMalformed, ReviewFailed, ReviewStopped,
                      Opinions
  <2>2. CASE \E v \in Verdicts : auth' = Settled(v)
    BY <2>1, <2>2, SettledType
  <2>3. CASE \E v \in Opinions : auth' = NextAttempt(v)
    BY <1>3, <2>1, <2>3, NextAttemptType
  <2>4. CASE auth' = [auth EXCEPT !.stage = "ask", !.last = NoVerdict]
    BY <1>1, <1>2, <2>1, <2>4
  <2> QED
    BY <2>1, <2>2, <2>3, <2>4
<1>6. CASE AskStopped
  BY <1>1, <1>6 DEF AskStopped
<1>7. CASE \E d \in Decisions : UserAnswers(d)
  <2>1. PICK d \in Decisions : UserAnswers(d)
    BY <1>7
  <2>2. /\ auth.stage = "ask" /\ auth' = Answered(d)
        /\ UNCHANGED <<effective, modeChanges, ctxDead>>
    BY <2>1 DEF UserAnswers
  <2>3. /\ auth' \in Authority
        /\ auth'.stage \in {"allowed", "denied"} /\ auth'.call = auth.call /\ auth'.answer = d
        /\ auth'.stage = "allowed" => d \in {"allow_once", "allow_session"}
    BY <1>1, <2>2 DEF Answered
  <2>4. auth'.stage = "allowed" => Warranted(auth')
    BY <2>3 DEF Warranted
  <2>5. \/ grants' = grants /\ sessionYes' = sessionYes
        \/ grants' = grants \cup {GrantKey(auth.call)} /\ sessionYes' = sessionYes \cup {auth.call}
    BY <2>1 DEF UserAnswers
  <2> QED
    BY <2>2, <2>3, <2>4, <2>5
<1> QED
  BY <1>4, <1>5, <1>6, <1>7 DEF AuthorizeStep

-----------------------------------------------------------------------------
(* The steps of the engine. *)

\* A collaborator fails between batches.
LEMMA FailsKeeps ==
    ASSUME IInv, EngineFails
    PROVE  IInv'
<1>1. TypeOK'
  BY BatchShape, ToolTurnAssumption DEF IInv, TypeOK, Records, EngineFails, End, permissionVars,
     runVars
<1>2. Records'
  BY BatchShape, ToolTurnAssumption DEF IInv, TypeOK, Records, EngineFails, End, permissionVars,
     runVars
<1>3. AuthorityFollows'
  BY DEF IInv, AuthorityFollows, EngineFails, permissionVars
<1>4. BatchFollows'
  BY BatchShape DEF IInv, TypeOK, Records, BatchFollows, Finished, SafeAt, ParallelSafe,
     Decorated, Results, EngineFails, End, permissionVars, runVars
<1>5. CallsFollow'
  BY BatchShape, AuthorizedCall DEF IInv, TypeOK, Records, CallsFollow, BatchFollows, Active,
     Decorated, EngineFails, permissionVars, runVars
<1>6. PlanFollows'
  BY DEF IInv, TypeOK, Records, PlanFollows, EngineFails, End, permissionVars, runVars
<1>7. TodoFollows'
  BY BatchShape DEF IInv, TypeOK, Records, TodoFollows, CompletionIsEarned, EngineFails, End,
     permissionVars, runVars
<1> QED
  BY <1>1, <1>2, <1>3, <1>4, <1>5, <1>6, <1>7 DEF IInv

\* A pending phase becomes current before the surface is frozen.
LEMMA BeginTurnKeeps ==
    ASSUME IInv, BeginTurn
    PROVE  IInv'
<1>1. TypeOK'
  BY BatchShape, ToolTurnAssumption DEF IInv, TypeOK, Records, BeginTurn, permissionVars, runVars
<1>2. Records'
  <2>1. plan' \in Plans
    BY DEF IInv, Records, BeginTurn
  <2> QED
    BY <2>1 DEF IInv, Records, BeginTurn, permissionVars
<1>3. AuthorityFollows'
  BY DEF IInv, AuthorityFollows, BeginTurn, permissionVars
<1>4. BatchFollows'
  BY BatchShape DEF IInv, TypeOK, Records, BatchFollows, Finished, SafeAt, ParallelSafe,
     Decorated, Results, BeginTurn, permissionVars, runVars
<1>5. CallsFollow'
  BY BatchShape, AuthorizedCall DEF IInv, TypeOK, Records, CallsFollow, BatchFollows, Active,
     Decorated, BeginTurn, permissionVars, runVars
<1>6. PlanFollows'
  BY DEF IInv, TypeOK, Records, PlanFollows, BeginTurn, Surface, permissionVars, runVars
<1>7. TodoFollows'
  BY BatchShape DEF IInv, TypeOK, Records, TodoFollows, CompletionIsEarned, BeginTurn, Surface,
     permissionVars, runVars
<1> QED
  BY <1>1, <1>2, <1>3, <1>4, <1>5, <1>6, <1>7 DEF IInv

\* The model asks for tools.
LEMMA CallsKeeps ==
    ASSUME IInv, NEW calls \in Batches, ModelCallsTools(calls)
    PROVE  IInv'
<1>1. TypeOK'
  BY BatchShape, ToolTurnAssumption DEF IInv, TypeOK, Records, ModelCallsTools, permissionVars,
     runVars
<1>2. Records'
  BY BatchShape, ToolTurnAssumption DEF IInv, TypeOK, Records, ModelCallsTools, permissionVars,
     runVars
<1>3. AuthorityFollows'
  BY DEF IInv, AuthorityFollows, ModelCallsTools, permissionVars
<1>4. BatchFollows'
  BY BatchShape DEF IInv, TypeOK, Records, BatchFollows, Finished, SafeAt, ParallelSafe,
     Decorated, Results, ModelCallsTools, permissionVars, runVars
<1>5. CallsFollow'
  BY BatchShape, AuthorizedCall DEF IInv, TypeOK, Records, CallsFollow, BatchFollows, Active,
     Decorated, ModelCallsTools, permissionVars, runVars
<1>6. PlanFollows'
  BY DEF IInv, TypeOK, Records, PlanFollows, ModelCallsTools, permissionVars, runVars
<1>7. TodoFollows'
  BY BatchShape DEF IInv, TypeOK, Records, TodoFollows, CompletionIsEarned, ModelCallsTools,
     permissionVars, runVars
<1> QED
  BY <1>1, <1>2, <1>3, <1>4, <1>5, <1>6, <1>7 DEF IInv

\* The model answers, and the gates decide.
LEMMA AnswersKeeps ==
    ASSUME IInv, ModelAnswers
    PROVE  IInv'
<1>1. TypeOK'
  BY BatchShape, ToolTurnAssumption DEF IInv, TypeOK, Records, ModelAnswers, End, NextTurn,
     permissionVars, runVars
<1>2. Records'
  <2>1. policy' \in [gate : {"none", "formal", "checklist"}, reminded : BOOLEAN, updated : BOOLEAN]
    <3>1. CompletionReminder \in {"none", "formal", "checklist"}
      BY DEF IInv, Records, CompletionReminder
    <3>2. \/ policy' = policy
          \/ policy' = [policy EXCEPT !.gate = CompletionReminder]
          \/ policy' = [policy EXCEPT !.reminded = TRUE]
      BY DEF ModelAnswers
    <3> QED
      BY <3>1, <3>2 DEF IInv, Records
  <2> QED
    BY <2>1 DEF IInv, Records, ModelAnswers, permissionVars
<1>3. AuthorityFollows'
  BY DEF IInv, AuthorityFollows, ModelAnswers, permissionVars
<1>4. BatchFollows'
  BY BatchShape DEF IInv, TypeOK, Records, BatchFollows, Finished, SafeAt, ParallelSafe,
     Decorated, Results, ModelAnswers, End, NextTurn, permissionVars, runVars
<1>5. CallsFollow'
  BY BatchShape, AuthorizedCall DEF IInv, TypeOK, Records, CallsFollow, BatchFollows, Active,
     Decorated, ModelAnswers, permissionVars, runVars
<1>6. PlanFollows'
  BY DEF IInv, TypeOK, Records, PlanFollows, ModelAnswers, End, NextTurn, Surface, ReadOnlyTools,
     permissionVars, runVars
<1>7. TodoFollows'
  <2>1. policy'.updated = policy.updated
    BY DEF IInv, Records, ModelAnswers
  <2>2. batch = <<>> /\ batch' = <<>>
    BY DEF IInv, BatchFollows, ModelAnswers
  <2>3. outcome' = "completed" =>
           /\ pc' = "done" /\ CompletionReminder = "none"
           /\ policy.updated \/ ~TodoReminder
    BY DEF IInv, TodoFollows, ModelAnswers, End, NextTurn
  <2>4. CompletionReminder = "none" => plan.phase = "implementation"
    BY DEF IInv, Records, CompletionReminder
  <2>5. plan.phase = "implementation" /\ ~TodoReminder => todo # "open"
    BY DEF TodoReminder, Surface
  <2>6. kind = "formal" /\ plan.phase = "implementation" =>
            0 < hist.approved /\ hist.approved < hist.written
    BY DEF IInv, PlanFollows
  <2>7. UNCHANGED <<kind, todo, hist, status>>
    BY DEF ModelAnswers
  <2> QED
    BY <2>1, <2>2, <2>3, <2>4, <2>5, <2>6, <2>7 DEF IInv, TodoFollows, CompletionIsEarned
<1> QED
  BY <1>1, <1>2, <1>3, <1>4, <1>5, <1>6, <1>7 DEF IInv

\* The results are committed.
LEMMA AfterKeeps ==
    ASSUME IInv, AfterTools
    PROVE  IInv'
<1>1. TypeOK'
  BY BatchShape, ToolTurnAssumption DEF IInv, TypeOK, Records, AfterTools, End, NextTurn,
     permissionVars, runVars
<1>2. Records'
  <2>1. policy' = policy \/ policy' = [policy EXCEPT !.updated = TRUE]
    BY DEF AfterTools
  <2>2. policy' \in [gate : {"none", "formal", "checklist"}, reminded : BOOLEAN, updated : BOOLEAN]
    BY <2>1 DEF IInv, Records
  <2> QED
    BY <2>2 DEF IInv, Records, AfterTools, permissionVars
<1>3. AuthorityFollows'
  BY DEF IInv, AuthorityFollows, AfterTools, permissionVars
<1>4. BatchFollows'
  BY BatchShape DEF IInv, TypeOK, Records, BatchFollows, Finished, SafeAt, ParallelSafe,
     Decorated, Results, AfterTools, End, NextTurn, permissionVars, runVars
<1>5. CallsFollow'
  BY BatchShape, AuthorizedCall DEF IInv, TypeOK, Records, CallsFollow, BatchFollows, Active,
     Decorated, AfterTools, permissionVars, runVars
<1>6. PlanFollows'
  BY DEF IInv, TypeOK, Records, PlanFollows, AfterTools, End, NextTurn, permissionVars, runVars
<1>7. TodoFollows'
  BY BatchShape DEF IInv, TypeOK, Records, TodoFollows, CompletionIsEarned, AfterTools, End,
     NextTurn, permissionVars, runVars
<1> QED
  BY <1>1, <1>2, <1>3, <1>4, <1>5, <1>6, <1>7 DEF IInv

\* Nothing changes.
LEMMA StutterKeeps ==
    ASSUME IInv, UNCHANGED vars
    PROVE  IInv'
<1>1. TypeOK'
  BY BatchShape, ToolTurnAssumption DEF IInv, TypeOK, Records, vars
<1>2. Records'
  BY BatchShape, ToolTurnAssumption DEF IInv, TypeOK, Records, vars
<1>3. AuthorityFollows'
  BY DEF IInv, AuthorityFollows, vars
<1>4. BatchFollows'
  BY BatchShape DEF IInv, TypeOK, Records, BatchFollows, Finished, SafeAt, ParallelSafe,
     Decorated, Results, vars
<1>5. CallsFollow'
  BY BatchShape, AuthorizedCall DEF IInv, TypeOK, Records, CallsFollow, BatchFollows, Active,
     Decorated, vars, Finished
<1>6. PlanFollows'
  BY DEF IInv, TypeOK, Records, PlanFollows, vars, Surface
<1>7. TodoFollows'
  BY BatchShape DEF IInv, TypeOK, Records, TodoFollows, CompletionIsEarned, vars
<1> QED
  BY <1>1, <1>2, <1>3, <1>4, <1>5, <1>6, <1>7 DEF IInv

-----------------------------------------------------------------------------
(* The steps of a batch. *)

\* The next group begins where the finished calls end.
LEMMA LaunchKeeps ==
    ASSUME IInv, Launch
    PROVE  IInv'
<1> DEFINE done == {i \in DOMAIN batch : Finished(i)}
           n == Len(batch)
           start == Cardinality(done) + 1
<1>1. n \in Nat /\ DOMAIN batch = 1 .. n
  BY BatchShape DEF IInv
<1>2. /\ Cardinality(done) \in 0 .. n /\ done = 1 .. Cardinality(done)
      /\ \A i \in DOMAIN batch \ done : status[i] = "waiting"
  <2>1. \A i \in group : Finished(i)
    BY DEF Launch
  <2> QED
    BY <2>1, FinishedIsPrefix DEF IInv
<1>3. /\ pc = "tools"
      /\ UNCHANGED <<permissionVars, batch, status, runVars>>
      /\ IF start > n THEN pc' = "after" /\ group' = group
         ELSE group' = NextGroup(start) /\ pc' = pc
  BY DEF Launch
<1>4. \A i \in DOMAIN batch : Finished(i)' = Finished(i) /\ SafeAt(i)' = SafeAt(i)
  BY <1>3 DEF Finished, SafeAt, ParallelSafe, Decorated, runVars
<1>5. \A i \in DOMAIN batch : i < start => Finished(i)
  <2>1. \A i \in 1 .. n : i < start => i \in 1 .. Cardinality(done)
    BY <1>1, <1>2
  <2> QED
    BY <1>1, <1>2, <2>1
<1>6. \A i \in DOMAIN batch : ~(i < start) => status[i] = "waiting"
  <2>1. \A i \in 1 .. n : ~(i < start) => i \notin 1 .. Cardinality(done)
    BY <1>1, <1>2
  <2> QED
    BY <1>1, <1>2, <2>1
<1>7. CASE start > n
  <2>1. BatchFollows'
    <3>1. \A i \in DOMAIN batch : Finished(i)
      BY <1>1, <1>2, <1>5, <1>7
    <3>2. group' = group /\ pc' = "after" /\ batch' = batch /\ status' = status
      BY <1>3, <1>7
    <3>3. group \subseteq DOMAIN batch
      BY DEF IInv, TypeOK
    <3> HIDE DEF done
    <3> QED
      BY <1>4, <3>1, <3>2, <3>3 DEF IInv, BatchFollows
  <2>2. TypeOK' /\ pc' = "after" /\ group' = group
    BY <1>3, <1>7 DEF IInv, TypeOK, permissionVars, runVars
  <2>3. AuthorityFollows' /\ CallsFollow' /\ Records'
    BY <1>3 DEF IInv, AuthorityFollows, CallsFollow, Active, Decorated, Records, permissionVars,
       runVars
  <2>4. PlanFollows' /\ TodoFollows'
    BY <1>3, <2>2 DEF IInv, PlanFollows, TodoFollows, CompletionIsEarned, permissionVars, runVars
  <2> QED
    BY <2>1, <2>2, <2>3, <2>4 DEF IInv
<1>8. CASE ~(start > n)
  <2>1. group' = NextGroup(start) /\ pc' = pc /\ start \in 1 .. n
    BY <1>1, <1>2, <1>3, <1>8
  <2> HIDE DEF done, start
  <2>2. /\ NextGroup(start) \subseteq start .. n /\ start \in NextGroup(start)
        /\ \A g \in NextGroup(start) : \A i \in start .. n : i < g => i \in NextGroup(start)
        /\ \A i, j \in NextGroup(start) : i # j => SafeAt(i)
    <3>1. CASE ~SafeAt(start)
      <4>1. NextGroup(start) = {start}
        BY <3>1 DEF NextGroup
      <4> QED
        BY <1>1, <2>1, <4>1
    <3>2. CASE SafeAt(start)
      <4>1. NextGroup(start) = {i \in start .. n : \A j \in start .. i : SafeAt(j)}
        BY <3>2 DEF NextGroup
      <4>2. \A i \in NextGroup(start) : SafeAt(i)
        BY <1>1, <2>1, <4>1
      <4>3. start \in NextGroup(start)
        <5>1. \A j \in start .. start : j = start
          BY <1>1, <2>1
        <5> QED
          BY <1>1, <2>1, <3>2, <4>1, <5>1
      <4>4. ASSUME NEW g \in NextGroup(start), NEW i \in start .. n, i < g
            PROVE  i \in NextGroup(start)
        <5>1. \A j \in start .. i : j \in start .. g
          BY <1>1, <2>1, <4>1, <4>4
        <5> QED
          BY <4>1, <4>4, <5>1
      <4> QED
        BY <4>1, <4>2, <4>3, <4>4
    <3> QED
      BY <3>1, <3>2
  <2>3. TypeOK'
    <3>1. start .. n \subseteq 1 .. n
      BY <1>1, <2>1
    <3> QED
      BY <1>1, <1>3, <2>1, <2>2, <3>1 DEF IInv, TypeOK, permissionVars, runVars
  <2>4. BatchFollows'
    <3>1. group' # {} /\ pc' = "tools"
      BY <1>3, <2>1, <2>2
    <3>2. ASSUME NEW i \in DOMAIN batch \ group'
          PROVE  \/ Finished(i) /\ \A g \in group' : i < g
                 \/ status[i] = "waiting" /\ \A g \in group' : g < i
      <4>1. i \in 1 .. n
        BY <1>1
      <4>2. CASE i < start
        <5>1. \A g \in group' : i < g
          BY <1>1, <2>1, <2>2, <4>1, <4>2
        <5> QED
          BY <1>5, <4>2, <5>1
      <4>3. CASE ~(i < start)
        <5>1. i \in start .. n
          BY <1>1, <2>1, <4>1, <4>3
        <5>2. \A g \in group' : g \in start .. n /\ ~(i < g) /\ i # g
          BY <2>1, <2>2, <3>2, <5>1
        <5>3. \A g \in group' : g < i
          BY <1>1, <2>1, <4>1, <5>2
        <5> QED
          BY <1>6, <4>3, <5>3
      <4> QED
        BY <4>2, <4>3
    <3>3. \A i, j \in group' : i # j => SafeAt(i)
      BY <2>1, <2>2
    <3>4. group' \subseteq DOMAIN batch /\ batch' = batch /\ status' = status
      BY <1>1, <1>3, <2>1, <2>2
    <3> QED
      BY <1>4, <3>1, <3>2, <3>3, <3>4 DEF BatchFollows
  <2>5. AuthorityFollows' /\ CallsFollow' /\ Records'
    BY <1>3 DEF IInv, AuthorityFollows, CallsFollow, Active, Decorated, Records, permissionVars,
       runVars
  <2>6. PlanFollows' /\ TodoFollows'
    BY <1>3, <2>1 DEF IInv, PlanFollows, TodoFollows, CompletionIsEarned, permissionVars, runVars
  <2> QED
    BY <2>3, <2>4, <2>5, <2>6 DEF IInv
<1> QED
  BY <1>7, <1>8

\* One call of the group is refused, authorised or run.
LEMMA StartKeeps ==
    ASSUME IInv, NEW i \in DOMAIN batch, StartCall(i)
    PROVE  IInv'
<1>1. /\ pc = "tools" /\ i \in group /\ status[i] = "waiting"
      /\ UNCHANGED <<effective, grants, modeChanges, sessionYes, ctxDead, kind, pc, turn,
                     snapshot, batch, group, todo, policy, outcome, hist>>
  BY DEF StartCall
<1>2. PICK s \in {"missing", "cancelled", "error", "authorizing", "running"} :
         /\ status' = [status EXCEPT ![i] = s]
         /\ s \in {"missing", "cancelled", "error"} => auth' = auth
         /\ s \in {"authorizing", "running"} => batch[i].tool \in snapshot
         /\ s = "authorizing" => Decorated /\ BeginAuthorize(batch[i])
         /\ s = "running" => auth' = auth
  BY DEF StartCall, SetStatus
<1>3. status \in Seq(Statuses) /\ DOMAIN status = DOMAIN batch
  BY DEF IInv, TypeOK, Statuses
<1>4. /\ status' \in Seq(Statuses) /\ DOMAIN status' = DOMAIN batch
      /\ status'[i] = s /\ \A j \in DOMAIN batch : j # i => status'[j] = status[j]
  BY <1>2, <1>3 DEF Statuses, Results
<1>5. /\ plan' = plan \/ plan' = [plan EXCEPT !.submitted = TRUE]
      /\ plan' \in Plans
      /\ plan'.phase = plan.phase /\ plan'.pending = plan.pending
  <2>1. plan' = plan \/ plan' = [plan EXCEPT !.submitted = TRUE]
    BY DEF StartCall
  <2>2. plan \in Plans
    BY DEF IInv, Records
  <2> QED
    BY <2>1, <2>2
<1>6. s = "authorizing" =>
         /\ auth.stage = "idle"
         /\ auth' = [Idle EXCEPT !.stage = "snapshot", !.call = batch[i], !.mode = effective]
         /\ auth'.stage = "snapshot" /\ auth'.call = batch[i]
         /\ auth' \in Authority
  <2>1. batch[i] \in Calls /\ effective \in Modes /\ NoVerdict \in Opinions
    BY BatchShape DEF IInv, TypeOK, Opinions
  <2>2. 0 \in 0 .. ReviewerAttempts - 1
    BY ReviewerAttemptsAssumption
  <2> QED
    BY <1>2, <2>1, <2>2 DEF BeginAuthorize, Idle
<1>7. TypeOK'
  <2>1. auth'.stage \in {"idle", "snapshot", "review", "ask", "allowed", "denied"}
        /\ auth'.attempt \in 0 .. ReviewerAttempts - 1
    BY <1>2, <1>6 DEF IInv, TypeOK
  <2> QED
    BY <1>1, <1>4, <1>5, <2>1 DEF IInv, TypeOK, Statuses
<1>8. Records'
  BY <1>1, <1>2, <1>5, <1>6 DEF IInv, Records
<1>9. AuthorityFollows'
  BY <1>1, <1>2, <1>6 DEF IInv, AuthorityFollows
<1>10. BatchFollows'
  <2>1. \A j \in DOMAIN batch : SafeAt(j)' = SafeAt(j)
    BY <1>1 DEF SafeAt, ParallelSafe, Decorated
  <2>2. \A j \in DOMAIN batch : j # i => Finished(j)' = Finished(j)
    BY <1>4 DEF Finished
  <2>3. group \subseteq DOMAIN batch
    BY DEF IInv, TypeOK
  <2> QED
    BY <1>1, <1>4, <2>1, <2>2, <2>3 DEF IInv, BatchFollows
<1>11. CallsFollow'
  <2>1. CASE s = "authorizing"
    <3>1. \A j \in DOMAIN batch : j # i => status[j] # "authorizing"
      BY <1>6, <2>1 DEF IInv, CallsFollow
    <3> QED
      BY <1>1, <1>2, <1>4, <1>6, <2>1, <3>1 DEF IInv, CallsFollow, Active, Decorated
  <2>2. CASE s # "authorizing"
    <3>1. auth' = auth
      BY <1>2, <2>2
    <3>2. \A j \in DOMAIN batch : status'[j] = "authorizing" <=> status[j] = "authorizing"
      BY <1>1, <1>4, <2>2
    <3>3. \A j \in DOMAIN batch : Active(j)' => batch[j].tool \in snapshot
      BY <1>2, <1>4 DEF IInv, CallsFollow, Active
    <3> QED
      BY <1>1, <3>1, <3>2, <3>3 DEF IInv, CallsFollow, Decorated
  <2> QED
    BY <2>1, <2>2
<1>12. PlanFollows'
  BY <1>1, <1>5 DEF IInv, PlanFollows
<1>13. TodoFollows'
  BY <1>1, <1>4 DEF IInv, TodoFollows, CompletionIsEarned
<1> QED
  BY <1>7, <1>8, <1>9, <1>10, <1>11, <1>12, <1>13 DEF IInv

\* The authorisation is over: the tool runs, or its denial is the result.
LEMMA AuthorizedKeeps ==
    ASSUME IInv, NEW i \in DOMAIN batch, Authorized(i)
    PROVE  IInv'
<1>1. /\ pc = "tools" /\ status[i] = "authorizing" /\ auth' = Idle
      /\ UNCHANGED <<effective, grants, modeChanges, sessionYes, ctxDead, pc, batch, group>>
      /\ UNCHANGED runVars
  BY DEF Authorized
<1>2. PICK s \in {"running", "feedback", "denied"} : status' = [status EXCEPT ![i] = s]
  <2> DEFINE s == CASE auth.stage = "allowed" -> "running"
                    [] auth.answer = "deny_feedback" -> "feedback"
                    [] OTHER -> "denied"
  <2>1. s \in {"running", "feedback", "denied"}
    OBVIOUS
  <2>2. status' = [status EXCEPT ![i] = s]
    BY DEF Authorized, SetStatus
  <2> HIDE DEF s
  <2> QED
    BY <2>1, <2>2
<1>3. status \in Seq(Statuses) /\ DOMAIN status = DOMAIN batch
  BY DEF IInv, TypeOK, Statuses
<1>4. /\ status' \in Seq(Statuses) /\ DOMAIN status' = DOMAIN batch
      /\ status'[i] = s /\ \A j \in DOMAIN batch : j # i => status'[j] = status[j]
  BY <1>2, <1>3 DEF Statuses, Results
<1>5. Idle \in Authority
      /\ Idle.stage = "idle"
  BY ReviewerAttemptsAssumption DEF Idle, Opinions, Modes
<1>6. i \in group
  BY <1>1 DEF IInv, BatchFollows, Finished, Results
<1>7. TypeOK'
  BY <1>1, <1>4, <1>5 DEF IInv, TypeOK, Statuses, runVars
<1>8. Records'
  BY <1>1, <1>5 DEF IInv, Records, runVars
<1>9. AuthorityFollows'
  BY <1>1, <1>5 DEF IInv, AuthorityFollows
<1>10. BatchFollows'
  <2>1. \A j \in DOMAIN batch : SafeAt(j)' = SafeAt(j)
    BY <1>1 DEF SafeAt, ParallelSafe, Decorated, runVars
  <2>2. \A j \in DOMAIN batch : j # i => Finished(j)' = Finished(j)
    BY <1>4 DEF Finished
  <2>3. group \subseteq DOMAIN batch
    BY DEF IInv, TypeOK
  <2> QED
    BY <1>1, <1>4, <1>6, <2>1, <2>2, <2>3 DEF IInv, BatchFollows
<1>11. CallsFollow'
  <2>1. \A j \in DOMAIN batch : status'[j] # "authorizing"
    <3>1. Decorated /\ \A j \in DOMAIN batch : ~SafeAt(j)
      BY <1>1 DEF IInv, CallsFollow, SafeAt, ParallelSafe
    <3>2. ASSUME NEW j \in DOMAIN batch, j # i, status[j] = "authorizing"
          PROVE  FALSE
      <4>1. j \in group
        BY <3>2 DEF IInv, BatchFollows, Finished, Results
      <4> QED
        BY <1>6, <3>1, <3>2, <4>1 DEF IInv, BatchFollows
    <3> QED
      BY <1>4, <3>2
  <2>2. \A j \in DOMAIN batch : Active(j)' => batch[j].tool \in snapshot
    BY <1>1, <1>4 DEF IInv, CallsFollow, Active
  <2> QED
    BY <1>1, <1>5, <2>1, <2>2 DEF CallsFollow, runVars
<1>12. PlanFollows'
  BY <1>1 DEF IInv, PlanFollows, runVars
<1>13. TodoFollows'
  BY <1>1, <1>4 DEF IInv, TodoFollows, CompletionIsEarned, runVars
<1> QED
  BY <1>7, <1>8, <1>9, <1>10, <1>11, <1>12, <1>13 DEF IInv

\* A call returns: the plan is approved, the checklist written, or neither.
LEMMA ReturnKeeps ==
    ASSUME IInv, NEW i \in DOMAIN batch, Return(i)
    PROVE  IInv'
<1>1. /\ pc = "tools" /\ status[i] = "running"
      /\ UNCHANGED <<permissionVars, kind, pc, turn, snapshot, batch, group, policy, outcome>>
      /\ ReturnOther(i) \/ ReturnPlan(i) \/ ReturnTodo(i)
  BY DEF Return
<1>2. PICK s \in {"ok", "error"} : status' = [status EXCEPT ![i] = s]
  BY <1>1 DEF ReturnOther, ReturnPlan, PlanApproved, ReturnTodo, SetStatus
<1>3. status \in Seq(Statuses) /\ DOMAIN status = DOMAIN batch
  BY DEF IInv, TypeOK, Statuses
<1>4. /\ status' \in Seq(Statuses) /\ DOMAIN status' = DOMAIN batch
      /\ status'[i] = s /\ \A j \in DOMAIN batch : j # i => status'[j] = status[j]
  BY <1>2, <1>3 DEF Statuses, Results
<1>5. i \in group
  BY <1>1 DEF IInv, BatchFollows, Finished, Results
<1>6. batch[i].tool \in Surface(plan.phase) /\ snapshot = Surface(plan.phase)
  BY <1>1 DEF IInv, CallsFollow, PlanFollows, Active
<1>7. /\ plan \in Plans
      /\ hist \in [approved : Nat, written : Nat]
      /\ turn \in Nat /\ 0 < turn
  BY ToolTurnAssumption DEF IInv, Records, TypeOK
<1>8. \* what became of the plan, and when
      \/ plan' = plan /\ hist' = hist /\ todo' = todo
         /\ (batch[i].tool = "update_todo" => s = "error")
      \/ /\ plan.phase = "formal" /\ plan'.phase = "formal" /\ plan'.pending = "checklist"
         /\ hist'.approved = turn /\ hist'.written = hist.written
         /\ hist' \in [approved : Nat, written : Nat] /\ todo' = todo
         /\ batch[i].tool = "submit_plan"
      \/ /\ plan.phase \in {"checklist", "implementation"}
         /\ plan'.phase = plan.phase
         /\ plan'.pending = IF plan.phase = "checklist" THEN "implementation" ELSE plan.pending
         /\ hist'.approved = hist.approved
         /\ \/ hist'.written = hist.written /\ hist.approved < hist.written
            \/ hist'.written = turn /\ ~(hist.approved < hist.written)
         /\ hist' \in [approved : Nat, written : Nat] /\ todo' \in {"open", "checked"}
         /\ batch[i].tool = "update_todo"
  <2>1. CASE ReturnOther(i)
    BY <2>1 DEF ReturnOther
  <2>2. CASE ReturnPlan(i)
    <3>1. plan.phase = "formal"
      BY <1>6, <1>7, <2>2 DEF ReturnPlan, Surface, ReadOnlyTools
    <3>2. CASE PlanApproved(i)
      BY <1>7, <2>2, <3>1, <3>2 DEF ReturnPlan, PlanApproved, Approve
    <3> QED
      BY <2>2, <3>2 DEF ReturnPlan
  <2>3. CASE ReturnTodo(i)
    <3>1. plan.phase \in {"checklist", "implementation"}
      BY <1>6, <1>7, <2>3 DEF ReturnTodo, Surface, ReadOnlyTools
    <3>2. ASSUME SetStatus(i, "error"), plan' = TodoUpdated(plan, FALSE), UNCHANGED <<todo, hist>>
          PROVE  plan' = plan /\ hist' = hist /\ todo' = todo /\ s = "error"
      <4>1. status'[i] = "error"
        BY <1>3, <3>2 DEF SetStatus
      <4> QED
        BY <1>4, <3>2, <4>1 DEF TodoUpdated
    <3>3. ASSUME NEW content \in {"open", "checked"}, todo' = content,
                 plan' = TodoUpdated(plan, TRUE),
                 hist' = IF hist.written > hist.approved THEN hist
                         ELSE [hist EXCEPT !.written = turn]
          PROVE  /\ plan'.phase = plan.phase
                 /\ plan'.pending = IF plan.phase = "checklist" THEN "implementation"
                                    ELSE plan.pending
                 /\ hist'.approved = hist.approved
                 /\ \/ hist'.written = hist.written /\ hist.approved < hist.written
                    \/ hist'.written = turn /\ ~(hist.approved < hist.written)
                 /\ hist' \in [approved : Nat, written : Nat] /\ todo' \in {"open", "checked"}
      <4>1. /\ plan'.phase = plan.phase
            /\ plan'.pending = IF plan.phase = "checklist" THEN "implementation" ELSE plan.pending
        BY <1>7, <3>3 DEF TodoUpdated
      <4>2. CASE hist.written > hist.approved
        BY <1>7, <3>3, <4>1, <4>2
      <4>3. CASE ~(hist.written > hist.approved)
        BY <1>7, <3>3, <4>1, <4>3
      <4> QED
        BY <4>2, <4>3
    <3> QED
      BY <2>3, <3>1, <3>2, <3>3 DEF ReturnTodo
  <2> QED
    BY <1>1, <2>1, <2>2, <2>3
<1>9. plan' \in Plans
  BY <1>1, <1>7 DEF ReturnOther, ReturnPlan, PlanApproved, Approve, ReturnTodo, TodoUpdated
<1>10. TypeOK'
  <2>1. todo' \in {"none", "open", "checked"}
    BY <1>8 DEF IInv, TypeOK
  <2> QED
    BY <1>1, <1>4, <1>9, <2>1 DEF IInv, TypeOK, Statuses, permissionVars
<1>11. Records'
  BY <1>1, <1>7, <1>8, <1>9 DEF IInv, Records, permissionVars
<1>12. AuthorityFollows'
  BY <1>1 DEF IInv, AuthorityFollows, permissionVars
<1>13. BatchFollows'
  <2>1. \A j \in DOMAIN batch : SafeAt(j)' = SafeAt(j)
    BY <1>1 DEF SafeAt, ParallelSafe, Decorated
  <2>2. \A j \in DOMAIN batch : j # i => Finished(j)' = Finished(j)
    BY <1>4 DEF Finished
  <2>3. group \subseteq DOMAIN batch
    BY DEF IInv, TypeOK
  <2> QED
    BY <1>1, <1>4, <1>5, <2>1, <2>2, <2>3 DEF IInv, BatchFollows
<1>14. CallsFollow'
  <2>1. \A j \in DOMAIN batch : status'[j] = "authorizing" <=> status[j] = "authorizing"
    BY <1>1, <1>4
  <2>2. \A j \in DOMAIN batch : Active(j)' => batch[j].tool \in snapshot
    BY <1>1, <1>4 DEF IInv, CallsFollow, Active
  <2> QED
    BY <1>1, <2>1, <2>2 DEF IInv, CallsFollow, Decorated, permissionVars
<1>15. PlanFollows'
  <2>1. hist.approved <= turn /\ hist.written <= turn
    BY DEF IInv, PlanFollows
  <2>2. kind # "formal" => plan.phase = "implementation" /\ plan.pending = "none"
    BY DEF IInv, PlanFollows
  <2>3. kind = "formal" =>
       /\ plan.phase = "formal" => /\ plan.pending \in {"none", "checklist"}
                                   /\ plan.pending = "checklist" => 0 < hist.approved
       /\ plan.phase = "checklist" =>
             /\ plan.pending \in {"none", "implementation"}
             /\ 0 < hist.approved /\ hist.approved < turn
             /\ plan.pending = "implementation" => hist.approved < hist.written
       /\ plan.phase = "implementation" =>
             /\ plan.pending = "none"
             /\ 0 < hist.approved /\ hist.approved < hist.written /\ hist.written < turn
    BY DEF IInv, PlanFollows
  <2>4. plan'.phase = plan.phase
    BY <1>8
  <2>5. hist'.approved <= turn /\ hist'.written <= turn
    BY <1>7, <1>8, <2>1
  <2>6. kind # "formal" => plan'.phase = "implementation" /\ plan'.pending = "none"
    BY <1>8, <2>2
  <2>7. kind = "formal" =>
       /\ plan'.phase = "formal" => /\ plan'.pending \in {"none", "checklist"}
                                    /\ plan'.pending = "checklist" => 0 < hist'.approved
       /\ plan'.phase = "checklist" =>
             /\ plan'.pending \in {"none", "implementation"}
             /\ 0 < hist'.approved /\ hist'.approved < turn
             /\ plan'.pending = "implementation" => hist'.approved < hist'.written
       /\ plan'.phase = "implementation" =>
             /\ plan'.pending = "none"
             /\ 0 < hist'.approved /\ hist'.approved < hist'.written /\ hist'.written < turn
    BY <1>7, <1>8, <2>3
  <2> QED
    BY <1>1, <1>6, <2>4, <2>5, <2>6, <2>7 DEF PlanFollows
<1>16. TodoFollows'
  <2>1. 0 < hist.written => 0 < hist'.written
    BY <1>7, <1>8
  <2>2. batch[i].tool = "update_todo" /\ s = "ok" => 0 < hist'.written
    BY <1>7, <1>8
  <2>3. outcome # "completed"
    BY <1>1 DEF IInv, TodoFollows
  <2>4. \A j \in DOMAIN batch :
          batch[j].tool = "update_todo" /\ status'[j] = "ok" => 0 < hist'.written
    BY <1>4, <2>1, <2>2 DEF IInv, TodoFollows
  <2>5. policy.updated => 0 < hist'.written
    BY <2>1 DEF IInv, TodoFollows
  <2> QED
    BY <1>1, <2>3, <2>4, <2>5 DEF TodoFollows, CompletionIsEarned
<1> QED
  BY <1>10, <1>11, <1>12, <1>13, <1>14, <1>15, <1>16 DEF IInv

-----------------------------------------------------------------------------
(* The coordinator's steps and the user's. *)

\* A step of the authorisation.
LEMMA AuthorizeKeeps ==
    ASSUME IInv, Authorize
    PROVE  IInv'
<1>1. AuthorizeStep /\ UNCHANGED <<pc, batch, group, status, runVars>>
  BY DEF Authorize
<1>2. /\ auth.stage # "idle"
      /\ auth' \in Authority
      /\ auth'.stage # "idle" /\ auth'.call = auth.call
      /\ auth'.stage = "review" => auth'.mode = "approve" /\ Classify(auth'.call) = "reviewable"
      /\ effective' = effective /\ ctxDead' = ctxDead
      /\ \/ grants' = grants /\ sessionYes' = sessionYes
         \/ /\ grants' = grants \cup {GrantKey(auth.call)}
            /\ sessionYes' = sessionYes \cup {auth.call}
  BY <1>1, AuthorizeSteps
<1>3. auth.call \in Calls
  BY <1>2, AuthorizedCall
<1>4. sessionYes' \subseteq Calls /\ grants' = {GrantKey(c) : c \in sessionYes'}
  BY <1>2, <1>3 DEF IInv, Records, AuthorityFollows
<1>5. TypeOK'
  <2>1. grants' \subseteq GrantKeys
    BY <1>4 DEF GrantKeys
  <2>2. auth'.stage \in {"idle", "snapshot", "review", "ask", "allowed", "denied"}
        /\ auth'.attempt \in 0 .. ReviewerAttempts - 1
    BY <1>2
  <2> QED
    BY <1>1, <1>2, <2>1, <2>2 DEF IInv, TypeOK, runVars
<1>6. Records' /\ AuthorityFollows'
  BY <1>1, <1>2, <1>4 DEF IInv, Records, AuthorityFollows, runVars
<1>7. BatchFollows'
  BY <1>1 DEF IInv, BatchFollows, Finished, SafeAt, ParallelSafe, Decorated, runVars
<1>8. CallsFollow'
  BY <1>1, <1>2 DEF IInv, CallsFollow, Active, Decorated, runVars
<1>9. PlanFollows' /\ TodoFollows'
  BY <1>1 DEF IInv, PlanFollows, TodoFollows, CompletionIsEarned, runVars
<1> QED
  BY <1>5, <1>6, <1>7, <1>8, <1>9 DEF IInv

\* The user changes the mode, clears the grants or cancels the run.
LEMMA UserKeeps ==
    ASSUME IInv, User
    PROVE  IInv'
<1>1. UserStep /\ UNCHANGED <<pc, batch, group, status, runVars>>
  BY DEF User
<1>2. /\ auth' = auth /\ effective' \in Modes
      /\ \/ grants' = grants /\ sessionYes' = sessionYes
         \/ grants' = {} /\ sessionYes' = {}
  BY <1>1 DEF UserStep, SetMode, ClearGrants, CancelRun, IInv, TypeOK, Modes
<1>3. TypeOK' /\ Records' /\ AuthorityFollows'
  <2>1. TypeOK'
    BY <1>1, <1>2 DEF IInv, TypeOK, runVars
  <2>2. Records'
    BY <1>1, <1>2 DEF IInv, Records, runVars
  <2>3. AuthorityFollows'
    BY <1>1, <1>2 DEF IInv, AuthorityFollows
  <2> QED
    BY <2>1, <2>2, <2>3
<1>4. BatchFollows'
  BY <1>1 DEF IInv, BatchFollows, Finished, SafeAt, ParallelSafe, Decorated, runVars
<1>5. CallsFollow'
  BY <1>1, <1>2 DEF IInv, CallsFollow, Active, Decorated, runVars
<1>6. PlanFollows' /\ TodoFollows'
  BY <1>1 DEF IInv, PlanFollows, TodoFollows, CompletionIsEarned, runVars
<1> QED
  BY <1>3, <1>4, <1>5, <1>6 DEF IInv

-----------------------------------------------------------------------------
(* The theorems. *)

LEMMA InitHolds ==
    ASSUME Init
    PROVE  IInv
<1>1. DOMAIN batch = {} /\ batch = <<>> /\ status = <<>> /\ group = {}
  BY DEF Init
<1>2. auth = Idle /\ Idle \in Authority
      /\ Idle.stage = "idle"
  BY ReviewerAttemptsAssumption DEF Init, Idle, Opinions, Modes
<1>3. effective \in Modes
  BY DEF Init, NewState, Modes
<1>4. /\ plan \in Plans
      /\ plan.phase = IF kind = "formal" THEN "formal" ELSE "implementation"
      /\ plan.pending = "none"
  BY DEF Init, InitialPlan
<1>5. /\ hist = [approved |-> 0, written |-> 0]
      /\ policy = [gate |-> "none", reminded |-> FALSE, updated |-> FALSE]
      /\ turn = 1 /\ pc = "begin" /\ outcome = "none" /\ kind \in RunKinds
      /\ grants = {} /\ sessionYes = {} /\ todo \in {"none", "open"}
  BY DEF Init
<1>6. TypeOK
  BY <1>1, <1>2, <1>3, <1>4, <1>5, ToolTurnAssumption DEF TypeOK
<1>7. Records /\ AuthorityFollows
  BY <1>1, <1>2, <1>4, <1>5 DEF Records, AuthorityFollows
<1>8. BatchFollows /\ CallsFollow
  BY <1>1, <1>2, <1>5 DEF BatchFollows, CallsFollow
<1>9. PlanFollows /\ TodoFollows
  BY <1>1, <1>4, <1>5 DEF PlanFollows, TodoFollows, CompletionIsEarned
<1> QED
  BY <1>6, <1>7, <1>8, <1>9 DEF IInv

LEMMA StepKeeps ==
    ASSUME IInv, [Next]_vars
    PROVE  IInv'
<1>1. CASE EngineStep
  BY <1>1, FailsKeeps, BeginTurnKeeps, AnswersKeeps, CallsKeeps, AfterKeeps, LaunchKeeps,
     StartKeeps, AuthorizedKeeps DEF EngineStep
<1>2. CASE ToolStep
  BY <1>2, ReturnKeeps DEF ToolStep
<1>3. CASE Authorize
  BY <1>3, AuthorizeKeeps
<1>4. CASE User
  BY <1>4, UserKeeps
<1>5. CASE UNCHANGED vars
  BY <1>5, StutterKeeps
<1> QED
  BY <1>1, <1>2, <1>3, <1>4, <1>5 DEF Next

(* Every state of a run satisfies the invariant that the theorems below use. *)
THEOREM Invariance == Spec => []IInv
<1>1. Init => IInv
  BY InitHolds
<1>2. IInv /\ [Next]_vars => IInv'
  BY StepKeeps
<1> QED
  BY <1>1, <1>2, PTL DEF Spec

(* The variables keep their types (the engine's loop, the coordinator and the plan lifecycle). *)
THEOREM TypeCorrect == Spec => []TypeOK
<1>1. IInv => TypeOK
  BY DEF IInv
<1> QED
  BY <1>1, Invariance, PTL

(* Calls that are not parallel-safe run alone and in the model's order, and an open          *)
(* authorisation is that of the one call that waits for it (toolexec's groups and the serial *)
(* registry of the permission decorator).                                                    *)
THEOREM CallsStayInOrder == Spec => []CallsRunInOrder
<1>1. ASSUME IInv
      PROVE  CallsRunInOrder
  <2>1. Len(batch) \in Nat /\ DOMAIN batch = 1 .. Len(batch) /\ group \subseteq DOMAIN batch
    BY <1>1, BatchShape DEF IInv, TypeOK
  <2>2. ASSUME NEW i \in DOMAIN batch, NEW j \in DOMAIN batch, i < j, status[j] # "waiting",
               ~Finished(i)
        PROVE  ParallelSafe(batch[i].tool) /\ ParallelSafe(batch[j].tool)
    <3>1. j \in group \/ \A g \in group : j < g
      BY <1>1, <2>2 DEF IInv, BatchFollows
    <3>2. i \in group \/ (status[i] = "waiting" /\ \A g \in group : g < i)
      BY <1>1, <2>2 DEF IInv, BatchFollows
    <3>3. group # {}
      BY <1>1, <2>2 DEF IInv, BatchFollows
    <3>4. i \in Int /\ j \in Int /\ \A g \in group : g \in Int
      BY <2>1
    <3>5. i \in group /\ j \in group
      BY <2>2, <3>1, <3>2, <3>3, <3>4
    <3>6. i # j
      BY <2>2, <3>4
    <3> QED
      BY <1>1, <3>5, <3>6 DEF IInv, BatchFollows, SafeAt
  <2> QED
    BY <1>1, <2>2 DEF IInv, CallsFollow, CallsRunInOrder
<1> QED
  BY <1>1, Invariance, PTL

(* A run completes only with its gates satisfied: a plan that was approved and a checklist   *)
(* written after it, and no item left open but by the run itself (turnpolicy.AfterModel).    *)
THEOREM CompletionStaysEarned == Spec => []CompletionIsEarned
<1>1. IInv => CompletionIsEarned
  BY DEF IInv, TodoFollows
<1> QED
  BY <1>1, Invariance, PTL

(* Whatever the user changes meanwhile, an authorisation ends in "allowed" only for a call   *)
(* somebody may vouch for: it is harmless, in full access, in the scope of a session         *)
(* approval, or allowed by the user or, within the risk gate, by the reviewer                *)
(* (Coordinator.authorize).                                                                  *)
THEOREM AllowedIsWarranted == Spec => NothingRunsUnapproved
<1>1. ASSUME IInv, [Next]_vars, auth.stage # "allowed", auth'.stage = "allowed"
      PROVE  Warranted(auth')
  <2>1. CASE Authorize
    BY <1>1, <2>1, AuthorizeSteps DEF Authorize
  <2>2. CASE \E i \in DOMAIN batch : StartCall(i)
    <3>1. auth' = auth \/ \E c \in Calls : BeginAuthorize(c)
      BY <1>1, <2>2, BatchShape DEF StartCall, IInv
    <3>2. \A c \in Calls : BeginAuthorize(c) => auth'.stage = "snapshot"
      BY DEF BeginAuthorize, Idle
    <3> QED
      BY <1>1, <3>1, <3>2
  <2>3. CASE \E i \in DOMAIN batch : Authorized(i)
    BY <1>1, <2>3 DEF Authorized, Idle
  <2>4. CASE User \/ ToolStep \/ UNCHANGED vars
    BY <1>1, <2>4 DEF User, UserStep, SetMode, ClearGrants, CancelRun, ToolStep, Return,
                      permissionVars, vars
  <2>5. CASE \/ EngineFails \/ BeginTurn \/ ModelAnswers \/ AfterTools \/ Launch
             \/ \E calls \in Batches : ModelCallsTools(calls)
    BY <1>1, <2>5 DEF EngineFails, BeginTurn, ModelAnswers, AfterTools, Launch, ModelCallsTools,
                      permissionVars
  <2> QED
    BY <1>1, <2>1, <2>2, <2>3, <2>4, <2>5 DEF Next, EngineStep
<1>2. IInv /\ [Next]_vars => (auth.stage # "allowed" /\ auth'.stage = "allowed" => Warranted(auth'))
  BY <1>1
<1> QED
  BY <1>2, Invariance, PTL DEF Spec, NothingRunsUnapproved

(* In a Formal Plan run a tool that changes the workspace starts only in a later turn than   *)
(* the one in which the checklist was written after an approved plan                         *)
(* (planruntime.Lifecycle and the frozen surfaces).                                          *)
THEOREM WorkWaitsForThePlan == Spec => PlanGatesWork
<1> DEFINE Work == {"write_file", "edit_file", "delegate_task", "mcp_tool"}
<1>1. ASSUME IInv, [Next]_vars, NEW i \in DOMAIN batch, kind = "formal", batch[i].tool \in Work,
             i \in DOMAIN status', status[i] # "running", status'[i] = "running"
      PROVE  0 < hist.approved /\ hist.approved < hist.written /\ hist.written < turn
  <2>1. CASE \E j \in DOMAIN batch : Authorized(j)
    <3>1. PICK j \in DOMAIN batch : Authorized(j)
      BY <2>1
    <3>2. pc = "tools" /\ status[j] = "authorizing" /\ j = i
      BY <1>1, <3>1 DEF Authorized, SetStatus
    <3>3. batch[i].tool \in Surface(plan.phase)
      BY <1>1, <3>2 DEF IInv, CallsFollow, Active, PlanFollows
    <3>4. plan.phase = "implementation"
      BY <1>1, <3>3 DEF Surface, ReadOnlyTools, IInv, Records
    <3> QED
      BY <1>1, <3>4 DEF IInv, PlanFollows
  <2>2. CASE \E j \in DOMAIN batch : StartCall(j)
    <3>1. PICK j \in DOMAIN batch : StartCall(j)
      BY <2>2
    <3>2. Decorated
      BY <1>1 DEF Decorated
    <3>3. \E s \in {"missing", "cancelled", "error", "authorizing"} : SetStatus(j, s)
      BY <3>1, <3>2 DEF StartCall
    <3> QED
      BY <1>1, <3>3 DEF SetStatus
  <2>3. CASE ToolStep
    <3>1. PICK j \in DOMAIN batch, s \in {"ok", "error"} : SetStatus(j, s)
      BY <2>3 DEF ToolStep, Return, ReturnOther, ReturnPlan, PlanApproved, ReturnTodo
    <3> QED
      BY <1>1, <3>1 DEF SetStatus
  <2>4. CASE Authorize \/ User \/ UNCHANGED vars
    BY <1>1, <2>4 DEF Authorize, User, vars
  <2>5. CASE \/ EngineFails \/ BeginTurn \/ ModelAnswers \/ Launch
    BY <1>1, <2>5 DEF EngineFails, BeginTurn, ModelAnswers, Launch
  <2>6. CASE AfterTools \/ \E calls \in Batches : ModelCallsTools(calls)
    BY <1>1, <2>6 DEF AfterTools, ModelCallsTools
  <2> QED
    BY <1>1, <2>1, <2>2, <2>3, <2>4, <2>5, <2>6 DEF Next, EngineStep
<1>2. IInv /\ [Next]_vars =>
         \A i \in DOMAIN batch :
            /\ kind = "formal"
            /\ batch[i].tool \in {"write_file", "edit_file", "delegate_task", "mcp_tool"}
            /\ i \in DOMAIN status' /\ status[i] # "running" /\ status'[i] = "running"
            => 0 < hist.approved /\ hist.approved < hist.written /\ hist.written < turn
  BY <1>1
<1> QED
  BY <1>2, Invariance, PTL DEF Spec, PlanGatesWork

=============================================================================
