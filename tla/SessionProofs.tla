---------------------------- MODULE SessionProofs ----------------------------
(***************************************************************************)
(* Leases, admission tokens and recovery of the runtime's sessions are     *)
(* exact for any number of AgentSessions, stored sessions, runs and        *)
(* recovering goroutines.  The invariant says who holds each token         *)
(* (Cardinality only counts them), and that a run without a durable finish *)
(* is either still admitted or what its session keeps for recovery, which  *)
(* keeps every later run out.                                              *)
(*                                                                         *)
(* Then the two clients of that lifecycle: a Feishu conversation and       *)
(* delegated runs, for any number of messages, sessions and delegations.   *)
(* Every step of a client is a step of the lifecycle or a RecoverRunFinish *)
(* at once, so that what is proved of AgentSession holds in both, and each *)
(* adds what it knows of the sessions it opened.                           *)
(***************************************************************************)
EXTENDS AgentSession, FeishuConversation, ChildRun, FiniteSetTheorems, TLAPS

\* A run whose terminal write was tried.
Written == {"finishing", "released", "done"}
\* The run carries the admission token.
Admitted(r) == pc[r] \in GateHolders

\* The admission token of s is in the channel, with one run, or with Close.
GateIsHeld ==
    /\ \A s \in Sessions : closing[s] => ~gate[s]
    /\ \A r \in Runs : Admitted(r) => ~gate[owner[r]] /\ ~closing[owner[r]]
    /\ \A s \in Sessions :
          ~gate[s] /\ ~closing[s] => \E r \in Runs : Admitted(r) /\ owner[r] = s
    /\ \A q, r \in Runs : Admitted(q) /\ Admitted(r) /\ owner[q] = owner[r] => q = r

\* A run's session was opened, and is not closed under the run or before its recovery.
SessionsLive ==
    /\ \A r \in Runs : pc[r] = "new" <=> owner[r] = None
    /\ \A r \in Runs : pc[r] # "new" => life[owner[r]] \in {"live", "closed"}
    /\ \A r \in Runs : Admitted(r) => life[owner[r]] = "live"
    /\ \A s \in Sessions : recovery[s] # None => life[s] = "live"

\* Where a run's record stands, and what the session keeps for recovery.
RecordsFollow ==
    /\ \A r \in Runs :
          /\ pc[r] \in {"running", "ended"} => record[r] = "started"
          /\ pc[r] \notin Written \cup {"running", "ended"} => record[r] = "none"
          /\ pc[r] \in Written =>
                record[r] # "none" /\ (record[r] = "started" <=> recovery[owner[r]] = r)
    /\ \A s \in Sessions : recovery[s] # None =>
          owner[recovery[s]] = s /\ pc[recovery[s]] \in Written
    /\ \A r \in Runs : Admitted(r) =>
          recovery[owner[r]] \in {None} \cup (IF pc[r] = "finishing" THEN {r} ELSE {})
    /\ \A c \in Recoverers : recoverer[c] # None => pc[recoverer[c]] \in Written

IInv ==
    /\ TypeOK /\ LeaseIsExclusive /\ CapacityIsExact
    /\ GateIsHeld /\ SessionsLive /\ RecordsFollow

-----------------------------------------------------------------------------

(* The tokens of the limiter.                                                *)

HaveCapacity == {r \in Runs : pc[r] \in CapacityHolders}

\* The runs that hold a capacity token can be counted, and so can one more or one less.
LEMMA CapacityCounts ==
  ASSUME CapacityIsExact
  PROVE  /\ limiter = Cardinality(HaveCapacity)
         /\ \A r \in HaveCapacity : /\ Cardinality(HaveCapacity \ {r}) = limiter - 1
                                    /\ limiter # 0
         /\ \A r \in Runs \ HaveCapacity : Cardinality(HaveCapacity \cup {r}) = limiter + 1
<1>1. IsFiniteSet(HaveCapacity)
  BY SessionAssumption, FS_Subset DEF HaveCapacity
<1>2. limiter = Cardinality(HaveCapacity)
  BY DEF CapacityIsExact, HaveCapacity
<1>3. ASSUME NEW r \in HaveCapacity
      PROVE  Cardinality(HaveCapacity \ {r}) = limiter - 1
  BY <1>1, <1>2, FS_RemoveElement
<1>4. ASSUME NEW r \in HaveCapacity
      PROVE  limiter # 0
  BY <1>1, <1>2, FS_EmptySet
<1>5. ASSUME NEW r \in Runs \ HaveCapacity
      PROVE  Cardinality(HaveCapacity \cup {r}) = limiter + 1
  BY <1>1, <1>2, FS_AddElement
<1> QED
  BY <1>2, <1>3, <1>4, <1>5

\* A step that moves no run into or out of the limiter's account.
LEMMA CapacityKept ==
  ASSUME CapacityIsExact, limiter' = limiter,
         \A r \in Runs : pc'[r] \in CapacityHolders <=> pc[r] \in CapacityHolders
  PROVE  CapacityIsExact'
<1>1. HaveCapacity' = HaveCapacity
  BY DEF HaveCapacity
<1> QED
  BY <1>1 DEF CapacityIsExact, HaveCapacity

\* A step that gives one run's capacity token back.
LEMMA CapacityReturned ==
  ASSUME TypeOK, CapacityIsExact, NEW r \in Runs, pc[r] \in CapacityHolders,
         limiter' = limiter - 1, NEW label \in {"refused", "released"},
         pc' = [pc EXCEPT ![r] = label]
  PROVE  CapacityIsExact' /\ limiter' \in 0 .. Capacity
<1>1. r \in HaveCapacity
  BY DEF HaveCapacity
<1>2. HaveCapacity' = HaveCapacity \ {r}
  BY DEF HaveCapacity, TypeOK, CapacityHolders, GateHolders
<1>3. CapacityIsExact'
  BY <1>1, <1>2, CapacityCounts DEF CapacityIsExact, HaveCapacity
<1>4. limiter # 0
  BY <1>1, CapacityCounts
<1> QED
  BY <1>3, <1>4, SessionAssumption DEF TypeOK

-----------------------------------------------------------------------------
(* The steps.                                                                *)

\* A claim leases a stored session nobody has.
LEMMA ClaimPreserves ==
  ASSUME IInv, NEW s \in Sessions, Claim(s)
  PROVE  IInv'
<1>1. TypeOK'
  <2>1. IdOf[s] \in Ids
    BY SessionAssumption
  <2>2. life' \in [Sessions -> {"none", "opening", "live", "closed"}]
    BY DEF Claim, IInv, TypeOK
  <2> QED
    BY <2>1, <2>2 DEF Claim, IInv, TypeOK, runVars
<1>2. LeaseIsExclusive'
  BY SessionAssumption DEF Claim, IInv, TypeOK, LeaseIsExclusive, runVars
<1>3. CapacityIsExact'
  BY CapacityKept DEF Claim, IInv, TypeOK, CapacityHolders, runVars
<1>4. GateIsHeld'
  BY SessionAssumption DEF Claim, IInv, TypeOK, GateIsHeld, SessionsLive, Admitted, GateHolders,
     runVars
<1>5. SessionsLive'
  BY SessionAssumption DEF Claim, IInv, TypeOK, LeaseIsExclusive, GateIsHeld, SessionsLive,
     RecordsFollow, Admitted, GateHolders, Written, runVars
<1>6. RecordsFollow'
  BY SessionAssumption DEF Claim, IInv, TypeOK, GateIsHeld, SessionsLive, RecordsFollow, Admitted,
     GateHolders, Written, runVars
<1> QED
  BY <1>1, <1>2, <1>3, <1>4, <1>5, <1>6 DEF IInv

LEMMA InitServicesPreserves ==
  ASSUME IInv, NEW s \in Sessions, InitServices(s)
  PROVE  IInv'
<1>1. TypeOK'
  BY SessionAssumption DEF InitServices, IInv, TypeOK, GateHolders, runVars
<1>2. LeaseIsExclusive'
  BY SessionAssumption DEF InitServices, IInv, TypeOK, LeaseIsExclusive, runVars
<1>3. CapacityIsExact'
  BY CapacityKept DEF InitServices, IInv, TypeOK, CapacityHolders, runVars
<1>4. GateIsHeld'
  BY SessionAssumption DEF InitServices, IInv, TypeOK, GateIsHeld, SessionsLive, Admitted,
     GateHolders, runVars
<1>5. SessionsLive'
  BY SessionAssumption DEF InitServices, IInv, TypeOK, LeaseIsExclusive, GateIsHeld, SessionsLive,
     RecordsFollow, Admitted, GateHolders, Written, runVars
<1>6. RecordsFollow'
  BY SessionAssumption DEF InitServices, IInv, TypeOK, GateIsHeld, SessionsLive, RecordsFollow,
     Admitted, GateHolders, Written, runVars
<1> QED
  BY <1>1, <1>2, <1>3, <1>4, <1>5, <1>6 DEF IInv

LEMMA InitFailsPreserves ==
  ASSUME IInv, NEW s \in Sessions, InitFails(s)
  PROVE  IInv'
<1>1. TypeOK'
  BY SessionAssumption DEF InitFails, IInv, TypeOK, GateHolders, runVars
<1>2. LeaseIsExclusive'
  BY SessionAssumption DEF InitFails, IInv, TypeOK, LeaseIsExclusive, runVars
<1>3. CapacityIsExact'
  BY CapacityKept DEF InitFails, IInv, TypeOK, CapacityHolders, runVars
<1>4. GateIsHeld'
  BY SessionAssumption DEF InitFails, IInv, TypeOK, GateIsHeld, SessionsLive, Admitted,
     GateHolders, runVars
<1>5. SessionsLive'
  BY SessionAssumption DEF InitFails, IInv, TypeOK, LeaseIsExclusive, GateIsHeld, SessionsLive,
     RecordsFollow, Admitted, GateHolders, Written, runVars
<1>6. RecordsFollow'
  BY SessionAssumption DEF InitFails, IInv, TypeOK, GateIsHeld, SessionsLive, RecordsFollow,
     Admitted, GateHolders, Written, runVars
<1> QED
  BY <1>1, <1>2, <1>3, <1>4, <1>5, <1>6 DEF IInv

LEMMA BeginPreserves ==
  ASSUME IInv, NEW r \in Runs, NEW s \in Sessions, Begin(r, s)
  PROVE  IInv'
<1>1. TypeOK'
  BY SessionAssumption DEF Begin, IInv, TypeOK, GateHolders, leaseVars
<1>2. LeaseIsExclusive'
  BY SessionAssumption DEF Begin, IInv, TypeOK, LeaseIsExclusive, leaseVars
<1>3. CapacityIsExact'
  BY CapacityKept DEF Begin, IInv, TypeOK, CapacityHolders, leaseVars
<1>4. GateIsHeld'
  BY SessionAssumption DEF Begin, IInv, TypeOK, GateIsHeld, SessionsLive, Admitted, GateHolders,
     leaseVars
<1>5. SessionsLive'
  BY SessionAssumption DEF Begin, IInv, TypeOK, LeaseIsExclusive, GateIsHeld, SessionsLive,
     RecordsFollow, Admitted, GateHolders, Written, leaseVars
<1>6. RecordsFollow'
  BY SessionAssumption DEF Begin, IInv, TypeOK, GateIsHeld, SessionsLive, RecordsFollow, Admitted,
     GateHolders, Written, leaseVars
<1> QED
  BY <1>1, <1>2, <1>3, <1>4, <1>5, <1>6 DEF IInv

LEMMA GiveUpPreserves ==
  ASSUME IInv, NEW r \in Runs, GiveUp(r)
  PROVE  IInv'
<1>1. TypeOK'
  BY SessionAssumption DEF GiveUp, IInv, TypeOK, GateHolders, leaseVars
<1>2. LeaseIsExclusive'
  BY SessionAssumption DEF GiveUp, IInv, TypeOK, LeaseIsExclusive, leaseVars
<1>3. CapacityIsExact'
  BY CapacityKept DEF GiveUp, IInv, TypeOK, CapacityHolders, leaseVars
<1>4. GateIsHeld'
  BY SessionAssumption DEF GiveUp, IInv, TypeOK, GateIsHeld, SessionsLive, Admitted, GateHolders,
     leaseVars
<1>5. SessionsLive'
  BY SessionAssumption DEF GiveUp, IInv, TypeOK, LeaseIsExclusive, GateIsHeld, SessionsLive,
     RecordsFollow, Admitted, GateHolders, Written, leaseVars
<1>6. RecordsFollow'
  BY SessionAssumption DEF GiveUp, IInv, TypeOK, GateIsHeld, SessionsLive, RecordsFollow,
     Admitted, GateHolders, Written, leaseVars
<1> QED
  BY <1>1, <1>2, <1>3, <1>4, <1>5, <1>6 DEF IInv

\* The token is taken only where no finish is left to recover.
LEMMA AcquirePreserves ==
  ASSUME IInv, NEW r \in Runs, Acquire(r)
  PROVE  IInv'
<1>1. TypeOK'
  BY SessionAssumption DEF Acquire, IInv, TypeOK, GateHolders, leaseVars
<1>2. LeaseIsExclusive'
  BY SessionAssumption DEF Acquire, IInv, TypeOK, LeaseIsExclusive, leaseVars
<1>3. CapacityIsExact'
  BY CapacityKept DEF Acquire, IInv, TypeOK, CapacityHolders, leaseVars
<1>4. GateIsHeld'
  BY SessionAssumption DEF Acquire, IInv, TypeOK, GateIsHeld, SessionsLive, Admitted, GateHolders,
     leaseVars
<1>5. SessionsLive'
  BY SessionAssumption DEF Acquire, IInv, TypeOK, LeaseIsExclusive, GateIsHeld, SessionsLive,
     RecordsFollow, Admitted, GateHolders, Written, leaseVars
<1>6. RecordsFollow'
  BY SessionAssumption DEF Acquire, IInv, TypeOK, GateIsHeld, SessionsLive, RecordsFollow,
     Admitted, GateHolders, Written, leaseVars
<1> QED
  BY <1>1, <1>2, <1>3, <1>4, <1>5, <1>6 DEF IInv

LEMMA RefusePreserves ==
  ASSUME IInv, NEW r \in Runs, Refuse(r)
  PROVE  IInv'
<1>1. TypeOK'
  BY SessionAssumption DEF Refuse, IInv, TypeOK, GateHolders, leaseVars
<1>2. LeaseIsExclusive'
  BY SessionAssumption DEF Refuse, IInv, TypeOK, LeaseIsExclusive, leaseVars
<1>3. CapacityIsExact'
  BY CapacityKept DEF Refuse, IInv, TypeOK, CapacityHolders, leaseVars
<1>4. GateIsHeld'
  BY SessionAssumption DEF Refuse, IInv, TypeOK, GateIsHeld, SessionsLive, Admitted, GateHolders,
     leaseVars
<1>5. SessionsLive'
  BY SessionAssumption DEF Refuse, IInv, TypeOK, LeaseIsExclusive, GateIsHeld, SessionsLive,
     RecordsFollow, Admitted, GateHolders, Written, leaseVars
<1>6. RecordsFollow'
  BY SessionAssumption DEF Refuse, IInv, TypeOK, GateIsHeld, SessionsLive, RecordsFollow,
     Admitted, GateHolders, Written, leaseVars
<1> QED
  BY <1>1, <1>2, <1>3, <1>4, <1>5, <1>6 DEF IInv

LEMMA AcquireCapacityPreserves ==
  ASSUME IInv, NEW r \in Runs, AcquireCapacity(r)
  PROVE  IInv'
<1>1. TypeOK'
  BY SessionAssumption DEF AcquireCapacity, IInv, TypeOK, GateHolders, leaseVars
<1>2. LeaseIsExclusive'
  BY SessionAssumption DEF AcquireCapacity, IInv, TypeOK, LeaseIsExclusive, leaseVars
<1>3. CapacityIsExact'
  <2>1. r \in Runs \ HaveCapacity /\ HaveCapacity' = HaveCapacity \cup {r}
    BY DEF AcquireCapacity, IInv, TypeOK, HaveCapacity, CapacityHolders
  <2> QED
    BY <2>1, CapacityCounts DEF AcquireCapacity, IInv, CapacityIsExact, HaveCapacity
<1>4. GateIsHeld'
  BY SessionAssumption DEF AcquireCapacity, IInv, TypeOK, GateIsHeld, SessionsLive, Admitted,
     GateHolders, leaseVars
<1>5. SessionsLive'
  BY SessionAssumption DEF AcquireCapacity, IInv, TypeOK, LeaseIsExclusive, GateIsHeld,
     SessionsLive, RecordsFollow, Admitted, GateHolders, Written, leaseVars
<1>6. RecordsFollow'
  BY SessionAssumption DEF AcquireCapacity, IInv, TypeOK, GateIsHeld, SessionsLive, RecordsFollow,
     Admitted, GateHolders, Written, leaseVars
<1> QED
  BY <1>1, <1>2, <1>3, <1>4, <1>5, <1>6 DEF IInv

LEMMA AbandonPreserves ==
  ASSUME IInv, NEW r \in Runs, Abandon(r)
  PROVE  IInv'
<1>1. TypeOK'
  BY SessionAssumption DEF Abandon, ReleaseGate, IInv, TypeOK, GateHolders, leaseVars
<1>2. LeaseIsExclusive'
  BY SessionAssumption DEF Abandon, ReleaseGate, IInv, TypeOK, LeaseIsExclusive, leaseVars
<1>3. CapacityIsExact'
  BY CapacityKept DEF Abandon, ReleaseGate, IInv, TypeOK, CapacityHolders, leaseVars
<1>4. GateIsHeld'
  BY SessionAssumption DEF Abandon, ReleaseGate, IInv, TypeOK, GateIsHeld, SessionsLive, Admitted,
     GateHolders, leaseVars
<1>5. SessionsLive'
  BY SessionAssumption DEF Abandon, ReleaseGate, IInv, TypeOK, LeaseIsExclusive, GateIsHeld,
     SessionsLive, RecordsFollow, Admitted, GateHolders, Written, leaseVars
<1>6. RecordsFollow'
  BY SessionAssumption DEF Abandon, ReleaseGate, IInv, TypeOK, GateIsHeld, SessionsLive,
     RecordsFollow, Admitted, GateHolders, Written, leaseVars
<1> QED
  BY <1>1, <1>2, <1>3, <1>4, <1>5, <1>6 DEF IInv

LEMMA StartRunPreserves ==
  ASSUME IInv, NEW r \in Runs, StartRun(r)
  PROVE  IInv'
<1>1. TypeOK'
  BY SessionAssumption DEF StartRun, IInv, TypeOK, GateHolders, leaseVars
<1>2. LeaseIsExclusive'
  BY SessionAssumption DEF StartRun, IInv, TypeOK, LeaseIsExclusive, leaseVars
<1>3. CapacityIsExact'
  BY CapacityKept DEF StartRun, IInv, TypeOK, CapacityHolders, leaseVars
<1>4. GateIsHeld'
  BY SessionAssumption DEF StartRun, IInv, TypeOK, GateIsHeld, SessionsLive, Admitted,
     GateHolders, leaseVars
<1>5. SessionsLive'
  BY SessionAssumption DEF StartRun, IInv, TypeOK, LeaseIsExclusive, GateIsHeld, SessionsLive,
     RecordsFollow, Admitted, GateHolders, Written, leaseVars
<1>6. RecordsFollow'
  BY SessionAssumption DEF StartRun, IInv, TypeOK, GateIsHeld, SessionsLive, RecordsFollow,
     Admitted, GateHolders, Written, leaseVars
<1> QED
  BY <1>1, <1>2, <1>3, <1>4, <1>5, <1>6 DEF IInv

LEMMA StartFailsPreserves ==
  ASSUME IInv, NEW r \in Runs, StartFails(r)
  PROVE  IInv'
<1>1. TypeOK'
  <2>1. limiter' \in 0 .. Capacity
    BY CapacityReturned DEF StartFails, IInv, CapacityHolders
  <2> QED
    BY <2>1 DEF StartFails, ReleaseGate, IInv, TypeOK, leaseVars
<1>2. LeaseIsExclusive'
  BY SessionAssumption DEF StartFails, ReleaseGate, IInv, TypeOK, LeaseIsExclusive, leaseVars
<1>3. CapacityIsExact'
  BY CapacityReturned DEF StartFails, IInv, CapacityHolders
<1>4. GateIsHeld'
  BY SessionAssumption DEF StartFails, ReleaseGate, IInv, TypeOK, GateIsHeld, SessionsLive,
     Admitted, GateHolders, leaseVars
<1>5. SessionsLive'
  BY SessionAssumption DEF StartFails, ReleaseGate, IInv, TypeOK, LeaseIsExclusive, GateIsHeld,
     SessionsLive, RecordsFollow, Admitted, GateHolders, Written, leaseVars
<1>6. RecordsFollow'
  BY SessionAssumption DEF StartFails, ReleaseGate, IInv, TypeOK, GateIsHeld, SessionsLive,
     RecordsFollow, Admitted, GateHolders, Written, leaseVars
<1> QED
  BY <1>1, <1>2, <1>3, <1>4, <1>5, <1>6 DEF IInv

LEMMA EndRunPreserves ==
  ASSUME IInv, NEW r \in Runs, EndRun(r)
  PROVE  IInv'
<1>1. TypeOK'
  BY SessionAssumption DEF EndRun, IInv, TypeOK, GateHolders, leaseVars
<1>2. LeaseIsExclusive'
  BY SessionAssumption DEF EndRun, IInv, TypeOK, LeaseIsExclusive, leaseVars
<1>3. CapacityIsExact'
  BY CapacityKept DEF EndRun, IInv, TypeOK, CapacityHolders, leaseVars
<1>4. GateIsHeld'
  BY SessionAssumption DEF EndRun, IInv, TypeOK, GateIsHeld, SessionsLive, Admitted, GateHolders,
     leaseVars
<1>5. SessionsLive'
  BY SessionAssumption DEF EndRun, IInv, TypeOK, LeaseIsExclusive, GateIsHeld, SessionsLive,
     RecordsFollow, Admitted, GateHolders, Written, leaseVars
<1>6. RecordsFollow'
  BY SessionAssumption DEF EndRun, IInv, TypeOK, GateIsHeld, SessionsLive, RecordsFollow,
     Admitted, GateHolders, Written, leaseVars
<1> QED
  BY <1>1, <1>2, <1>3, <1>4, <1>5, <1>6 DEF IInv

\* The terminal write either ends the record or leaves the run to the recovery.
LEMMA FinishPreserves ==
  ASSUME IInv, NEW r \in Runs, Finish(r)
  PROVE  IInv'
<1>1. TypeOK'
  BY SessionAssumption DEF Finish, WriteFinish, IInv, TypeOK, GateHolders, leaseVars
<1>2. LeaseIsExclusive'
  BY SessionAssumption DEF Finish, WriteFinish, IInv, TypeOK, LeaseIsExclusive, leaseVars
<1>3. CapacityIsExact'
  BY CapacityKept DEF Finish, WriteFinish, IInv, TypeOK, CapacityHolders, leaseVars
<1>4. GateIsHeld'
  BY SessionAssumption DEF Finish, WriteFinish, IInv, TypeOK, GateIsHeld, SessionsLive, Admitted,
     GateHolders, leaseVars
<1>5. SessionsLive'
  BY SessionAssumption DEF Finish, WriteFinish, IInv, TypeOK, LeaseIsExclusive, GateIsHeld,
     SessionsLive, RecordsFollow, Admitted, GateHolders, Written, leaseVars
<1>6. RecordsFollow'
  BY SessionAssumption DEF Finish, WriteFinish, IInv, TypeOK, GateIsHeld, SessionsLive,
     RecordsFollow, Admitted, GateHolders, Written, leaseVars
<1> QED
  BY <1>1, <1>2, <1>3, <1>4, <1>5, <1>6 DEF IInv

LEMMA ReleaseAdmissionPreserves ==
  ASSUME IInv, NEW r \in Runs, ReleaseAdmission(r)
  PROVE  IInv'
<1>1. TypeOK'
  <2>1. limiter' \in 0 .. Capacity
    BY CapacityReturned DEF ReleaseAdmission, IInv, CapacityHolders
  <2> QED
    BY <2>1 DEF ReleaseAdmission, ReleaseGate, IInv, TypeOK, leaseVars
<1>2. LeaseIsExclusive'
  BY SessionAssumption DEF ReleaseAdmission, ReleaseGate, IInv, TypeOK, LeaseIsExclusive, leaseVars
<1>3. CapacityIsExact'
  BY CapacityReturned DEF ReleaseAdmission, IInv, CapacityHolders
<1>4. GateIsHeld'
  BY SessionAssumption DEF ReleaseAdmission, ReleaseGate, IInv, TypeOK, GateIsHeld, SessionsLive,
     Admitted, GateHolders, leaseVars
<1>5. SessionsLive'
  BY SessionAssumption DEF ReleaseAdmission, ReleaseGate, IInv, TypeOK, LeaseIsExclusive,
     GateIsHeld, SessionsLive, RecordsFollow, Admitted, GateHolders, Written, leaseVars
<1>6. RecordsFollow'
  BY SessionAssumption DEF ReleaseAdmission, ReleaseGate, IInv, TypeOK, GateIsHeld, SessionsLive,
     RecordsFollow, Admitted, GateHolders, Written, leaseVars
<1> QED
  BY <1>1, <1>2, <1>3, <1>4, <1>5, <1>6 DEF IInv

LEMMA DeliverTerminalPreserves ==
  ASSUME IInv, NEW r \in Runs, DeliverTerminal(r)
  PROVE  IInv'
<1>1. TypeOK'
  BY SessionAssumption DEF DeliverTerminal, IInv, TypeOK, GateHolders, leaseVars
<1>2. LeaseIsExclusive'
  BY SessionAssumption DEF DeliverTerminal, IInv, TypeOK, LeaseIsExclusive, leaseVars
<1>3. CapacityIsExact'
  BY CapacityKept DEF DeliverTerminal, IInv, TypeOK, CapacityHolders, leaseVars
<1>4. GateIsHeld'
  BY SessionAssumption DEF DeliverTerminal, IInv, TypeOK, GateIsHeld, SessionsLive, Admitted,
     GateHolders, leaseVars
<1>5. SessionsLive'
  BY SessionAssumption DEF DeliverTerminal, IInv, TypeOK, LeaseIsExclusive, GateIsHeld,
     SessionsLive, RecordsFollow, Admitted, GateHolders, Written, leaseVars
<1>6. RecordsFollow'
  BY SessionAssumption DEF DeliverTerminal, IInv, TypeOK, GateIsHeld, SessionsLive, RecordsFollow,
     Admitted, GateHolders, Written, leaseVars
<1> QED
  BY <1>1, <1>2, <1>3, <1>4, <1>5, <1>6 DEF IInv

LEMMA RecoverReadPreserves ==
  ASSUME IInv, NEW c \in Recoverers, NEW s \in Sessions, RecoverRead(c, s)
  PROVE  IInv'
<1>1. TypeOK'
  BY SessionAssumption DEF RecoverRead, IInv, TypeOK, GateHolders, runVars, leaseVars
<1>2. LeaseIsExclusive'
  BY SessionAssumption DEF RecoverRead, IInv, TypeOK, LeaseIsExclusive, runVars, leaseVars
<1>3. CapacityIsExact'
  BY CapacityKept DEF RecoverRead, IInv, TypeOK, CapacityHolders, runVars, leaseVars
<1>4. GateIsHeld'
  BY SessionAssumption DEF RecoverRead, IInv, TypeOK, GateIsHeld, SessionsLive, Admitted,
     GateHolders, runVars, leaseVars
<1>5. SessionsLive'
  BY SessionAssumption DEF RecoverRead, IInv, TypeOK, LeaseIsExclusive, GateIsHeld, SessionsLive,
     RecordsFollow, Admitted, GateHolders, Written, runVars, leaseVars
<1>6. RecordsFollow'
  BY SessionAssumption DEF RecoverRead, IInv, TypeOK, GateIsHeld, SessionsLive, RecordsFollow,
     Admitted, GateHolders, Written, runVars, leaseVars
<1> QED
  BY <1>1, <1>2, <1>3, <1>4, <1>5, <1>6 DEF IInv

\* A scope read long ago is written only while its run is still unfinished.
LEMMA RecoverFinishPreserves ==
  ASSUME IInv, NEW c \in Recoverers, RecoverFinish(c)
  PROVE  IInv'
<1>1. TypeOK'
  BY SessionAssumption DEF RecoverFinish, WriteFinish, IInv, TypeOK, GateHolders, leaseVars
<1>2. LeaseIsExclusive'
  BY SessionAssumption DEF RecoverFinish, WriteFinish, IInv, TypeOK, LeaseIsExclusive, leaseVars
<1>3. CapacityIsExact'
  BY CapacityKept DEF RecoverFinish, WriteFinish, IInv, TypeOK, CapacityHolders, leaseVars
<1>4. GateIsHeld'
  BY SessionAssumption DEF RecoverFinish, WriteFinish, IInv, TypeOK, GateIsHeld, SessionsLive,
     Admitted, GateHolders, leaseVars
<1>5. SessionsLive'
  BY SessionAssumption DEF RecoverFinish, WriteFinish, IInv, TypeOK, LeaseIsExclusive, GateIsHeld,
     SessionsLive, RecordsFollow, Admitted, GateHolders, Written, leaseVars
<1>6. RecordsFollow'
  BY SessionAssumption DEF RecoverFinish, WriteFinish, IInv, TypeOK, GateIsHeld, SessionsLive,
     RecordsFollow, Admitted, GateHolders, Written, leaseVars
<1> QED
  BY <1>1, <1>2, <1>3, <1>4, <1>5, <1>6 DEF IInv

\* Close takes the token like a run; while a finish is to be recovered it keeps the lease.
LEMMA ClosePreserves ==
  ASSUME IInv, NEW s \in Sessions, Close(s)
  PROVE  IInv'
<1>1. TypeOK'
  BY SessionAssumption DEF Close, IInv, TypeOK, GateHolders, runVars
<1>2. LeaseIsExclusive'
  BY SessionAssumption DEF Close, IInv, TypeOK, LeaseIsExclusive, runVars
<1>3. CapacityIsExact'
  BY CapacityKept DEF Close, IInv, TypeOK, CapacityHolders, runVars
<1>4. GateIsHeld'
  BY SessionAssumption DEF Close, IInv, TypeOK, GateIsHeld, SessionsLive, Admitted, GateHolders,
     runVars
<1>5. SessionsLive'
  BY SessionAssumption DEF Close, IInv, TypeOK, LeaseIsExclusive, GateIsHeld, SessionsLive,
     RecordsFollow, Admitted, GateHolders, Written, runVars
<1>6. RecordsFollow'
  BY SessionAssumption DEF Close, IInv, TypeOK, GateIsHeld, SessionsLive, RecordsFollow, Admitted,
     GateHolders, Written, runVars
<1> QED
  BY <1>1, <1>2, <1>3, <1>4, <1>5, <1>6 DEF IInv

LEMMA CloseServicesPreserves ==
  ASSUME IInv, NEW s \in Sessions, CloseServices(s)
  PROVE  IInv'
<1>1. TypeOK'
  <2>1. cleanupErr' \in [Sessions -> BOOLEAN]
    BY DEF CloseServices, IInv, TypeOK
  <2> QED
    BY <2>1 DEF CloseServices, ReleaseGate, IInv, TypeOK, runVars
<1>2. LeaseIsExclusive'
  BY SessionAssumption DEF CloseServices, ReleaseGate, IInv, TypeOK, LeaseIsExclusive, runVars
<1>3. CapacityIsExact'
  BY CapacityKept DEF CloseServices, ReleaseGate, IInv, TypeOK, CapacityHolders, runVars
<1>4. GateIsHeld'
  BY SessionAssumption DEF CloseServices, ReleaseGate, IInv, TypeOK, GateIsHeld, SessionsLive,
     Admitted, GateHolders, runVars
<1>5. SessionsLive'
  BY SessionAssumption DEF CloseServices, ReleaseGate, IInv, TypeOK, LeaseIsExclusive, GateIsHeld,
     SessionsLive, RecordsFollow, Admitted, GateHolders, Written, runVars
<1>6. RecordsFollow'
  BY SessionAssumption DEF CloseServices, ReleaseGate, IInv, TypeOK, GateIsHeld, SessionsLive,
     RecordsFollow, Admitted, GateHolders, Written, runVars
<1> QED
  BY <1>1, <1>2, <1>3, <1>4, <1>5, <1>6 DEF IInv

-----------------------------------------------------------------------------

LEMMA InitEstablishes == Init => IInv
<1> SUFFICES ASSUME Init PROVE IInv
  OBVIOUS
<1>1. TypeOK
  BY SessionAssumption DEF Init, TypeOK
<1>2. LeaseIsExclusive /\ GateIsHeld /\ SessionsLive /\ RecordsFollow
  BY SessionAssumption DEF Init, LeaseIsExclusive, GateIsHeld, SessionsLive, RecordsFollow,
     Admitted, GateHolders, Written
<1>3. CapacityIsExact
  <2>1. {r \in Runs : pc[r] \in CapacityHolders} = {}
    BY DEF Init, CapacityHolders
  <2> QED
    BY <2>1, FS_EmptySet DEF Init, CapacityIsExact
<1> QED
  BY <1>1, <1>2, <1>3 DEF IInv

LEMMA NextPreserves ==
  ASSUME IInv, Next
  PROVE  IInv'
<1>1. CASE \E s \in Sessions :
              \/ Claim(s) \/ InitServices(s) \/ InitFails(s) \/ Close(s) \/ CloseServices(s)
              \/ \E r \in Runs : Begin(r, s)
              \/ \E c \in Recoverers : RecoverRead(c, s)
  BY <1>1, ClaimPreserves, InitServicesPreserves, InitFailsPreserves, ClosePreserves,
     CloseServicesPreserves, BeginPreserves, RecoverReadPreserves
<1>2. CASE \E r \in Runs :
              \/ GiveUp(r) \/ Acquire(r) \/ Refuse(r) \/ AcquireCapacity(r) \/ Abandon(r)
              \/ StartRun(r) \/ StartFails(r) \/ EndRun(r) \/ Finish(r)
              \/ ReleaseAdmission(r) \/ DeliverTerminal(r)
  BY <1>2, GiveUpPreserves, AcquirePreserves, RefusePreserves, AcquireCapacityPreserves,
     AbandonPreserves, StartRunPreserves, StartFailsPreserves, EndRunPreserves,
     FinishPreserves, ReleaseAdmissionPreserves, DeliverTerminalPreserves
<1>3. CASE \E c \in Recoverers : RecoverFinish(c)
  BY <1>3, RecoverFinishPreserves
<1> QED
  BY <1>1, <1>2, <1>3 DEF Next

LEMMA StutterPreserves == IInv /\ UNCHANGED vars => IInv'
  BY DEF IInv, vars, TypeOK, LeaseIsExclusive, CapacityIsExact, GateIsHeld, SessionsLive,
     RecordsFollow, Admitted

\* Who holds the leases and the tokens of admission, in every reachable state.
THEOREM Invariance == Spec => []IInv
  BY InitEstablishes, NextPreserves, StutterPreserves, PTL DEF Spec

\* The variables of the harness, its sessions and its runs keep their types
\* (session_lifecycle.go, run_scope.go).
THEOREM TypeCorrect == Spec => []TypeOK
  BY Invariance, PTL DEF IInv

\* The token in the gate channel and those who hold it are one in number.
LEMMA TokensAreCounted == IInv => GateIsExact
<1> SUFFICES ASSUME IInv, NEW s \in Sessions
             PROVE  Cardinality(HoldersOf(s)) + (IF closing[s] THEN 1 ELSE 0)
                        = (IF gate[s] THEN 0 ELSE 1)
  BY DEF GateIsExact
<1>1. CASE gate[s] \/ closing[s]
  <2>1. HoldersOf(s) = {}
    BY <1>1 DEF HoldersOf, IInv, GateIsHeld, Admitted
  <2>2. gate[s] => ~closing[s]
    BY DEF IInv, GateIsHeld
  <2>3. Cardinality(HoldersOf(s)) = 0
    BY <2>1, FS_EmptySet
  <2> QED
    BY <1>1, <2>2, <2>3
<1>2. CASE ~gate[s] /\ ~closing[s]
  <2>1. PICK r \in Runs : Admitted(r) /\ owner[r] = s
    BY <1>2 DEF IInv, GateIsHeld
  <2>2. HoldersOf(s) = {r}
    BY <2>1 DEF HoldersOf, IInv, GateIsHeld, Admitted
  <2>3. Cardinality(HoldersOf(s)) = 1
    BY <2>2, FS_Singleton
  <2> QED
    BY <1>2, <2>3
<1> QED
  BY <1>1, <1>2

\* Started runs of one stored session are runs of the AgentSession that holds its lease.
LEMMA UnfinishedRunIsAlone == IInv => OneUnfinishedRun
<1> SUFFICES ASSUME IInv, NEW q \in Runs, NEW r \in Runs,
                    record[q] = "started", record[r] = "started",
                    IdOf[owner[q]] = IdOf[owner[r]]
             PROVE  q = r
  BY DEF OneUnfinishedRun
<1>1. \A p \in {q, r} : Admitted(p) \/ recovery[owner[p]] = p
  BY DEF IInv, TypeOK, RecordsFollow, Admitted, GateHolders, Written
<1>2. \A p \in {q, r} : owner[p] \in Sessions /\ life[owner[p]] = "live"
  <2>1. \A p \in {q, r} : pc[p] # "new"
    BY DEF IInv, RecordsFollow, Written
  <2>2. \A p \in {q, r} : owner[p] \in Sessions
    BY <2>1 DEF IInv, TypeOK, SessionsLive
  <2> QED
    BY <1>1, <2>2, SessionAssumption DEF IInv, SessionsLive
<1>3. owner[q] = owner[r]
  BY <1>2 DEF IInv, LeaseIsExclusive
<1> QED
  BY <1>1, <1>2, <1>3, SessionAssumption DEF IInv, TypeOK, GateIsHeld, RecordsFollow, Admitted,
     GateHolders, Written

\* A session keeps the run whose terminal write failed.
LEMMA RecoveryIsKept == IInv => RecoveryIsExact
  BY DEF IInv, RecordsFollow, RecoveryIsExact, Written

\* Open, BeginRun, Run, RecoverRunFinish and Close give back what they took and no more, and
\* a run that was not durably finished is kept for recovery and keeps every other run out.
THEOREM AdmissionStaysExact == Spec => []AdmissionIsExact
<1>1. IInv => AdmissionIsExact
  BY TokensAreCounted, UnfinishedRunIsAlone, RecoveryIsKept DEF AdmissionIsExact, IInv
<1> QED
  BY <1>1, Invariance, PTL

\* No Close takes the external services of a session from a run it admitted.
THEOREM ServicesAreHeld == Spec => ServicesOutliveRuns
<1>1. IInv /\ [Next]_vars =>
        \A s \in Sessions :
            services[s] = "open" /\ services'[s] = "closed" => HoldersOf(s) = {}
  <2> SUFFICES ASSUME IInv, [Next]_vars, NEW s \in Sessions,
                      services[s] = "open", services'[s] = "closed"
               PROVE  HoldersOf(s) = {}
    OBVIOUS
  <2>1. closing[s]
    BY DEF Next, vars, runVars, leaseVars, IInv, TypeOK, Claim, InitServices, InitFails, Begin,
       GiveUp, Acquire, Refuse, AcquireCapacity, Abandon, StartRun, StartFails, EndRun, Finish,
       ReleaseAdmission, DeliverTerminal, RecoverRead, RecoverFinish, Close, CloseServices
  <2> QED
    BY <2>1 DEF IInv, GateIsHeld, HoldersOf, Admitted
<1> QED
  BY <1>1, Invariance, PTL DEF Spec, ServicesOutliveRuns

-----------------------------------------------------------------------------
(* RecoverRunFinish in one step: nobody else holds the scope it read.         *)

RecoverAtOnce(r) ==
    /\ pc[r] # "finishing" /\ WriteFinish(r)
    /\ UNCHANGED <<limiter, owner, pc, gate, recoverer, leaseVars>>

\* A recovery that reads and writes in one step keeps what AgentSession promises.
LEMMA RecoverAtOncePreserves ==
  ASSUME IInv, NEW s \in Sessions, recovery[s] # None, RecoverAtOnce(recovery[s])
  PROVE  IInv'
<1> DEFINE r == recovery[s]
<1>1. /\ r \in Runs /\ owner[r] = s /\ recovery[s] = r
      /\ pc[r] \in {"released", "done"} /\ record[r] = "started"
  BY SessionAssumption DEF IInv, TypeOK, RecordsFollow, Written, RecoverAtOnce
<1>2. UNCHANGED <<limiter, owner, pc, gate, recoverer, leaseVars>>
  BY DEF RecoverAtOnce
<1> HIDE DEF r
<1>3. \/ record' = [record EXCEPT ![r] = "finished"] /\ recovery' = [recovery EXCEPT ![s] = None]
      \/ UNCHANGED <<record, recovery>>
  BY <1>1 DEF RecoverAtOnce, WriteFinish, IInv, TypeOK
<1>4. TypeOK'
  BY <1>1, <1>2, <1>3 DEF IInv, TypeOK, leaseVars
<1>5. LeaseIsExclusive'
  BY <1>2 DEF IInv, LeaseIsExclusive, leaseVars
<1>6. CapacityIsExact'
  BY <1>2, CapacityKept DEF IInv
<1>7. GateIsHeld'
  BY <1>2 DEF IInv, GateIsHeld, Admitted, leaseVars
<1>8. SessionsLive'
  <2>1. \A t \in Sessions : recovery'[t] # None => recovery[t] # None
    BY <1>1, <1>3 DEF IInv, TypeOK
  <2> QED
    BY <2>1, <1>2 DEF IInv, SessionsLive, Admitted, leaseVars
<1>9. RecordsFollow'
  <2>1. CASE UNCHANGED <<record, recovery>>
    BY <2>1, <1>2 DEF IInv, RecordsFollow, Admitted
  <2>2. CASE record' = [record EXCEPT ![r] = "finished"]
            /\ recovery' = [recovery EXCEPT ![s] = None]
    <3>1. /\ record'[r] = "finished" /\ \A q \in Runs : q # r => record'[q] = record[q]
          /\ recovery'[s] = None /\ \A t \in Sessions : t # s => recovery'[t] = recovery[t]
      BY <2>2, <1>1 DEF IInv, TypeOK
    <3>2. \A q \in Runs : q # r => recovery[s] # q
      BY <1>1
    <3> QED
      BY <3>1, <3>2, <1>1, <1>2, SessionAssumption
      DEF IInv, TypeOK, RecordsFollow, SessionsLive, Admitted, GateHolders, Written
  <2> QED
    BY <1>3, <2>1, <2>2
<1> QED
  BY <1>4, <1>5, <1>6, <1>7, <1>8, <1>9 DEF IInv

\* What the lifecycle's steps and stutters keep.
LEMMA LifecyclePreserves == IInv /\ [Next]_vars => IInv'
  BY NextPreserves, StutterPreserves

-----------------------------------------------------------------------------
(* A Feishu conversation.                                                     *)

\* One task at a time is past conversation, and it holds the slot while it prepares.
SlotIsHeld ==
    /\ \A t \in Runs : task[t] \in {"preparing", "replacing", "opening", "opened"} <=> slot = t
    /\ slot = Factory <=> factory = "shutting"
    /\ shut # "idle" => live # None /\ (slot = Factory \/ (slot \in Runs
           /\ task[slot] = "preparing"))
    /\ \A t \in Runs : task[t] \in {"opened", "prepared"} => live # None
    /\ \A t \in Runs : task[t] \in {"replacing", "opening"} => live = None
    /\ \A t, u \in Runs : task[t] \notin {"new", "end"} /\ task[u] \notin {"new", "end"} => t = u
    /\ (\A t \in Runs : task[t] = "new") => live = None

\* What lives is the session in the slot's keeping, or the one being opened.
LiveIsKept ==
    /\ \A s \in Sessions : life[s] = "live" \/ services[s] = "open" => s = live
    /\ \A s \in Sessions : life[s] = "opening" =>
          /\ slot \in Runs /\ task[slot] = "opening"
          /\ \A t \in Sessions : life[t] = "opening" => s = t
    /\ live # None => life[live] \in {"live", "closed"}
    /\ \A s \in Sessions : services[s] = "open" => life[s] = "live" \/ closing[s]
    /\ \A s \in Sessions : closing[s] => s = live /\ shut = "services"

\* How far closeFeishuSession got with it.
ShutFollows ==
    /\ shut = "services" => closing[live] /\ (life[live] = "closed" \/ shutErr)
    /\ shut = "done" /\ ~shutErr => life[live] = "closed" /\ services[live] # "open"
    /\ factory = "done" => slot = None /\ \A s \in Sessions : life[s] \notin {"opening", "live"}

ConvInv == IInv /\ ConvTypeOK /\ SlotIsHeld /\ LiveIsKept /\ ShutFollows

LEMMA EnterPreserves ==
  ASSUME ConvInv, NEW t \in Runs, Enter(t)
  PROVE  ConvInv'
<1>1. IInv'
  BY StutterPreserves DEF Enter, ConvInv, sessionVars, leaseVars, runVars, vars
<1>2. ConvTypeOK'
  BY <1>1 DEF Enter, ConvInv, IInv, ConvTypeOK, SlotIsHeld, Goto
<1>3. SlotIsHeld'
  BY FactoryAssumption, SessionAssumption
  DEF Enter, ConvInv, ConvTypeOK, SlotIsHeld, ShutFollows, Goto
<1>4. LiveIsKept'
  BY FactoryAssumption, SessionAssumption
  DEF Enter, ConvInv, TypeOK, ConvTypeOK, SlotIsHeld, LiveIsKept, ShutFollows, Goto, sessionVars,
      leaseVars, runVars
<1>5. ShutFollows'
  BY FactoryAssumption, SessionAssumption
  DEF Enter, ConvInv, TypeOK, ConvTypeOK, SlotIsHeld, LiveIsKept, ShutFollows, Goto, sessionVars,
      leaseVars, runVars
<1> QED
  BY <1>1, <1>2, <1>3, <1>4, <1>5 DEF ConvInv

LEMMA EnterCancelledPreserves ==
  ASSUME ConvInv, NEW t \in Runs, EnterCancelled(t)
  PROVE  ConvInv'
<1>1. IInv'
  BY StutterPreserves DEF EnterCancelled, ConvInv, sessionVars, leaseVars, runVars, vars
<1>2. ConvTypeOK'
  BY <1>1 DEF EnterCancelled, ConvInv, IInv, ConvTypeOK, SlotIsHeld, Goto
<1>3. SlotIsHeld'
  BY FactoryAssumption, SessionAssumption
  DEF EnterCancelled, ConvInv, ConvTypeOK, SlotIsHeld, ShutFollows, Goto
<1>4. LiveIsKept'
  BY FactoryAssumption, SessionAssumption
  DEF EnterCancelled, ConvInv, TypeOK, ConvTypeOK, SlotIsHeld, LiveIsKept, ShutFollows, Goto,
      sessionVars, leaseVars, runVars
<1>5. ShutFollows'
  BY FactoryAssumption, SessionAssumption
  DEF EnterCancelled, ConvInv, TypeOK, ConvTypeOK, SlotIsHeld, LiveIsKept, ShutFollows, Goto,
      sessionVars, leaseVars, runVars
<1> QED
  BY <1>1, <1>2, <1>3, <1>4, <1>5 DEF ConvInv

LEMMA LockPreserves ==
  ASSUME ConvInv, NEW t \in Runs, Lock(t)
  PROVE  ConvInv'
<1>1. IInv'
  BY StutterPreserves DEF Lock, ConvInv, sessionVars, leaseVars, runVars, vars
<1>2. ConvTypeOK'
  BY <1>1 DEF Lock, ConvInv, IInv, ConvTypeOK, SlotIsHeld, Goto
<1>3. SlotIsHeld'
  BY FactoryAssumption, SessionAssumption
  DEF Lock, ConvInv, ConvTypeOK, SlotIsHeld, ShutFollows, Goto
<1>4. LiveIsKept'
  BY FactoryAssumption, SessionAssumption
  DEF Lock, ConvInv, TypeOK, ConvTypeOK, SlotIsHeld, LiveIsKept, ShutFollows, Goto, sessionVars,
      leaseVars, runVars
<1>5. ShutFollows'
  BY FactoryAssumption, SessionAssumption
  DEF Lock, ConvInv, TypeOK, ConvTypeOK, SlotIsHeld, LiveIsKept, ShutFollows, Goto, sessionVars,
      leaseVars, runVars
<1> QED
  BY <1>1, <1>2, <1>3, <1>4, <1>5 DEF ConvInv

LEMMA ForceNewPreserves ==
  ASSUME ConvInv, NEW t \in Runs, ForceNew(t)
  PROVE  ConvInv'
<1>1. IInv'
  BY StutterPreserves DEF ForceNew, ConvInv, sessionVars, leaseVars, runVars, vars
<1>2. ConvTypeOK'
  BY <1>1 DEF ForceNew, ConvInv, IInv, ConvTypeOK, SlotIsHeld, Goto, BeginShut
<1>3. SlotIsHeld'
  BY FactoryAssumption, SessionAssumption
  DEF ForceNew, ConvInv, ConvTypeOK, SlotIsHeld, ShutFollows, Goto, BeginShut
<1>4. LiveIsKept'
  BY FactoryAssumption, SessionAssumption
  DEF ForceNew, ConvInv, TypeOK, ConvTypeOK, SlotIsHeld, LiveIsKept, ShutFollows, Goto, BeginShut,
      sessionVars, leaseVars, runVars
<1>5. ShutFollows'
  BY FactoryAssumption, SessionAssumption
  DEF ForceNew, ConvInv, TypeOK, ConvTypeOK, SlotIsHeld, LiveIsKept, ShutFollows, Goto, BeginShut,
      sessionVars, leaseVars, runVars
<1> QED
  BY <1>1, <1>2, <1>3, <1>4, <1>5 DEF ConvInv

\* The replacement is prepared only after its predecessor was closed, services included.
LEMMA ReplacePreserves ==
  ASSUME ConvInv, NEW t \in Runs, Replace(t)
  PROVE  ConvInv'
<1>1. IInv'
  BY StutterPreserves DEF Replace, ConvInv, sessionVars, leaseVars, runVars, vars
<1>2. ConvTypeOK'
  BY <1>1 DEF Replace, ConvInv, IInv, ConvTypeOK, SlotIsHeld, Goto
<1>3. SlotIsHeld'
  BY FactoryAssumption, SessionAssumption
  DEF Replace, ConvInv, ConvTypeOK, SlotIsHeld, ShutFollows, Goto
<1>4. LiveIsKept'
  BY FactoryAssumption, SessionAssumption
  DEF Replace, ConvInv, TypeOK, ConvTypeOK, SlotIsHeld, LiveIsKept, ShutFollows, Goto,
      sessionVars, leaseVars, runVars
<1>5. ShutFollows'
  BY FactoryAssumption, SessionAssumption
  DEF Replace, ConvInv, TypeOK, ConvTypeOK, SlotIsHeld, LiveIsKept, ShutFollows, Goto,
      sessionVars, leaseVars, runVars
<1> QED
  BY <1>1, <1>2, <1>3, <1>4, <1>5 DEF ConvInv

LEMMA PrepareFailsPreserves ==
  ASSUME ConvInv, NEW t \in Runs, PrepareFails(t)
  PROVE  ConvInv'
<1>1. IInv'
  BY StutterPreserves DEF PrepareFails, ConvInv, sessionVars, leaseVars, runVars, vars
<1>2. ConvTypeOK'
  BY <1>1 DEF PrepareFails, ConvInv, IInv, ConvTypeOK, SlotIsHeld, Goto
<1>3. SlotIsHeld'
  BY FactoryAssumption, SessionAssumption
  DEF PrepareFails, ConvInv, ConvTypeOK, SlotIsHeld, ShutFollows, Goto
<1>4. LiveIsKept'
  BY FactoryAssumption, SessionAssumption
  DEF PrepareFails, ConvInv, TypeOK, ConvTypeOK, SlotIsHeld, LiveIsKept, ShutFollows, Goto,
      sessionVars, leaseVars, runVars
<1>5. ShutFollows'
  BY FactoryAssumption, SessionAssumption
  DEF PrepareFails, ConvInv, TypeOK, ConvTypeOK, SlotIsHeld, LiveIsKept, ShutFollows, Goto,
      sessionVars, leaseVars, runVars
<1> QED
  BY <1>1, <1>2, <1>3, <1>4, <1>5 DEF ConvInv

LEMMA OpenPreserves ==
  ASSUME ConvInv, NEW t \in Runs, NEW s \in Sessions, Open(t, s)
  PROVE  ConvInv'
<1>1. IInv'
  BY NextPreserves DEF Open, ConvInv, Next
<1>2. ConvTypeOK'
  BY <1>1 DEF Open, ConvInv, IInv, ConvTypeOK, SlotIsHeld, Goto
<1>3. SlotIsHeld'
  BY FactoryAssumption, SessionAssumption
  DEF Open, ConvInv, ConvTypeOK, SlotIsHeld, ShutFollows, Goto
<1>4. LiveIsKept'
  BY FactoryAssumption, SessionAssumption
  DEF Open, Claim, ConvInv, TypeOK, ConvTypeOK, SlotIsHeld, LiveIsKept, ShutFollows, Goto,
      leaseVars, runVars
<1>5. ShutFollows'
  BY FactoryAssumption, SessionAssumption
  DEF Open, Claim, ConvInv, TypeOK, ConvTypeOK, SlotIsHeld, LiveIsKept, ShutFollows, Goto,
      leaseVars, runVars
<1> QED
  BY <1>1, <1>2, <1>3, <1>4, <1>5 DEF ConvInv

\* The session that was opened becomes the live one, or none does.
LEMMA OpenedPreserves ==
  ASSUME ConvInv, NEW t \in Runs, NEW s \in Sessions, Opened(t, s)
  PROVE  ConvInv'
<1>1. IInv'
  BY NextPreserves DEF Opened, ConvInv, Next
<1>2. ConvTypeOK'
  BY <1>1 DEF Opened, ConvInv, IInv, ConvTypeOK, SlotIsHeld, Goto
<1>3. SlotIsHeld'
  BY FactoryAssumption, SessionAssumption
  DEF Opened, ConvInv, ConvTypeOK, SlotIsHeld, ShutFollows, Goto
<1>4. LiveIsKept'
  BY FactoryAssumption, SessionAssumption
  DEF Opened, InitServices, InitFails, ConvInv, TypeOK, ConvTypeOK, SlotIsHeld, LiveIsKept,
      ShutFollows, Goto, leaseVars, runVars
<1>5. ShutFollows'
  BY FactoryAssumption, SessionAssumption
  DEF Opened, InitServices, InitFails, ConvInv, TypeOK, ConvTypeOK, SlotIsHeld, LiveIsKept,
      ShutFollows, Goto, leaseVars, runVars
<1> QED
  BY <1>1, <1>2, <1>3, <1>4, <1>5 DEF ConvInv

LEMMA PreparedPreserves ==
  ASSUME ConvInv, NEW t \in Runs, Prepared(t)
  PROVE  ConvInv'
<1>1. IInv'
  BY StutterPreserves DEF Prepared, ConvInv, sessionVars, leaseVars, runVars, vars
<1>2. ConvTypeOK'
  BY <1>1 DEF Prepared, ConvInv, IInv, ConvTypeOK, SlotIsHeld, Goto
<1>3. SlotIsHeld'
  BY FactoryAssumption, SessionAssumption
  DEF Prepared, ConvInv, ConvTypeOK, SlotIsHeld, ShutFollows, Goto
<1>4. LiveIsKept'
  BY FactoryAssumption, SessionAssumption
  DEF Prepared, ConvInv, TypeOK, ConvTypeOK, SlotIsHeld, LiveIsKept, ShutFollows, Goto,
      sessionVars, leaseVars, runVars
<1>5. ShutFollows'
  BY FactoryAssumption, SessionAssumption
  DEF Prepared, ConvInv, TypeOK, ConvTypeOK, SlotIsHeld, LiveIsKept, ShutFollows, Goto,
      sessionVars, leaseVars, runVars
<1> QED
  BY <1>1, <1>2, <1>3, <1>4, <1>5 DEF ConvInv

LEMMA RunPreserves ==
  ASSUME ConvInv, NEW t \in Runs, Run(t)
  PROVE  ConvInv'
<1>1. IInv'
  <2>1. live \in Sessions
    BY DEF Run, ConvInv, ConvTypeOK, SlotIsHeld
  <2> QED
    BY <2>1, NextPreserves DEF Run, ConvInv, Next
<1>2. ConvTypeOK'
  BY <1>1 DEF Run, ConvInv, IInv, ConvTypeOK, SlotIsHeld, Goto
<1>3. SlotIsHeld'
  BY FactoryAssumption, SessionAssumption
  DEF Run, ConvInv, ConvTypeOK, SlotIsHeld, ShutFollows, Goto
<1>4. LiveIsKept'
  BY FactoryAssumption, SessionAssumption
  DEF Run, Begin, ConvInv, TypeOK, ConvTypeOK, SlotIsHeld, LiveIsKept, ShutFollows, Goto,
      leaseVars, runVars
<1>5. ShutFollows'
  BY FactoryAssumption, SessionAssumption
  DEF Run, Begin, ConvInv, TypeOK, ConvTypeOK, SlotIsHeld, LiveIsKept, ShutFollows, Goto,
      leaseVars, runVars
<1> QED
  BY <1>1, <1>2, <1>3, <1>4, <1>5 DEF ConvInv

LEMMA RunCancelledPreserves ==
  ASSUME ConvInv, NEW t \in Runs, RunCancelled(t)
  PROVE  ConvInv'
<1>1. IInv'
  BY NextPreserves DEF RunCancelled, ConvInv, Next
<1>2. ConvTypeOK'
  BY <1>1 DEF RunCancelled, ConvInv, IInv, ConvTypeOK, SlotIsHeld, Goto, convVars
<1>3. SlotIsHeld'
  BY FactoryAssumption, SessionAssumption
  DEF RunCancelled, ConvInv, ConvTypeOK, SlotIsHeld, ShutFollows, Goto, convVars
<1>4. LiveIsKept'
  BY FactoryAssumption, SessionAssumption
  DEF RunCancelled, GiveUp, ConvInv, TypeOK, ConvTypeOK, SlotIsHeld, LiveIsKept, ShutFollows,
      Goto, convVars, leaseVars, runVars
<1>5. ShutFollows'
  BY FactoryAssumption, SessionAssumption
  DEF RunCancelled, GiveUp, ConvInv, TypeOK, ConvTypeOK, SlotIsHeld, LiveIsKept, ShutFollows,
      Goto, convVars, leaseVars, runVars
<1> QED
  BY <1>1, <1>2, <1>3, <1>4, <1>5 DEF ConvInv

LEMMA RunStepPreserves ==
  ASSUME ConvInv, NEW t \in Runs, RunStep(t)
  PROVE  ConvInv'
<1>1. IInv'
  BY NextPreserves DEF RunStep, ConvInv, Next
<1>2. ConvTypeOK'
  BY <1>1 DEF RunStep, ConvInv, IInv, ConvTypeOK, SlotIsHeld, Goto, convVars
<1>3. SlotIsHeld'
  BY FactoryAssumption, SessionAssumption
  DEF RunStep, ConvInv, ConvTypeOK, SlotIsHeld, ShutFollows, Goto, convVars
<1>4. LiveIsKept'
  BY FactoryAssumption, SessionAssumption
  DEF RunStep, Acquire, Refuse, AcquireCapacity, Abandon, StartRun, StartFails, EndRun, Finish,
      ReleaseAdmission, DeliverTerminal, ConvInv, TypeOK, ConvTypeOK, SlotIsHeld, LiveIsKept,
      ShutFollows, Goto, convVars, leaseVars, runVars
<1>5. ShutFollows'
  BY FactoryAssumption, SessionAssumption
  DEF RunStep, Acquire, Refuse, AcquireCapacity, Abandon, StartRun, StartFails, EndRun, Finish,
      ReleaseAdmission, DeliverTerminal, ConvInv, TypeOK, ConvTypeOK, SlotIsHeld, LiveIsKept,
      ShutFollows, Goto, convVars, leaseVars, runVars
<1> QED
  BY <1>1, <1>2, <1>3, <1>4, <1>5 DEF ConvInv

LEMMA DrainPreserves ==
  ASSUME ConvInv, NEW t \in Runs, Drain(t)
  PROVE  ConvInv'
<1>1. IInv'
  <2>1. owner[t] \in Sessions
    BY DEF Drain, ConvInv, IInv, TypeOK, SessionsLive
  <2>2. CASE recovery[owner[t]] = None
    BY <2>2, StutterPreserves DEF Drain, ConvInv, leaseVars, vars
  <2>3. CASE recovery[owner[t]] # None
    BY <2>1, <2>3, RecoverAtOncePreserves DEF Drain, RecoverAtOnce, ConvInv
  <2> QED
    BY <2>2, <2>3
<1>2. ConvTypeOK'
  BY <1>1 DEF Drain, ConvInv, IInv, ConvTypeOK, SlotIsHeld, Goto
<1>3. SlotIsHeld'
  BY FactoryAssumption, SessionAssumption
  DEF Drain, ConvInv, ConvTypeOK, SlotIsHeld, ShutFollows, Goto
<1>4. LiveIsKept'
  BY FactoryAssumption, SessionAssumption
  DEF Drain, ConvInv, TypeOK, ConvTypeOK, SlotIsHeld, LiveIsKept, ShutFollows, Goto, leaseVars,
      runVars
<1>5. ShutFollows'
  BY FactoryAssumption, SessionAssumption
  DEF Drain, ConvInv, TypeOK, ConvTypeOK, SlotIsHeld, LiveIsKept, ShutFollows, Goto, leaseVars,
      runVars
<1> QED
  BY <1>1, <1>2, <1>3, <1>4, <1>5 DEF ConvInv

LEMMA ShutRecoverPreserves ==
  ASSUME ConvInv, ShutRecover
  PROVE  ConvInv'
<1>1. IInv'
  <2>1. live \in Sessions
    BY DEF ShutRecover, ConvInv, ConvTypeOK, SlotIsHeld
  <2>2. CASE recovery[live] = None
    BY <2>2, StutterPreserves DEF ShutRecover, ConvInv, leaseVars, vars
  <2>3. CASE recovery[live] # None
    BY <2>1, <2>3, RecoverAtOncePreserves DEF ShutRecover, RecoverAtOnce, ConvInv
  <2> QED
    BY <2>2, <2>3
<1>2. ConvTypeOK'
  BY <1>1 DEF ShutRecover, ConvInv, IInv, ConvTypeOK, SlotIsHeld, Goto
<1>3. SlotIsHeld'
  BY FactoryAssumption, SessionAssumption
  DEF ShutRecover, ConvInv, ConvTypeOK, SlotIsHeld, ShutFollows, Goto
<1>4. LiveIsKept'
  BY FactoryAssumption, SessionAssumption
  DEF ShutRecover, ConvInv, TypeOK, ConvTypeOK, SlotIsHeld, LiveIsKept, ShutFollows, Goto,
      leaseVars, runVars
<1>5. ShutFollows'
  BY FactoryAssumption, SessionAssumption
  DEF ShutRecover, ConvInv, TypeOK, ConvTypeOK, SlotIsHeld, LiveIsKept, ShutFollows, Goto,
      leaseVars, runVars
<1> QED
  BY <1>1, <1>2, <1>3, <1>4, <1>5 DEF ConvInv

\* Close closes the session, or leaves it live with a finish to recover and says so.
LEMMA ShutClosePreserves ==
  ASSUME ConvInv, ShutClose
  PROVE  ConvInv'
<1>1. IInv'
  <2>1. CASE UNCHANGED sessionVars
    BY <2>1, StutterPreserves DEF ConvInv, sessionVars, leaseVars, runVars, vars
  <2>2. CASE Close(live)
    <3>1. live \in Sessions
      BY DEF ShutClose, ConvInv, ConvTypeOK, SlotIsHeld
    <3> QED
      BY <2>2, <3>1, NextPreserves DEF ConvInv, Next
  <2> QED
    BY <2>1, <2>2 DEF ShutClose
<1>2. ConvTypeOK'
  BY <1>1 DEF ShutClose, ConvInv, IInv, ConvTypeOK, SlotIsHeld, Goto
<1>3. SlotIsHeld'
  BY FactoryAssumption, SessionAssumption
  DEF ShutClose, ConvInv, ConvTypeOK, SlotIsHeld, ShutFollows, Goto
<1>4. LiveIsKept'
  BY FactoryAssumption, SessionAssumption
  DEF ShutClose, Close, ConvInv, TypeOK, ConvTypeOK, SlotIsHeld, LiveIsKept, ShutFollows, Goto,
      sessionVars, leaseVars, runVars
<1>5. ShutFollows'
  BY FactoryAssumption, SessionAssumption
  DEF ShutClose, Close, ConvInv, TypeOK, ConvTypeOK, SlotIsHeld, LiveIsKept, ShutFollows, Goto,
      sessionVars, leaseVars, runVars
<1> QED
  BY <1>1, <1>2, <1>3, <1>4, <1>5 DEF ConvInv

LEMMA ShutTimesOutPreserves ==
  ASSUME ConvInv, ShutTimesOut
  PROVE  ConvInv'
<1>1. IInv'
  BY StutterPreserves DEF ShutTimesOut, ConvInv, sessionVars, leaseVars, runVars, vars
<1>2. ConvTypeOK'
  BY <1>1 DEF ShutTimesOut, ConvInv, IInv, ConvTypeOK, SlotIsHeld, Goto
<1>3. SlotIsHeld'
  BY FactoryAssumption, SessionAssumption
  DEF ShutTimesOut, ConvInv, ConvTypeOK, SlotIsHeld, ShutFollows, Goto
<1>4. LiveIsKept'
  BY FactoryAssumption, SessionAssumption
  DEF ShutTimesOut, ConvInv, TypeOK, ConvTypeOK, SlotIsHeld, LiveIsKept, ShutFollows, Goto,
      sessionVars, leaseVars, runVars
<1>5. ShutFollows'
  BY FactoryAssumption, SessionAssumption
  DEF ShutTimesOut, ConvInv, TypeOK, ConvTypeOK, SlotIsHeld, LiveIsKept, ShutFollows, Goto,
      sessionVars, leaseVars, runVars
<1> QED
  BY <1>1, <1>2, <1>3, <1>4, <1>5 DEF ConvInv

LEMMA ShutServicesPreserves ==
  ASSUME ConvInv, ShutServices
  PROVE  ConvInv'
<1>1. IInv'
  <2>1. live \in Sessions
    BY DEF ShutServices, ConvInv, ConvTypeOK, SlotIsHeld
  <2> QED
    BY <2>1, NextPreserves DEF ShutServices, ConvInv, Next
<1>2. ConvTypeOK'
  BY <1>1 DEF ShutServices, ConvInv, IInv, ConvTypeOK, SlotIsHeld, Goto
<1>3. SlotIsHeld'
  BY FactoryAssumption, SessionAssumption
  DEF ShutServices, ConvInv, ConvTypeOK, SlotIsHeld, ShutFollows, Goto
<1>4. LiveIsKept'
  BY FactoryAssumption, SessionAssumption
  DEF ShutServices, CloseServices, ConvInv, TypeOK, ConvTypeOK, SlotIsHeld, LiveIsKept,
      ShutFollows, Goto, leaseVars, runVars
<1>5. ShutFollows'
  BY FactoryAssumption, SessionAssumption
  DEF ShutServices, CloseServices, ConvInv, TypeOK, ConvTypeOK, SlotIsHeld, LiveIsKept,
      ShutFollows, Goto, leaseVars, runVars
<1> QED
  BY <1>1, <1>2, <1>3, <1>4, <1>5 DEF ConvInv

\* A conversation nobody entered has no session.
LEMMA FactoryClosePreserves ==
  ASSUME ConvInv, FactoryClose
  PROVE  ConvInv'
<1>1. IInv'
  BY StutterPreserves DEF FactoryClose, ConvInv, sessionVars, leaseVars, runVars, vars
<1>2. ConvTypeOK'
  BY <1>1 DEF FactoryClose, ConvInv, IInv, ConvTypeOK, SlotIsHeld, Goto
<1>3. SlotIsHeld'
  BY FactoryAssumption, SessionAssumption
  DEF FactoryClose, ConvInv, ConvTypeOK, SlotIsHeld, ShutFollows, Goto
<1>4. LiveIsKept'
  BY FactoryAssumption, SessionAssumption
  DEF FactoryClose, ConvInv, TypeOK, ConvTypeOK, SlotIsHeld, LiveIsKept, ShutFollows, Goto,
      sessionVars, leaseVars, runVars
<1>5. ShutFollows'
  BY FactoryAssumption, SessionAssumption
  DEF FactoryClose, ConvInv, TypeOK, ConvTypeOK, SlotIsHeld, LiveIsKept, ShutFollows, Goto,
      sessionVars, leaseVars, runVars
<1> QED
  BY <1>1, <1>2, <1>3, <1>4, <1>5 DEF ConvInv

LEMMA FactoryLockPreserves ==
  ASSUME ConvInv, FactoryLock
  PROVE  ConvInv'
<1>1. IInv'
  BY StutterPreserves DEF FactoryLock, ConvInv, sessionVars, leaseVars, runVars, vars
<1>2. ConvTypeOK'
  BY <1>1 DEF FactoryLock, ConvInv, IInv, ConvTypeOK, SlotIsHeld, Goto, BeginShut
<1>3. SlotIsHeld'
  BY FactoryAssumption, SessionAssumption
  DEF FactoryLock, ConvInv, ConvTypeOK, SlotIsHeld, ShutFollows, Goto, BeginShut
<1>4. LiveIsKept'
  BY FactoryAssumption, SessionAssumption
  DEF FactoryLock, ConvInv, TypeOK, ConvTypeOK, SlotIsHeld, LiveIsKept, ShutFollows, Goto,
      BeginShut, sessionVars, leaseVars, runVars
<1>5. ShutFollows'
  BY FactoryAssumption, SessionAssumption
  DEF FactoryLock, ConvInv, TypeOK, ConvTypeOK, SlotIsHeld, LiveIsKept, ShutFollows, Goto,
      BeginShut, sessionVars, leaseVars, runVars
<1> QED
  BY <1>1, <1>2, <1>3, <1>4, <1>5 DEF ConvInv

LEMMA FactoryTimesOutPreserves ==
  ASSUME ConvInv, FactoryTimesOut
  PROVE  ConvInv'
<1>1. IInv'
  BY StutterPreserves DEF FactoryTimesOut, ConvInv, sessionVars, leaseVars, runVars, vars
<1>2. ConvTypeOK'
  BY <1>1 DEF FactoryTimesOut, ConvInv, IInv, ConvTypeOK, SlotIsHeld, Goto
<1>3. SlotIsHeld'
  BY FactoryAssumption, SessionAssumption
  DEF FactoryTimesOut, ConvInv, ConvTypeOK, SlotIsHeld, ShutFollows, Goto
<1>4. LiveIsKept'
  BY FactoryAssumption, SessionAssumption
  DEF FactoryTimesOut, ConvInv, TypeOK, ConvTypeOK, SlotIsHeld, LiveIsKept, ShutFollows, Goto,
      sessionVars, leaseVars, runVars
<1>5. ShutFollows'
  BY FactoryAssumption, SessionAssumption
  DEF FactoryTimesOut, ConvInv, TypeOK, ConvTypeOK, SlotIsHeld, LiveIsKept, ShutFollows, Goto,
      sessionVars, leaseVars, runVars
<1> QED
  BY <1>1, <1>2, <1>3, <1>4, <1>5 DEF ConvInv

LEMMA FactoryClosedPreserves ==
  ASSUME ConvInv, FactoryClosed
  PROVE  ConvInv'
<1>1. IInv'
  BY StutterPreserves DEF FactoryClosed, ConvInv, sessionVars, leaseVars, runVars, vars
<1>2. ConvTypeOK'
  BY <1>1 DEF FactoryClosed, ConvInv, IInv, ConvTypeOK, SlotIsHeld, Goto
<1>3. SlotIsHeld'
  BY FactoryAssumption, SessionAssumption
  DEF FactoryClosed, ConvInv, ConvTypeOK, SlotIsHeld, ShutFollows, Goto
<1>4. LiveIsKept'
  BY FactoryAssumption, SessionAssumption
  DEF FactoryClosed, ConvInv, TypeOK, ConvTypeOK, SlotIsHeld, LiveIsKept, ShutFollows, Goto,
      sessionVars, leaseVars, runVars
<1>5. ShutFollows'
  BY FactoryAssumption, SessionAssumption
  DEF FactoryClosed, ConvInv, TypeOK, ConvTypeOK, SlotIsHeld, LiveIsKept, ShutFollows, Goto,
      sessionVars, leaseVars, runVars
<1> QED
  BY <1>1, <1>2, <1>3, <1>4, <1>5 DEF ConvInv

LEMMA ConvInitEstablishes == ConvInit => ConvInv
<1> SUFFICES ASSUME ConvInit PROVE ConvInv
  OBVIOUS
<1>1. IInv /\ TypeOK
  BY InitEstablishes DEF ConvInit, IInv
<1> QED
  BY <1>1, FactoryAssumption, SessionAssumption
  DEF ConvInit, Init, ConvInv, ConvTypeOK, SlotIsHeld, LiveIsKept, ShutFollows

LEMMA ConvNextPreserves == ConvInv /\ ConvNext => ConvInv'
<1>1. ASSUME ConvInv, NEW t \in Runs,
             \/ Enter(t) \/ EnterCancelled(t) \/ ForceNew(t) \/ PrepareFails(t)
             \/ PrepareStep(t) \/ Run(t) \/ RunCancelled(t) \/ RunStep(t) \/ Drain(t)
             \/ \E s \in Sessions : Open(t, s)
      PROVE  ConvInv'
  BY <1>1, EnterPreserves, EnterCancelledPreserves, ForceNewPreserves, PrepareFailsPreserves,
     LockPreserves, ReplacePreserves, PreparedPreserves, OpenedPreserves, RunPreserves,
     RunCancelledPreserves, RunStepPreserves, DrainPreserves, OpenPreserves
  DEF PrepareStep
<1> QED
  BY <1>1, ShutRecoverPreserves, ShutClosePreserves, ShutTimesOutPreserves,
     ShutServicesPreserves, FactoryClosePreserves, FactoryLockPreserves,
     FactoryTimesOutPreserves, FactoryClosedPreserves
  DEF ConvNext

\* A conversation's slot, live session and shutdown fit together in every reachable state.
THEOREM ConversationInvariance == ConvSpec => []ConvInv
<1>1. ConvInv /\ UNCHANGED <<vars, convVars>> => ConvInv'
  <2> SUFFICES ASSUME ConvInv, UNCHANGED <<vars, convVars>> PROVE ConvInv'
    OBVIOUS
  <2>1. IInv'
    BY StutterPreserves DEF ConvInv
  <2> QED
    BY <2>1 DEF ConvInv, IInv, ConvTypeOK, SlotIsHeld, LiveIsKept, ShutFollows, convVars, vars
<1> QED
  BY <1>1, ConvInitEstablishes, ConvNextPreserves, PTL DEF ConvSpec

\* A conversation never has two sessions that run, start or hold services, and a factory
\* that closed without an error leaves none behind.
THEOREM LiveSessionStaysExact == ConvSpec => []LiveSessionIsExact
<1>1. ConvInv => OneLiveSession
  BY SessionAssumption DEF ConvInv, ConvTypeOK, SlotIsHeld, LiveIsKept, OneLiveSession
<1>2. ConvInv => ShutdownClosesAll
  BY DEF ConvInv, ShutFollows, ShutdownClosesAll
<1> QED
  BY <1>1, <1>2, ConversationInvariance, PTL DEF LiveSessionIsExact

\* The conversation uses the session lifecycle as it is meant to be used: its leases and
\* tokens of admission are exact.
THEOREM ConversationAdmission == ConvSpec => []AdmissionIsExact
<1>1. ConvInv => AdmissionIsExact
  BY TokensAreCounted, UnfinishedRunIsAlone, RecoveryIsKept DEF ConvInv, AdmissionIsExact, IInv
<1> QED
  BY <1>1, ConversationInvariance, PTL

-----------------------------------------------------------------------------
(* Delegated runs.                                                            *)

Places == {"idle", "refused", "composing", "creating", "initialising", "admitting", "running",
           "cleanup", "recovering", "closing", "releasing", "done"}
Outcomes == {"start_failed", "succeeded", "failed", "turn_exhausted", "cancelled"}
Kinds == {"start", "run", "cleanup", "persistence"}
Tools == UNION ParentSurfaces
DelegationRecords ==
    [at : Places, readOnly : BOOLEAN, tools : SUBSET Tools, surface : SUBSET Tools,
     status : Outcomes, report : BOOLEAN, failures : SUBSET Kinds, processes : BOOLEAN]

ChildTypeOK ==
    /\ coordination \in {"coordinated", "trusted", "none"} /\ parentLive \in BOOLEAN
    /\ delegation \in [Delegations -> DelegationRecords]

\* The places in which the child's run has not begun, or has returned.
Early == {"idle", "refused", "composing", "creating", "initialising", "admitting"}
Late  == {"cleanup", "recovering", "closing", "releasing", "done"}

\* The sessions and runs that began are children's.
ChildrenAreApart ==
    /\ \A s \in Sessions :
          life[s] # "none" \/ closing[s] => \E d \in Delegations : s = ChildSessionOf(d)
    /\ \A r \in Runs : pc[r] # "new" => \E d \in Delegations : r = ChildRunOf(d)

\* Where the session and the run of a delegation are, seen from its call.
CallFollows(d) ==
    LET s == ChildSessionOf(d)  r == ChildRunOf(d)
    IN  /\ At(d) \in {"idle", "refused", "composing", "creating"} => life[s] = "none"
        /\ At(d) = "initialising" => life[s] = "opening"
        /\ At(d) \in {"admitting", "running", "recovering", "closing"} => life[s] = "live"
        /\ At(d) = "cleanup" => (life[s] = "live" /\ pc[r] # "new") \/ (life[s] = "closed"
               /\ pc[r] = "new")
        /\ At(d) \in Early => pc[r] = "new"
        /\ At(d) = "running" => pc[r] \in {"waiting", "released"} \cup GateHolders
        /\ At(d) \in Late => pc[r] \in {"new", "refused", "done"}
        /\ At(d) \in {"recovering", "closing", "releasing"} => pc[r] # "new"
        /\ pc[r] # "new" => owner[r] = s
        /\ closing[s] <=> At(d) = "releasing"
        /\ At(d) \in {"releasing", "done"} =>
              (life[s] = "closed" /\ recovery[s] = None) \/ (life[s] = "live" /\ recovery[s] = r)

\* What the call has to tell so far.
OutcomeFollows(d) ==
    LET c == delegation[d]  s == ChildSessionOf(d)  r == ChildRunOf(d)
    IN  /\ At(d) \in Early \/ pc[r] \in {"waiting", "gated", "capacity", "running"} =>
              c.status = "start_failed" /\ c.failures = {}
        /\ At(d) \in Late \/ pc[r] \in {"ended", "finishing", "released"} =>
              (c.status = "succeeded" <=> c.failures = {})
        /\ c.status = "succeeded" => c.report
               /\ pc[r] \in {"ended", "finishing", "released", "done"}
        /\ c.processes /\ At(d) \in Late \ {"cleanup"} => "cleanup" \in c.failures
        /\ record[r] = "started" /\ At(d) \in {"closing", "releasing", "done"} =>
              "persistence" \in c.failures
        /\ At(d) = "done" /\ recovery[s] # None => "cleanup" \in c.failures

\* What the child may use.
UseFollows(d) ==
    LET c == delegation[d]
    IN  /\ c.tools \subseteq c.surface /\ "delegate_task" \notin c.tools
        /\ c.readOnly => c.tools \subseteq {"bash", "read_file"} \cup TrustedReaders
        /\ c.processes => ~c.readOnly

Follows(d) == CallFollows(d) /\ OutcomeFollows(d) /\ UseFollows(d)

ChildInv == IInv /\ ChildTypeOK /\ ChildrenAreApart /\ \A d \in Delegations : Follows(d)

-----------------------------------------------------------------------------

\* A delegation has its session and its run to itself.
LEMMA OneEach ==
  ASSUME NEW d \in Delegations
  PROVE  /\ ChildSessionOf(d) \in Sessions /\ ChildRunOf(d) \in Runs
         /\ \A e \in Delegations : e # d =>
               ChildSessionOf(e) # ChildSessionOf(d) /\ ChildRunOf(e) # ChildRunOf(d)
  BY ChildAssumption DEF ChildSessionOf, ChildRunOf

\* The steps of a delegation leave the others, their sessions and their runs alone.
KeepsToItself(d) ==
    /\ \A e \in Delegations \ {d} : delegation'[e] = delegation[e]
    /\ \A s \in Sessions \ {ChildSessionOf(d)} :
          life'[s] = life[s] /\ closing'[s] = closing[s] /\ recovery'[s] = recovery[s]
    /\ \A r \in Runs \ {ChildRunOf(d)} :
          pc'[r] = pc[r] /\ owner'[r] = owner[r] /\ record'[r] = record[r]

\* So all that a step has to show is what it makes of its own delegation.
LEMMA OwnDelegation ==
  ASSUME ChildInv, NEW d \in Delegations, KeepsToItself(d), Follows(d)', ChildTypeOK', IInv'
  PROVE  ChildInv'
<1>1. ASSUME NEW e \in Delegations, e # d
      PROVE  Follows(e)'
  <2>1. /\ ChildSessionOf(e) \in Sessions \ {ChildSessionOf(d)}
               /\ ChildRunOf(e) \in Runs \ {ChildRunOf(d)}
        /\ ChildSessionOf(e)' = ChildSessionOf(e) /\ ChildRunOf(e)' = ChildRunOf(e)
    BY <1>1, OneEach DEF ChildSessionOf, ChildRunOf
  <2>2. delegation'[e] = delegation[e] /\ At(e)' = At(e)
    BY <1>1 DEF KeepsToItself, At
  <2>3. CallFollows(e)'
    BY <2>1, <2>2 DEF ChildInv, Follows, CallFollows, KeepsToItself
  <2>4. OutcomeFollows(e)'
    BY <2>1, <2>2 DEF ChildInv, Follows, OutcomeFollows, KeepsToItself
  <2>5. UseFollows(e)'
    BY <2>2 DEF ChildInv, Follows, UseFollows
  <2> QED
    BY <2>3, <2>4, <2>5 DEF Follows
<1>2. ChildrenAreApart'
  BY DEF ChildInv, ChildrenAreApart, KeepsToItself, ChildSessionOf, ChildRunOf
<1> QED
  BY <1>1, <1>2 DEF ChildInv

\* What a step may write into a delegation's record.
LEMMA RecordFields ==
  /\ \A c \in DelegationRecords, place \in Places : [c EXCEPT !.at = place] \in DelegationRecords
  /\ \A c \in DelegationRecords, status \in Outcomes :
         [c EXCEPT !.status = status] \in DelegationRecords
  /\ \A c \in DelegationRecords, failures \in SUBSET Kinds :
        [c EXCEPT !.failures = failures] \in DelegationRecords
  /\ \A c \in DelegationRecords, b \in BOOLEAN :
        /\ [c EXCEPT !.report = b] \in DelegationRecords
        /\ [c EXCEPT !.processes = b] \in DelegationRecords
  /\ \A c \in DelegationRecords, tools \in SUBSET Tools :
         [c EXCEPT !.tools = tools] \in DelegationRecords
<1>1. \A c \in DelegationRecords, place \in Places : [c EXCEPT !.at = place] \in DelegationRecords
  BY DEF DelegationRecords
<1>2. \A c \in DelegationRecords, status \in Outcomes :
          [c EXCEPT !.status = status] \in DelegationRecords
  BY DEF DelegationRecords
<1>3. \A c \in DelegationRecords, failures \in SUBSET Kinds :
        [c EXCEPT !.failures = failures] \in DelegationRecords
  BY DEF DelegationRecords
<1>4. \A c \in DelegationRecords, b \in BOOLEAN : [c EXCEPT !.report = b] \in DelegationRecords
  BY DEF DelegationRecords
<1>5. \A c \in DelegationRecords, b \in BOOLEAN : [c EXCEPT !.processes = b] \in DelegationRecords
  BY DEF DelegationRecords
<1>6. \A c \in DelegationRecords, tools \in SUBSET Tools :
          [c EXCEPT !.tools = tools] \in DelegationRecords
  BY DEF DelegationRecords
<1> QED
  BY <1>1, <1>2, <1>3, <1>4, <1>5, <1>6

LEMMA DelegationMoves ==
  ASSUME ChildTypeOK, NEW d \in Delegations, NEW place \in Places
  PROVE  [delegation EXCEPT ![d].at = place] \in [Delegations -> DelegationRecords]
  BY RecordFields DEF ChildTypeOK

\* A record that a failure is entered in.
LEMMA FailureRecords ==
  ASSUME NEW c \in DelegationRecords, NEW kind \in Kinds
  PROVE  Failed(c, kind) \in DelegationRecords
<1>1. [c EXCEPT !.failures = c.failures \cup {kind}] \in DelegationRecords
  BY RecordFields DEF DelegationRecords
<1> DEFINE f == [c EXCEPT !.failures = c.failures \cup {kind}]
           to == IF c.status = "cancelled" THEN c.status ELSE "failed"
<1>2. Failed(c, kind) = [f EXCEPT !.status = to]
  BY DEF Failed, DelegationRecords
<1>3. to \in Outcomes
  BY DEF Outcomes, DelegationRecords
<1>4. f \in DelegationRecords
  BY <1>1
<1> HIDE DEF f, to
<1> QED
  BY <1>2, <1>3, <1>4, RecordFields

LEMMA FailedFields ==
  ASSUME NEW c \in DelegationRecords, NEW kind \in Kinds, NEW place \in Places
  PROVE  LET f == [Failed(c, kind) EXCEPT !.at = place]
         IN  /\ f.at = place /\ f.failures = c.failures \cup {kind}
             /\ f.status = IF c.status = "cancelled" THEN "cancelled" ELSE "failed"
             /\ f.report = c.report /\ f.processes = c.processes
             /\ f.tools = c.tools /\ f.surface = c.surface /\ f.readOnly = c.readOnly
  BY DEF Failed, DelegationRecords

LEMMA RefusedPreserves ==
  ASSUME ChildInv, NEW d \in Delegations, Refused(d)
  PROVE  ChildInv'
<1>1. ChildSessionOf(d) \in Sessions /\ ChildRunOf(d) \in Runs
  BY OneEach
<1>2. IInv'
  BY StutterPreserves DEF Refused, ChildInv
<1>3. ChildTypeOK'
  <2>1. delegation' \in [Delegations -> DelegationRecords]
    BY DelegationMoves DEF Refused, Step, Places, ChildInv, ChildTypeOK
  <2> QED
    BY <2>1 DEF Refused, ChildInv, ChildTypeOK
<1>4. KeepsToItself(d)
  BY <1>1 DEF Refused, Step, ChildInv, ChildTypeOK, KeepsToItself, IInv, TypeOK, vars
<1>5. CallFollows(d)'
  BY <1>1 DEF Refused, At, Step, ChildSessionOf, ChildRunOf, ChildInv, ChildTypeOK, Follows,
     CallFollows, OutcomeFollows, IInv, TypeOK, GateHolders, Early, Late, vars
<1>6. OutcomeFollows(d)'
  BY <1>1 DEF Refused, At, Step, ChildSessionOf, ChildRunOf, ChildInv, ChildTypeOK, Follows,
     CallFollows, OutcomeFollows, IInv, TypeOK, GateHolders, Early, Late, DelegationRecords, vars
<1>7. UseFollows(d)'
  BY ChildAssumption DEF Refused, At, Step, ChildInv, ChildTypeOK, Follows, UseFollows,
     DelegationRecords, childVars
<1> QED
  BY <1>2, <1>3, <1>4, <1>5, <1>6, <1>7, OwnDelegation DEF Follows

LEMMA ExecutePreserves ==
  ASSUME ChildInv, NEW d \in Delegations, Execute(d)
  PROVE  ChildInv'
<1>1. ChildSessionOf(d) \in Sessions /\ ChildRunOf(d) \in Runs
  BY OneEach
<1>2. IInv'
  BY StutterPreserves DEF Execute, ChildInv
<1>3. ChildTypeOK'
  <2>1. PICK readOnly \in BOOLEAN, surface \in ParentSurfaces :
              delegation' = [delegation EXCEPT ![d] =
                  [Idle EXCEPT !.at = "composing", !.readOnly = readOnly, !.surface = surface]]
    BY DEF Execute
  <2>2. [Idle EXCEPT !.at = "composing", !.readOnly = readOnly,
            !.surface = surface] \in DelegationRecords
    BY DEF Idle, DelegationRecords, Places, Outcomes, Kinds, Tools
  <2> QED
    BY <2>1, <2>2 DEF Execute, ChildInv, ChildTypeOK
<1>4. KeepsToItself(d)
  BY <1>1 DEF Execute, Step, ChildInv, ChildTypeOK, KeepsToItself, IInv, TypeOK, vars
<1>5. CallFollows(d)'
  BY <1>1 DEF Execute, Idle, Tools, DelegationRecords, At, Step, ChildSessionOf, ChildRunOf,
     ChildInv, ChildTypeOK, Follows, CallFollows, OutcomeFollows, IInv, TypeOK, GateHolders,
     Early, Late, vars
<1>6. OutcomeFollows(d)'
  BY <1>1 DEF Execute, Idle, Tools, DelegationRecords, At, Step, ChildSessionOf, ChildRunOf,
     ChildInv, ChildTypeOK, Follows, CallFollows, OutcomeFollows, IInv, TypeOK, GateHolders,
     Early, Late, DelegationRecords, vars
<1>7. UseFollows(d)'
  BY ChildAssumption DEF Execute, Idle, Tools, DelegationRecords, At, Step, ChildInv, ChildTypeOK,
     Follows, UseFollows, DelegationRecords, childVars
<1> QED
  BY <1>2, <1>3, <1>4, <1>5, <1>6, <1>7, OwnDelegation DEF Follows

LEMMA ComposePreserves ==
  ASSUME ChildInv, NEW d \in Delegations, Compose(d)
  PROVE  ChildInv'
<1>1. ChildSessionOf(d) \in Sessions /\ ChildRunOf(d) \in Runs
  BY OneEach
<1>2. IInv'
  BY StutterPreserves DEF Compose, ChildInv
<1>3. ChildTypeOK'
  <2>1. delegation' \in [Delegations -> DelegationRecords]
    BY DelegationMoves DEF Compose, Step, Places, ChildInv, ChildTypeOK
  <2> QED
    BY <2>1 DEF Compose, ChildInv, ChildTypeOK
<1>4. KeepsToItself(d)
  BY <1>1 DEF Compose, Step, ChildInv, ChildTypeOK, KeepsToItself, IInv, TypeOK, vars
<1>5. CallFollows(d)'
  BY <1>1 DEF Compose, At, Step, ChildSessionOf, ChildRunOf, ChildInv, ChildTypeOK, Follows,
     CallFollows, OutcomeFollows, IInv, TypeOK, GateHolders, Early, Late, vars
<1>6. OutcomeFollows(d)'
  BY <1>1 DEF Compose, At, Step, ChildSessionOf, ChildRunOf, ChildInv, ChildTypeOK, Follows,
     CallFollows, OutcomeFollows, IInv, TypeOK, GateHolders, Early, Late, DelegationRecords, vars
<1>7. UseFollows(d)'
  BY ChildAssumption DEF Compose, At, Step, ChildInv, ChildTypeOK, Follows, UseFollows,
     DelegationRecords, childVars
<1> QED
  BY <1>2, <1>3, <1>4, <1>5, <1>6, <1>7, OwnDelegation DEF Follows

LEMMA CannotComposePreserves ==
  ASSUME ChildInv, NEW d \in Delegations, CannotCompose(d)
  PROVE  ChildInv'
<1>1. ChildSessionOf(d) \in Sessions /\ ChildRunOf(d) \in Runs
  BY OneEach
<1>2. IInv'
  BY StutterPreserves DEF CannotCompose, ChildInv
<1>3. ChildTypeOK'
  <2>1. delegation' \in [Delegations -> DelegationRecords]
    BY DelegationMoves DEF CannotCompose, Step, Places, ChildInv, ChildTypeOK
  <2> QED
    BY <2>1 DEF CannotCompose, ChildInv, ChildTypeOK
<1>4. KeepsToItself(d)
  BY <1>1 DEF CannotCompose, Step, ChildInv, ChildTypeOK, KeepsToItself, IInv, TypeOK, vars
<1>5. CallFollows(d)'
  BY <1>1 DEF CannotCompose, At, Step, ChildSessionOf, ChildRunOf, ChildInv, ChildTypeOK, Follows,
     CallFollows, OutcomeFollows, IInv, TypeOK, GateHolders, Early, Late, vars
<1>6. OutcomeFollows(d)'
  BY <1>1 DEF CannotCompose, At, Step, ChildSessionOf, ChildRunOf, ChildInv, ChildTypeOK, Follows,
     CallFollows, OutcomeFollows, IInv, TypeOK, GateHolders, Early, Late, DelegationRecords, vars
<1>7. UseFollows(d)'
  BY ChildAssumption DEF CannotCompose, At, Step, ChildInv, ChildTypeOK, Follows, UseFollows,
     DelegationRecords, childVars
<1> QED
  BY <1>2, <1>3, <1>4, <1>5, <1>6, <1>7, OwnDelegation DEF Follows

LEMMA CreateSessionPreserves ==
  ASSUME ChildInv, NEW d \in Delegations, CreateSession(d)
  PROVE  ChildInv'
<1>1. ChildSessionOf(d) \in Sessions /\ ChildRunOf(d) \in Runs
  BY OneEach
<1>2. IInv'
  BY <1>1, NextPreserves DEF CreateSession, ChildInv, Next
<1>3. ChildTypeOK'
  <2>1. delegation' \in [Delegations -> DelegationRecords]
    BY DelegationMoves DEF CreateSession, Step, Places, ChildInv, ChildTypeOK
  <2> QED
    BY <2>1 DEF CreateSession, ChildInv, ChildTypeOK
<1>4. KeepsToItself(d)
  BY <1>1 DEF CreateSession, Claim, Step, ChildInv, ChildTypeOK, KeepsToItself, IInv, TypeOK,
     leaseVars, runVars, childVars, vars
<1>5. CallFollows(d)'
  BY <1>1 DEF CreateSession, Claim, At, Step, ChildSessionOf, ChildRunOf, ChildInv, ChildTypeOK,
     Follows, CallFollows, OutcomeFollows, IInv, TypeOK, GateHolders, Early, Late, leaseVars,
     runVars, childVars, vars
<1>6. OutcomeFollows(d)'
  BY <1>1 DEF CreateSession, Claim, At, Step, ChildSessionOf, ChildRunOf, ChildInv, ChildTypeOK,
     Follows, CallFollows, OutcomeFollows, IInv, TypeOK, GateHolders, Early, Late,
     DelegationRecords, leaseVars, runVars, childVars, vars
<1>7. UseFollows(d)'
  BY ChildAssumption DEF CreateSession, At, Step, ChildInv, ChildTypeOK, Follows, UseFollows,
     DelegationRecords, childVars
<1> QED
  BY <1>2, <1>3, <1>4, <1>5, <1>6, <1>7, OwnDelegation DEF Follows

LEMMA SessionCreatedPreserves ==
  ASSUME ChildInv, NEW d \in Delegations, SessionCreated(d)
  PROVE  ChildInv'
<1>1. ChildSessionOf(d) \in Sessions /\ ChildRunOf(d) \in Runs
  BY OneEach
<1>2. IInv'
  BY <1>1, NextPreserves DEF SessionCreated, ChildInv, Next
<1>3. ChildTypeOK'
  <2> DEFINE c == delegation[d]
             tools == ResolveChildTools(c.surface, c.readOnly)
  <2>1. c \in DelegationRecords /\ "admitting" \in Places
    BY DEF ChildInv, ChildTypeOK, Places
  <2>2. tools \in SUBSET Tools
    BY <2>1 DEF ResolveChildTools, DelegationRecords
  <2>3. [[c EXCEPT !.at = "admitting"] EXCEPT !.tools = tools] \in DelegationRecords
    BY <2>1, <2>2, RecordFields
  <2>4. delegation' = [delegation EXCEPT ![d] =
              [[c EXCEPT !.at = "admitting"] EXCEPT !.tools = tools]]
    BY <2>1 DEF SessionCreated, ChildInv, ChildTypeOK, DelegationRecords
  <2> HIDE DEF c, tools
  <2> QED
    BY <2>3, <2>4 DEF SessionCreated, ChildInv, ChildTypeOK
<1>4. KeepsToItself(d)
  BY <1>1 DEF SessionCreated, InitServices, Step, ChildInv, ChildTypeOK, KeepsToItself, IInv,
     TypeOK, leaseVars, runVars, childVars, vars
<1>5. CallFollows(d)'
  BY <1>1 DEF SessionCreated, InitServices, ResolveChildTools, Ceiling, ChildReaders,
     ChildCeiling, At, Step, ChildSessionOf, ChildRunOf, ChildInv, ChildTypeOK, Follows,
     CallFollows, OutcomeFollows, IInv, TypeOK, GateHolders, Early, Late, leaseVars, runVars,
     childVars, vars
<1>6. OutcomeFollows(d)'
  BY <1>1 DEF SessionCreated, InitServices, ResolveChildTools, Ceiling, ChildReaders,
     ChildCeiling, At, Step, ChildSessionOf, ChildRunOf, ChildInv, ChildTypeOK, Follows,
     CallFollows, OutcomeFollows, IInv, TypeOK, GateHolders, Early, Late, DelegationRecords,
     leaseVars, runVars, childVars, vars
<1>7. UseFollows(d)'
  BY ChildAssumption DEF SessionCreated, ResolveChildTools, Ceiling, ChildReaders, ChildCeiling,
     At, Step, ChildInv, ChildTypeOK, Follows, UseFollows, DelegationRecords, childVars
<1> QED
  BY <1>2, <1>3, <1>4, <1>5, <1>6, <1>7, OwnDelegation DEF Follows

LEMMA SessionRefusedPreserves ==
  ASSUME ChildInv, NEW d \in Delegations, SessionRefused(d)
  PROVE  ChildInv'
<1>1. ChildSessionOf(d) \in Sessions /\ ChildRunOf(d) \in Runs
  BY OneEach
<1>2. IInv'
  BY <1>1, NextPreserves DEF SessionRefused, ChildInv, Next
<1>3. ChildTypeOK'
  <2>1. delegation' \in [Delegations -> DelegationRecords]
    BY RecordFields DEF SessionRefused, Places, Kinds, ChildInv, ChildTypeOK
  <2> QED
    BY <2>1 DEF SessionRefused, ChildInv, ChildTypeOK
<1>4. KeepsToItself(d)
  BY <1>1 DEF SessionRefused, InitFails, Step, ChildInv, ChildTypeOK, KeepsToItself, IInv, TypeOK,
     leaseVars, runVars, childVars, vars
<1>5. CallFollows(d)'
  BY <1>1 DEF SessionRefused, InitFails, At, Step, ChildSessionOf, ChildRunOf, ChildInv,
     ChildTypeOK, Follows, CallFollows, OutcomeFollows, IInv, TypeOK, GateHolders, Early, Late,
     leaseVars, runVars, childVars, vars
<1>6. OutcomeFollows(d)'
  BY <1>1 DEF SessionRefused, InitFails, At, Step, ChildSessionOf, ChildRunOf, ChildInv,
     ChildTypeOK, Follows, CallFollows, OutcomeFollows, IInv, TypeOK, GateHolders, Early, Late,
     DelegationRecords, leaseVars, runVars, childVars, vars
<1>7. UseFollows(d)'
  BY ChildAssumption DEF SessionRefused, At, Step, ChildInv, ChildTypeOK, Follows, UseFollows,
     DelegationRecords, childVars
<1> QED
  BY <1>2, <1>3, <1>4, <1>5, <1>6, <1>7, OwnDelegation DEF Follows

LEMMA BeginChildPreserves ==
  ASSUME ChildInv, NEW d \in Delegations, BeginChild(d)
  PROVE  ChildInv'
<1>1. ChildSessionOf(d) \in Sessions /\ ChildRunOf(d) \in Runs
  BY OneEach
<1>2. IInv'
  BY <1>1, NextPreserves DEF BeginChild, ChildInv, Next
<1>3. ChildTypeOK'
  <2>1. delegation' \in [Delegations -> DelegationRecords]
    BY DelegationMoves DEF BeginChild, Step, Places, ChildInv, ChildTypeOK
  <2> QED
    BY <2>1 DEF BeginChild, ChildInv, ChildTypeOK
<1>4. KeepsToItself(d)
  BY <1>1 DEF BeginChild, Begin, Step, ChildInv, ChildTypeOK, KeepsToItself, IInv, TypeOK,
     leaseVars, runVars, childVars, vars
<1>5. CallFollows(d)'
  BY <1>1 DEF BeginChild, Begin, At, Step, ChildSessionOf, ChildRunOf, ChildInv, ChildTypeOK,
     Follows, CallFollows, OutcomeFollows, IInv, TypeOK, GateHolders, Early, Late, leaseVars,
     runVars, childVars, vars
<1>6. OutcomeFollows(d)'
  BY <1>1 DEF BeginChild, Begin, At, Step, ChildSessionOf, ChildRunOf, ChildInv, ChildTypeOK,
     Follows, CallFollows, OutcomeFollows, IInv, TypeOK, GateHolders, Early, Late,
     DelegationRecords, leaseVars, runVars, childVars, vars
<1>7. UseFollows(d)'
  BY ChildAssumption DEF BeginChild, At, Step, ChildInv, ChildTypeOK, Follows, UseFollows,
     DelegationRecords, childVars
<1> QED
  BY <1>2, <1>3, <1>4, <1>5, <1>6, <1>7, OwnDelegation DEF Follows

LEMMA ChildNotAdmittedPreserves ==
  ASSUME ChildInv, NEW d \in Delegations, ChildNotAdmitted(d)
  PROVE  ChildInv'
<1>1. ChildSessionOf(d) \in Sessions /\ ChildRunOf(d) \in Runs
  BY OneEach
<1>2. IInv'
  BY <1>1, NextPreserves DEF ChildNotAdmitted, ChildInv, Next
<1>3. ChildTypeOK'
  <2> DEFINE c == delegation[d]
  <2>1. c \in DelegationRecords /\ "cleanup" \in Places
    BY DEF ChildInv, ChildTypeOK, Places
  <2>2. PICK status \in {"cancelled", "start_failed"} : delegation' =
              [delegation EXCEPT ![d].at = "cleanup", ![d].status = status,
                  ![d].failures = {"start"}]
    BY DEF ChildNotAdmitted
  <2>3. [[[c EXCEPT !.at = "cleanup"] EXCEPT !.status = status] EXCEPT !.failures = {"start"}]
            \in DelegationRecords
    BY <2>1, RecordFields DEF Outcomes, Kinds
  <2>4. delegation' = [delegation EXCEPT ![d] =
              [[[c EXCEPT !.at = "cleanup"] EXCEPT !.status = status]
                 EXCEPT !.failures = {"start"}]]
    BY <2>1, <2>2 DEF ChildInv, ChildTypeOK, DelegationRecords
  <2> HIDE DEF c
  <2> QED
    BY <2>3, <2>4 DEF ChildNotAdmitted, ChildInv, ChildTypeOK
<1>4. KeepsToItself(d)
  BY <1>1 DEF ChildNotAdmitted, GiveUp, Abandon, StartFails, ReleaseGate, Step, ChildInv,
     ChildTypeOK, KeepsToItself, IInv, TypeOK, leaseVars, runVars, childVars, vars
<1>5. CallFollows(d)'
  BY <1>1 DEF ChildNotAdmitted, GiveUp, Abandon, StartFails, ReleaseGate, At, Step,
     ChildSessionOf, ChildRunOf, ChildInv, ChildTypeOK, Follows, CallFollows, OutcomeFollows,
     IInv, TypeOK, GateHolders, Early, Late, leaseVars, runVars, childVars, vars
<1>6. OutcomeFollows(d)'
  BY <1>1 DEF ChildNotAdmitted, GiveUp, Abandon, StartFails, ReleaseGate, At, Step,
     ChildSessionOf, ChildRunOf, ChildInv, ChildTypeOK, Follows, CallFollows, OutcomeFollows,
     IInv, TypeOK, GateHolders, Early, Late, DelegationRecords, leaseVars, runVars, childVars,
     vars
<1>7. UseFollows(d)'
  BY ChildAssumption DEF ChildNotAdmitted, At, Step, ChildInv, ChildTypeOK, Follows, UseFollows,
     DelegationRecords, childVars
<1> QED
  BY <1>2, <1>3, <1>4, <1>5, <1>6, <1>7, OwnDelegation DEF Follows

LEMMA ChildAdmissionPreserves ==
  ASSUME ChildInv, NEW d \in Delegations, ChildAdmission(d)
  PROVE  ChildInv'
<1>1. ChildSessionOf(d) \in Sessions /\ ChildRunOf(d) \in Runs
  BY OneEach
<1>2. IInv'
  BY <1>1, NextPreserves DEF ChildAdmission, ChildInv, Next
<1>3. ChildTypeOK'
  BY DEF ChildAdmission, ChildInv, ChildTypeOK, childVars
<1>4. KeepsToItself(d)
  <2> DEFINE r == ChildRunOf(d)
             s == ChildSessionOf(d)
  <2>1. owner[r] = s
    BY DEF ChildAdmission, ChildInv, Follows, CallFollows, GateHolders
  <2>2. UNCHANGED <<delegation, life, closing, owner>>
    BY DEF ChildAdmission, Acquire, AcquireCapacity, StartRun, Finish, ReleaseAdmission,
       leaseVars, childVars
  <2>3. \A q \in Runs \ {r} : pc'[q] = pc[q]
    BY <1>1 DEF ChildAdmission, Acquire, AcquireCapacity, StartRun, Finish, ReleaseAdmission,
       ChildInv, IInv, TypeOK
  <2>4. \A q \in Runs \ {r} : record'[q] = record[q]
    BY <1>1 DEF ChildAdmission, Acquire, AcquireCapacity, StartRun, Finish, WriteFinish,
       ReleaseAdmission, ChildInv, IInv, TypeOK
  <2>5. \A t \in Sessions \ {s} : recovery'[t] = recovery[t]
    BY <1>1, <2>1 DEF ChildAdmission, Acquire, AcquireCapacity, StartRun, Finish, WriteFinish,
       ReleaseAdmission, ChildInv, IInv, TypeOK
  <2> QED
    BY <2>2, <2>3, <2>4, <2>5 DEF KeepsToItself
<1>5. CallFollows(d)'
  BY <1>1 DEF ChildAdmission, Acquire, AcquireCapacity, StartRun, Finish, WriteFinish,
     ReleaseAdmission, ReleaseGate, At, Step, ChildSessionOf, ChildRunOf, ChildInv, ChildTypeOK,
     Follows, CallFollows, OutcomeFollows, IInv, TypeOK, GateHolders, Early, Late, leaseVars,
     runVars, childVars, vars
<1>6. OutcomeFollows(d)'
  BY <1>1 DEF ChildAdmission, Acquire, AcquireCapacity, StartRun, Finish, WriteFinish,
     ReleaseAdmission, ReleaseGate, At, Step, ChildSessionOf, ChildRunOf, ChildInv, ChildTypeOK,
     Follows, CallFollows, OutcomeFollows, IInv, TypeOK, GateHolders, Early, Late,
     DelegationRecords, leaseVars, runVars, childVars, vars
<1>7. UseFollows(d)'
  BY ChildAssumption DEF ChildAdmission, At, Step, ChildInv, ChildTypeOK, Follows, UseFollows,
     DelegationRecords, childVars
<1> QED
  BY <1>2, <1>3, <1>4, <1>5, <1>6, <1>7, OwnDelegation DEF Follows

LEMMA StartProcessPreserves ==
  ASSUME ChildInv, NEW d \in Delegations, StartProcess(d)
  PROVE  ChildInv'
<1>1. ChildSessionOf(d) \in Sessions /\ ChildRunOf(d) \in Runs
  BY OneEach
<1>2. IInv'
  BY StutterPreserves DEF StartProcess, ChildInv
<1>3. ChildTypeOK'
  <2>1. delegation' \in [Delegations -> DelegationRecords]
    BY RecordFields DEF StartProcess, ChildInv, ChildTypeOK
  <2> QED
    BY <2>1 DEF StartProcess, ChildInv, ChildTypeOK
<1>4. KeepsToItself(d)
  BY <1>1 DEF StartProcess, Step, ChildInv, ChildTypeOK, KeepsToItself, IInv, TypeOK, vars
<1>5. CallFollows(d)'
  BY <1>1 DEF StartProcess, At, Step, ChildSessionOf, ChildRunOf, ChildInv, ChildTypeOK, Follows,
     CallFollows, OutcomeFollows, IInv, TypeOK, GateHolders, Early, Late, vars
<1>6. OutcomeFollows(d)'
  BY <1>1 DEF StartProcess, At, Step, ChildSessionOf, ChildRunOf, ChildInv, ChildTypeOK, Follows,
     CallFollows, OutcomeFollows, IInv, TypeOK, GateHolders, Early, Late, DelegationRecords, vars
<1>7. UseFollows(d)'
  BY ChildAssumption DEF StartProcess, At, Step, ChildInv, ChildTypeOK, Follows, UseFollows,
     DelegationRecords, childVars
<1> QED
  BY <1>2, <1>3, <1>4, <1>5, <1>6, <1>7, OwnDelegation DEF Follows

LEMMA ChildEndsPreserves ==
  ASSUME ChildInv, NEW d \in Delegations, NEW status \in Outcomes \ {"start_failed"},
      ChildEnds(d, status)
  PROVE  ChildInv'
<1>1. ChildSessionOf(d) \in Sessions /\ ChildRunOf(d) \in Runs
  BY OneEach
<1>2. IInv'
  BY <1>1, NextPreserves DEF ChildEnds, ChildInv, Next
<1>3. ChildTypeOK'
  <2>1. delegation' \in [Delegations -> DelegationRecords]
    BY RecordFields DEF ChildEnds, Outcomes, Kinds, ChildInv, ChildTypeOK
  <2> QED
    BY <2>1 DEF ChildEnds, ChildInv, ChildTypeOK
<1>4. KeepsToItself(d)
  BY <1>1 DEF ChildEnds, EndRun, Step, ChildInv, ChildTypeOK, KeepsToItself, IInv, TypeOK,
     leaseVars, runVars, childVars, vars
<1>5. CallFollows(d)'
  BY <1>1 DEF ChildEnds, EndRun, At, Step, ChildSessionOf, ChildRunOf, ChildInv, ChildTypeOK,
     Follows, CallFollows, OutcomeFollows, IInv, TypeOK, GateHolders, Early, Late, leaseVars,
     runVars, childVars, vars
<1>6. OutcomeFollows(d)'
  BY <1>1 DEF ChildEnds, EndRun, At, Step, ChildSessionOf, ChildRunOf, ChildInv, ChildTypeOK,
     Follows, CallFollows, OutcomeFollows, IInv, TypeOK, GateHolders, Early, Late,
     DelegationRecords, leaseVars, runVars, childVars, vars
<1>7. UseFollows(d)'
  BY ChildAssumption DEF ChildEnds, At, Step, ChildInv, ChildTypeOK, Follows, UseFollows,
     DelegationRecords, childVars
<1> QED
  BY <1>2, <1>3, <1>4, <1>5, <1>6, <1>7, OwnDelegation DEF Follows

LEMMA ChildReturnsPreserves ==
  ASSUME ChildInv, NEW d \in Delegations, ChildReturns(d)
  PROVE  ChildInv'
<1>1. ChildSessionOf(d) \in Sessions /\ ChildRunOf(d) \in Runs
  BY OneEach
<1>2. IInv'
  BY <1>1, NextPreserves DEF ChildReturns, ChildInv, Next
<1>3. ChildTypeOK'
  <2>1. delegation' \in [Delegations -> DelegationRecords]
    BY DelegationMoves DEF ChildReturns, Step, Places, ChildInv, ChildTypeOK
  <2> QED
    BY <2>1 DEF ChildReturns, ChildInv, ChildTypeOK
<1>4. KeepsToItself(d)
  BY <1>1 DEF ChildReturns, DeliverTerminal, Step, ChildInv, ChildTypeOK, KeepsToItself, IInv,
     TypeOK, leaseVars, runVars, childVars, vars
<1>5. CallFollows(d)'
  BY <1>1 DEF ChildReturns, DeliverTerminal, At, Step, ChildSessionOf, ChildRunOf, ChildInv,
     ChildTypeOK, Follows, CallFollows, OutcomeFollows, IInv, TypeOK, GateHolders, Early, Late,
     leaseVars, runVars, childVars, vars
<1>6. OutcomeFollows(d)'
  BY <1>1 DEF ChildReturns, DeliverTerminal, At, Step, ChildSessionOf, ChildRunOf, ChildInv,
     ChildTypeOK, Follows, CallFollows, OutcomeFollows, IInv, TypeOK, GateHolders, Early, Late,
     DelegationRecords, leaseVars, runVars, childVars, vars
<1>7. UseFollows(d)'
  BY ChildAssumption DEF ChildReturns, At, Step, ChildInv, ChildTypeOK, Follows, UseFollows,
     DelegationRecords, childVars
<1> QED
  BY <1>2, <1>3, <1>4, <1>5, <1>6, <1>7, OwnDelegation DEF Follows

LEMMA CleanupPreserves ==
  ASSUME ChildInv, NEW d \in Delegations, Cleanup(d)
  PROVE  ChildInv'
<1>1. ChildSessionOf(d) \in Sessions /\ ChildRunOf(d) \in Runs
  BY OneEach
<1>2. IInv'
  BY StutterPreserves DEF Cleanup, ChildInv
<1>3. ChildTypeOK'
  <2>1. PICK c \in DelegationRecords, place \in Places :
              delegation' = [delegation EXCEPT ![d] = [c EXCEPT !.at = place]]
    <3>1. delegation[d] \in DelegationRecords
              /\ Failed(delegation[d], "cleanup") \in DelegationRecords
      BY FailureRecords DEF ChildInv, ChildTypeOK, Kinds
    <3> QED
      BY <3>1, RecordFields DEF Cleanup, Places
  <2>2. delegation' \in [Delegations -> DelegationRecords]
    BY <2>1, RecordFields DEF ChildInv, ChildTypeOK
  <2> QED
    BY <2>2 DEF Cleanup, ChildInv, ChildTypeOK
<1>4. KeepsToItself(d)
  BY <1>1 DEF Cleanup, Step, ChildInv, ChildTypeOK, KeepsToItself, IInv, TypeOK, vars
<1>5. CallFollows(d)'
  <2> DEFINE c == delegation[d]
  <2>1. c \in DelegationRecords /\ Failed(c, "cleanup") \in DelegationRecords
    BY FailureRecords DEF ChildInv, ChildTypeOK, Kinds
  <2>2. PICK done \in BOOLEAN : delegation'[d] =
              [(IF done THEN [c EXCEPT !.processes = FALSE] ELSE Failed(c, "cleanup"))
                 EXCEPT !.at = IF HasSession(d) THEN "recovering" ELSE "done"]
    BY DEF Cleanup, ChildInv, ChildTypeOK
  <2>3. /\ At(d) = "cleanup" /\ At(d)' = IF HasSession(d) THEN "recovering" ELSE "done"
        /\ delegation'[d].report = c.report
        /\ \/ delegation'[d].status = c.status /\ delegation'[d].failures = c.failures
                 /\ delegation'[d].processes = FALSE
           \/ delegation'[d].status = (IF c.status = "cancelled" THEN "cancelled" ELSE "failed")
                 /\ delegation'[d].failures = c.failures \cup {"cleanup"}
    <3>1. CASE done
      BY <2>1, <2>2, <3>1 DEF Cleanup, At, DelegationRecords
    <3>2. CASE ~done
      <4> DEFINE place == IF HasSession(d) THEN "recovering" ELSE "done"
      <4>1. delegation'[d] = [Failed(c, "cleanup") EXCEPT !.at = place]
        BY <2>2, <3>2
      <4>2. place \in Places /\ "cleanup" \in Kinds /\ At(d) = "cleanup"
        BY DEF Places, Kinds, Cleanup
      <4> HIDE DEF place
      <4>3. /\ delegation'[d].at = place /\ delegation'[d].report = c.report
            /\ delegation'[d].status = (IF c.status = "cancelled" THEN "cancelled" ELSE "failed")
            /\ delegation'[d].failures = c.failures \cup {"cleanup"}
        BY <2>1, <4>1, <4>2, FailedFields
      <4> QED
        BY <4>2, <4>3 DEF place, At
    <3> QED
      BY <3>1, <3>2
  <2> HIDE DEF c
  <2>4. CallFollows(d) /\ UNCHANGED vars
    BY DEF ChildInv, Follows, Cleanup
  <2>5. HasSession(d) <=> life[ChildSessionOf(d)] = "live"
    BY DEF HasSession
  <2>6. recovery[ChildSessionOf(d)] # None => HasSession(d)
    BY <1>1, <2>5 DEF ChildInv, IInv, SessionsLive
  <2> QED
    BY <1>1, <2>3, <2>4, <2>5, <2>6 DEF vars, ChildSessionOf, ChildRunOf, CallFollows, Early, Late
<1>6. OutcomeFollows(d)'
  <2> DEFINE c == delegation[d]
  <2>1. c \in DelegationRecords /\ Failed(c, "cleanup") \in DelegationRecords
    BY FailureRecords DEF ChildInv, ChildTypeOK, Kinds
  <2>2. PICK done \in BOOLEAN : delegation'[d] =
              [(IF done THEN [c EXCEPT !.processes = FALSE] ELSE Failed(c, "cleanup"))
                 EXCEPT !.at = IF HasSession(d) THEN "recovering" ELSE "done"]
    BY DEF Cleanup, ChildInv, ChildTypeOK
  <2>3. /\ At(d) = "cleanup" /\ At(d)' = IF HasSession(d) THEN "recovering" ELSE "done"
        /\ delegation'[d].report = c.report
        /\ \/ delegation'[d].status = c.status /\ delegation'[d].failures = c.failures
                 /\ delegation'[d].processes = FALSE
           \/ delegation'[d].status = (IF c.status = "cancelled" THEN "cancelled" ELSE "failed")
                 /\ delegation'[d].failures = c.failures \cup {"cleanup"}
    <3>1. CASE done
      BY <2>1, <2>2, <3>1 DEF Cleanup, At, DelegationRecords
    <3>2. CASE ~done
      <4> DEFINE place == IF HasSession(d) THEN "recovering" ELSE "done"
      <4>1. delegation'[d] = [Failed(c, "cleanup") EXCEPT !.at = place]
        BY <2>2, <3>2
      <4>2. place \in Places /\ "cleanup" \in Kinds /\ At(d) = "cleanup"
        BY DEF Places, Kinds, Cleanup
      <4> HIDE DEF place
      <4>3. /\ delegation'[d].at = place /\ delegation'[d].report = c.report
            /\ delegation'[d].status = (IF c.status = "cancelled" THEN "cancelled" ELSE "failed")
            /\ delegation'[d].failures = c.failures \cup {"cleanup"}
        BY <2>1, <4>1, <4>2, FailedFields
      <4> QED
        BY <4>2, <4>3 DEF place, At
    <3> QED
      BY <3>1, <3>2
  <2> HIDE DEF c
  <2>4. OutcomeFollows(d) /\ CallFollows(d) /\ UNCHANGED vars
    BY DEF ChildInv, Follows, Cleanup
  <2>5. HasSession(d) <=> life[ChildSessionOf(d)] = "live"
    BY DEF HasSession
  <2>6. recovery[ChildSessionOf(d)] # None => HasSession(d)
    BY <1>1, <2>5 DEF ChildInv, IInv, SessionsLive
  <2>7. record[ChildRunOf(d)] = "started" => pc[ChildRunOf(d)] # "new"
    BY <1>1 DEF ChildInv, IInv, RecordsFollow, Written
  <2> QED
    BY <1>1, <2>3, <2>4, <2>5, <2>6, <2>7
    DEF c, vars, ChildSessionOf, ChildRunOf, OutcomeFollows, CallFollows, Early, Late
<1>7. UseFollows(d)'
  BY ChildAssumption DEF Cleanup, HasSession, Failed, At, Step, ChildInv, ChildTypeOK, Follows,
     UseFollows, DelegationRecords, childVars
<1> QED
  BY <1>2, <1>3, <1>4, <1>5, <1>6, <1>7, OwnDelegation DEF Follows

LEMMA RecoverChildPreserves ==
  ASSUME ChildInv, NEW d \in Delegations, RecoverChild(d)
  PROVE  ChildInv'
<1>1. ChildSessionOf(d) \in Sessions /\ ChildRunOf(d) \in Runs
  BY OneEach
<1>2. IInv'
  <2>1. CASE recovery[ChildSessionOf(d)] = None
    BY <2>1, StutterPreserves DEF RecoverChild, ChildInv
  <2>2. CASE recovery[ChildSessionOf(d)] # None
    <3>1. recovery[ChildSessionOf(d)] = ChildRunOf(d) /\ pc[ChildRunOf(d)] # "finishing"
      BY <2>2, OneEach DEF RecoverChild, ChildInv, IInv, TypeOK, RecordsFollow, ChildrenAreApart,
         Follows, CallFollows, Written, Late
    <3> QED
      BY <2>2, <3>1, OneEach, RecoverAtOncePreserves DEF RecoverChild, RecoverAtOnce, ChildInv
  <2> QED
    BY <2>1, <2>2
<1>3. ChildTypeOK'
  <2>1. PICK c \in DelegationRecords, place \in Places :
              delegation' = [delegation EXCEPT ![d] = [c EXCEPT !.at = place]]
    <3>1. delegation[d] \in DelegationRecords
              /\ Failed(delegation[d], "persistence") \in DelegationRecords
      BY FailureRecords DEF ChildInv, ChildTypeOK, Kinds
    <3> QED
      BY <3>1, RecordFields DEF RecoverChild, Places
  <2>2. delegation' \in [Delegations -> DelegationRecords]
    BY <2>1, RecordFields DEF ChildInv, ChildTypeOK
  <2> QED
    BY <2>2 DEF RecoverChild, ChildInv, ChildTypeOK
<1>4. KeepsToItself(d)
  <2> DEFINE c == delegation[d]
             s == ChildSessionOf(d)
             r == ChildRunOf(d)
  <2>1. c \in DelegationRecords /\ Failed(c, "persistence") \in DelegationRecords
    BY FailureRecords DEF ChildInv, ChildTypeOK, Kinds
  <2>2. At(d) = "recovering" /\ owner[r] = s /\ pc[r] \in {"refused", "done"}
    BY DEF RecoverChild, ChildInv, Follows, CallFollows, Late
  <2>3. UNCHANGED <<owner, pc, life, closing>>
    BY DEF RecoverChild, vars, leaseVars
  <2>4. recovery[s] = None \/ recovery[s] = r
    BY <1>1, <2>2, OneEach, SessionAssumption
    DEF ChildInv, IInv, TypeOK, RecordsFollow, ChildrenAreApart, Follows, CallFollows, Written
  <2>5. \/ recovery[s] = None /\ UNCHANGED <<record, recovery>>
        \/ /\ recovery[s] = r /\ record' = [record EXCEPT ![r] = "finished"]
           /\ recovery' = [recovery EXCEPT ![s] = None]
        \/ recovery[s] = r /\ record[r] = "started" /\ UNCHANGED <<record, recovery>>
    <3>1. CASE recovery[s] = None
      BY <3>1 DEF RecoverChild, vars
    <3>2. CASE recovery[s] = r /\ r # None
      <4>1. WriteFinish(r)
        BY <3>2 DEF RecoverChild
      <4>2. record[r] = "started"
        BY <1>1, <2>2, <3>2 DEF ChildInv, IInv, RecordsFollow, Written
      <4> QED
        BY <1>1, <2>2, <3>2, <4>1, <4>2 DEF WriteFinish, ChildInv, IInv, TypeOK
    <3> QED
      BY <3>1, <3>2, <2>4
  <2>6. \A e \in Delegations \ {d} : delegation'[e] = delegation[e]
    BY DEF RecoverChild, ChildInv, ChildTypeOK
  <2>7. \A t \in Sessions \ {s} : recovery'[t] = recovery[t]
    BY <1>1, <2>5 DEF ChildInv, IInv, TypeOK
  <2>8. \A q \in Runs \ {r} : record'[q] = record[q]
    BY <1>1, <2>5 DEF ChildInv, IInv, TypeOK
  <2> QED
    BY <2>3, <2>6, <2>7, <2>8 DEF KeepsToItself
<1>5. CallFollows(d)'
  BY <1>1 DEF RecoverChild, WriteFinish, Failed, At, Step, ChildSessionOf, ChildRunOf, ChildInv,
     ChildTypeOK, Follows, CallFollows, OutcomeFollows, IInv, TypeOK, GateHolders, Early, Late,
     leaseVars, runVars, childVars, vars
<1>6. OutcomeFollows(d)'
  <2> DEFINE c == delegation[d]
             s == ChildSessionOf(d)
             r == ChildRunOf(d)
  <2>1. c \in DelegationRecords /\ Failed(c, "persistence") \in DelegationRecords
    BY FailureRecords DEF ChildInv, ChildTypeOK, Kinds
  <2>2. At(d) = "recovering" /\ owner[r] = s /\ pc[r] \in {"refused", "done"}
    BY DEF RecoverChild, ChildInv, Follows, CallFollows, Late
  <2>3. UNCHANGED <<owner, pc, life, closing>>
    BY DEF RecoverChild, vars, leaseVars
  <2>4. recovery[s] = None \/ recovery[s] = r
    BY <1>1, <2>2, OneEach, SessionAssumption
    DEF ChildInv, IInv, TypeOK, RecordsFollow, ChildrenAreApart, Follows, CallFollows, Written
  <2>5. \/ recovery[s] = None /\ UNCHANGED <<record, recovery>>
        \/ /\ recovery[s] = r /\ record' = [record EXCEPT ![r] = "finished"]
           /\ recovery' = [recovery EXCEPT ![s] = None]
        \/ recovery[s] = r /\ record[r] = "started" /\ UNCHANGED <<record, recovery>>
    <3>1. CASE recovery[s] = None
      BY <3>1 DEF RecoverChild, vars
    <3>2. CASE recovery[s] = r /\ r # None
      <4>1. WriteFinish(r)
        BY <3>2 DEF RecoverChild
      <4>2. record[r] = "started"
        BY <1>1, <2>2, <3>2 DEF ChildInv, IInv, RecordsFollow, Written
      <4> QED
        BY <1>1, <2>2, <3>2, <4>1, <4>2 DEF WriteFinish, ChildInv, IInv, TypeOK
    <3> QED
      BY <3>1, <3>2, <2>4
  <2>6. /\ At(d)' = "closing" /\ delegation'[d].report = c.report
        /\ delegation'[d].processes = c.processes
        /\ \/ /\ delegation'[d].status = c.status /\ delegation'[d].failures = c.failures
              /\ recovery[s] = None \/ record'[r] = "finished"
           \/ /\ delegation'[d].status = IF c.status = "cancelled" THEN "cancelled" ELSE "failed"
              /\ delegation'[d].failures = c.failures \cup {"persistence"}
    <3>1. CASE recovery[s] = None \/ record'[r] = "finished"
      <4>1. delegation'[d] = [c EXCEPT !.at = "closing"]
        BY <3>1 DEF RecoverChild, ChildInv, ChildTypeOK
      <4> QED
        BY <2>1, <3>1, <4>1 DEF At, DelegationRecords
    <3>2. CASE ~(recovery[s] = None \/ record'[r] = "finished")
      <4>1. delegation'[d] = [Failed(c, "persistence") EXCEPT !.at = "closing"]
        BY <3>2 DEF RecoverChild, ChildInv, ChildTypeOK
      <4> QED
        BY <2>1, <4>1, FailedFields DEF At, Kinds, Places
    <3> QED
      BY <3>1, <3>2
  <2>7. record'[r] = "started" /\ recovery[s] = None => FALSE
    BY <1>1, <2>2, <2>5, SessionAssumption DEF ChildInv, IInv, RecordsFollow, Written
  <2>8. OutcomeFollows(d)
    BY DEF ChildInv, Follows
  <2>9. ChildSessionOf(d)' = s /\ ChildRunOf(d)' = r
    BY DEF ChildSessionOf, ChildRunOf
  <2> HIDE DEF r, s
  <2> QED
    BY <2>2, <2>3, <2>6, <2>7, <2>8, <2>9 DEF r, s, OutcomeFollows, Early, Late
<1>7. UseFollows(d)'
  BY ChildAssumption DEF RecoverChild, Failed, At, Step, ChildInv, ChildTypeOK, Follows,
     UseFollows, DelegationRecords, childVars
<1> QED
  BY <1>2, <1>3, <1>4, <1>5, <1>6, <1>7, OwnDelegation DEF Follows

LEMMA CloseChildPreserves ==
  ASSUME ChildInv, NEW d \in Delegations, CloseChild(d)
  PROVE  ChildInv'
<1>1. ChildSessionOf(d) \in Sessions /\ ChildRunOf(d) \in Runs
  BY OneEach
<1>2. IInv'
  BY <1>1, NextPreserves DEF CloseChild, ChildInv, Next
<1>3. ChildTypeOK'
  <2>1. delegation' \in [Delegations -> DelegationRecords]
    BY DelegationMoves DEF CloseChild, Step, Places, ChildInv, ChildTypeOK
  <2> QED
    BY <2>1 DEF CloseChild, ChildInv, ChildTypeOK
<1>4. KeepsToItself(d)
  BY <1>1 DEF CloseChild, Close, Step, ChildInv, ChildTypeOK, KeepsToItself, IInv, TypeOK,
     leaseVars, runVars, childVars, vars
<1>5. CallFollows(d)'
  <2> DEFINE s == ChildSessionOf(d)
             r == ChildRunOf(d)
  <2>1. At(d) = "closing" /\ At(d)' = "releasing" /\ UNCHANGED <<pc, owner, recovery>>
    BY DEF CloseChild, Close, Step, At, ChildInv, ChildTypeOK, DelegationRecords, runVars
  <2>2. owner[r] = s /\ pc[r] \in {"refused", "done"}
    BY <2>1 DEF ChildInv, Follows, CallFollows, Late
  <2>3. recovery[s] = None \/ recovery[s] = r
    BY <1>1, <2>2, OneEach, SessionAssumption
    DEF ChildInv, IInv, TypeOK, RecordsFollow, ChildrenAreApart, Follows, CallFollows, Written
  <2>4. /\ closing'[s]
        /\ (recovery[s] = None /\ life'[s] = "closed") \/ (recovery[s] # None /\ life'[s] = "live")
    BY <1>1 DEF CloseChild, Close, ChildInv, IInv, TypeOK
  <2>5. ChildSessionOf(d)' = s /\ ChildRunOf(d)' = r
    BY DEF ChildSessionOf, ChildRunOf
  <2> HIDE DEF s, r
  <2> QED
    BY <2>1, <2>2, <2>3, <2>4, <2>5 DEF s, r, CallFollows, Early, Late
<1>6. OutcomeFollows(d)'
  BY <1>1 DEF CloseChild, Close, At, Step, ChildSessionOf, ChildRunOf, ChildInv, ChildTypeOK,
     Follows, CallFollows, OutcomeFollows, IInv, TypeOK, GateHolders, Early, Late,
     DelegationRecords, leaseVars, runVars, childVars, vars
<1>7. UseFollows(d)'
  BY ChildAssumption DEF CloseChild, At, Step, ChildInv, ChildTypeOK, Follows, UseFollows,
     DelegationRecords, childVars
<1> QED
  BY <1>2, <1>3, <1>4, <1>5, <1>6, <1>7, OwnDelegation DEF Follows

LEMMA ChildClosedPreserves ==
  ASSUME ChildInv, NEW d \in Delegations, ChildClosed(d)
  PROVE  ChildInv'
<1>1. ChildSessionOf(d) \in Sessions /\ ChildRunOf(d) \in Runs
  BY OneEach
<1>2. IInv'
  BY <1>1, NextPreserves DEF ChildClosed, ChildInv, Next
<1>3. ChildTypeOK'
  <2>1. PICK c \in DelegationRecords, place \in Places :
              delegation' = [delegation EXCEPT ![d] = [c EXCEPT !.at = place]]
    <3>1. delegation[d] \in DelegationRecords
              /\ Failed(delegation[d], "cleanup") \in DelegationRecords
      BY FailureRecords DEF ChildInv, ChildTypeOK, Kinds
    <3> QED
      BY <3>1, RecordFields DEF ChildClosed, Places
  <2>2. delegation' \in [Delegations -> DelegationRecords]
    BY <2>1, RecordFields DEF ChildInv, ChildTypeOK
  <2> QED
    BY <2>2 DEF ChildClosed, ChildInv, ChildTypeOK
<1>4. KeepsToItself(d)
  BY <1>1 DEF ChildClosed, CloseServices, ReleaseGate, Step, ChildInv, ChildTypeOK, KeepsToItself,
     IInv, TypeOK, leaseVars, runVars, childVars, vars
<1>5. CallFollows(d)'
  BY <1>1 DEF ChildClosed, CloseServices, ReleaseGate, Failed, At, Step, ChildSessionOf,
     ChildRunOf, ChildInv, ChildTypeOK, Follows, CallFollows, OutcomeFollows, IInv, TypeOK,
     GateHolders, Early, Late, leaseVars, runVars, childVars, vars
<1>6. OutcomeFollows(d)'
  <2> DEFINE c == delegation[d]
             s == ChildSessionOf(d)
             r == ChildRunOf(d)
  <2>1. c \in DelegationRecords /\ Failed(c, "cleanup") \in DelegationRecords
    BY FailureRecords DEF ChildInv, ChildTypeOK, Kinds
  <2>2. At(d) = "releasing" /\ UNCHANGED <<pc, record, recovery>>
    BY DEF ChildClosed, CloseServices, runVars
  <2>3. /\ At(d)' = "done" /\ delegation'[d].report = c.report
        /\ delegation'[d].processes = c.processes
        /\ \/ /\ delegation'[d].status = c.status /\ delegation'[d].failures = c.failures
              /\ recovery[s] = None
           \/ /\ delegation'[d].status = IF c.status = "cancelled" THEN "cancelled" ELSE "failed"
              /\ delegation'[d].failures = c.failures \cup {"cleanup"}
    <3>1. CASE recovery[s] = None
      <4>1. delegation'[d] = [c EXCEPT !.at = "done"]
        BY <3>1 DEF ChildClosed, ChildInv, ChildTypeOK
      <4> QED
        BY <2>1, <3>1, <4>1 DEF At, DelegationRecords
    <3>2. CASE recovery[s] # None
      <4>1. delegation'[d] = [Failed(c, "cleanup") EXCEPT !.at = "done"]
        BY <3>2 DEF ChildClosed, ChildInv, ChildTypeOK
      <4> QED
        BY <2>1, <4>1, FailedFields DEF At, Kinds, Places
    <3> QED
      BY <3>1, <3>2
  <2>4. OutcomeFollows(d) /\ CallFollows(d)
    BY DEF ChildInv, Follows
  <2>5. ChildSessionOf(d)' = s /\ ChildRunOf(d)' = r
    BY DEF ChildSessionOf, ChildRunOf
  <2> HIDE DEF r, s
  <2> QED
    BY <2>2, <2>3, <2>4, <2>5 DEF r, s, OutcomeFollows, CallFollows, Early, Late
<1>7. UseFollows(d)'
  BY ChildAssumption DEF ChildClosed, Failed, At, Step, ChildInv, ChildTypeOK, Follows,
     UseFollows, DelegationRecords, childVars
<1> QED
  BY <1>2, <1>3, <1>4, <1>5, <1>6, <1>7, OwnDelegation DEF Follows

LEMMA ParentCancelledPreserves ==
  ASSUME ChildInv, ParentCancelled
  PROVE  ChildInv'
<1>1. IInv'
  BY StutterPreserves DEF ParentCancelled, ChildInv
<1>2. UNCHANGED <<life, closing, pc, record, recovery, owner>>
  BY DEF ParentCancelled, vars
<1>3. ChildTypeOK'
  BY DEF ParentCancelled, ChildInv, ChildTypeOK
<1>4. ChildrenAreApart'
  BY <1>2 DEF ParentCancelled, ChildInv, ChildrenAreApart, ChildSessionOf, ChildRunOf
<1>5. ASSUME NEW d \in Delegations PROVE Follows(d)'
  BY <1>2 DEF ParentCancelled, ChildInv, Follows, CallFollows, OutcomeFollows, UseFollows, At,
     ChildSessionOf, ChildRunOf
<1> QED
  BY <1>1, <1>3, <1>4, <1>5 DEF ChildInv

LEMMA ChildInitEstablishes ==
  ASSUME Init, ChildInit
  PROVE  ChildInv
<1>1. IInv
  BY InitEstablishes
<1>2. Idle \in DelegationRecords
  BY DEF Idle, DelegationRecords, Places, Outcomes, Tools
<1>3. ChildTypeOK
  BY <1>2 DEF ChildInit, ChildTypeOK
<1>4. ChildrenAreApart
  BY DEF Init, ChildrenAreApart
<1>5. ASSUME NEW d \in Delegations PROVE Follows(d)
  <2>1. ChildSessionOf(d) \in Sessions /\ ChildRunOf(d) \in Runs
    BY OneEach
  <2>2. /\ At(d) = "idle" /\ delegation[d].status = "start_failed" /\ delegation[d].failures = {}
        /\ delegation[d].tools = {} /\ ~delegation[d].processes
        /\ delegation[d].surface = {}
    BY DEF ChildInit, At, Idle
  <2>3. /\ life[ChildSessionOf(d)] = "none" /\ ~closing[ChildSessionOf(d)]
        /\ pc[ChildRunOf(d)] = "new" /\ record[ChildRunOf(d)] = "none"
    BY <2>1 DEF Init
  <2> QED
    BY <2>2, <2>3 DEF Follows, CallFollows, OutcomeFollows, UseFollows, Early, Late
<1> QED
  BY <1>1, <1>3, <1>4, <1>5 DEF ChildInv

LEMMA ChildStepPreserves ==
  ASSUME ChildInv, NEW d \in Delegations, ChildStep(d)
  PROVE  ChildInv'
  BY ComposePreserves, CreateSessionPreserves, SessionCreatedPreserves, BeginChildPreserves,
     ChildNotAdmittedPreserves, ChildAdmissionPreserves, ChildReturnsPreserves, ChildEndsPreserves,
     CleanupPreserves, RecoverChildPreserves, CloseChildPreserves, ChildClosedPreserves
  DEF ChildStep, Outcomes

LEMMA ChildNextPreserves == ChildInv /\ [ChildNext]_<<vars, childVars>> => ChildInv'
<1> SUFFICES ASSUME ChildInv, [ChildNext]_<<vars, childVars>> PROVE ChildInv'
  OBVIOUS
<1>1. ASSUME NEW d \in Delegations,
             \/ Refused(d) \/ Execute(d) \/ CannotCompose(d) \/ SessionRefused(d) \/ StartProcess(d)
             \/ \E status \in {"succeeded", "failed", "turn_exhausted", "cancelled"} :
                   ChildEnds(d, status)
      PROVE  ChildInv'
  BY <1>1, RefusedPreserves, ExecutePreserves, CannotComposePreserves, SessionRefusedPreserves,
     StartProcessPreserves, ChildEndsPreserves DEF Outcomes
<1>2. CASE UNCHANGED <<vars, childVars>>
  <2>1. IInv'
    BY <1>2, StutterPreserves DEF ChildInv
  <2>2. UNCHANGED <<life, closing, pc, record, recovery, owner, coordination, parentLive,
            delegation>>
    BY <1>2 DEF vars, childVars
  <2>3. ChildTypeOK'
    BY <2>2 DEF ChildInv, ChildTypeOK
  <2>4. ChildrenAreApart'
    BY <2>2 DEF ChildInv, ChildrenAreApart, ChildSessionOf, ChildRunOf
  <2>5. ASSUME NEW d \in Delegations PROVE Follows(d)'
    BY <2>2 DEF ChildInv, Follows, CallFollows, OutcomeFollows, UseFollows, At, ChildSessionOf,
       ChildRunOf
  <2> QED
    BY <2>1, <2>3, <2>4, <2>5 DEF ChildInv
<1> QED
  BY <1>1, <1>2, ChildStepPreserves, ParentCancelledPreserves DEF ChildNext

\* Where every delegation's session and run are and what it has to tell so far.
THEOREM ChildInvariance == ChildSpec => []ChildInv
  BY ChildInitEstablishes, ChildNextPreserves, PTL DEF ChildSpec

\* What a child may use stays within what its parent's run may use.
LEMMA ChildrenStayNarrow == ChildInv => ChildIsNarrower
  BY DEF ChildInv, Follows, UseFollows, ChildIsNarrower

\* What a child that came back told its parent is what it left behind.
LEMMA OutcomesAreTold == ChildInv => OutcomeIsTrue
<1> SUFFICES ASSUME ChildInv, NEW d \in Delegations, At(d) = "done"
             PROVE  LET c == delegation[d]  s == ChildSessionOf(d)  r == ChildRunOf(d)
                    IN  /\ c.status = "succeeded" <=> Reply(d) = "report"
                        /\ c.status = "succeeded" =>
                              /\ c.report /\ record[r] = "finished" /\ ~c.processes
                              /\ life[s] = "closed"
                        /\ c.processes => "cleanup" \in c.failures
                        /\ record[r] = "started" => "persistence" \in c.failures
                        /\ life[s] # "closed" => IdOf[s] \in open /\ recovery[s] = r
                        /\ IdOf[s] \in open => life[s] = "live"
  BY DEF OutcomeIsTrue
<1> DEFINE c == delegation[d]
           s == ChildSessionOf(d)
           r == ChildRunOf(d)
<1>1. s \in Sessions /\ r \in Runs
  BY OneEach
<1>2. CallFollows(d) /\ OutcomeFollows(d)
  BY DEF ChildInv, Follows
<1>3. (life[s] = "closed" /\ recovery[s] = None) \/ (life[s] = "live" /\ recovery[s] = r)
  BY <1>2 DEF CallFollows
<1>4. c.status = "succeeded" <=> c.failures = {}
  BY <1>2 DEF OutcomeFollows, Late
<1>5. c.status = "succeeded" <=> Reply(d) = "report"
  BY <1>4 DEF Reply
<1>6. recovery[s] # None => "cleanup" \in c.failures
  BY <1>2 DEF OutcomeFollows
<1>7. c.processes => "cleanup" \in c.failures
  BY <1>2 DEF OutcomeFollows, Late
<1>8. record[r] = "started" => "persistence" \in c.failures
  BY <1>2 DEF OutcomeFollows
<1>9. c.status = "succeeded" => c.report /\ pc[r] = "done"
  BY <1>2 DEF OutcomeFollows, CallFollows, Late
<1>10. pc[r] = "done" => record[r] \in {"started", "finished"}
  BY <1>1 DEF ChildInv, IInv, TypeOK, RecordsFollow, Written
<1>11. c.status = "succeeded" => record[r] = "finished" /\ ~c.processes /\ life[s] = "closed"
  BY <1>1, <1>3, <1>4, <1>6, <1>7, <1>8, <1>9, <1>10, SessionAssumption
<1>12. life[s] # "closed" => IdOf[s] \in open /\ recovery[s] = r
  BY <1>1, <1>3 DEF ChildInv, IInv, LeaseIsExclusive
<1>13. IdOf[s] \in open => life[s] = "live"
  <2>1. SUFFICES ASSUME IdOf[s] \in open PROVE life[s] = "live"
    OBVIOUS
  <2>2. PICK t \in Sessions : life[t] \in {"opening", "live"} /\ IdOf[t] = IdOf[s]
    BY <2>1 DEF ChildInv, IInv, LeaseIsExclusive
  <2>3. PICK e \in Delegations : t = ChildSessionOf(e)
    BY <2>2 DEF ChildInv, ChildrenAreApart
  <2>4. e = d
    BY <2>2, <2>3, ChildAssumption DEF ChildSessionOf
  <2> QED
    BY <1>3, <2>2, <2>3, <2>4
<1> HIDE DEF c, s, r
<1>14. /\ c.status = "succeeded" <=> Reply(d) = "report"
       /\ c.status = "succeeded" =>
             c.report /\ record[r] = "finished" /\ ~c.processes /\ life[s] = "closed"
       /\ c.processes => "cleanup" \in c.failures
       /\ record[r] = "started" => "persistence" \in c.failures
       /\ life[s] # "closed" => IdOf[s] \in open /\ recovery[s] = r
       /\ IdOf[s] \in open => life[s] = "live"
  BY <1>5, <1>7, <1>8, <1>9, <1>11, <1>12, <1>13
<1> QED
  BY <1>14 DEF c, s, r

\* A delegated run never uses what its parent's run may not, and what its call answers is
\* what it left behind: its stored end, its processes and its session (child_runner.go).
THEOREM ChildStaysContained == ChildSpec => []ChildIsContained
<1>1. ChildInv => ChildIsContained
  BY ChildrenStayNarrow, OutcomesAreTold DEF ChildIsContained
<1> QED
  BY <1>1, ChildInvariance, PTL

\* Leases, tokens and recovery stay exact when every session is a child's.
THEOREM ChildSessionsStayExact == ChildSpec => []AdmissionIsExact
<1>1. ChildInv => AdmissionIsExact
  BY TokensAreCounted, UnfinishedRunIsAlone, RecoveryIsKept DEF ChildInv, IInv, AdmissionIsExact
<1> QED
  BY <1>1, ChildInvariance, PTL
=============================================================================
