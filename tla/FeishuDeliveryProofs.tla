------------------------- MODULE FeishuDeliveryProofs -------------------------
(***************************************************************************)
(* Admission of Feishu messages for any number of webhook calls, messages, *)
(* channel capacity, crashes and restarts: at-most-once acceptance, an     *)
(* owner for every reservation, an exact count of handlers and no send on  *)
(* the closed channel.  The invariant says what the holder of a            *)
(* reservation knows: its record is in the store, unexpired and not that   *)
(* of an accepted message, so nobody else owns it and undoing it undoes    *)
(* nothing else.                                                           *)
(***************************************************************************)
EXTENDS FeishuDelivery, FiniteSetTheorems, TLAPS

\* The handler's message is reserved, and the handler still decides about it.
Owning(d) == pc[d] \in {"reserved", "sending", "rolling"}

\* Another call of the message failed, so that Feishu sends it again.
Failed(m) == \E e \in Deliveries : MessageOf[e] = m /\ (answer[e] = "error" \/ pc[e] = "lost")

\* What a reservation's owner may rely on.
OwnersHaveRecords ==
    /\ \A d \in Deliveries :
          pc[d] \in {"reserving", "reserved", "sending", "rolling"} => MessageOf[d] \in Messages
    /\ \A d \in Deliveries : Owning(d) => MessageOf[d] \in (durable \ aged) \ recent
    /\ \A d, e \in Deliveries : Owning(d) /\ Owning(e) /\ MessageOf[d] = MessageOf[e] => d = e

\* What every record stands for.
RecordsStand ==
    /\ recent \subseteq durable \ aged /\ recent \subseteq accepted
    /\ \A m \in durable \ aged :
          m \in recent \cup stranded \/ \E d \in Deliveries : MessageOf[d] = m /\ Owning(d)
    /\ \A m \in stranded : Failed(m)
    /\ \A m \in aged : m \in accepted \/ Failed(m)

\* What an acknowledgement stands for.
AnswersStand ==
    /\ \A d \in Deliveries : pc[d] \in {"unsent", "reserving"} \/ Owning(d) => answer[d] = "none"
    /\ \A d \in Deliveries : answer[d] = "ok" /\ MessageOf[d] # None =>
          \/ MessageOf[d] \in accepted \/ Failed(MessageOf[d])
          \/ \E e \in Deliveries : MessageOf[e] = MessageOf[d] /\ Owning(e)

\* Once the channel is closed no handler may reach the select's send any more.
ChannelIsQuiet ==
    /\ server.tasksClosed <=> server.at \in {"waiting", "exited"}
    /\ server.at \in {"stopping", "draining", "waiting"} => gate.closed
    /\ server.at = "exited" => Live = {}
    /\ server.at = "waiting" =>
          Live = {} \/ (gate.aborted /\ \A d \in Deliveries : pc[d] # "sending")
    /\ \A d \in Deliveries : pc[d] # "panicked"

IInv ==
    /\ TypeOK /\ OwnersHaveRecords /\ RecordsStand /\ AnswersStand
    /\ GateCountsHandlers /\ ChannelIsQuiet

-----------------------------------------------------------------------------

(* The count of the handlers past the gate.                                  *)

\* The handlers past the gate can be counted, and so can one more or one less.
LEMMA HandlersCount ==
  ASSUME GateCountsHandlers
  PROVE  /\ gate.active = 0 <=> Live = {}
         /\ \A d \in Live : Cardinality(Live \ {d}) = gate.active - 1
         /\ \A d \in Deliveries \ Live : Cardinality(Live \cup {d}) = gate.active + 1
<1>1. IsFiniteSet(Live)
  BY DeliveryAssumption, FS_Subset DEF Live
<1>2. gate.active = Cardinality(Live)
  BY DEF GateCountsHandlers
<1>3. gate.active = 0 <=> Live = {}
  BY <1>1, <1>2, FS_EmptySet
<1>4. ASSUME NEW d \in Live
      PROVE  Cardinality(Live \ {d}) = gate.active - 1
  BY <1>1, <1>2, FS_RemoveElement
<1>5. ASSUME NEW d \in Deliveries \ Live
      PROVE  Cardinality(Live \cup {d}) = gate.active + 1
  BY <1>1, <1>2, FS_AddElement
<1> QED
  BY <1>3, <1>4, <1>5

\* A step past which as many handlers are inside, and the gate is as closed.
LEMMA CountKept ==
  ASSUME GateCountsHandlers, Live' = Live,
         gate' = gate \/ gate' = [gate EXCEPT !.aborted = TRUE], TypeOK
  PROVE  GateCountsHandlers'
  BY DEF GateCountsHandlers, TypeOK

\* A process that ended leaves an open gate and nobody inside.
LEMMA NobodyInside ==
  ASSUME LoseMemory
  PROVE  Live' = {} /\ GateCountsHandlers'
<1>1. Live' = {}
  BY DEF LoseMemory, Live
<1>2. gate'.active = 0 /\ gate'.drained = FALSE /\ gate'.closed = FALSE
  BY DEF LoseMemory, OpenGate
<1> QED
  BY <1>1, <1>2, FS_EmptySet DEF GateCountsHandlers

-----------------------------------------------------------------------------
(* The steps.                                                                *)

LEMMA BeginPreserves ==
  ASSUME IInv, NEW d \in Deliveries, Begin(d)
  PROVE  IInv'
<1>1. TypeOK'
  <2>1. gate' \in [closed : BOOLEAN, active : Nat, drained : BOOLEAN, aborted : BOOLEAN]
    BY DEF Begin, IInv, TypeOK
  <2>2. pc' \in [Deliveries -> PCs] /\ answer' \in [Deliveries -> {"none", "ok", "error"}]
    BY DEF Begin, Goto, Answered, IInv, TypeOK, PCs
  <2> QED
    BY <2>1, <2>2 DEF Begin, store, history, IInv, TypeOK
<1>2. OwnersHaveRecords'
  BY DeliveryAssumption DEF Begin, Goto, Answered, store, history, Up, IInv, TypeOK,
     OwnersHaveRecords, RecordsStand, Owning, Live
<1>3. RecordsStand'
  BY DeliveryAssumption DEF Begin, Goto, Answered, store, history, Up, IInv, TypeOK,
     OwnersHaveRecords, RecordsStand, AnswersStand, Failed, Owning, Live
<1>4. AnswersStand'
  <2>1. \A m : Failed(m) => Failed(m)'
    BY DEF Begin, Goto, Answered, IInv, TypeOK, AnswersStand, Failed, Owning
  <2>2. \A e \in Deliveries : Owning(e)' <=> Owning(e)
    BY DEF Begin, Goto, Answered, IInv, TypeOK, Owning
  <2>3. pc[d] = "unsent" /\ \A e \in Deliveries : e # d => answer'[e] = answer[e] /\ pc'[e] = pc[e]
    BY DEF Begin, Goto, Answered, IInv, TypeOK
  <2>4. answer'[d] = "ok" => MessageOf[d] = None /\ pc'[d] = "finishing"
    BY DEF Begin, Goto, Answered, IInv, TypeOK, AnswersStand
  <2>5. pc'[d] = "reserving" => answer'[d] = "none"
    BY DEF Begin, Goto, Answered, IInv, TypeOK, AnswersStand
  <2>6. pc'[d] \in {"reserving", "finishing"} /\ accepted' = accepted
    BY DEF Begin, Goto, Answered, IInv, TypeOK, history
  <2> QED
    BY <2>1, <2>2, <2>3, <2>4, <2>5, <2>6 DEF IInv, AnswersStand, Owning
<1>5. GateCountsHandlers'
  <2>1. d \in Deliveries \ Live /\ Live' = Live \cup {d}
    BY DEF Begin, Goto, Answered, IInv, TypeOK, Live
  <2>2. /\ gate'.active = gate.active + 1 /\ gate'.drained = gate.drained
        /\ gate'.closed = gate.closed /\ ~gate.closed
    BY DEF Begin, IInv, TypeOK
  <2> QED
    BY <2>1, <2>2, HandlersCount DEF IInv, GateCountsHandlers
<1>6. ChannelIsQuiet'
  BY DeliveryAssumption DEF Begin, Goto, Answered, store, history, Up, IInv, TypeOK,
     ChannelIsQuiet, Live
<1> QED
  BY <1>1, <1>2, <1>3, <1>4, <1>5, <1>6 DEF IInv

LEMMA RefusePreserves ==
  ASSUME IInv, NEW d \in Deliveries, Refuse(d)
  PROVE  IInv'
<1>1. TypeOK'
  BY DeliveryAssumption DEF Refuse, Goto, Answered, store, history, IInv, TypeOK, PCs, Live
<1>2. OwnersHaveRecords'
  BY DeliveryAssumption DEF Refuse, Goto, Answered, store, history, IInv, TypeOK,
     OwnersHaveRecords, RecordsStand, Owning, Live
<1>3. RecordsStand'
  BY DeliveryAssumption DEF Refuse, Goto, Answered, store, history, IInv, TypeOK,
     OwnersHaveRecords, RecordsStand, AnswersStand, Failed, Owning, Live
<1>4. AnswersStand'
  BY DeliveryAssumption DEF Refuse, Goto, Answered, store, history, IInv, TypeOK,
     OwnersHaveRecords, RecordsStand, AnswersStand, Failed, Owning, Live
<1>5. GateCountsHandlers'
  <2>1. Live' = Live
    BY DEF Refuse, Goto, Answered, store, history, IInv, TypeOK, Live
  <2> QED
    BY <2>1, CountKept DEF Refuse, IInv
<1>6. ChannelIsQuiet'
  BY DeliveryAssumption DEF Refuse, Goto, Answered, store, history, IInv, TypeOK, ChannelIsQuiet,
     Live
<1> QED
  BY <1>1, <1>2, <1>3, <1>4, <1>5, <1>6 DEF IInv

LEMMA DisconnectPreserves ==
  ASSUME IInv, NEW d \in Deliveries, Disconnect(d)
  PROVE  IInv'
<1>1. TypeOK'
  BY DeliveryAssumption DEF Disconnect, store, history, IInv, TypeOK, PCs, Live
<1>2. OwnersHaveRecords'
  BY DeliveryAssumption DEF Disconnect, store, history, IInv, TypeOK, OwnersHaveRecords,
     RecordsStand, Owning, Live
<1>3. RecordsStand'
  BY DeliveryAssumption DEF Disconnect, store, history, IInv, TypeOK, OwnersHaveRecords,
     RecordsStand, AnswersStand, Failed, Owning, Live
<1>4. AnswersStand'
  BY DeliveryAssumption DEF Disconnect, store, history, IInv, TypeOK, OwnersHaveRecords,
     RecordsStand, AnswersStand, Failed, Owning, Live
<1>5. GateCountsHandlers'
  <2>1. Live' = Live
    BY DEF Disconnect, store, history, IInv, TypeOK, Live
  <2> QED
    BY <2>1, CountKept DEF Disconnect, IInv
<1>6. ChannelIsQuiet'
  BY DeliveryAssumption DEF Disconnect, store, history, IInv, TypeOK, ChannelIsQuiet, Live
<1> QED
  BY <1>1, <1>2, <1>3, <1>4, <1>5, <1>6 DEF IInv

\* A new reservation: its message was unknown or expired, so nobody owns it yet.
LEMMA ReservePreserves ==
  ASSUME IInv, NEW d \in Deliveries, Reserve(d)
  PROVE  IInv'
<1>1. TypeOK'
  BY DeliveryAssumption DEF Reserve, Goto, history, IInv, TypeOK, PCs, Live, OwnersHaveRecords
<1>2. OwnersHaveRecords'
  BY DeliveryAssumption DEF Reserve, Goto, history, IInv, TypeOK, OwnersHaveRecords, RecordsStand,
     Owning, Live
<1>3. RecordsStand'
  BY DeliveryAssumption DEF Reserve, Goto, history, IInv, TypeOK, OwnersHaveRecords, RecordsStand,
     AnswersStand, Failed, Owning, Live
<1>4. AnswersStand'
  BY DeliveryAssumption DEF Reserve, Goto, history, IInv, TypeOK, OwnersHaveRecords, RecordsStand,
     AnswersStand, Failed, Owning, Live
<1>5. GateCountsHandlers'
  <2>1. Live' = Live
    BY DEF Reserve, Goto, history, IInv, TypeOK, Live
  <2> QED
    BY <2>1, CountKept DEF Reserve, IInv
<1>6. ChannelIsQuiet'
  BY DeliveryAssumption DEF Reserve, Goto, history, IInv, TypeOK, ChannelIsQuiet, Live
<1> QED
  BY <1>1, <1>2, <1>3, <1>4, <1>5, <1>6 DEF IInv

\* A duplicate is acknowledged because the record it met stands for something.
LEMMA DuplicatePreserves ==
  ASSUME IInv, NEW d \in Deliveries, Duplicate(d)
  PROVE  IInv'
<1>1. \A m : Failed(m) => Failed(m)'
  BY DEF Duplicate, Goto, Answered, IInv, TypeOK, AnswersStand, Failed, Owning
<1>2. TypeOK'
  BY DeliveryAssumption, <1>1 DEF Duplicate, Goto, Answered, store, history, IInv, TypeOK, PCs, Live
<1>3. OwnersHaveRecords'
  BY DeliveryAssumption, <1>1 DEF Duplicate, Goto, Answered, store, history, IInv, TypeOK,
     OwnersHaveRecords, RecordsStand, Owning, Live
<1>4. RecordsStand'
  BY DeliveryAssumption, <1>1 DEF Duplicate, Goto, Answered, store, history, IInv, TypeOK,
     OwnersHaveRecords, RecordsStand, AnswersStand, Failed, Owning, Live
<1>5. AnswersStand'
  <2>1. \A e \in Deliveries : Owning(e) => Owning(e)'
    BY DEF Duplicate, Answered, Goto, IInv, TypeOK, Owning
  <2>2. MessageOf[d] \in accepted \/ Failed(MessageOf[d])
           \/ \E e \in Deliveries : MessageOf[e] = MessageOf[d] /\ Owning(e)
    BY DEF Duplicate, IInv, RecordsStand
  <2>3. /\ \A e \in Deliveries : e # d => answer'[e] = answer[e] /\ pc'[e] = pc[e]
        /\ pc'[d] = "finishing" /\ accepted' = accepted
    BY DEF Duplicate, Answered, Goto, IInv, TypeOK, history
  <2> QED
    BY <1>1, <2>1, <2>2, <2>3 DEF IInv, AnswersStand, Owning
<1>6. GateCountsHandlers'
  <2>1. Live' = Live
    BY <1>1 DEF Duplicate, Goto, Answered, store, history, IInv, TypeOK, Live
  <2> QED
    BY <2>1, <1>1, CountKept DEF Duplicate, IInv
<1>7. ChannelIsQuiet'
  BY DeliveryAssumption, <1>1 DEF Duplicate, Goto, Answered, store, history, IInv, TypeOK,
     ChannelIsQuiet, Live
<1> QED
  BY <1>2, <1>3, <1>4, <1>5, <1>6, <1>7 DEF IInv

LEMMA ReserveFailsPreserves ==
  ASSUME IInv, NEW d \in Deliveries, ReserveFails(d)
  PROVE  IInv'
<1>1. TypeOK'
  BY DeliveryAssumption DEF ReserveFails, Goto, Answered, store, history, IInv, TypeOK, PCs, Live
<1>2. OwnersHaveRecords'
  BY DeliveryAssumption DEF ReserveFails, Goto, Answered, store, history, IInv, TypeOK,
     OwnersHaveRecords, RecordsStand, Owning, Live
<1>3. RecordsStand'
  BY DeliveryAssumption DEF ReserveFails, Goto, Answered, store, history, IInv, TypeOK,
     OwnersHaveRecords, RecordsStand, AnswersStand, Failed, Owning, Live
<1>4. AnswersStand'
  BY DeliveryAssumption DEF ReserveFails, Goto, Answered, store, history, IInv, TypeOK,
     OwnersHaveRecords, RecordsStand, AnswersStand, Failed, Owning, Live
<1>5. GateCountsHandlers'
  <2>1. Live' = Live
    BY DEF ReserveFails, Goto, Answered, store, history, IInv, TypeOK, Live
  <2> QED
    BY <2>1, CountKept DEF ReserveFails, IInv
<1>6. ChannelIsQuiet'
  BY DeliveryAssumption DEF ReserveFails, Goto, Answered, store, history, IInv, TypeOK,
     ChannelIsQuiet, Live
<1> QED
  BY <1>1, <1>2, <1>3, <1>4, <1>5, <1>6 DEF IInv

LEMMA CheckReservedPreserves ==
  ASSUME IInv, NEW d \in Deliveries, CheckReserved(d)
  PROVE  IInv'
<1>1. TypeOK'
  BY DeliveryAssumption DEF CheckReserved, Goto, Answered, store, history, IInv, TypeOK, PCs, Live
<1>2. OwnersHaveRecords'
  BY DeliveryAssumption DEF CheckReserved, Goto, Answered, store, history, IInv, TypeOK,
     OwnersHaveRecords, RecordsStand, Owning, Live
<1>3. RecordsStand'
  BY DeliveryAssumption DEF CheckReserved, Goto, Answered, store, history, IInv, TypeOK,
     OwnersHaveRecords, RecordsStand, AnswersStand, Failed, Owning, Live
<1>4. AnswersStand'
  BY DeliveryAssumption DEF CheckReserved, Goto, Answered, store, history, IInv, TypeOK,
     OwnersHaveRecords, RecordsStand, AnswersStand, Failed, Owning, Live
<1>5. GateCountsHandlers'
  <2>1. Live' = Live
    BY DEF CheckReserved, Goto, Answered, store, history, IInv, TypeOK, Live
  <2> QED
    BY <2>1, CountKept DEF CheckReserved, IInv
<1>6. ChannelIsQuiet'
  BY DeliveryAssumption DEF CheckReserved, Goto, Answered, store, history, IInv, TypeOK,
     ChannelIsQuiet, Live
<1> QED
  BY <1>1, <1>2, <1>3, <1>4, <1>5, <1>6 DEF IInv

\* The message enters the queue with its reservation, which nobody else can undo.
LEMMA EnqueuePreserves ==
  ASSUME IInv, NEW d \in Deliveries, Enqueue(d)
  PROVE  IInv'
<1>1. ~server.tasksClosed /\ pc[d] = "sending"
  BY DEF IInv, ChannelIsQuiet, Live, Enqueue
<1>2. /\ tasks' = Append(tasks, MessageOf[d]) /\ Len(tasks) < Buffer
      /\ accepted' = accepted \cup {MessageOf[d]} /\ recent' = recent \cup {MessageOf[d]}
      /\ pc' = [pc EXCEPT ![d] = "finishing"] /\ answer' = [answer EXCEPT ![d] = "ok"]
      /\ UNCHANGED <<store, postErr, gone, gate, server, stranded, stops>>
  BY <1>1 DEF Enqueue, Goto, Answered
<1>3. \A m : Failed(m) => Failed(m)'
  BY <1>1, <1>2 DEF IInv, TypeOK, AnswersStand, Failed, Owning
<1>4. TypeOK'
  <2>1. MessageOf[d] \in Messages
    BY <1>1 DEF IInv, OwnersHaveRecords
  <2>2. tasks' \in Seq(Messages) /\ Len(tasks') = Len(tasks) + 1
    BY <2>1, <1>2 DEF IInv, TypeOK
  <2>3. Len(tasks') <= Buffer
    BY <2>2, <1>2, DeliveryAssumption DEF IInv, TypeOK
  <2> QED
    BY <2>1, <2>2, <2>3, <1>2 DEF store, IInv, TypeOK, PCs
<1>5. OwnersHaveRecords'
  BY DeliveryAssumption, <1>1, <1>2, <1>3
  DEF store, IInv, TypeOK, OwnersHaveRecords, RecordsStand, Owning, Live
<1>6. RecordsStand'
  <2>1. \A e \in Deliveries \ {d} : Owning(e)' <=> Owning(e)
    BY <1>2 DEF IInv, TypeOK, Owning
  <2>2. Owning(d)
    BY <1>1 DEF Owning
  <2>3. recent' \subseteq durable' \ aged' /\ recent' \subseteq accepted'
    BY <2>2, <1>2 DEF store, IInv, RecordsStand, OwnersHaveRecords
  <2> QED
    BY <2>1, <2>2, <2>3, <1>2, <1>3 DEF store, IInv, RecordsStand
<1>7. AnswersStand'
  BY DeliveryAssumption, <1>1, <1>2, <1>3
  DEF store, IInv, TypeOK, OwnersHaveRecords, RecordsStand, AnswersStand, Failed, Owning, Live
<1>8. GateCountsHandlers'
  <2>1. Live' = Live
    BY <1>1, <1>2, <1>3 DEF store, IInv, TypeOK, Live
  <2> QED
    BY <2>1, <1>1, <1>2, <1>3, CountKept DEF IInv
<1>9. ChannelIsQuiet'
  BY DeliveryAssumption, <1>1, <1>2, <1>3 DEF store, IInv, TypeOK, ChannelIsQuiet, Live
<1> QED
  BY <1>4, <1>5, <1>6, <1>7, <1>8, <1>9 DEF IInv

LEMMA EnqueueRefusedPreserves ==
  ASSUME IInv, NEW d \in Deliveries, EnqueueRefused(d)
  PROVE  IInv'
<1>1. TypeOK'
  BY DeliveryAssumption DEF EnqueueRefused, Goto, Answered, store, history, IInv, TypeOK, PCs, Live
<1>2. OwnersHaveRecords'
  BY DeliveryAssumption DEF EnqueueRefused, Goto, Answered, store, history, IInv, TypeOK,
     OwnersHaveRecords, RecordsStand, Owning, Live
<1>3. RecordsStand'
  BY DeliveryAssumption DEF EnqueueRefused, Goto, Answered, store, history, IInv, TypeOK,
     OwnersHaveRecords, RecordsStand, AnswersStand, Failed, Owning, Live
<1>4. AnswersStand'
  BY DeliveryAssumption DEF EnqueueRefused, Goto, Answered, store, history, IInv, TypeOK,
     OwnersHaveRecords, RecordsStand, AnswersStand, Failed, Owning, Live
<1>5. GateCountsHandlers'
  <2>1. Live' = Live
    BY DEF EnqueueRefused, Goto, Answered, store, history, IInv, TypeOK, Live
  <2> QED
    BY <2>1, CountKept DEF EnqueueRefused, IInv
<1>6. ChannelIsQuiet'
  BY DeliveryAssumption DEF EnqueueRefused, Goto, Answered, store, history, IInv, TypeOK,
     ChannelIsQuiet, Live
<1> QED
  BY <1>1, <1>2, <1>3, <1>4, <1>5, <1>6 DEF IInv

\* A rollback takes away the record of a message that was not accepted.
LEMMA RollbackPreserves ==
  ASSUME IInv, NEW d \in Deliveries, Rollback(d)
  PROVE  IInv'
<1>1. TypeOK'
  BY DeliveryAssumption DEF Rollback, Goto, Answered, IInv, TypeOK, PCs, Live
<1>2. OwnersHaveRecords'
  BY DeliveryAssumption DEF Rollback, Goto, Answered, IInv, TypeOK, OwnersHaveRecords,
     RecordsStand, Owning, Live
<1>3. RecordsStand'
  BY DeliveryAssumption DEF Rollback, Goto, Answered, IInv, TypeOK, OwnersHaveRecords,
     RecordsStand, AnswersStand, Failed, Owning, Live
<1>4. AnswersStand'
  BY DeliveryAssumption DEF Rollback, Goto, Answered, IInv, TypeOK, OwnersHaveRecords,
     RecordsStand, AnswersStand, Failed, Owning, Live
<1>5. GateCountsHandlers'
  <2>1. Live' = Live
    BY DEF Rollback, Goto, Answered, IInv, TypeOK, Live
  <2> QED
    BY <2>1, CountKept DEF Rollback, IInv
<1>6. ChannelIsQuiet'
  BY DeliveryAssumption DEF Rollback, Goto, Answered, IInv, TypeOK, ChannelIsQuiet, Live
<1> QED
  BY <1>1, <1>2, <1>3, <1>4, <1>5, <1>6 DEF IInv

LEMMA FinishPreserves ==
  ASSUME IInv, NEW d \in Deliveries, Finish(d)
  PROVE  IInv'
<1>1. TypeOK'
  <2>1. d \in Live
    BY DEF Finish, Live
  <2>2. gate.active - 1 \in Nat
    BY <2>1, HandlersCount DEF IInv, TypeOK
  <2>3. gate' \in [closed : BOOLEAN, active : Nat, drained : BOOLEAN, aborted : BOOLEAN]
    BY <2>2 DEF Finish, IInv, TypeOK
  <2> QED
    BY <2>3 DEF Finish, Goto, store, history, IInv, TypeOK, PCs
<1>2. OwnersHaveRecords'
  BY DeliveryAssumption DEF Finish, Goto, Answered, store, history, IInv, TypeOK,
     OwnersHaveRecords, RecordsStand, Owning, Live
<1>3. RecordsStand'
  BY DeliveryAssumption DEF Finish, Goto, Answered, store, history, IInv, TypeOK,
     OwnersHaveRecords, RecordsStand, AnswersStand, Failed, Owning, Live
<1>4. AnswersStand'
  BY DeliveryAssumption DEF Finish, Goto, Answered, store, history, IInv, TypeOK,
     OwnersHaveRecords, RecordsStand, AnswersStand, Failed, Owning, Live
<1>5. GateCountsHandlers'
  <2>1. d \in Live /\ Live' = Live \ {d}
    BY DEF Finish, Goto, IInv, TypeOK, Live
  <2>2. /\ gate'.active = gate.active - 1 /\ gate'.closed = gate.closed
        /\ gate'.drained <=> gate.drained \/ (gate.closed /\ gate.active = 1)
    BY DEF Finish, IInv, TypeOK
  <2>3. gate.active # 0
    BY <2>1, HandlersCount DEF IInv
  <2> QED
    BY <2>1, <2>2, <2>3, HandlersCount DEF IInv, TypeOK, GateCountsHandlers
<1>6. ChannelIsQuiet'
  BY DeliveryAssumption DEF Finish, Goto, Answered, store, history, IInv, TypeOK, ChannelIsQuiet,
     Live
<1> QED
  BY <1>1, <1>2, <1>3, <1>4, <1>5, <1>6 DEF IInv

LEMMA StopAcceptingPreserves ==
  ASSUME IInv, StopAccepting
  PROVE  IInv'
<1>1. TypeOK'
  BY DeliveryAssumption DEF StopAccepting, ServerUnchanged, store, handlers, history, IInv,
     TypeOK, PCs, Live
<1>2. OwnersHaveRecords'
  BY DeliveryAssumption DEF StopAccepting, ServerUnchanged, store, handlers, history, IInv,
     TypeOK, OwnersHaveRecords, RecordsStand, Owning, Live
<1>3. RecordsStand'
  BY DeliveryAssumption DEF StopAccepting, ServerUnchanged, store, handlers, history, IInv,
     TypeOK, OwnersHaveRecords, RecordsStand, AnswersStand, Failed, Owning, Live
<1>4. AnswersStand'
  BY DeliveryAssumption DEF StopAccepting, ServerUnchanged, store, handlers, history, IInv,
     TypeOK, OwnersHaveRecords, RecordsStand, AnswersStand, Failed, Owning, Live
<1>5. GateCountsHandlers'
  <2>1. Live' = Live
    BY DEF StopAccepting, ServerUnchanged, handlers, Live
  <2>2. /\ gate'.active = gate.active /\ gate'.closed
        /\ gate'.drained <=> gate.drained \/ gate.active = 0
    BY DEF StopAccepting, IInv, TypeOK
  <2> QED
    BY <2>1, <2>2 DEF IInv, GateCountsHandlers
<1>6. ChannelIsQuiet'
  BY DeliveryAssumption DEF StopAccepting, ServerUnchanged, store, handlers, history, IInv,
     TypeOK, ChannelIsQuiet, Live
<1> QED
  BY <1>1, <1>2, <1>3, <1>4, <1>5, <1>6 DEF IInv

\* A drained admission has nobody left who could send.
LEMMA AdmissionDrainedPreserves ==
  ASSUME IInv, AdmissionDrained
  PROVE  IInv'
<1>1. TypeOK'
  BY DeliveryAssumption DEF AdmissionDrained, ServerUnchanged, store, handlers, history, IInv,
     TypeOK, PCs, Live
<1>2. OwnersHaveRecords'
  BY DeliveryAssumption DEF AdmissionDrained, ServerUnchanged, store, handlers, history, IInv,
     TypeOK, OwnersHaveRecords, RecordsStand, Owning, Live
<1>3. RecordsStand'
  BY DeliveryAssumption DEF AdmissionDrained, ServerUnchanged, store, handlers, history, IInv,
     TypeOK, OwnersHaveRecords, RecordsStand, AnswersStand, Failed, Owning, Live
<1>4. AnswersStand'
  BY DeliveryAssumption DEF AdmissionDrained, ServerUnchanged, store, handlers, history, IInv,
     TypeOK, OwnersHaveRecords, RecordsStand, AnswersStand, Failed, Owning, Live
<1>5. GateCountsHandlers'
  <2>1. Live' = Live
    BY DEF AdmissionDrained, ServerUnchanged, store, handlers, history, IInv, TypeOK, Live
  <2> QED
    BY <2>1, CountKept DEF AdmissionDrained, ServerUnchanged, IInv
<1>6. ChannelIsQuiet'
  <2>1. Live = {}
    BY HandlersCount DEF AdmissionDrained, IInv, GateCountsHandlers
  <2> QED
    BY <2>1 DEF AdmissionDrained, ServerUnchanged, handlers, IInv, TypeOK, ChannelIsQuiet, Live
<1> QED
  BY <1>1, <1>2, <1>3, <1>4, <1>5, <1>6 DEF IInv

LEMMA StopTimesOutPreserves ==
  ASSUME IInv, StopTimesOut
  PROVE  IInv'
<1>1. TypeOK'
  BY DeliveryAssumption DEF StopTimesOut, ServerUnchanged, store, handlers, history, IInv, TypeOK,
     PCs, Live
<1>2. OwnersHaveRecords'
  BY DeliveryAssumption DEF StopTimesOut, ServerUnchanged, store, handlers, history, IInv, TypeOK,
     OwnersHaveRecords, RecordsStand, Owning, Live
<1>3. RecordsStand'
  BY DeliveryAssumption DEF StopTimesOut, ServerUnchanged, store, handlers, history, IInv, TypeOK,
     OwnersHaveRecords, RecordsStand, AnswersStand, Failed, Owning, Live
<1>4. AnswersStand'
  BY DeliveryAssumption DEF StopTimesOut, ServerUnchanged, store, handlers, history, IInv, TypeOK,
     OwnersHaveRecords, RecordsStand, AnswersStand, Failed, Owning, Live
<1>5. GateCountsHandlers'
  <2>1. Live' = Live
    BY DEF StopTimesOut, ServerUnchanged, store, handlers, history, IInv, TypeOK, Live
  <2> QED
    BY <2>1, CountKept DEF StopTimesOut, ServerUnchanged, IInv
<1>6. ChannelIsQuiet'
  BY DeliveryAssumption DEF StopTimesOut, ServerUnchanged, store, handlers, history, IInv, TypeOK,
     ChannelIsQuiet, Live
<1> QED
  BY <1>1, <1>2, <1>3, <1>4, <1>5, <1>6 DEF IInv

\* Who is still inside when the channel is closed finds the admission aborted.
LEMMA DrainTimesOutPreserves ==
  ASSUME IInv, DrainTimesOut
  PROVE  IInv'
<1>1. TypeOK'
  BY DeliveryAssumption DEF DrainTimesOut, ServerUnchanged, store, handlers, history, IInv,
     TypeOK, PCs, Live
<1>2. OwnersHaveRecords'
  BY DeliveryAssumption DEF DrainTimesOut, ServerUnchanged, store, handlers, history, IInv,
     TypeOK, OwnersHaveRecords, RecordsStand, Owning, Live
<1>3. RecordsStand'
  BY DeliveryAssumption DEF DrainTimesOut, ServerUnchanged, store, handlers, history, IInv,
     TypeOK, OwnersHaveRecords, RecordsStand, AnswersStand, Failed, Owning, Live
<1>4. AnswersStand'
  BY DeliveryAssumption DEF DrainTimesOut, ServerUnchanged, store, handlers, history, IInv,
     TypeOK, OwnersHaveRecords, RecordsStand, AnswersStand, Failed, Owning, Live
<1>5. GateCountsHandlers'
  <2>1. Live' = Live
    BY DEF DrainTimesOut, ServerUnchanged, store, handlers, history, IInv, TypeOK, Live
  <2> QED
    BY <2>1, CountKept DEF DrainTimesOut, ServerUnchanged, IInv
<1>6. ChannelIsQuiet'
  BY DeliveryAssumption DEF DrainTimesOut, ServerUnchanged, store, handlers, history, IInv,
     TypeOK, ChannelIsQuiet, Live
<1> QED
  BY <1>1, <1>2, <1>3, <1>4, <1>5, <1>6 DEF IInv

LEMMA ExitPreserves ==
  ASSUME IInv, Exit
  PROVE  IInv'
<1>1. TypeOK'
  BY DeliveryAssumption DEF Exit, LoseMemory, OpenGate, store, history, IInv, TypeOK, PCs, Live,
     OwnersHaveRecords, Owning
<1>2. OwnersHaveRecords'
  BY DeliveryAssumption DEF Exit, LoseMemory, OpenGate, store, history, IInv, TypeOK,
     OwnersHaveRecords, RecordsStand, Owning, Live
<1>3. RecordsStand'
  BY DeliveryAssumption DEF Exit, LoseMemory, OpenGate, store, history, IInv, TypeOK,
     OwnersHaveRecords, RecordsStand, AnswersStand, Failed, Owning, Live
<1>4. AnswersStand'
  BY DeliveryAssumption DEF Exit, LoseMemory, OpenGate, store, history, IInv, TypeOK,
     OwnersHaveRecords, RecordsStand, AnswersStand, Failed, Owning, Live
<1>5. GateCountsHandlers'
  BY NobodyInside DEF Exit
<1>6. ChannelIsQuiet'
  BY DeliveryAssumption DEF Exit, LoseMemory, OpenGate, store, history, IInv, TypeOK,
     ChannelIsQuiet, Live
<1> QED
  BY <1>1, <1>2, <1>3, <1>4, <1>5, <1>6 DEF IInv

LEMMA RunnerTakesPreserves ==
  ASSUME IInv, RunnerTakes
  PROVE  IInv'
<1>1. TypeOK'
  BY DeliveryAssumption DEF RunnerTakes, store, handlers, history, IInv, TypeOK, PCs, Live
<1>2. OwnersHaveRecords'
  BY DeliveryAssumption DEF RunnerTakes, store, handlers, history, IInv, TypeOK,
     OwnersHaveRecords, RecordsStand, Owning, Live
<1>3. RecordsStand'
  BY DeliveryAssumption DEF RunnerTakes, store, handlers, history, IInv, TypeOK,
     OwnersHaveRecords, RecordsStand, AnswersStand, Failed, Owning, Live
<1>4. AnswersStand'
  BY DeliveryAssumption DEF RunnerTakes, store, handlers, history, IInv, TypeOK,
     OwnersHaveRecords, RecordsStand, AnswersStand, Failed, Owning, Live
<1>5. GateCountsHandlers'
  <2>1. Live' = Live
    BY DEF RunnerTakes, store, handlers, history, IInv, TypeOK, Live
  <2> QED
    BY <2>1, CountKept DEF RunnerTakes, IInv
<1>6. ChannelIsQuiet'
  BY DeliveryAssumption DEF RunnerTakes, store, handlers, history, IInv, TypeOK, ChannelIsQuiet,
     Live
<1> QED
  BY <1>1, <1>2, <1>3, <1>4, <1>5, <1>6 DEF IInv

\* What a crash leaves behind is a reservation of a failed call.
LEMMA NewProcessPreserves ==
  ASSUME IInv, NewProcess
  PROVE  IInv'
<1>1. TypeOK'
  BY DeliveryAssumption DEF NewProcess, LoseMemory, OpenGate, Running, store, IInv, TypeOK, PCs,
     Live, OwnersHaveRecords, Owning
<1>2. OwnersHaveRecords'
  BY DeliveryAssumption DEF NewProcess, LoseMemory, OpenGate, Running, store, IInv, TypeOK,
     OwnersHaveRecords, RecordsStand, Owning, Live
<1>3. RecordsStand'
  BY DeliveryAssumption DEF NewProcess, LoseMemory, OpenGate, Running, store, IInv, TypeOK,
     OwnersHaveRecords, RecordsStand, AnswersStand, Failed, Owning, Live
<1>4. AnswersStand'
  BY DeliveryAssumption DEF NewProcess, LoseMemory, OpenGate, Running, store, IInv, TypeOK,
     OwnersHaveRecords, RecordsStand, AnswersStand, Failed, Owning, Live
<1>5. GateCountsHandlers'
  BY NobodyInside DEF NewProcess
<1>6. ChannelIsQuiet'
  BY DeliveryAssumption DEF NewProcess, LoseMemory, OpenGate, Running, store, IInv, TypeOK,
     ChannelIsQuiet, Live
<1> QED
  BY <1>1, <1>2, <1>3, <1>4, <1>5, <1>6 DEF IInv

LEMMA AgePreserves ==
  ASSUME IInv, NEW m \in Messages, Age(m)
  PROVE  IInv'
<1>1. TypeOK'
  BY DeliveryAssumption DEF Age, handlers, IInv, TypeOK, PCs, Live
<1>2. OwnersHaveRecords'
  BY DeliveryAssumption DEF Age, handlers, IInv, TypeOK, OwnersHaveRecords, RecordsStand, Owning,
     Live
<1>3. RecordsStand'
  BY DeliveryAssumption DEF Age, handlers, IInv, TypeOK, OwnersHaveRecords, RecordsStand,
     AnswersStand, Failed, Owning, Live
<1>4. AnswersStand'
  BY DeliveryAssumption DEF Age, handlers, IInv, TypeOK, OwnersHaveRecords, RecordsStand,
     AnswersStand, Failed, Owning, Live
<1>5. GateCountsHandlers'
  <2>1. Live' = Live
    BY DEF Age, handlers, IInv, TypeOK, Live
  <2> QED
    BY <2>1, CountKept DEF Age, IInv
<1>6. ChannelIsQuiet'
  BY DeliveryAssumption DEF Age, handlers, IInv, TypeOK, ChannelIsQuiet, Live
<1> QED
  BY <1>1, <1>2, <1>3, <1>4, <1>5, <1>6 DEF IInv

-----------------------------------------------------------------------------

LEMMA InitEstablishes == Init => IInv
<1> SUFFICES ASSUME Init PROVE IInv
  OBVIOUS
<1>1. TypeOK
  BY DeliveryAssumption DEF Init, TypeOK, PCs, OpenGate, Running
<1>2. Live = {}
  BY DEF Init, Live
<1>3. GateCountsHandlers
  BY <1>2, FS_EmptySet DEF Init, OpenGate, GateCountsHandlers
<1>4. OwnersHaveRecords /\ RecordsStand /\ AnswersStand /\ ChannelIsQuiet
  BY <1>2 DEF Init, OpenGate, Running, OwnersHaveRecords, RecordsStand, AnswersStand,
     ChannelIsQuiet, Owning
<1> QED
  BY <1>1, <1>3, <1>4 DEF IInv

LEMMA NextPreserves ==
  ASSUME IInv, Next
  PROVE  IInv'
<1>1. ASSUME NEW d \in Deliveries, Begin(d) \/ Refuse(d) \/ Disconnect(d)
      PROVE  IInv'
  BY <1>1, BeginPreserves, RefusePreserves, DisconnectPreserves
<1>2. ASSUME NEW d \in Deliveries, StoreOperation(d)
      PROVE  IInv'
  BY <1>2, ReservePreserves, DuplicatePreserves, ReserveFailsPreserves, RollbackPreserves
  DEF StoreOperation
<1>3. ASSUME NEW d \in Deliveries, HandlerComputes(d)
      PROVE  IInv'
  BY <1>3, CheckReservedPreserves, EnqueuePreserves, EnqueueRefusedPreserves, FinishPreserves
  DEF HandlerComputes
<1>4. CASE StopAccepting \/ Serve
  BY <1>4, StopAcceptingPreserves, AdmissionDrainedPreserves, StopTimesOutPreserves,
     DrainTimesOutPreserves, ExitPreserves, RunnerTakesPreserves
  DEF Serve
<1>5. CASE NewProcess \/ \E m \in Messages : Age(m)
  BY <1>5, NewProcessPreserves, AgePreserves
<1> QED
  BY <1>1, <1>2, <1>3, <1>4, <1>5 DEF Next

\* Reservations, records and answers fit together in every reachable state.
THEOREM Invariance == Spec => []IInv
<1>1. IInv /\ UNCHANGED vars => IInv'
  BY DEF IInv, vars, store, handlers, history, TypeOK, OwnersHaveRecords, RecordsStand,
     AnswersStand, GateCountsHandlers, ChannelIsQuiet, Failed, Owning, Live
<1> QED
  BY <1>1, InitEstablishes, NextPreserves, PTL DEF Spec

\* The variables of the gateway, the delivery store and serve keep their types (gateway.go,
\* delivery_store.go, cmd/feishu/main.go).
THEOREM TypeCorrect == Spec => []TypeOK
  BY Invariance, PTL DEF IInv

\* Every reservation is somebody's, the count of the handlers is exact, and no handler sends
\* on the channel that serve closed.
THEOREM AdmissionStaysSound == Spec => []AdmissionIsSound
<1>1. IInv => RecordsAreAccounted
  <2>1. ASSUME NEW m, NEW d \in Owners(m)
        PROVE  d \in Deliveries /\ MessageOf[d] = m /\ Owning(d)
    BY DEF Owners, Owning
  <2>2. ASSUME NEW d \in Deliveries, Owning(d)
        PROVE  d \in Owners(MessageOf[d])
    BY <2>2 DEF Owners, Owning
  <2> QED
    BY <2>1, <2>2 DEF IInv, RecordsStand, OwnersHaveRecords, RecordsAreAccounted
<1>2. IInv => NoSendOnClosedChannel
  BY DEF IInv, ChannelIsQuiet, NoSendOnClosedChannel
<1> QED
  BY <1>1, <1>2, Invariance, PTL DEF AdmissionIsSound

\* A message that some call acknowledged was enqueued, or some call of it still decides about
\* it or failed, so that it is delivered again.
THEOREM AcknowledgementsHold == Spec => []AcknowledgedIsNotLost
<1>1. IInv => AcknowledgedIsNotLost
  BY DEF IInv, AnswersStand, AcknowledgedIsNotLost, Failed, Owning, Live
<1> QED
  BY <1>1, Invariance, PTL

\* No message enters the task queue twice within the retention of its record.
THEOREM AcceptedAtMostOnce == Spec => AtMostOnce
<1>1. IInv /\ [Next]_vars => (Len(tasks') > Len(tasks) => Last(tasks') \notin recent)
  <2> SUFFICES ASSUME IInv, [Next]_vars, Len(tasks') > Len(tasks)
               PROVE  Last(tasks') \notin recent
    OBVIOUS
  <2>1. tasks' # tasks /\ Len(<<>>) <= Len(tasks)
    BY DEF IInv, TypeOK
  <2>2. tasks # <<>> => Len(Tail(tasks)) <= Len(tasks)
    BY DEF IInv, TypeOK
  <2>3. PICK d \in Deliveries : Enqueue(d)
    BY <2>1, <2>2 DEF Next, vars, StoreOperation, HandlerComputes, Serve, Begin, Refuse, Disconnect,
       Reserve, Duplicate, ReserveFails, Rollback, CheckReserved, EnqueueRefused, Finish,
       StopAccepting, ServerUnchanged, AdmissionDrained, StopTimesOut, DrainTimesOut, Exit,
       RunnerTakes, NewProcess, LoseMemory, Age
  <2>4. tasks' = Append(tasks, MessageOf[d])
    BY <2>1, <2>3 DEF Enqueue
  <2>5. MessageOf[d] \in Messages \ recent
    BY <2>3 DEF IInv, OwnersHaveRecords, Owning, Enqueue
  <2>6. Last(tasks') = MessageOf[d]
    BY <2>4, <2>5 DEF Last, IInv, TypeOK
  <2> QED
    BY <2>5, <2>6
<1> QED
  BY <1>1, Invariance, PTL DEF Spec, AtMostOnce
=============================================================================
