----------------------- MODULE MessageDeliveryProofs -----------------------
(***************************************************************************)
(* Proofs about the delivery of a message, for any number of workers,      *)
(* retries and faults.                                                     *)
(***************************************************************************)
EXTENDS MessageDelivery, ConsumedMessagesProofs, SumTheorems

-----------------------------------------------------------------------------
(* Every step of a delivery is a step of the ledger, or leaves it alone.   *)
LEMMA DeliveryStepIsLedgerStep == [DeliveryNext]_deliveryVars => [Next]_vars
<1> SUFFICES ASSUME [DeliveryNext]_deliveryVars PROVE [Next]_vars
  OBVIOUS
<1>1. CASE UNCHANGED deliveryVars
  BY <1>1 DEF deliveryVars
<1>2. CASE Tick
  BY <1>2 DEF Next
<1>3. ASSUME NEW w \in Worker, NEW r \in Retries, Receive(w, r) PROVE [Next]_vars
  BY <1>3 DEF Receive, Next
<1>4. ASSUME NEW w \in Worker, Handle(w) PROVE [Next]_vars
  BY <1>4 DEF Handle, Statement, Next
<1>5. ASSUME NEW w \in Worker, Publish(w) \/ Acknowledge(w) \/ Republish(w) \/ RepublishFails(w)
                               \/ ChannelCloses(w)
      PROVE [Next]_vars
  BY <1>5 DEF Publish, Acknowledge, Republish, RepublishFails, ChannelCloses
<1>6. ASSUME NEW w \in Worker, Confirm(w) \/ OperationFails(w) \/ ChannelClosesOnResult(w)
      PROVE [Next]_vars
  BY <1>6 DEF Confirm, OperationFails, ChannelClosesOnResult, Completes, Fails, Next
<1>7. ASSUME NEW w \in Worker, StatementFails(w) \/ ReplicaDies(w) PROVE [Next]_vars
  BY <1>7 DEF StatementFails, ReplicaDies, Next
<1> QED
  BY <1>1, <1>2, <1>3, <1>4, <1>5, <1>6, <1>7 DEF DeliveryNext

(* The handlers of the deliveries use the ledger as ConsumedMessages says  *)
(* it is used, so that all that is proved of it holds here.                *)
THEOREM DeliveryUsesLedger == DeliverySpec => Spec
<1>1. DeliveryInit => Init
  BY DEF DeliveryInit
<1> QED
  BY <1>1, DeliveryStepIsLedgerStep, PTL DEF DeliverySpec, Spec

-----------------------------------------------------------------------------
(* The inductive invariant, by parts.                                      *)

BrokerTypeOK ==
  /\ queue \in [Retries -> Nat]
  /\ dead \in Nat
  /\ delivery \in [Worker -> Delivery \cup {NULL}]
  /\ answered \in BOOLEAN
  /\ faults \in Nat

(* A copy that is still to be dealt with: one whose failure has been       *)
(* republished, or whose message is processed, is held no more.            *)
Kept ==
  \/ row.status = "PROCESSED"
  \/ \E r \in Retries : queue[r] > 0
  \/ dead > 0
  \/ \E w \in Worker : HeldFor(w) /\ ~HandedOn(w)

(* A handler that is to mark the message processed has a confirmed result. *)
ConfirmedFirst ==
  /\ row.status = "PROCESSED" => answered
  /\ \A w \in Worker : pc[w] = "completing" => answered

DeliveryIInv == IInv /\ BrokerTypeOK /\ Kept /\ ConfirmedFirst /\ CopiesAreBounded

-----------------------------------------------------------------------------
(* The values of the retry counter are finitely many.                      *)
LEMMA RetriesAreFinite == IsFiniteSet(Retries) /\ 0 \in Retries
<1>1. 0 \in Int /\ MaxRetries \in Int /\ MaxRetries >= 0
  BY RetriesAssumption
<1>2. IsFiniteSet(0..MaxRetries)
  BY <1>1, FS_Interval
<1> QED
  BY <1>1, <1>2 DEF Retries

(* The first state satisfies every part.                                   *)
LEMMA InitEstablishesDeliveryIInv == DeliveryInit => DeliveryIInv
<1> SUFFICES ASSUME DeliveryInit PROVE DeliveryIInv
  OBVIOUS
<1>1. IInv
  BY InitEstablishesIInv DEF DeliveryInit
<1>2. BrokerTypeOK
  BY RetriesAssumption DEF DeliveryInit, BrokerTypeOK
<1>3. Kept
  BY RetriesAssumption DEF DeliveryInit, Kept, Retries
<1>4. ConfirmedFirst
  BY DEF DeliveryInit, Init, ClosedRow, ConfirmedFirst
<1>5. CopiesAreBounded
  <2>1. \A w \in Worker : ~HeldFor(w)
    BY DEF DeliveryInit, HeldFor
  <2>2. {w \in Worker : HeldFor(w) /\ ~HandedOn(w)} = {}
    BY <2>1
  <2>3. Cardinality({}) = 0 /\ dead = 0 /\ faults = 0
    BY FS_EmptySet DEF DeliveryInit
  <2>4. SumFunctionOnSet(queue, Retries) = 1
    <3> DEFINE none == [r \in Retries |-> 0]
               rest == Retries \ {0}
    <3>1. 0 \in Retries /\ IsFiniteSet(Retries) /\ IsFiniteSet(rest)
      BY RetriesAreFinite, FS_Subset
    <3>2. \A r \in Retries : queue[r] = IF r = 0 THEN 1 ELSE 0
      BY DEF DeliveryInit
    <3>3. SumFunctionOnSet(queue, Retries) = queue[0] + SumFunctionOnSet(queue, rest)
      BY <3>1, <3>2, SumTakesAny
    <3>4. \A r \in rest : queue[r] = 0
      BY <3>2
    <3>5. SumFunctionOnSet(queue, rest) = 0
      BY <3>1, <3>4, SumOfZeros
    <3> QED
      BY <3>1, <3>2, <3>3, <3>5
  <2> QED
    BY <2>2, <2>3, <2>4 DEF CopiesAreBounded, Copies
<1> QED
  BY <1>1, <1>2, <1>3, <1>4, <1>5 DEF DeliveryIInv

(* Putting a copy into the queue keeps its type and leaves it not empty.   *)
LEMMA PutKeepsQueue ==
  ASSUME BrokerTypeOK, NEW r \in Retries, Put(r)
  PROVE  queue' \in [Retries -> Nat] /\ \E s \in Retries : queue'[s] > 0
<1>1. queue' \in [Retries -> Nat] /\ queue'[r] = queue[r] + 1
  BY DEF BrokerTypeOK, Put
<1> QED
  BY <1>1, SMT DEF BrokerTypeOK

(* What the broker counts keeps its types.                                 *)
LEMMA StepKeepsBrokerTypeOK == BrokerTypeOK /\ [DeliveryNext]_deliveryVars => BrokerTypeOK'
<1> SUFFICES ASSUME BrokerTypeOK, [DeliveryNext]_deliveryVars PROVE BrokerTypeOK'
  OBVIOUS
<1> USE DeliveryAssumption
    DEF Drop, Outcome, Fault, IsPending, IsRejected, IsSent, Requeue
<1>1. CASE UNCHANGED deliveryVars \/ (Tick /\ UNCHANGED brokerVars)
  BY <1>1 DEF BrokerTypeOK, deliveryVars, brokerVars
<1>2. ASSUME NEW w \in Worker, NEW r \in Retries, Receive(w, r) PROVE BrokerTypeOK'
  BY <1>2 DEF Receive, BrokerTypeOK, Delivery
<1>3. ASSUME NEW w \in Worker, Handle(w) PROVE BrokerTypeOK'
  <2>1. delivery' \in [Worker -> Delivery \cup {NULL}]
    <3>1. delivery \in [Worker -> Delivery \cup {NULL}] /\ delivery[w] # NULL
      BY <1>3 DEF Handle, BrokerTypeOK
    <3>2. CASE UNCHANGED delivery
      BY <3>1, <3>2
    <3>3. ASSUME NEW o \in {"resolved", "rejected"}, Outcome(w, o)
          PROVE  delivery' \in [Worker -> Delivery \cup {NULL}]
      BY <3>1, <3>3 DEF Delivery
    <3>4. Outcome(w, "resolved") \/ Outcome(w, "rejected") \/ UNCHANGED delivery
      BY <1>3 DEF Handle
    <3> QED
      BY <3>2, <3>3, <3>4
  <2>2. UNCHANGED <<queue, dead, answered, faults>>
    BY <1>3 DEF Handle
  <2> QED
    BY <2>1, <2>2 DEF BrokerTypeOK
<1>4. ASSUME NEW w \in Worker, Publish(w) \/ Confirm(w) \/ OperationFails(w) PROVE BrokerTypeOK'
  BY <1>4 DEF Publish, Confirm, OperationFails, BrokerTypeOK, Delivery
<1>5. ASSUME NEW w \in Worker, StatementFails(w) \/ Acknowledge(w) PROVE BrokerTypeOK'
  BY <1>5 DEF StatementFails, Acknowledge, BrokerTypeOK, Delivery
<1>6. ASSUME NEW w \in Worker, delivery[w] # NULL PROVE delivery[w].retries \in Retries
  BY <1>6 DEF BrokerTypeOK, Delivery
<1>7. ASSUME NEW w \in Worker, Republish(w) PROVE BrokerTypeOK'
  <2>1. delivery[w].retries < MaxRetries => delivery[w].retries + 1 \in Retries
    BY <1>6, <1>7, RetriesAssumption DEF Republish, Retries
  <2> QED
    BY <1>7, <2>1 DEF Put, Republish, BrokerTypeOK, Delivery
<1>a. ASSUME NEW w \in Worker, delivery[w] # NULL, Put(delivery[w].retries)
      PROVE  queue' \in [Retries -> Nat]
  BY <1>6, <1>a DEF Put, BrokerTypeOK
<1>b. ASSUME NEW w \in Worker, delivery[w] # NULL, Requeue(w) PROVE queue' \in [Retries -> Nat]
  BY <1>a, <1>b DEF BrokerTypeOK
<1>8. ASSUME NEW w \in Worker, RepublishFails(w) PROVE BrokerTypeOK'
  BY <1>8, <1>a DEF RepublishFails, BrokerTypeOK
<1>9. ASSUME NEW w \in Worker, ChannelCloses(w) PROVE BrokerTypeOK'
  <2>1. delivery' \in [Worker -> Delivery \cup {NULL}]
    BY <1>9 DEF ChannelCloses, BrokerTypeOK, Delivery
  <2>2. queue' \in [Retries -> Nat]
    BY <1>9, <1>b DEF ChannelCloses
  <2> QED
    BY <1>9, <2>1, <2>2 DEF ChannelCloses, BrokerTypeOK
<1>10. ASSUME NEW w \in Worker, ChannelClosesOnResult(w) PROVE BrokerTypeOK'
  <2>1. delivery' \in [Worker -> Delivery \cup {NULL}]
    BY <1>10 DEF ChannelClosesOnResult, BrokerTypeOK, Delivery
  <2>2. queue' \in [Retries -> Nat]
    BY <1>10, <1>b DEF ChannelClosesOnResult
  <2>3. answered' \in BOOLEAN
    BY <1>10, Zenon DEF ChannelClosesOnResult, BrokerTypeOK
  <2>4. dead' \in Nat /\ faults' \in Nat
    BY <1>10 DEF ChannelClosesOnResult, BrokerTypeOK
  <2> QED
    BY <2>1, <2>2, <2>3, <2>4 DEF BrokerTypeOK
<1>11. ASSUME NEW w \in Worker, ReplicaDies(w) PROVE BrokerTypeOK'
  <2>1. queue' \in [Retries -> Nat]
    BY <1>11, <1>b DEF ReplicaDies
  <2>2. answered' \in BOOLEAN
    BY <1>11, Zenon DEF ReplicaDies, BrokerTypeOK
  <2>3. dead' \in Nat /\ faults' \in Nat
    BY <1>11 DEF ReplicaDies, BrokerTypeOK
  <2>4. delivery' \in [Worker -> Delivery \cup {NULL}]
    BY <1>11 DEF ReplicaDies, BrokerTypeOK
  <2> QED
    BY <2>1, <2>2, <2>3, <2>4 DEF BrokerTypeOK
<1> QED
  BY <1>1, <1>2, <1>3, <1>4, <1>5, <1>7, <1>8, <1>9, <1>10, <1>11 DEF DeliveryNext

-----------------------------------------------------------------------------
(* A processed row stays so.                                               *)
LEMMA ProcessedStays ==
  IInv /\ [DeliveryNext]_deliveryVars /\ row.status = "PROCESSED" => row'.status = "PROCESSED"
  BY DeliveryStepIsLedgerStep, StepKeepsProcessed

(* A handler ends resolved only for a message that is processed.           *)
LEMMA ResolvedIsProcessed ==
  ASSUME IInv, NEW w \in Worker, Handle(w), pc'[w] = "idle", Resolves(w)
  PROVE  row'.status = "PROCESSED"
<1>1. Statement(w) /\ pc \in [Worker -> Phase]
  BY DEF Handle, IInv, TypeOK
<1>2. CASE pc[w] = "completing"
  <2>1. MarkProcessed(w) \/ MarkProcessedBreaks(w)
    BY <1>1, <1>2 DEF Statement, InsertRow, ReadRow, UpdateFailed, UpdateExpired, MarkFailed
  <2> QED
    BY <1>1, <2>1 DEF MarkProcessed, MarkProcessedBreaks, Goto, ClosedRow
<1>3. CASE pc[w] = "read" /\ row.status = "PROCESSED"
  BY <1>1, <1>3 DEF Statement, InsertRow, ReadRow, UpdateFailed, UpdateExpired, MarkFailed,
     MarkProcessed, MarkProcessedBreaks
<1> QED
  BY <1>2, <1>3 DEF Resolves

(* Copies in the dead letters stay there.                                  *)
LEMMA DeadStays == BrokerTypeOK /\ [DeliveryNext]_deliveryVars /\ dead > 0 => dead' > 0
<1> SUFFICES ASSUME BrokerTypeOK, [DeliveryNext]_deliveryVars, dead > 0 PROVE dead' > 0
  OBVIOUS
<1>1. CASE UNCHANGED dead
  BY <1>1
<1>2. ASSUME NEW w \in Worker, Republish(w) PROVE dead' > 0
  BY <1>2 DEF Republish, BrokerTypeOK
<1> QED
  BY <1>1, <1>2
  DEF DeliveryNext, deliveryVars, brokerVars, Receive, Handle, Publish, Confirm,
      OperationFails, StatementFails, Acknowledge, RepublishFails, ChannelCloses,
      ChannelClosesOnResult, ReplicaDies

(* A failed copy is replaced by one in the queue or in the dead letters.   *)
LEMMA RepublishedIsKept ==
  ASSUME BrokerTypeOK, NEW w \in Worker, Republish(w)
  PROVE  Kept'
<1>1. delivery[w].retries \in Retries
  BY DEF Republish, IsRejected, BrokerTypeOK, Delivery
<1>2. CASE delivery[w].retries < MaxRetries
  <2>1. delivery[w].retries + 1 \in Retries
    BY <1>1, <1>2, RetriesAssumption DEF Retries
  <2> QED
    BY <1>2, <2>1, PutKeepsQueue DEF Republish, Kept
<1>3. CASE ~(delivery[w].retries < MaxRetries)
  BY <1>3 DEF Republish, Kept, BrokerTypeOK
<1> QED
  BY <1>2, <1>3

(* A copy that waits is put aside by nothing but its delivery.             *)
LEMMA WaitingIsKept ==
  ASSUME BrokerTypeOK, [DeliveryNext]_deliveryVars, NEW r \in Retries, queue[r] > 0
  PROVE  Kept'
<1> USE DEF Drop, Outcome, Fault, Requeue
<1>1. ASSUME UNCHANGED queue PROVE Kept'
  BY <1>1 DEF Kept
<1>2. ASSUME NEW s \in Retries, Put(s) PROVE Kept'
  BY <1>2, PutKeepsQueue DEF Kept
<1>3. ASSUME NEW w \in Worker, delivery[w] # NULL PROVE delivery[w].retries \in Retries
  BY <1>3 DEF BrokerTypeOK, Delivery
<1>4. CASE UNCHANGED deliveryVars \/ (Tick /\ UNCHANGED brokerVars)
  BY <1>1, <1>4 DEF deliveryVars, brokerVars
<1>5. ASSUME NEW w \in Worker, NEW s \in Retries, Receive(w, s) PROVE Kept'
  <2> DEFINE d == [retries |-> s, open |-> TRUE, sent |-> FALSE, outcome |-> "pending"]
  <2>1. delivery'[w] = d
    BY <1>5 DEF Receive, BrokerTypeOK
  <2>2. d \in Delivery
    BY DEF Delivery
  <2>3. delivery'[w] # NULL
    BY <2>1, <2>2, DeliveryAssumption
  <2> QED
    BY <2>1, <2>3 DEF Kept, HeldFor, HandedOn
<1>6. ASSUME NEW w \in Worker,
             \/ Handle(w) \/ Publish(w) \/ Confirm(w) \/ OperationFails(w) \/ StatementFails(w)
             \/ Acknowledge(w)
      PROVE  Kept'
  BY <1>1, <1>6 DEF Handle, Publish, Confirm, OperationFails, StatementFails, Acknowledge
<1>7. ASSUME NEW w \in Worker, Republish(w) PROVE Kept'
  BY <1>1, <1>7, RepublishedIsKept
<1>8. ASSUME NEW w \in Worker, RepublishFails(w) PROVE Kept'
  BY <1>2, <1>3, <1>8 DEF RepublishFails, IsRejected
<1>9. ASSUME NEW w \in Worker, ChannelCloses(w) \/ ChannelClosesOnResult(w) \/ ReplicaDies(w)
      PROVE  Kept'
  BY <1>1, <1>2, <1>3, <1>9
  DEF ChannelCloses, ChannelClosesOnResult, ReplicaDies, IsSent, IsPending
<1> QED
  BY <1>4, <1>5, <1>6, <1>7, <1>8, <1>9 DEF DeliveryNext

(* A step of another worker leaves a delivery as it is.                    *)
LEMMA OthersLeaveDelivery ==
  ASSUME BrokerTypeOK, NEW v \in Worker, NEW w \in Worker, v # w,
         \/ \E r \in Retries : Receive(w, r)
         \/ Handle(w) \/ Publish(w) \/ Confirm(w) \/ OperationFails(w)
         \/ StatementFails(w) \/ Acknowledge(w) \/ Republish(w) \/ RepublishFails(w)
         \/ ChannelCloses(w) \/ ChannelClosesOnResult(w) \/ ReplicaDies(w)
  PROVE  delivery'[v] = delivery[v]
  BY DEF Receive, Handle, Publish, Confirm, OperationFails, StatementFails, Acknowledge,
         Republish, RepublishFails, ChannelCloses, ChannelClosesOnResult, ReplicaDies,
         Drop, Outcome, BrokerTypeOK

(* A copy that is held for a handler is given up only for another copy, or *)
(* for a message that is processed.                                        *)
LEMMA HeldIsKept ==
  ASSUME IInv, BrokerTypeOK, [DeliveryNext]_deliveryVars,
         NEW v \in Worker, HeldFor(v), ~HandedOn(v)
  PROVE  Kept'
<1> USE DEF Drop, Outcome, Fault, Requeue, IsPending, IsRejected, IsSent, HandedOn
<1>a. delivery[v] \in Delivery /\ delivery[v].open
  BY DEF HeldFor, BrokerTypeOK
<1>b. ASSUME delivery' \in [Worker -> Delivery \cup {NULL}], delivery'[v] # NULL,
             delivery'[v].open, delivery'[v].outcome # "resolved"
      PROVE  Kept'
  BY <1>b DEF Kept, HeldFor
<1>c. BrokerTypeOK'
  BY StepKeepsBrokerTypeOK
<1>d. ASSUME UNCHANGED delivery PROVE Kept'
  BY <1>b, <1>c, <1>d DEF HeldFor, BrokerTypeOK
<1>1. CASE UNCHANGED deliveryVars \/ (Tick /\ UNCHANGED brokerVars)
  BY <1>1, <1>d DEF deliveryVars, brokerVars
<1>2. ASSUME NEW w \in Worker, v # w, delivery'[v] = delivery[v] PROVE Kept'
  BY <1>2, <1>b, <1>c DEF HeldFor, BrokerTypeOK
<1>3. ASSUME NEW r \in Retries, Receive(v, r) PROVE Kept'
  BY <1>3 DEF Receive, HeldFor
<1>4. ASSUME Handle(v) PROVE Kept'
  <2>1. CASE pc'[v] # "idle"
    BY <1>4, <1>d, <2>1 DEF Handle
  <2>2. CASE pc'[v] = "idle" /\ Resolves(v)
    BY <1>4, <2>2, ResolvedIsProcessed DEF Kept
  <2>3. CASE pc'[v] = "idle" /\ ~Resolves(v)
    <3>1. delivery' = [delivery EXCEPT ![v].outcome = "rejected"]
      BY <1>4, <2>3 DEF Handle
    <3>2. delivery'[v] \in Delivery /\ delivery'[v].open /\ delivery'[v].outcome # "resolved"
      BY <1>a, <3>1 DEF BrokerTypeOK, Delivery
    <3> QED
      BY <1>b, <1>c, <3>2, DeliveryAssumption DEF BrokerTypeOK
  <2> QED
    BY <2>1, <2>2, <2>3
<1>5. ASSUME Publish(v) \/ Confirm(v) \/ OperationFails(v) \/ StatementFails(v) PROVE Kept'
  <2>1. \/ delivery' = [delivery EXCEPT ![v].sent = TRUE]
        \/ delivery' = [delivery EXCEPT ![v].sent = FALSE]
        \/ delivery' = [delivery EXCEPT ![v].outcome = "rejected"]
    BY <1>5 DEF Publish, Confirm, OperationFails, StatementFails
  <2>2. \/ delivery'[v] = [delivery[v] EXCEPT !.sent = TRUE]
        \/ delivery'[v] = [delivery[v] EXCEPT !.sent = FALSE]
        \/ delivery'[v] = [delivery[v] EXCEPT !.outcome = "rejected"]
    BY <2>1 DEF BrokerTypeOK
  <2>3. delivery'[v] \in Delivery
    BY <1>a, <2>2 DEF Delivery
  <2>4. delivery'[v].open
    BY <1>a, <2>2 DEF Delivery
  <2>5. delivery'[v].outcome # "resolved"
    BY <1>a, <2>2 DEF Delivery
  <2> QED
    BY <1>b, <1>c, <2>3, <2>4, <2>5, DeliveryAssumption DEF BrokerTypeOK
<1>6. ASSUME Acknowledge(v) PROVE Kept'
  BY <1>6, <1>a DEF Acknowledge
<1>7. ASSUME Republish(v) PROVE Kept'
  BY <1>7, RepublishedIsKept
<1>8. ASSUME \/ RepublishFails(v) \/ ChannelCloses(v) \/ ChannelClosesOnResult(v)
             \/ ReplicaDies(v)
      PROVE  Kept'
  <2>1. delivery[v].retries \in Retries /\ Put(delivery[v].retries)
    BY <1>8, <1>a
    DEF Delivery, RepublishFails, ChannelCloses, ChannelClosesOnResult, ReplicaDies
  <2> QED
    BY <2>1, PutKeepsQueue DEF Kept
<1> QED
  BY <1>1, <1>2, <1>3, <1>4, <1>5, <1>6, <1>7, <1>8, OthersLeaveDelivery DEF DeliveryNext

(* A message that is not processed is kept, as a copy that is still to be  *)
(* dealt with.                                                             *)
LEMMA StepKeepsKept == IInv /\ BrokerTypeOK /\ Kept /\ [DeliveryNext]_deliveryVars => Kept'
<1> SUFFICES ASSUME IInv, BrokerTypeOK, Kept, [DeliveryNext]_deliveryVars PROVE Kept'
  OBVIOUS
<1>1. CASE row.status = "PROCESSED"
  BY <1>1, ProcessedStays DEF Kept
<1>2. CASE dead > 0
  BY <1>2, DeadStays DEF Kept
<1> QED
  BY <1>1, <1>2, WaitingIsKept, HeldIsKept DEF Kept

-----------------------------------------------------------------------------
(* A row becomes processed by a handler that is completing, and nobody is  *)
(* completing but after a confirmation.                                    *)
LEMMA StepKeepsConfirmedFirst ==
  IInv /\ BrokerTypeOK /\ ConfirmedFirst /\ [DeliveryNext]_deliveryVars => ConfirmedFirst'
<1> SUFFICES ASSUME IInv, BrokerTypeOK, ConfirmedFirst, [DeliveryNext]_deliveryVars
             PROVE  ConfirmedFirst'
  OBVIOUS
<1> USE DEF Goto, Leave, ClosedRow, TakeRow, ClaimedRow
<1>a. pc \in [Worker -> Phase]
  BY DEF IInv, TypeOK
(* The ledger's part of a step, other than Operate.                        *)
<1>b. ASSUME answered => answered',
             row'.status = "PROCESSED" =>
               row.status = "PROCESSED" \/ \E u \in Worker : pc[u] = "completing",
             \A u \in Worker : pc'[u] = "completing" => pc[u] = "completing"
      PROVE  ConfirmedFirst'
  BY <1>b DEF ConfirmedFirst
<1>1. CASE UNCHANGED deliveryVars \/ (Tick /\ UNCHANGED brokerVars)
  BY <1>1, <1>b DEF deliveryVars, brokerVars, vars, Tick
<1>2. ASSUME NEW w \in Worker, NEW r \in Retries, Receive(w, r) PROVE ConfirmedFirst'
  BY <1>2, <1>a, <1>b DEF Receive, StartClaim
<1>3. ASSUME NEW w \in Worker, Handle(w) PROVE ConfirmedFirst'
  <2>1. Statement(w) /\ (answered => answered')
    BY <1>3 DEF Handle
  <2>2. \A u \in Worker : pc'[u] = "completing" => pc[u] = "completing"
    BY <2>1, <1>a
    DEF Statement, InsertRow, ReadRow, UpdateFailed, UpdateExpired, MarkProcessed,
        MarkProcessedBreaks, MarkFailed
  <2>3. row'.status = "PROCESSED" =>
          row.status = "PROCESSED" \/ \E u \in Worker : pc[u] = "completing"
    BY <2>1
    DEF Statement, InsertRow, ReadRow, UpdateFailed, UpdateExpired, MarkProcessed,
        MarkProcessedBreaks, MarkFailed
  <2> QED
    BY <1>b, <2>1, <2>2, <2>3
<1>4. ASSUME NEW w \in Worker,
             \/ Publish(w) \/ Acknowledge(w) \/ Republish(w) \/ RepublishFails(w)
             \/ ChannelCloses(w)
      PROVE  ConfirmedFirst'
  BY <1>4, <1>b DEF Publish, Acknowledge, Republish, RepublishFails, ChannelCloses, vars
<1>5. ASSUME NEW w \in Worker, Confirm(w) PROVE ConfirmedFirst'
  BY <1>5 DEF Confirm, ConfirmedFirst
<1>6. ASSUME NEW w \in Worker, Fails(w), answered => answered' PROVE ConfirmedFirst'
  BY <1>6, <1>a, <1>b DEF Fails, Operate
<1>7. ASSUME NEW w \in Worker, Crash(w), answered => answered' PROVE ConfirmedFirst'
  BY <1>7, <1>a, <1>b DEF Crash
<1>8. ASSUME NEW w \in Worker, OperationFails(w) PROVE ConfirmedFirst'
  BY <1>6, <1>8 DEF OperationFails
<1>9. ASSUME NEW w \in Worker, StatementFails(w) PROVE ConfirmedFirst'
  BY <1>7, <1>9 DEF StatementFails
<1>10. ASSUME NEW w \in Worker, ChannelClosesOnResult(w) PROVE ConfirmedFirst'
  <2>1. answered => answered'
    BY <1>10, Zenon DEF ChannelClosesOnResult
  <2> QED
    BY <1>6, <1>7, <1>10, <2>1 DEF ChannelClosesOnResult
<1>11. ASSUME NEW w \in Worker, ReplicaDies(w) PROVE ConfirmedFirst'
  <2>1. answered => answered'
    BY <1>11, Zenon DEF ReplicaDies
  <2>2. CASE UNCHANGED vars
    BY <1>b, <2>1, <2>2 DEF vars
  <2> QED
    BY <1>7, <1>11, <2>1, <2>2 DEF ReplicaDies
<1> QED
  BY <1>1, <1>2, <1>3, <1>4, <1>5, <1>8, <1>9, <1>10, <1>11 DEF DeliveryNext

-----------------------------------------------------------------------------
(* The number of copies.                                                   *)

IsHeld(w) == HeldFor(w) /\ ~HandedOn(w)

Held == {w \in Worker : IsHeld(w)}

Waiting == SumFunctionOnSet(queue, Retries)

(* What is added up are numbers.                                           *)
LEMMA CopiesAreCounted ==
  ASSUME BrokerTypeOK
  PROVE  /\ Waiting \in Int /\ IsFiniteSet(Held) /\ Cardinality(Held) \in Nat
         /\ Copies = Waiting + dead + Cardinality(Held)
<1>1. IsFiniteSet(Retries) /\ \A r \in Retries : queue[r] \in Int
  BY RetriesAreFinite DEF BrokerTypeOK
<1>2. IsFiniteSet(Held)
  <2>1. Held \in SUBSET Worker
    BY DEF Held
  <2> QED
    BY <2>1, WorkersAssumption, FS_Subset
<1> QED
  BY <1>1, <1>2, SumIsInteger, FS_CardinalityType DEF Copies, Waiting, Held, IsHeld

(* One copy more or less in the queue is one more or less in the sum.      *)
LEMMA WaitingMoves ==
  ASSUME BrokerTypeOK, NEW r \in Retries, NEW n \in Int, queue' = [queue EXCEPT ![r] = n]
  PROVE  Waiting' = Waiting + n - queue[r]
<1>0. PICK q : q = queue'
  OBVIOUS
<1> DEFINE rest == Retries \ {r}
<1>1. IsFiniteSet(Retries) /\ IsFiniteSet(rest) /\ \A s \in Retries : queue[s] \in Int
  BY RetriesAreFinite, FS_Subset DEF BrokerTypeOK
<1>2. q[r] = n /\ \A s \in rest : q[s] = queue[s]
  BY <1>0 DEF BrokerTypeOK
<1>3. \A s \in Retries : q[s] \in Int
  BY <1>1, <1>2
<1>4. SumFunctionOnSet(q, rest) = SumFunctionOnSet(queue, rest)
  BY <1>1, <1>2, SameValuesSameSum
<1>5. SumFunctionOnSet(queue, Retries) = queue[r] + SumFunctionOnSet(queue, rest)
  BY <1>1, SumTakesAny
<1>6. SumFunctionOnSet(q, Retries) = q[r] + SumFunctionOnSet(q, rest)
  BY <1>1, <1>3, SumTakesAny
<1>7. SumFunctionOnSet(queue, rest) \in Int
  BY <1>1, SumIsInteger
<1>8. Waiting' = SumFunctionOnSet(q, Retries)
  BY <1>0 DEF Waiting, Retries
<1> QED
  BY <1>1, <1>2, <1>4, <1>5, <1>6, <1>7, <1>8 DEF Waiting

(* A step of one worker changes the deliveries that are held by its own.   *)
LEMMA HeldMoves ==
  ASSUME BrokerTypeOK, NEW w \in Worker,
         \A v \in Worker \ {w} : delivery'[v] = delivery[v]
  PROVE  Cardinality(Held') = Cardinality(Held) + (IF IsHeld(w)' THEN 1 ELSE 0)
                                               - (IF IsHeld(w) THEN 1 ELSE 0)
<1>1. \A v \in Worker \ {w} : IsHeld(v)' <=> IsHeld(v)
  BY DEF IsHeld, HeldFor, HandedOn
<1>2. Held' = {v \in Worker : IsHeld(v)'}
  BY DEF Held
<1>3. IF IsHeld(w)' THEN Held' = Held \cup {w} ELSE Held' = Held \ {w}
  BY <1>1, <1>2 DEF Held
<1>4. w \in Held <=> IsHeld(w)
  BY DEF Held
<1>5. IsFiniteSet(Held) /\ Cardinality(Held) \in Nat
  BY CopiesAreCounted
<1>6. /\ Cardinality(Held \cup {w}) = IF w \in Held THEN Cardinality(Held)
                                                   ELSE Cardinality(Held) + 1
      /\ Cardinality(Held \ {w}) = IF w \in Held THEN Cardinality(Held) - 1
                                                 ELSE Cardinality(Held)
  BY <1>5, FS_AddElement, FS_RemoveElement
<1>7. CASE IsHeld(w)'
  BY <1>3, <1>4, <1>5, <1>6, <1>7
<1>8. CASE ~IsHeld(w)'
  BY <1>3, <1>4, <1>5, <1>6, <1>8
<1> QED
  BY <1>7, <1>8

(* Only a fault makes one copy more.                                       *)
LEMMA StepBoundsCopies ==
  ASSUME BrokerTypeOK, CopiesAreBounded, [DeliveryNext]_deliveryVars
  PROVE  CopiesAreBounded'
<1> USE DEF Drop, Outcome, Fault, IsPending, IsRejected, IsSent
<1>a. BrokerTypeOK' /\ faults \in Nat /\ dead \in Nat
  BY StepKeepsBrokerTypeOK DEF BrokerTypeOK
<1>b. /\ Waiting \in Int /\ Cardinality(Held) \in Nat /\ Waiting + dead + Cardinality(Held) <= 1 + faults
      /\ Copies' = Waiting' + dead' + Cardinality(Held)'
  <2>1. Copies' = Waiting' + dead' + Cardinality(Held)'
    BY DEF Copies, Waiting, Held, IsHeld
  <2> QED
    BY <2>1, CopiesAreCounted DEF CopiesAreBounded
<1>1. CASE UNCHANGED brokerVars
  <2>1. UNCHANGED <<Waiting, dead, faults, Held>>
    BY <1>1 DEF brokerVars, Waiting, Held, IsHeld, HeldFor, HandedOn
  <2> QED
    BY <1>b, <2>1 DEF CopiesAreBounded
<1>c. ASSUME NEW w \in Worker, delivery[w] # NULL
      PROVE  /\ delivery[w] \in Delivery /\ delivery[w].retries \in Retries
             /\ queue[delivery[w].retries] \in Nat
  BY <1>c DEF BrokerTypeOK, Delivery
<1>d. ASSUME NEW r \in Retries, Put(r) PROVE Waiting' = Waiting + 1
  <2>1. queue[r] \in Nat /\ queue[r] + 1 \in Int /\ queue' = [queue EXCEPT ![r] = queue[r] + 1]
    BY <1>d DEF Put, BrokerTypeOK
  <2>2. Waiting' = Waiting + (queue[r] + 1) - queue[r]
    BY <2>1, WaitingMoves
  <2> QED
    BY <1>b, <2>1, <2>2
<1>e. ASSUME UNCHANGED queue PROVE Waiting' = Waiting
  BY <1>e DEF Waiting, Retries
<1>2. ASSUME NEW w \in Worker, NEW r \in Retries, Receive(w, r) PROVE CopiesAreBounded'
  <2>1. /\ queue' = [queue EXCEPT ![r] = queue[r] - 1] /\ queue[r] \in Nat
        /\ queue[r] - 1 \in Int
        /\ UNCHANGED <<dead, faults>> /\ ~IsHeld(w)
    BY <1>2 DEF Receive, BrokerTypeOK, IsHeld, HeldFor
  <2>2. \A v \in Worker \ {w} : delivery'[v] = delivery[v]
    BY <1>2 DEF Receive, BrokerTypeOK
  <2>3. Waiting' = Waiting + (queue[r] - 1) - queue[r]
    BY <2>1, WaitingMoves
  <2>4. Cardinality(Held') <= Cardinality(Held) + 1
    BY <1>b, <2>1, <2>2, HeldMoves
  <2>5. Cardinality(Held') \in Nat
    BY <1>b, <2>1, <2>2, HeldMoves
  <2> QED
    BY <1>a, <1>b, <2>1, <2>3, <2>4, <2>5 DEF CopiesAreBounded
<1>3. ASSUME NEW w \in Worker,
             \/ Handle(w) \/ Publish(w) \/ Confirm(w) \/ OperationFails(w) \/ StatementFails(w)
             \/ Acknowledge(w)
      PROVE  CopiesAreBounded'
  <2>1. \A v \in Worker \ {w} : delivery'[v] = delivery[v]
    BY <1>3, OthersLeaveDelivery
  <2>2. UNCHANGED <<queue, dead, faults>>
    BY <1>3 DEF Handle, Publish, Confirm, OperationFails, StatementFails, Acknowledge
  <2>3. \/ UNCHANGED delivery
        \/ delivery' = [delivery EXCEPT ![w] = NULL]
        \/ delivery[w] # NULL /\ delivery[w].outcome = "pending"
           /\ \/ delivery' = [delivery EXCEPT ![w].sent = TRUE]
              \/ delivery' = [delivery EXCEPT ![w].sent = FALSE]
              \/ delivery' = [delivery EXCEPT ![w].outcome = "rejected"]
              \/ delivery' = [delivery EXCEPT ![w].outcome = "resolved"]
    BY <1>3 DEF Handle, Publish, Confirm, OperationFails, StatementFails, Acknowledge
  <2>4. IsHeld(w)' => IsHeld(w)
    <3>1. CASE UNCHANGED delivery
      BY <3>1 DEF IsHeld, HeldFor, HandedOn
    <3>2. CASE delivery' = [delivery EXCEPT ![w] = NULL]
      BY <3>2 DEF IsHeld, HeldFor, BrokerTypeOK
    <3>3. CASE delivery[w] # NULL /\ delivery[w].outcome = "pending"
               /\ ~UNCHANGED delivery /\ ~(delivery' = [delivery EXCEPT ![w] = NULL])
      <4>1. delivery[w] \in Delivery
        BY <1>c, <3>3
      <4>2. \/ delivery'[w] = [delivery[w] EXCEPT !.sent = TRUE]
            \/ delivery'[w] = [delivery[w] EXCEPT !.sent = FALSE]
            \/ delivery'[w] = [delivery[w] EXCEPT !.outcome = "rejected"]
            \/ delivery'[w] = [delivery[w] EXCEPT !.outcome = "resolved"]
        BY <2>3, <3>3 DEF BrokerTypeOK
      <4>3. delivery'[w].open = delivery[w].open
        BY <4>1, <4>2 DEF Delivery
      <4> QED
        BY <3>3, <4>3 DEF IsHeld, HeldFor, HandedOn
    <3> QED
      BY <2>3, <3>1, <3>2, <3>3
  <2>5. Cardinality(Held') <= Cardinality(Held) /\ Cardinality(Held') \in Int
    BY <1>b, <2>1, <2>4, HeldMoves
  <2> QED
    BY <1>a, <1>b, <1>e, <2>2, <2>5 DEF CopiesAreBounded
<1>4. ASSUME NEW w \in Worker, Republish(w) PROVE CopiesAreBounded'
  <2>1. \A v \in Worker \ {w} : delivery'[v] = delivery[v]
    BY <1>4, OthersLeaveDelivery
  <2>2. delivery[w] # NULL /\ delivery[w].open /\ delivery[w].outcome = "rejected"
        /\ UNCHANGED faults
    BY <1>4 DEF Republish
  <2>3. delivery[w] \in Delivery /\ delivery[w].retries \in Retries
    BY <1>c, <2>2
  <2>4. delivery'[w].outcome = "resolved"
    BY <1>4, <2>3 DEF Republish, BrokerTypeOK, Delivery
  <2>5. IsHeld(w) /\ ~IsHeld(w)'
    BY <2>2, <2>4 DEF IsHeld, HeldFor, HandedOn
  <2>6. Cardinality(Held') = Cardinality(Held) - 1 /\ Cardinality(Held') \in Int
    BY <1>b, <2>1, <2>5, HeldMoves
  <2>7. Waiting' + dead' = Waiting + dead + 1 /\ Waiting' \in Int /\ dead' \in Int
    <3>1. CASE delivery[w].retries < MaxRetries
      <4>1. delivery[w].retries + 1 \in Retries
        BY <2>3, <3>1, RetriesAssumption DEF Retries
      <4>2. Put(delivery[w].retries + 1) /\ UNCHANGED dead
        BY <1>4, <3>1 DEF Republish
      <4>3. Waiting' = Waiting + 1
        BY <1>d, <4>1, <4>2
      <4> QED
        BY <1>a, <1>b, <4>2, <4>3
    <3>2. CASE ~(delivery[w].retries < MaxRetries)
      <4>1. dead' = dead + 1 /\ UNCHANGED queue
        BY <1>4, <3>2 DEF Republish
      <4> QED
        BY <1>a, <1>b, <1>e, <4>1
    <3> QED
      BY <3>1, <3>2
  <2>8. Waiting' + dead' + Cardinality(Held') = Waiting + dead + Cardinality(Held)
    <3>1. (Waiting' + dead') + Cardinality(Held') = (Waiting + dead + 1) + Cardinality(Held')
      BY <2>7
    <3> QED
      BY <1>a, <1>b, <2>6, <3>1
  <2>9. Copies' = Waiting + dead + Cardinality(Held)
    BY <1>b, <2>8
  <2> QED
    BY <1>b, <2>2, <2>9 DEF CopiesAreBounded
<1>5. ASSUME NEW w \in Worker,
             RepublishFails(w) \/ ChannelCloses(w) \/ ChannelClosesOnResult(w) \/ ReplicaDies(w)
      PROVE  CopiesAreBounded'
  <2>1. \A v \in Worker \ {w} : delivery'[v] = delivery[v]
    BY <1>5, OthersLeaveDelivery
  <2>2. delivery[w] # NULL /\ UNCHANGED dead /\ faults' = faults + 1
    BY <1>5 DEF RepublishFails, ChannelCloses, ChannelClosesOnResult, ReplicaDies
  <2>3. delivery[w] \in Delivery /\ delivery[w].retries \in Retries
    BY <1>c, <2>2
  <2>4. Put(delivery[w].retries) \/ UNCHANGED queue
    BY <1>5 DEF RepublishFails, ChannelCloses, ChannelClosesOnResult, ReplicaDies, Requeue
  <2>5. Waiting' <= Waiting + 1 /\ Waiting' \in Int
    BY <1>b, <1>d, <1>e, <2>3, <2>4
  <2>6. ~IsHeld(w)'
    <3>1. \/ delivery' = [delivery EXCEPT ![w] = NULL]
          \/ delivery' = [delivery EXCEPT ![w].open = FALSE]
          \/ delivery' = [delivery EXCEPT ![w].open = FALSE, ![w].sent = FALSE]
      BY <1>5 DEF RepublishFails, ChannelCloses, ChannelClosesOnResult, ReplicaDies
    <3>2. delivery'[w] = NULL \/ delivery'[w].open = FALSE
      BY <2>3, <3>1 DEF BrokerTypeOK, Delivery
    <3> QED
      BY <3>2 DEF IsHeld, HeldFor
  <2>7. Cardinality(Held') <= Cardinality(Held) /\ Cardinality(Held') \in Int
    BY <1>b, <2>1, <2>6, HeldMoves
  <2> QED
    BY <1>a, <1>b, <2>2, <2>5, <2>7 DEF CopiesAreBounded
<1> QED
  BY <1>1, <1>2, <1>3, <1>4, <1>5 DEF DeliveryNext, deliveryVars

-----------------------------------------------------------------------------
(* Every reachable state of a delivery satisfies every part.               *)
LEMMA DeliveryInvariant == DeliverySpec => []DeliveryIInv
<1>1. DeliveryIInv /\ [DeliveryNext]_deliveryVars => DeliveryIInv'
  BY DeliveryStepIsLedgerStep, NextPreservesIInv, StepKeepsBrokerTypeOK, StepKeepsKept,
     StepKeepsConfirmedFirst, StepBoundsCopies
  DEF DeliveryIInv
<1> QED
  BY <1>1, InitEstablishesDeliveryIInv, PTL DEF DeliverySpec

(* The broker's and the handlers' variables keep the types declared for    *)
(* them; that a retry counter never passes its limit (republishFailure) is *)
(* part of it.                                                             *)
THEOREM DeliveryTypeCorrect == DeliverySpec => []DeliveryTypeOK
<1>1. DeliveryIInv => DeliveryTypeOK
  BY DEF DeliveryIInv, IInv, BrokerTypeOK, DeliveryTypeOK
<1> QED
  BY <1>1, DeliveryInvariant, PTL

(* A message that is not processed is never lost, whatever closes or dies  *)
(* (handleMessage, republishFailure).                                      *)
THEOREM NoMessageIsLost == DeliverySpec => []NeverLost
<1>1. DeliveryIInv => NeverLost
  BY DEF DeliveryIInv, Kept, NeverLost
<1> QED
  BY <1>1, DeliveryInvariant, PTL

(* A processed message has its result with the broker (process,            *)
(* publishConfirmed).                                                      *)
THEOREM ProcessedMessageIsAnswered == DeliverySpec => []ProcessedIsAnswered
<1>1. DeliveryIInv => ProcessedIsAnswered
  BY DEF DeliveryIInv, ConfirmedFirst, ProcessedIsAnswered
<1> QED
  BY <1>1, DeliveryInvariant, PTL

(* Copies of a message multiply by faults only (republishFailure).         *)
THEOREM CopiesDoNotMultiply == DeliverySpec => []CopiesAreBounded
<1>1. DeliveryIInv => CopiesAreBounded
  BY DEF DeliveryIInv
<1> QED
  BY <1>1, DeliveryInvariant, PTL
=============================================================================
