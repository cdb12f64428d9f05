-------------------------- MODULE MessageDelivery --------------------------
(***************************************************************************)
(* The life of one message between its queue and the ledger: RabbitMQ's    *)
(* consumer (handleMessage, republishFailure) around a handler that works  *)
(* under a claim (ConsumedMessages), as consumeReserve, consumeRelease and *)
(* consumeExecutionRequested do.  The broker keeps a copy until it is      *)
(* acknowledged; a failed copy is published again with its retry counter   *)
(* raised, and to the dead letters when the counter has reached the limit. *)
(* The handler publishes a result and awaits its confirmation before it    *)
(* marks the message processed; consumeExecutionRequested, which publishes *)
(* nothing, is the case of a confirmation that comes at once.              *)
(* The delay of the retry exchange is not visible: a copy in the queue is  *)
(* delivered at any time later.                                            *)
(***************************************************************************)
EXTENDS ConsumedMessages, FiniteSets, Functions

CONSTANTS
  MaxRetries,   (* RABBITMQ_MAX_RETRIES                                    *)
  MaxFaults     (* bound on lost channels, dead replicas, refused copies   *)

ASSUME RetriesAssumption == MaxRetries \in Nat /\ MaxFaults \in Nat

VARIABLES
  queue,      (* copies waiting, by the value of their x-retry-count       *)
  dead,       (* copies in the dead letters                                *)
  delivery,   (* per worker: the copy it was given, or NULL                *)
  answered,   (* the broker has a result for the message                   *)
  faults      (* faults so far                                             *)

brokerVars == <<queue, dead, delivery, answered, faults>>
deliveryVars == <<vars, brokerVars>>

Retries == 0..MaxRetries

(* open: the channel of the delivery is open, so that the broker holds the *)
(* copy for it.  sent: the handler awaits the confirmation of its result.  *)
(* outcome: what the handler's promise came to.                            *)
Delivery == [retries : Retries, open : BOOLEAN, sent : BOOLEAN,
             outcome : {"pending", "resolved", "rejected"}]

ASSUME DeliveryAssumption == NULL \notin Delivery
ASSUME WorkersAssumption == IsFiniteSet(Worker)

DeliveryTypeOK ==
  /\ TypeOK
  /\ queue \in [Retries -> Nat]
  /\ dead \in Nat
  /\ delivery \in [Worker -> Delivery \cup {NULL}]
  /\ answered \in BOOLEAN
  /\ faults \in Nat

DeliveryInit ==
  /\ Init
  /\ queue = [r \in Retries |-> IF r = 0 THEN 1 ELSE 0]
  /\ dead = 0
  /\ delivery = [w \in Worker |-> NULL]
  /\ answered = FALSE
  /\ faults = 0

-----------------------------------------------------------------------------
Put(r) == queue' = [queue EXCEPT ![r] = @ + 1]
Drop(w) == delivery' = [delivery EXCEPT ![w] = NULL]
Outcome(w, o) == delivery' = [delivery EXCEPT ![w].outcome = o]
Fault == faults < MaxFaults /\ faults' = faults + 1

IsPending(w) == delivery[w] # NULL /\ delivery[w].outcome = "pending"
IsRejected(w) == delivery[w] # NULL /\ delivery[w].outcome = "rejected"

(* The broker gives a copy to a consumer, whose handler calls claim().     *)
Receive(w, r) ==
  /\ delivery[w] = NULL
  /\ queue[r] > 0
  /\ StartClaim(w)
  /\ queue' = [queue EXCEPT ![r] = @ - 1]
  /\ delivery' = [delivery EXCEPT ![w] =
       [retries |-> r, open |-> TRUE, sent |-> FALSE, outcome |-> "pending"]]
  /\ UNCHANGED <<dead, answered, faults>>

(* The handler's next statement on the ledger.  It ends resolved when      *)
(* claim() returns null or markProcessed returns, rejected when claim()    *)
(* throws or the catch throws again.                                       *)
Statement(w) ==
  \/ InsertRow(w) \/ ReadRow(w) \/ UpdateFailed(w) \/ UpdateExpired(w)
  \/ MarkProcessed(w) \/ MarkProcessedBreaks(w) \/ MarkFailed(w)

Resolves(w) == pc[w] = "completing" \/ (pc[w] = "read" /\ row.status = "PROCESSED")

Handle(w) ==
  /\ IsPending(w)
  /\ Statement(w)
  /\ IF pc'[w] # "idle" THEN UNCHANGED delivery
     ELSE Outcome(w, IF Resolves(w) THEN "resolved" ELSE "rejected")
  /\ UNCHANGED <<queue, dead, answered, faults>>

IsSent(w) == IsPending(w) /\ delivery[w].sent
Completes(w) == Operate(w) /\ pc'[w] = "completing"
Fails(w) == Operate(w) /\ pc'[w] = "failing"

(* Seeded fault of Publish: the publication is not awaited.                *)
PublishUnawaited(w) ==
  /\ IsPending(w)
  /\ Completes(w)
  /\ UNCHANGED brokerVars

(* The work is done; its result goes to the connection's present channel.  *)
Publish(w) ==
  /\ IsPending(w) /\ ~delivery[w].sent
  /\ pc[w] = "working"
  /\ delivery' = [delivery EXCEPT ![w].sent = TRUE]
  /\ UNCHANGED <<vars, queue, dead, answered, faults>>

(* The broker has taken the result.                                        *)
Confirm(w) ==
  /\ IsSent(w)
  /\ Completes(w)
  /\ answered' = TRUE
  /\ delivery' = [delivery EXCEPT ![w].sent = FALSE]
  /\ UNCHANGED <<queue, dead, faults>>

(* The work throws, or the broker refuses its result.                      *)
OperationFails(w) ==
  /\ IsPending(w)
  /\ Fails(w)
  /\ delivery' = [delivery EXCEPT ![w].sent = FALSE]
  /\ UNCHANGED <<queue, dead, answered, faults>>

(* The database fails in a statement of claim() or in markFailed.          *)
StatementFails(w) ==
  /\ IsPending(w)
  /\ pc[w] \notin {"idle", "working", "completing"}
  /\ Crash(w)
  /\ Outcome(w, "rejected")
  /\ UNCHANGED <<queue, dead, answered, faults>>

(* channel.ack; on a closed channel it throws, and so do the publication   *)
(* and the nack that follow.                                               *)
Acknowledge(w) ==
  /\ delivery[w] # NULL
  /\ \/ delivery[w].outcome = "resolved"
     \/ delivery[w].outcome = "rejected" /\ ~delivery[w].open
  /\ Drop(w)
  /\ UNCHANGED <<vars, queue, dead, answered, faults>>

(* Seeded faults of Republish: the counter is not raised; the delivery is  *)
(* not acknowledged.                                                       *)
RepublishUncounted(w) ==
  /\ IsRejected(w) /\ delivery[w].open
  /\ Put(delivery[w].retries)
  /\ Outcome(w, "resolved")
  /\ UNCHANGED <<vars, dead, answered, faults>>

RepublishUnacknowledged(w) ==
  /\ IsRejected(w) /\ delivery[w].open /\ delivery[w].retries < MaxRetries
  /\ Put(delivery[w].retries + 1)
  /\ UNCHANGED <<vars, dead, delivery, answered, faults>>

(* Seeded fault of Republish: one retry more than the limit.               *)
RepublishOnceMore(w) ==
  /\ IsRejected(w) /\ delivery[w].open
  /\ LET n == delivery[w].retries + 1
     IN queue' = [r \in Retries \cup {n} |-> IF r = n THEN 1 ELSE queue[r]]
  /\ Outcome(w, "resolved")
  /\ UNCHANGED <<vars, dead, answered, faults>>

(* republishFailure: the copy is published, and confirmed, before the      *)
(* delivery is acknowledged, by the same step as a resolved one.           *)
Republish(w) ==
  /\ IsRejected(w) /\ delivery[w].open
  /\ IF delivery[w].retries < MaxRetries
       THEN Put(delivery[w].retries + 1) /\ UNCHANGED dead
       ELSE dead' = dead + 1 /\ UNCHANGED queue
  /\ Outcome(w, "resolved")
  /\ UNCHANGED <<vars, answered, faults>>

(* Seeded fault of RepublishFails: nack without requeue.                   *)
RepublishFailsForGood(w) ==
  /\ IsRejected(w) /\ delivery[w].open
  /\ Fault
  /\ Drop(w)
  /\ UNCHANGED <<vars, queue, dead, answered>>

(* The broker refuses the publication: nack with requeue.                  *)
RepublishFails(w) ==
  /\ IsRejected(w) /\ delivery[w].open
  /\ Fault
  /\ Put(delivery[w].retries)
  /\ Drop(w)
  /\ UNCHANGED <<vars, dead, answered>>

(* The channel closes: the broker requeues what it held for it.            *)
Requeue(w) == IF delivery[w].open THEN Put(delivery[w].retries) ELSE UNCHANGED queue

(* No result is under way: the handler goes on.                            *)
ChannelCloses(w) ==
  /\ delivery[w] # NULL /\ delivery[w].open /\ ~delivery[w].sent
  /\ Fault
  /\ Requeue(w)
  /\ delivery' = [delivery EXCEPT ![w].open = FALSE]
  /\ UNCHANGED <<vars, dead, answered>>

(* A result is under way, and nobody will know whether the broker has it:  *)
(* amqplib fails the publication, or leaves the handler waiting for ever,  *)
(* which is then as good as dead.                                          *)
ChannelClosesOnResult(w) ==
  /\ IsSent(w)
  /\ Fault
  /\ Requeue(w)
  /\ answered' \in {answered, TRUE}
  /\ \/ Fails(w) /\ delivery' = [delivery EXCEPT ![w].open = FALSE, ![w].sent = FALSE]
     \/ Crash(w) /\ Drop(w)
  /\ UNCHANGED dead

(* The replica dies with its handler.                                      *)
ReplicaDies(w) ==
  /\ delivery[w] # NULL
  /\ Fault
  /\ Requeue(w)
  /\ Drop(w)
  /\ IF pc[w] = "idle" THEN UNCHANGED vars ELSE Crash(w)
  /\ answered' \in IF IsSent(w) THEN {answered, TRUE} ELSE {answered}
  /\ UNCHANGED dead

DeliveryNext ==
  \/ Tick /\ UNCHANGED brokerVars
  \/ \E w \in Worker :
       \/ \E r \in Retries : Receive(w, r)
       \/ Handle(w) \/ Publish(w) \/ Confirm(w) \/ OperationFails(w)
       \/ StatementFails(w) \/ Acknowledge(w) \/ Republish(w) \/ RepublishFails(w)
       \/ ChannelCloses(w) \/ ChannelClosesOnResult(w) \/ ReplicaDies(w)

DeliverySpec == DeliveryInit /\ [][DeliveryNext]_deliveryVars

(* The consumers are served by the broker, statements return, and the      *)
(* broker answers a publication on a channel that stays open; nothing is   *)
(* assumed of the clock, or of the faults.                                 *)
Fairness ==
  \A w \in Worker :
    /\ WF_deliveryVars(\E r \in Retries : Receive(w, r))
    /\ WF_deliveryVars(Handle(w) \/ Publish(w) \/ Confirm(w))
    /\ WF_deliveryVars(Acknowledge(w))
    /\ WF_deliveryVars(Republish(w))

FairDeliverySpec == DeliverySpec /\ Fairness

-----------------------------------------------------------------------------
(* A message that has not been processed is never lost: a copy waits, is   *)
(* held unacknowledged for a delivery, or is among the dead letters        *)
(* (handleMessage acknowledges after the handler, republishFailure after   *)
(* the confirmation).                                                      *)
HeldFor(w) == delivery[w] # NULL /\ delivery[w].open

NeverLost ==
  \/ row.status = "PROCESSED"
  \/ \E r \in Retries : queue[r] > 0
  \/ dead > 0
  \/ \E w \in Worker : HeldFor(w)

(* Copies do not multiply: apart from a fault, a failed copy is replaced,  *)
(* not doubled (republishFailure publishes, then acknowledges).            *)
HandedOn(w) == delivery[w].outcome = "resolved"

Copies == SumFunctionOnSet(queue, Retries) + dead
          + Cardinality({w \in Worker : HeldFor(w) /\ ~HandedOn(w)})

CopiesAreBounded == Copies <= 1 + faults

(* Nobody is told that a message is done whose result is not with the      *)
(* broker: it is confirmed before the row says PROCESSED, and a processed  *)
(* message is never worked on again (process, publishConfirmed).           *)
ProcessedIsAnswered == row.status = "PROCESSED" => answered

(* Every message comes to rest: no copy goes round for ever, whatever the  *)
(* handlers answer and the leases refuse (x-retry-count).                  *)
Settled ==
  /\ \A r \in Retries : queue[r] = 0
  /\ \A w \in Worker : ~HeldFor(w)

EventuallySettled == <>[]Settled
=============================================================================
