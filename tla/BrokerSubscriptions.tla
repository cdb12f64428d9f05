------------------------ MODULE BrokerSubscriptions ------------------------
(***************************************************************************)
(* One replica's connection to RabbitMQ (RabbitMqConnection) and the       *)
(* recovery of its subscriptions (RabbitMqConsumer).  A connection attempt *)
(* makes one connection and one channel, and names both here.  Steps that  *)
(* no event of the broker can come between, because they run in the same   *)
(* turn of the event loop, are one action.  main.ts enables no shutdown    *)
(* hooks, so onModuleDestroy never runs: a replica ends by dying.          *)
(***************************************************************************)
EXTENDS Naturals, FiniteSets

CONSTANTS
  Subscription,   (* the queue and handler of every subscribe() call       *)
  MaxFaults,      (* bound on refusals, losses and kills                   *)
  NULL            (* undefined                                             *)

(* A process gives an attempt up only after a fault.                       *)
Attempt == 1..(MaxFaults + 1)

ASSUME FaultsAssumption == MaxFaults \in Nat
ASSUME UndefinedAssumption == NULL \notin Nat /\ NULL \notin Subscription

VARIABLES
  up,         (* the process of the replica runs                           *)
  stage,      (* where createChannel of each attempt is                    *)
  alive,      (* the attempts whose connection the broker holds            *)
  link,       (* the fields of RabbitMqConnection                          *)
  consumer,   (* the fields of RabbitMqConsumer                            *)
  applying,   (* the one applySubscriptions in progress: what it awaits,   *)
              (* and on which channel                                      *)
  unguarded,  (* who waits for it without a catch                          *)
  consuming,  (* the broker's consumers: how many, per queue and channel   *)
  cancelled,  (* the queues whose consumer it cancelled, with the channel  *)
  faults

vars ==
  <<up, stage, alive, link, consumer, applying, unguarded, consuming, cancelled, faults>>

Field == Attempt \cup {NULL}

Stage == {"unused", "connecting", "opening", "open", "failing", "settled"}

TypeOK ==
  /\ up \in BOOLEAN
  /\ stage \in [Attempt -> Stage]
  /\ alive \subseteq Attempt
  /\ link \in [active : Field, promise : Field, connection : Field, channel : Field]
  /\ consumer \in [registered : SUBSET Subscription, current : Field, configured : Field,
                   applied : [Subscription -> Field], timer : BOOLEAN]
  /\ applying \in [phase : {"none", "channel", "prefetch", "queue", "consume"},
                   on : Field, queue : consumer.registered \cup {NULL}]
  /\ unguarded \subseteq {"boot", "listener"}
  /\ consuming \in [Subscription -> [Attempt -> Nat]]
  /\ cancelled \subseteq Subscription \X Attempt
  /\ faults \in 0..MaxFaults

-----------------------------------------------------------------------------
NoLink == [active |-> NULL, promise |-> NULL, connection |-> NULL, channel |-> NULL]
NotApplied == [s \in Subscription |-> NULL]
NewConsumer == [registered |-> {}, current |-> NULL, configured |-> NULL,
                applied |-> NotApplied, timer |-> FALSE]
NotApplying == [phase |-> "none", on |-> NULL, queue |-> NULL]
NotConsuming == [s \in Subscription |-> [a \in Attempt |-> 0]]
Awaiting(phase, a, s) == [phase |-> phase, on |-> a, queue |-> s]

Init ==
  /\ up = TRUE
  /\ stage = [a \in Attempt |-> "unused"]
  /\ alive = {}
  /\ link = NoLink
  /\ consumer = NewConsumer
  /\ applying = NotApplying
  /\ unguarded = {}
  /\ consuming = NotConsuming
  /\ cancelled = {}
  /\ faults = 0

Fault == faults < MaxFaults /\ faults' = faults + 1
Enter(a, s) == stage' = [stage EXCEPT ![a] = s]

(* getChannel with no attempt under way: createChannel starts to connect.  *)
NewAttempt(a) ==
  /\ stage[a] = "unused" /\ \A b \in Attempt : b < a => stage[b] # "unused"
  /\ Enter(a, "connecting")
  /\ link' = [link EXCEPT !.active = a, !.promise = a]

(* Seeded fault of Left: the subscriptions are not those of the map.       *)
LeftOfAll(c, a) == {s \in Subscription : c.applied[s] # a}

(* The subscriptions that applySubscriptions has left to do on channel a.  *)
Left(c, a) == {s \in c.registered : c.applied[s] # a}

(* applySubscriptions, with the consumer fields c and the callers `who`,   *)
(* goes on until its next await; or it returns, and restoreSubscriptions   *)
(* clears the timer.                                                       *)
Continue(c, a, who) ==
  \/ /\ c.configured # a
     /\ consumer' = c
     /\ applying' = Awaiting("prefetch", a, NULL)
     /\ unguarded' = who
  \/ /\ c.configured = a
     /\ consumer' = c
     /\ \E s \in Left(c, a) : applying' = Awaiting("queue", a, s)
     /\ unguarded' = who
  \/ /\ c.configured = a /\ Left(c, a) = {}
     /\ consumer' = [c EXCEPT !.timer = FALSE]
     /\ applying' = NotApplying
     /\ unguarded' = {}

(* restoreSubscriptions, called by `who` ({} if the caller catches).  One  *)
(* runs at a time: a second call waits for the first.                      *)
Restore(c, who) ==
  \/ /\ applying.phase # "none"
     /\ consumer' = c
     /\ unguarded' = unguarded \cup who
     /\ UNCHANGED <<stage, link, applying>>
  \/ /\ applying.phase = "none" /\ link.promise = NULL
     /\ consumer' = c
     /\ \E a \in Attempt : NewAttempt(a) /\ applying' = Awaiting("channel", a, NULL)
     /\ unguarded' = who
  \/ /\ applying.phase = "none" /\ link.promise # NULL
     /\ IF stage[link.promise] = "open"
          THEN Continue([c EXCEPT !.current = link.promise], link.promise, who)
          ELSE /\ consumer' = c
               /\ applying' = Awaiting("channel", link.promise, NULL)
               /\ unguarded' = who
     /\ UNCHANGED <<stage, link>>

(* Seeded fault of RestoreFails: no retry.                                 *)
RestoreGivesUp ==
  /\ up' = (unguarded = {})
  /\ applying' = NotApplying
  /\ unguarded' = {}
  /\ UNCHANGED consumer

(* restoreSubscriptions fails: a retry is scheduled.  But where a caller   *)
(* does not catch the error, Node ends the process: bootstrap() in main.ts *)
(* and the channel listener both discard the promise.                      *)
RestoreFails ==
  /\ up' = (unguarded = {})
  /\ consumer' = [consumer EXCEPT !.timer = (consumer.registered # {})]
  /\ applying' = NotApplying
  /\ unguarded' = {}

-----------------------------------------------------------------------------
(* subscribe(), which the two event services call once while the           *)
(* application starts.                                                     *)
Subscribe(s) ==
  /\ up /\ s \notin consumer.registered
  /\ Restore([consumer EXCEPT !.registered = @ \cup {s}], {"boot"})
  /\ UNCHANGED <<up, alive, consuming, cancelled, faults>>

(* A publication asks for a channel and there is none.                     *)
PublisherConnects(a) ==
  /\ up /\ consumer.registered # {} /\ link.promise = NULL
  /\ NewAttempt(a)
  /\ UNCHANGED <<up, alive, consumer, applying, unguarded, consuming, cancelled, faults>>

(* The recovery timer fires.                                               *)
TimerFires ==
  /\ up /\ consumer.timer
  /\ Restore([consumer EXCEPT !.timer = FALSE], {})
  /\ UNCHANGED <<up, alive, consuming, cancelled, faults>>

(* connectToRabbitMq succeeds.                                             *)
Connected(a) ==
  /\ up /\ stage[a] = "connecting" /\ link.active = a
  /\ Enter(a, "opening")
  /\ alive' = alive \cup {a}
  /\ link' = [link EXCEPT !.connection = a]
  /\ UNCHANGED <<up, consumer, applying, unguarded, consuming, cancelled, faults>>

(* The consumer's listener is told of the channel a, or of NULL: it        *)
(* forgets what it had set up.                                             *)
Told(a) ==
  [consumer EXCEPT !.current = a, !.configured = NULL, !.applied = NotApplied,
                   !.timer = FALSE]

(* createConfirmChannel succeeds: the listener restores the subscriptions, *)
(* and then goes on who awaited the channel.                               *)
ChannelOpened(a) ==
  /\ up /\ stage[a] = "opening" /\ a \in alive
  /\ link.active = a /\ link.connection = a
  /\ Enter(a, "open")
  /\ link' = [link EXCEPT !.channel = a]
  /\ LET who == unguarded \cup {"listener"}
     IN IF applying.phase = "none" \/ (applying.phase = "channel" /\ applying.on = a)
          THEN Continue(Told(a), a, who)
          ELSE consumer' = Told(a) /\ unguarded' = who /\ UNCHANGED applying
  /\ UNCHANGED <<up, alive, consuming, cancelled, faults>>

(* createChannel fails: the broker refuses, or the connection is lost.     *)
AttemptFails(a) ==
  /\ up
  /\ \/ stage[a] \in {"connecting", "opening"} /\ Fault
     \/ stage[a] = "opening" /\ a \notin alive /\ UNCHANGED faults
  /\ Enter(a, "failing")
  /\ alive' = alive \ {a}
  /\ link' = [link EXCEPT !.active = IF @ = a THEN NULL ELSE @,
                          !.connection = IF @ = a THEN NULL ELSE @]
  /\ UNCHANGED <<up, consumer, applying, unguarded, consuming, cancelled>>

(* Seeded fault of AttemptRejects: the rejected promise is kept.           *)
AttemptRejectsKept(a) ==
  /\ up /\ stage[a] = "failing"
  /\ Enter(a, "settled")
  /\ IF applying.phase = "channel" /\ applying.on = a
       THEN RestoreFails
       ELSE UNCHANGED <<up, consumer, applying, unguarded>>
  /\ UNCHANGED <<alive, link, consuming, cancelled, faults>>

(* What was opened is closed, and the promise of the channel rejects.      *)
AttemptRejects(a) ==
  /\ up /\ stage[a] = "failing"
  /\ Enter(a, "settled")
  /\ link' = [link EXCEPT !.promise = IF @ = a THEN NULL ELSE @]
  /\ IF applying.phase = "channel" /\ applying.on = a
       THEN RestoreFails
       ELSE UNCHANGED <<up, consumer, applying, unguarded>>
  /\ UNCHANGED <<alive, consuming, cancelled, faults>>

(* scheduleRecovery, which a setup in progress leaves to its own failure.  *)
Scheduled(c) ==
  [c EXCEPT !.timer = @ \/ (c.registered # {} /\ applying.phase = "none")]

(* The connection or its channel is lost.  invalidateConnection and        *)
(* invalidateChannel forget it, and the listener is told; it does nothing  *)
(* if it has had no channel.                                               *)
Lost(a) ==
  /\ up /\ a \in alive /\ link.connection = a
  /\ Fault
  /\ alive' = alive \ {a}
  /\ link' = NoLink
  /\ consumer' = IF consumer.current = NULL THEN consumer
                 ELSE Scheduled([Told(NULL) EXCEPT !.timer = consumer.timer])
  /\ UNCHANGED <<up, stage, applying, unguarded, consuming, cancelled>>

-----------------------------------------------------------------------------
InSetup == applying.phase \in {"prefetch", "queue", "consume"}

OnCurrent == applying.on \in alive /\ applying.on = consumer.current

(* Seeded fault of SetupReplies: the subscription is not marked applied.   *)
SetupRepliesUnmarked ==
  /\ up /\ InSetup /\ OnCurrent
  /\ IF applying.phase = "consume"
       THEN consuming' = [consuming EXCEPT ![applying.queue][applying.on] = @ + 1]
       ELSE UNCHANGED consuming
  /\ IF applying.phase = "queue"
       THEN applying' = [applying EXCEPT !.phase = "consume"] /\ UNCHANGED <<consumer, unguarded>>
       ELSE Continue([consumer EXCEPT !.configured = applying.on], applying.on, unguarded)
  /\ UNCHANGED <<up, stage, alive, link, cancelled, faults>>

(* prefetch, assertQueue or consume returns.                               *)
SetupReplies ==
  /\ up /\ InSetup /\ OnCurrent
  /\ LET a == applying.on
         s == applying.queue
     IN \/ /\ applying.phase = "prefetch"
           /\ Continue([consumer EXCEPT !.configured = a], a, unguarded)
           /\ UNCHANGED consuming
        \/ /\ applying.phase = "queue"
           /\ applying' = Awaiting("consume", a, s)
           /\ UNCHANGED <<consumer, unguarded, consuming>>
        \/ /\ applying.phase = "consume"
           /\ consuming' = [consuming EXCEPT ![s][a] = @ + 1]
           /\ Continue([consumer EXCEPT !.applied[s] = a], a, unguarded)
  /\ UNCHANGED <<up, stage, alive, link, cancelled, faults>>

(* It fails, which closes the channel, or the channel is not the current   *)
(* one any more.                                                           *)
SetupFails ==
  /\ up /\ InSetup /\ ~OnCurrent
  /\ RestoreFails
  /\ UNCHANGED <<stage, alive, link, consuming, cancelled, faults>>

(* The broker cancels a consumer, as when its queue is deleted, and tells  *)
(* it by a null message.  handleMessage returns: the channel stays open,   *)
(* the subscription stays marked as applied there, and nothing is told.    *)
ConsumerCancelled(s, a) ==
  /\ up /\ a \in alive /\ consuming[s][a] > 0
  /\ Fault
  /\ consuming' = [consuming EXCEPT ![s][a] = @ - 1]
  /\ cancelled' = cancelled \cup {<<s, a>>}
  /\ UNCHANGED <<up, stage, alive, link, consumer, applying, unguarded>>

(* The process is killed.                                                  *)
Killed ==
  /\ up
  /\ Fault
  /\ up' = FALSE
  /\ UNCHANGED <<stage, alive, link, consumer, applying, unguarded, consuming, cancelled>>

(* Kubernetes starts it again, with nothing of what it had in memory, and  *)
(* its connections are gone.                                               *)
Restart ==
  /\ ~up
  /\ up' = TRUE
  /\ stage' = [a \in Attempt |-> "unused"]
  /\ alive' = {}
  /\ link' = NoLink
  /\ consumer' = NewConsumer
  /\ applying' = NotApplying
  /\ unguarded' = {}
  /\ consuming' = NotConsuming
  /\ cancelled' = {}
  /\ UNCHANGED faults

AttemptStep(a) == Connected(a) \/ ChannelOpened(a) \/ AttemptFails(a) \/ AttemptRejects(a)

Next ==
  \/ \E s \in Subscription : Subscribe(s)
  \/ \E a \in Attempt : PublisherConnects(a) \/ AttemptStep(a) \/ Lost(a)
  \/ \E s \in Subscription, a \in Attempt : ConsumerCancelled(s, a)
  \/ TimerFires \/ SetupReplies \/ SetupFails \/ Killed \/ Restart

Spec == Init /\ [][Next]_vars

(* Calls to the broker return or fail, the timer fires, the application    *)
(* goes on starting, and Kubernetes restarts it.  Nothing makes a          *)
(* publication ask for a channel.                                          *)
Fairness ==
  /\ \A s \in Subscription : WF_vars(Subscribe(s))
  /\ \A a \in Attempt : WF_vars(AttemptStep(a))
  /\ WF_vars(TimerFires) /\ WF_vars(SetupReplies \/ SetupFails) /\ WF_vars(Restart)

FairSpec == Spec /\ Fairness

-----------------------------------------------------------------------------
Consumes(s) == \E a \in alive : link.channel = a /\ consuming[s][a] > 0

(* The broker cancelled its consumer on the channel that is open now.  The *)
(* code learns nothing of it: until that channel is lost, nothing consumes *)
(* the queue and nothing is about to.                                      *)
IsCancelled(s) == \E a \in alive : link.channel = a /\ <<s, a>> \in cancelled

(* A subscription that receives nothing, and whose consumer the broker has *)
(* not cancelled on the open channel, is never forgotten: its setup is in  *)
(* progress or the timer is set, whatever publishers and lost connections  *)
(* do meanwhile (scheduleRecovery, clearRecoveryTimer).  A cancellation on *)
(* a channel that is lost since excuses nothing.                           *)
RecoveryIsPending ==
  up => \/ \A s \in consumer.registered : Consumes(s) \/ IsCancelled(s)
        \/ applying.phase # "none"
        \/ consumer.timer

(* A queue is consumed once per channel, so that prefetch(1) keeps its     *)
(* meaning (appliedChannel).                                               *)
ConsumedOnce == \A s \in Subscription : \A a \in Attempt : consuming[s][a] <= 1

(* When faults end, every queue is consumed for good, except one whose     *)
(* consumer the broker cancels on the channel that is then open for good.  *)
EventuallyConsuming ==
  <>[](up /\ \A s \in Subscription : Consumes(s) \/ IsCancelled(s))

(* "retries failed queue setup", "retries failed consumer registration":   *)
(* once the application has started, a setup that fails is tried again.    *)
Started == consumer.registered = Subscription /\ "boot" \notin unguarded

FailedSetupIsRetried == [][Started /\ SetupFails => up' /\ consumer'.timer]_vars
=============================================================================
