--------------------- MODULE BrokerSubscriptionsProofs ---------------------
(***************************************************************************)
(* Proofs about the connection of a replica and its subscriptions, for any *)
(* subscriptions and any number of faults.                                 *)
(***************************************************************************)
EXTENDS BrokerSubscriptions, TLAPS

-----------------------------------------------------------------------------
(* The inductive invariant, by parts.                                      *)

(* The fields of the connection name one attempt, as far as it has come,   *)
(* and the consumer knows of its channel.                                  *)
Linked ==
  /\ consumer.current = link.channel
  /\ link.channel # NULL => link.channel = link.connection /\ stage[link.channel] = "open"
  /\ link.connection # NULL => link.connection = link.active /\ link.connection \in alive
  /\ link.active # NULL =>
       link.active = link.promise /\ stage[link.active] \in {"connecting", "opening", "open"}
  /\ link.promise # NULL /\ stage[link.promise] = "open" => link.channel = link.promise

(* A subscription that is marked applied on the present channel is         *)
(* consumed there, or was until the broker cancelled its consumer; one     *)
(* that is consumed there is marked; and none is consumed on a channel     *)
(* that never opened.                                                      *)
AppliedIsConsumed ==
  \A s \in Subscription :
    /\ consumer.applied[s] \in {NULL, consumer.current}
    /\ \A a \in Attempt :
         /\ consuming[s][a] \in {0, 1}
         /\ consumer.applied[s] = a => consuming[s][a] = 1 \/ <<s, a>> \in cancelled
         /\ consuming[s][a] = 1 => stage[a] = "open"
         /\ consuming[s][a] = 1 /\ consumer.current = a => consumer.applied[s] = a

(* A setup runs on a channel that has opened, for a subscription that is   *)
(* not applied there.                                                      *)
SetupIsNeeded ==
  /\ InSetup => applying.on \in Attempt /\ stage[applying.on] = "open"
  /\ applying.phase \in {"queue", "consume"} =>
       applying.queue # NULL /\ consumer.applied[applying.queue] # applying.on

(* Where nothing is under way, everything is applied.                      *)
NothingForgotten ==
  applying.phase = "none" /\ ~consumer.timer =>
    \A s \in consumer.registered : consumer.applied[s] # NULL

RecoveryInv ==
  TypeOK /\ Linked /\ AppliedIsConsumed /\ SetupIsNeeded /\ NothingForgotten

-----------------------------------------------------------------------------
ConsumerFields ==
  [registered : SUBSET Subscription, current : Field, configured : Field,
   applied : [Subscription -> Field], timer : BOOLEAN]

Applying(registered) ==
  [phase : {"none", "channel", "prefetch", "queue", "consume"},
   on : Field, queue : registered \cup {NULL}]

(* What a step of the consumer leaves alone of its fields.                 *)
SameMarks(c, d) == c.current = d.current /\ c.applied = d.applied

(* The first state satisfies every part.                                   *)
LEMMA InitEstablishesRecoveryInv == Init => RecoveryInv
<1> SUFFICES ASSUME Init PROVE RecoveryInv
  OBVIOUS
<1> USE FaultsAssumption, UndefinedAssumption
<1>1. TypeOK
  BY DEF Init, TypeOK, NoLink, NewConsumer, NotApplied, NotApplying, NotConsuming, Field, Stage
<1>2. Linked /\ NothingForgotten
  BY DEF Init, Linked, NothingForgotten, NoLink, NewConsumer
<1>3. AppliedIsConsumed
  BY DEF Init, AppliedIsConsumed, NewConsumer, NotApplied, NotConsuming, Attempt
<1>4. SetupIsNeeded
  BY DEF Init, SetupIsNeeded, InSetup, NotApplying
<1> QED
  BY <1>1, <1>2, <1>3, <1>4 DEF RecoveryInv

(* applySubscriptions goes on with what is not applied, and ends when all  *)
(* is.                                                                     *)
LEMMA ContinueGoesOn ==
  ASSUME NEW c \in ConsumerFields, NEW a \in Attempt,
         NEW who \in SUBSET {"boot", "listener"}, Continue(c, a, who)
  PROVE  /\ consumer' \in ConsumerFields
         /\ SameMarks(consumer', c) /\ consumer'.registered = c.registered
         /\ applying' \in Applying(c.registered)
         /\ unguarded' \subseteq {"boot", "listener"}
         /\ applying'.phase \in {"none", "prefetch", "queue"}
         /\ applying'.phase # "none" => applying'.on = a
         /\ applying'.phase = "queue" =>
              applying'.queue # NULL /\ c.applied[applying'.queue] # a
         /\ applying'.phase = "none" => \A s \in c.registered : c.applied[s] = a
<1> USE UndefinedAssumption DEF ConsumerFields, Applying, SameMarks, Left, Awaiting, NotApplying,
                                Field
<1>1. CASE c.configured # a
  BY <1>1 DEF Continue
<1>2. CASE c.configured = a /\ Left(c, a) # {}
  <2>1. PICK s \in Left(c, a) : applying' = Awaiting("queue", a, s)
    BY <1>2 DEF Continue
  <2>2. s \in Subscription /\ s \in c.registered /\ c.applied[s] # a
    BY <2>1
  <2> QED
    BY <1>2, <2>1, <2>2 DEF Continue
<1>3. CASE c.configured = a /\ Left(c, a) = {}
  <2>1. consumer' = [c EXCEPT !.timer = FALSE] /\ applying' = NotApplying /\ unguarded' = {}
    BY <1>3 DEF Continue
  <2>2. \A s \in c.registered : c.applied[s] = a
    BY <1>3
  <2> QED
    BY <2>1, <2>2
<1> QED
  BY <1>1, <1>2, <1>3

(* A new attempt leaves the fields of the connection consistent.           *)
LEMMA NewAttemptKeepsLinked ==
  ASSUME RecoveryInv, NEW a \in Attempt, NewAttempt(a), link.promise = NULL,
         consumer'.current = consumer.current, alive' = alive
  PROVE  /\ Linked' /\ link'.channel = link.channel
         /\ stage' \in [Attempt -> Stage] /\ link' \in [active : Field, promise : Field,
                                                       connection : Field, channel : Field]
         /\ \A b \in Attempt : stage[b] = "open" => stage'[b] = "open"
<1>1. TypeOK /\ Linked
  BY DEF RecoveryInv
<1>2. /\ link.active = NULL /\ link.connection = NULL /\ link.channel = NULL
  BY <1>1 DEF Linked
<1>3. a # NULL
  BY UndefinedAssumption DEF Attempt
<1> QED
  BY <1>1, <1>2, <1>3 DEF NewAttempt, Enter, TypeOK, Stage, Field, Linked

(* A failed setup leaves a timer.                                          *)
LEMMA RestoreFailsLeavesTimer ==
  ASSUME TypeOK, RestoreFails
  PROVE  /\ up' \in BOOLEAN
         /\ consumer' \in ConsumerFields
         /\ SameMarks(consumer', consumer) /\ consumer'.registered = consumer.registered
         /\ applying' \in Applying(consumer.registered) /\ applying'.phase = "none"
         /\ unguarded' \subseteq {"boot", "listener"}
         /\ NothingForgotten'
<1>1. consumer \in ConsumerFields
  BY DEF TypeOK, ConsumerFields
<1>2. consumer' = [consumer EXCEPT !.timer = (consumer.registered # {})]
  BY DEF RestoreFails
<1>3. applying' = NotApplying /\ unguarded' = {}
  BY DEF RestoreFails
<1>4. up' \in BOOLEAN
  BY DEF RestoreFails
<1>5. consumer' \in ConsumerFields /\ SameMarks(consumer', consumer)
      /\ consumer'.registered = consumer.registered
  BY <1>1, <1>2 DEF ConsumerFields, SameMarks
<1>6. ~consumer'.timer => consumer'.registered = {}
  BY <1>1, <1>2 DEF ConsumerFields
<1>7. applying' \in Applying(consumer.registered) /\ applying'.phase = "none"
  BY <1>3 DEF Applying, NotApplying, Field
<1> QED
  BY <1>3, <1>4, <1>5, <1>6, <1>7 DEF NothingForgotten

(* The marks keep their meaning when no channel is forgotten and no        *)
(* consumer registered.                                                    *)
LEMMA MarksStay ==
  ASSUME AppliedIsConsumed, SameMarks(consumer', consumer), UNCHANGED <<consuming, cancelled>>,
         \A b \in Attempt : stage[b] = "open" => stage'[b] = "open"
  PROVE  AppliedIsConsumed'
  BY DEF AppliedIsConsumed, SameMarks

(* restoreSubscriptions keeps every part, when it is called with the marks *)
(* as they are.                                                            *)
LEMMA RestoreKeepsRecoveryInv ==
  ASSUME RecoveryInv, NEW c \in ConsumerFields, NEW who \in SUBSET {"boot", "listener"},
         Restore(c, who), SameMarks(c, consumer), consumer.registered \subseteq c.registered,
         UNCHANGED <<up, alive, consuming, cancelled, faults>>
  PROVE  RecoveryInv'
<1> USE UndefinedAssumption
<1>a. TypeOK /\ Linked /\ AppliedIsConsumed /\ SetupIsNeeded /\ NothingForgotten
  BY DEF RecoveryInv
<1>b. consumer \in ConsumerFields /\ applying \in Applying(consumer.registered)
  BY <1>a DEF TypeOK, ConsumerFields, Applying
<1>c. applying \in Applying(c.registered)
  BY <1>b DEF Applying
<1>d. ASSUME consumer' \in ConsumerFields, consumer'.registered = c.registered,
             applying' \in Applying(c.registered),
             unguarded' \subseteq {"boot", "listener"}, stage' \in [Attempt -> Stage],
             link' \in [active : Field, promise : Field, connection : Field, channel : Field]
      PROVE  TypeOK'
  BY <1>a, <1>d DEF TypeOK, ConsumerFields, Applying
<1>1. CASE applying.phase # "none" /\ consumer' = c /\ unguarded' = unguarded \cup who
           /\ UNCHANGED <<stage, link, applying>>
  <2>1. TypeOK'
    BY <1>1, <1>a, <1>c, <1>d DEF TypeOK
  <2>2. Linked'
    BY <1>1, <1>a DEF Linked, SameMarks
  <2>3. AppliedIsConsumed'
    BY <1>1, <1>a, MarksStay
  <2>4. SetupIsNeeded' /\ NothingForgotten'
    BY <1>1, <1>a DEF SetupIsNeeded, InSetup, NothingForgotten, SameMarks
  <2> QED
    BY <2>1, <2>2, <2>3, <2>4 DEF RecoveryInv
<1>2. CASE link.promise = NULL /\ consumer' = c /\ unguarded' = who
           /\ \E a \in Attempt : NewAttempt(a) /\ applying' = Awaiting("channel", a, NULL)
  <2>1. PICK a \in Attempt : NewAttempt(a) /\ applying' = Awaiting("channel", a, NULL)
    BY <1>2
  <2>2. /\ Linked' /\ stage' \in [Attempt -> Stage]
        /\ link' \in [active : Field, promise : Field, connection : Field, channel : Field]
        /\ \A b \in Attempt : stage[b] = "open" => stage'[b] = "open"
    BY <1>2, <2>1, NewAttemptKeepsLinked DEF SameMarks
  <2>3. applying' \in Applying(c.registered) /\ applying'.phase = "channel"
    BY <2>1 DEF Applying, Awaiting, Field
  <2>4. TypeOK'
    BY <1>2, <1>d, <2>2, <2>3
  <2>5. AppliedIsConsumed'
    BY <1>2, <1>a, <2>2, MarksStay
  <2>6. SetupIsNeeded' /\ NothingForgotten'
    BY <2>3 DEF SetupIsNeeded, InSetup, NothingForgotten
  <2> QED
    BY <2>2, <2>4, <2>5, <2>6 DEF RecoveryInv
<1>3. CASE link.promise # NULL /\ stage[link.promise] = "open" /\ UNCHANGED <<stage, link>>
           /\ Continue([c EXCEPT !.current = link.promise], link.promise, who)
  <2> DEFINE a == link.promise
             d == [c EXCEPT !.current = a]
  <2>1. a \in Attempt /\ a = link.channel /\ a = consumer.current
    BY <1>3, <1>a DEF TypeOK, Field, Linked
  <2>2. d \in ConsumerFields /\ SameMarks(d, consumer) /\ d.registered = c.registered
    BY <2>1 DEF ConsumerFields, SameMarks, Field
  <2>3. /\ consumer' \in ConsumerFields
        /\ SameMarks(consumer', d) /\ consumer'.registered = c.registered
        /\ applying' \in Applying(c.registered)
        /\ unguarded' \subseteq {"boot", "listener"}
        /\ applying'.phase \in {"none", "prefetch", "queue"}
        /\ applying'.phase # "none" => applying'.on = a
        /\ applying'.phase = "queue" => applying'.queue # NULL /\ d.applied[applying'.queue] # a
        /\ applying'.phase = "none" => \A s \in c.registered : d.applied[s] = a
    <3>1. Continue(d, a, who)
      BY <1>3
    <3> HIDE DEF a, d
    <3> QED
      BY <2>1, <2>2, <3>1, ContinueGoesOn
  <2>4. SameMarks(consumer', consumer)
    BY <2>2, <2>3 DEF SameMarks
  <2>5. TypeOK'
    BY <1>3, <1>a, <1>d, <2>3 DEF TypeOK
  <2>6. Linked'
    BY <1>3, <1>a, <2>4 DEF Linked, SameMarks
  <2>7. AppliedIsConsumed'
    BY <1>3, <1>a, <2>4, MarksStay
  <2>8. SetupIsNeeded'
    BY <1>3, <2>1, <2>3 DEF SetupIsNeeded, InSetup, SameMarks
  <2>9. NothingForgotten'
    BY <1>3, <2>1, <2>3 DEF NothingForgotten, SameMarks
  <2> QED
    BY <2>5, <2>6, <2>7, <2>8, <2>9 DEF RecoveryInv
<1>4. CASE consumer' = c /\ applying' = Awaiting("channel", link.promise, NULL)
           /\ unguarded' = who /\ UNCHANGED <<stage, link>>
  <2>1. applying' \in Applying(c.registered) /\ applying'.phase = "channel"
    BY <1>4, <1>a DEF Applying, Awaiting, TypeOK
  <2>2. TypeOK'
    BY <1>4, <1>a, <1>d, <2>1 DEF TypeOK
  <2>3. Linked'
    BY <1>4, <1>a DEF Linked, SameMarks
  <2>4. AppliedIsConsumed'
    BY <1>4, <1>a, MarksStay
  <2>5. SetupIsNeeded' /\ NothingForgotten'
    BY <2>1 DEF SetupIsNeeded, InSetup, NothingForgotten
  <2> QED
    BY <2>2, <2>3, <2>4, <2>5 DEF RecoveryInv
<1> QED
  BY <1>1, <1>2, <1>3, <1>4 DEF Restore

-----------------------------------------------------------------------------
(* The attempts: one lemma per event of the connection.                    *)

LinkFields == [active : Field, promise : Field, connection : Field, channel : Field]

(* The connection is there: it becomes that of the attempt under way.      *)
LEMMA ConnectedKeeps ==
  ASSUME RecoveryInv, NEW a \in Attempt, Connected(a)
  PROVE  RecoveryInv'
<1> USE UndefinedAssumption
<1>a. TypeOK /\ Linked /\ AppliedIsConsumed /\ SetupIsNeeded /\ NothingForgotten
  BY DEF RecoveryInv
<1>b. /\ stage' = [stage EXCEPT ![a] = "opening"] /\ alive' = alive \cup {a}
      /\ link' = [link EXCEPT !.connection = a] /\ stage[a] = "connecting" /\ link.active = a
      /\ UNCHANGED <<up, consumer, applying, unguarded, consuming, cancelled, faults>>
  BY DEF Connected, Enter
<1>c. a # NULL /\ a \in Field
  BY DEF Attempt, Field
<1>d. \A b \in Attempt : stage[b] = "open" => stage'[b] = "open"
  BY <1>a, <1>b DEF TypeOK
<1>1. TypeOK'
  <2>1. stage' \in [Attempt -> Stage]
    BY <1>a, <1>b DEF TypeOK, Stage
  <2>2. link' \in LinkFields
    BY <1>a, <1>b, <1>c DEF TypeOK, LinkFields
  <2> QED
    BY <1>a, <1>b, <2>1, <2>2 DEF TypeOK, LinkFields
<1>2. Linked'
  BY <1>a, <1>b, <1>c DEF Linked, TypeOK, Field
<1>3. AppliedIsConsumed'
  BY <1>a, <1>b, <1>d, MarksStay DEF SameMarks
<1>4. SetupIsNeeded' /\ NothingForgotten'
  BY <1>a, <1>b, <1>d DEF SetupIsNeeded, InSetup, NothingForgotten
<1> QED
  BY <1>1, <1>2, <1>3, <1>4 DEF RecoveryInv

(* The channel is there: nothing is applied on it yet, and a setup begins  *)
(* or one on a channel that is lost goes on to its failure.                *)
LEMMA ChannelOpenedKeeps ==
  ASSUME RecoveryInv, NEW a \in Attempt, ChannelOpened(a)
  PROVE  RecoveryInv'
<1> USE UndefinedAssumption
<1>a. TypeOK /\ Linked /\ AppliedIsConsumed /\ SetupIsNeeded /\ NothingForgotten
  BY DEF RecoveryInv
<1>b. /\ stage' = [stage EXCEPT ![a] = "open"] /\ stage[a] = "opening"
      /\ link' = [link EXCEPT !.channel = a]
      /\ link.active = a /\ link.connection = a /\ a \in alive
      /\ UNCHANGED <<up, alive, consuming, cancelled, faults>>
  BY DEF ChannelOpened, Enter
<1>c. a # NULL /\ a \in Field
  BY DEF Attempt, Field
<1> DEFINE c == Told(a)
           who == unguarded \cup {"listener"}
<1>d. /\ c \in ConsumerFields /\ who \in SUBSET {"boot", "listener"}
      /\ c.current = a /\ c.applied = NotApplied /\ c.registered = consumer.registered
      /\ c.configured = NULL
  BY <1>a, <1>c DEF Told, ConsumerFields, TypeOK, NotApplied, Field
<1>e. \/ Continue(c, a, who)
      \/ /\ applying.phase # "none" /\ ~(applying.phase = "channel" /\ applying.on = a)
         /\ consumer' = c /\ unguarded' = who /\ UNCHANGED applying
  BY DEF ChannelOpened
<1> HIDE DEF c, who
<1>f. /\ consumer' \in ConsumerFields
      /\ SameMarks(consumer', c) /\ consumer'.registered = consumer.registered
      /\ applying' \in Applying(consumer.registered)
      /\ unguarded' \subseteq {"boot", "listener"}
      /\ \/ applying' = applying /\ applying.phase # "none"
         \/ /\ applying'.phase \in {"none", "prefetch", "queue"}
            /\ applying'.phase # "none" => applying'.on = a
            /\ applying'.phase = "queue" =>
                 applying'.queue # NULL /\ c.applied[applying'.queue] # a
            /\ applying'.phase = "none" => \A s \in c.registered : c.applied[s] = a
  <2>1. CASE Continue(c, a, who)
    BY <1>d, <2>1, ContinueGoesOn
  <2>2. CASE ~Continue(c, a, who)
    BY <1>a, <1>d, <1>e, <2>2 DEF SameMarks, TypeOK, Applying
  <2> QED
    BY <2>1, <2>2
<1>g. consumer'.current = a /\ consumer'.applied = NotApplied
  BY <1>d, <1>f DEF SameMarks
<1>h. /\ \A b \in Attempt : stage[b] = "open" => stage'[b] = "open" /\ b # a
      /\ stage'[a] = "open"
  BY <1>a, <1>b DEF TypeOK
<1>1. TypeOK'
  <2>1. stage' \in [Attempt -> Stage]
    BY <1>a, <1>b DEF TypeOK, Stage
  <2>2. link' \in LinkFields
    BY <1>a, <1>b, <1>c DEF TypeOK, LinkFields
  <2> QED
    BY <1>a, <1>b, <1>f, <2>1, <2>2 DEF TypeOK, LinkFields, ConsumerFields, Applying
<1>2. Linked'
  BY <1>a, <1>b, <1>c, <1>g, <1>h DEF Linked, TypeOK, Field
<1>3. AppliedIsConsumed'
  BY <1>a, <1>b, <1>c, <1>g, <1>h DEF AppliedIsConsumed, NotApplied, Attempt
<1>4. SetupIsNeeded'
  <2>1. CASE applying' = applying
    <3>1. InSetup => applying.on \in Attempt /\ stage'[applying.on] = "open"
      BY <1>a, <1>h DEF SetupIsNeeded
    <3>2. applying.phase \in {"queue", "consume"} =>
            applying.queue # NULL /\ applying.queue \in Subscription
      BY <1>a DEF SetupIsNeeded, TypeOK
    <3> QED
      BY <1>c, <1>g, <2>1, <3>1, <3>2 DEF SetupIsNeeded, InSetup, NotApplied, Attempt
  <2>2. CASE applying' # applying
    BY <1>d, <1>f, <1>g, <1>h, <2>2 DEF SetupIsNeeded, InSetup, SameMarks
  <2> QED
    BY <2>1, <2>2
<1>5. NothingForgotten'
  BY <1>c, <1>d, <1>f DEF NothingForgotten, SameMarks
<1> QED
  BY <1>1, <1>2, <1>3, <1>4, <1>5 DEF RecoveryInv

(* The attempt fails: it is not the one whose channel is there.            *)
LEMMA AttemptFailsKeeps ==
  ASSUME RecoveryInv, NEW a \in Attempt, AttemptFails(a)
  PROVE  RecoveryInv'
<1> USE UndefinedAssumption
<1>a. TypeOK /\ Linked /\ AppliedIsConsumed /\ SetupIsNeeded /\ NothingForgotten
  BY DEF RecoveryInv
<1>b. /\ stage' = [stage EXCEPT ![a] = "failing"] /\ alive' = alive \ {a}
      /\ stage[a] \in {"connecting", "opening"}
      /\ link' = [link EXCEPT !.active = IF @ = a THEN NULL ELSE @,
                              !.connection = IF @ = a THEN NULL ELSE @]
      /\ UNCHANGED <<up, consumer, applying, unguarded, consuming, cancelled>>
  BY DEF AttemptFails, Enter
<1>c. a # NULL /\ a \in Field /\ NULL \in Field
  BY DEF Attempt, Field
<1>d. \A b \in Attempt : stage[b] = "open" => stage'[b] = "open"
  BY <1>a, <1>b DEF TypeOK
<1>e. faults' \in 0..MaxFaults
  BY <1>a, FaultsAssumption DEF AttemptFails, Fault, TypeOK
<1>1. TypeOK'
  <2>1. stage' \in [Attempt -> Stage]
    BY <1>a, <1>b DEF TypeOK, Stage
  <2>2. link' \in LinkFields
    BY <1>a, <1>b, <1>c DEF TypeOK, LinkFields
  <2> QED
    BY <1>a, <1>b, <1>e, <2>1, <2>2 DEF TypeOK, LinkFields
<1>2. Linked'
  BY <1>a, <1>b, <1>c DEF Linked, TypeOK, Field
<1>3. AppliedIsConsumed'
  BY <1>a, <1>b, <1>d, MarksStay DEF SameMarks
<1>4. SetupIsNeeded' /\ NothingForgotten'
  BY <1>a, <1>b, <1>d DEF SetupIsNeeded, InSetup, NothingForgotten
<1> QED
  BY <1>1, <1>2, <1>3, <1>4 DEF RecoveryInv

(* Its promise rejects, and with it a setup that awaits the channel.       *)
LEMMA AttemptRejectsKeeps ==
  ASSUME RecoveryInv, NEW a \in Attempt, AttemptRejects(a)
  PROVE  RecoveryInv'
<1> USE UndefinedAssumption
<1>a. TypeOK /\ Linked /\ AppliedIsConsumed /\ SetupIsNeeded /\ NothingForgotten
  BY DEF RecoveryInv
<1>b. /\ stage' = [stage EXCEPT ![a] = "settled"] /\ stage[a] = "failing"
      /\ link' = [link EXCEPT !.promise = IF @ = a THEN NULL ELSE @]
      /\ UNCHANGED <<alive, consuming, cancelled, faults>>
      /\ RestoreFails \/ UNCHANGED <<up, consumer, applying, unguarded>>
  BY DEF AttemptRejects, Enter
<1>c. a # NULL /\ a \in Field /\ NULL \in Field
  BY DEF Attempt, Field
<1>d. \A b \in Attempt : stage[b] = "open" => stage'[b] = "open"
  BY <1>a, <1>b DEF TypeOK
<1>e. /\ up' \in BOOLEAN
      /\ consumer' \in ConsumerFields
      /\ SameMarks(consumer', consumer) /\ consumer'.registered = consumer.registered
      /\ applying' \in Applying(consumer.registered)
      /\ unguarded' \subseteq {"boot", "listener"}
      /\ NothingForgotten'
      /\ applying'.phase = "none" \/ applying' = applying
  <2>1. CASE RestoreFails
    BY <1>a, <2>1, RestoreFailsLeavesTimer
  <2>2. CASE UNCHANGED <<up, consumer, applying, unguarded>>
    BY <1>a, <2>2 DEF TypeOK, ConsumerFields, Applying, SameMarks, NothingForgotten
  <2> QED
    BY <1>b, <2>1, <2>2
<1>1. TypeOK'
  <2>1. stage' \in [Attempt -> Stage]
    BY <1>a, <1>b DEF TypeOK, Stage
  <2>2. link' \in LinkFields
    BY <1>a, <1>b, <1>c DEF TypeOK, LinkFields
  <2> QED
    BY <1>a, <1>b, <1>e, <2>1, <2>2 DEF TypeOK, LinkFields, ConsumerFields, Applying
<1>2. Linked'
  BY <1>a, <1>b, <1>c, <1>e DEF Linked, TypeOK, Field, SameMarks
<1>3. AppliedIsConsumed'
  BY <1>a, <1>b, <1>d, <1>e, MarksStay
<1>4. SetupIsNeeded'
  BY <1>a, <1>d, <1>e DEF SetupIsNeeded, InSetup, SameMarks
<1> QED
  BY <1>1, <1>2, <1>3, <1>4, <1>e DEF RecoveryInv

(* The connection is lost: a timer is set, or a setup is there to fail.    *)
LEMMA LostKeeps ==
  ASSUME RecoveryInv, NEW a \in Attempt, Lost(a)
  PROVE  RecoveryInv'
<1> USE UndefinedAssumption
<1>a. TypeOK /\ Linked /\ AppliedIsConsumed /\ SetupIsNeeded /\ NothingForgotten
  BY DEF RecoveryInv
<1>b. /\ link' = NoLink /\ alive' = alive \ {a}
      /\ UNCHANGED <<up, stage, applying, unguarded, consuming, cancelled>>
  BY DEF Lost
<1>c. faults' \in 0..MaxFaults
  BY <1>a, FaultsAssumption DEF Lost, Fault, TypeOK
<1>d. CASE consumer.current = NULL
  <2>1. UNCHANGED consumer
    BY <1>d DEF Lost
  <2>2. TypeOK'
    BY <1>a, <1>b, <1>c, <2>1 DEF TypeOK, NoLink, Field
  <2>3. Linked'
    BY <1>b, <1>d, <2>1 DEF Linked, NoLink
  <2> QED
    BY <1>a, <1>b, <2>1, <2>2, <2>3
    DEF RecoveryInv, AppliedIsConsumed, SetupIsNeeded, InSetup, NothingForgotten
<1>e. CASE consumer.current # NULL
  <2> DEFINE c == [Told(NULL) EXCEPT !.timer = consumer.timer]
  <2>1. consumer' = [c EXCEPT !.timer = @ \/ (c.registered # {} /\ applying.phase = "none")]
    BY <1>e DEF Lost, Scheduled
  <2>2. /\ c \in ConsumerFields /\ c.current = NULL /\ c.applied = NotApplied
        /\ c.registered = consumer.registered
    BY <1>a DEF Told, ConsumerFields, TypeOK, NotApplied, Field
  <2> HIDE DEF c
  <2>3. /\ consumer' \in ConsumerFields /\ consumer'.current = NULL
        /\ consumer'.applied = NotApplied /\ consumer'.registered = consumer.registered
    BY <2>1, <2>2 DEF ConsumerFields
  <2>4. applying.phase = "none" /\ ~consumer'.timer => consumer'.registered = {}
    BY <2>1, <2>2 DEF ConsumerFields
  <2>5. TypeOK'
    BY <1>a, <1>b, <1>c, <2>3 DEF TypeOK, ConsumerFields, NoLink, Field
  <2>6. Linked'
    BY <1>b, <2>3 DEF Linked, NoLink
  <2>7. AppliedIsConsumed'
    BY <1>a, <1>b, <2>3 DEF AppliedIsConsumed, NotApplied, Attempt
  <2>8. SetupIsNeeded'
    <3>1. applying.phase \in {"queue", "consume"} =>
            /\ applying.queue # NULL /\ applying.queue \in Subscription
            /\ applying.on \in Attempt
      BY <1>a DEF SetupIsNeeded, TypeOK, InSetup
    <3> QED
      BY <1>a, <1>b, <2>3, <3>1 DEF SetupIsNeeded, InSetup, NotApplied, Attempt
  <2>9. NothingForgotten'
    BY <1>b, <2>4 DEF NothingForgotten
  <2> QED
    BY <2>5, <2>6, <2>7, <2>8, <2>9 DEF RecoveryInv
<1> QED
  BY <1>d, <1>e

-----------------------------------------------------------------------------
(* A call of the setup returns: a queue that begins to be consumed was not *)
(* consumed on this channel, and is marked.                                *)
LEMMA SetupRepliesKeeps ==
  ASSUME RecoveryInv, SetupReplies
  PROVE  RecoveryInv'
<1> USE UndefinedAssumption
<1>a. TypeOK /\ Linked /\ AppliedIsConsumed /\ SetupIsNeeded /\ NothingForgotten
  BY DEF RecoveryInv
<1> DEFINE a == applying.on
           q == applying.queue
<1>b. /\ a \in Attempt /\ stage[a] = "open" /\ a = consumer.current /\ a \in alive /\ a # NULL
      /\ UNCHANGED <<up, stage, alive, link, cancelled, faults>>
      /\ a \in Field
  BY <1>a DEF SetupReplies, OnCurrent, SetupIsNeeded, Attempt, Field
<1>c. consumer \in ConsumerFields /\ applying \in Applying(consumer.registered)
      /\ unguarded \in SUBSET {"boot", "listener"}
  BY <1>a DEF TypeOK, ConsumerFields, Applying
<1> HIDE DEF a, q
<1>d. ASSUME NEW c \in ConsumerFields, Continue(c, a, unguarded), c.current = consumer.current,
             c.registered = consumer.registered, consuming' \in [Subscription -> [Attempt -> Nat]],
             SameMarks(consumer', c) => AppliedIsConsumed'
      PROVE  RecoveryInv'
  <2>1. /\ consumer' \in ConsumerFields
        /\ SameMarks(consumer', c) /\ consumer'.registered = c.registered
        /\ applying' \in Applying(c.registered)
        /\ unguarded' \subseteq {"boot", "listener"}
        /\ applying'.phase \in {"none", "prefetch", "queue"}
        /\ applying'.phase # "none" => applying'.on = a
        /\ applying'.phase = "queue" => applying'.queue # NULL /\ c.applied[applying'.queue] # a
        /\ applying'.phase = "none" => \A s \in c.registered : c.applied[s] = a
    <3>1. /\ c \in ConsumerFields /\ a \in Attempt /\ unguarded \in SUBSET {"boot", "listener"}
          /\ Continue(c, a, unguarded)
      BY <1>b, <1>c, <1>d
    <3> QED
      BY <3>1, ContinueGoesOn
  <2>2. TypeOK'
    BY <1>a, <1>b, <1>d, <2>1 DEF TypeOK, ConsumerFields, Applying
  <2>3. Linked'
    BY <1>a, <1>b, <1>d, <2>1 DEF Linked, SameMarks
  <2>4. SetupIsNeeded'
    BY <1>b, <2>1 DEF SetupIsNeeded, InSetup, SameMarks
  <2>5. NothingForgotten'
    BY <1>b, <2>1 DEF NothingForgotten, SameMarks
  <2> QED
    BY <1>d, <2>1, <2>2, <2>3, <2>4, <2>5 DEF RecoveryInv
<1>1. CASE applying.phase = "prefetch"
  <2> DEFINE c == [consumer EXCEPT !.configured = a]
  <2>1. Continue(c, a, unguarded) /\ UNCHANGED consuming
    BY <1>1 DEF SetupReplies, a
  <2>2. c \in ConsumerFields /\ SameMarks(c, consumer) /\ c.registered = consumer.registered
    BY <1>b, <1>c DEF ConsumerFields, SameMarks
  <2> HIDE DEF c
  <2>3. SameMarks(consumer', c) => AppliedIsConsumed'
    BY <1>a, <1>b, <2>1, <2>2, MarksStay DEF SameMarks
  <2> QED
    BY <1>a, <1>d, <2>1, <2>2, <2>3 DEF SameMarks, TypeOK
<1>2. CASE applying.phase = "queue"
  <2>1. /\ applying' = Awaiting("consume", a, q) /\ UNCHANGED <<consumer, unguarded, consuming, cancelled>>
    BY <1>2 DEF SetupReplies, a, q
  <2>2. q \in consumer.registered /\ q # NULL /\ consumer.applied[q] # a
    BY <1>2, <1>a DEF SetupIsNeeded, TypeOK, a, q
  <2>3. TypeOK'
    BY <1>a, <1>b, <2>1, <2>2 DEF TypeOK, Awaiting
  <2>4. Linked' /\ AppliedIsConsumed'
    BY <1>a, <1>b, <2>1 DEF Linked, AppliedIsConsumed
  <2>5. SetupIsNeeded' /\ NothingForgotten'
    BY <1>b, <2>1, <2>2 DEF SetupIsNeeded, InSetup, NothingForgotten, Awaiting
  <2> QED
    BY <2>3, <2>4, <2>5 DEF RecoveryInv
<1>3. CASE applying.phase = "consume"
  <2> DEFINE c == [consumer EXCEPT !.applied[q] = a]
  <2>1. Continue(c, a, unguarded) /\ consuming' = [consuming EXCEPT ![q][a] = @ + 1]
    BY <1>3 DEF SetupReplies, a, q
  <2>2. q \in Subscription /\ consumer.applied[q] # a
    BY <1>3, <1>a DEF SetupIsNeeded, TypeOK, a, q
  <2>3. /\ c \in ConsumerFields /\ c.current = consumer.current
        /\ c.registered = consumer.registered
        /\ c.applied = [consumer.applied EXCEPT ![q] = a]
    BY <1>b, <1>c, <2>2 DEF ConsumerFields
  <2> HIDE DEF c
  <2>4. consuming[q][a] = 0
    BY <1>a, <1>b, <2>2 DEF AppliedIsConsumed
  <2>5. consuming' \in [Subscription -> [Attempt -> Nat]]
    BY <1>a, <1>b, <2>1, <2>2 DEF TypeOK
  <2>6. /\ consuming'[q][a] = 1 /\ c.applied[q] = a
        /\ \A b \in Attempt \ {a} : consuming'[q][b] = consuming[q][b]
        /\ \A s \in Subscription \ {q} :
             consuming'[s] = consuming[s] /\ c.applied[s] = consumer.applied[s]
    BY <1>a, <1>b, <2>1, <2>2, <2>3, <2>4 DEF TypeOK
  <2>7. SameMarks(consumer', c) => AppliedIsConsumed'
    <3> SUFFICES ASSUME consumer'.current = consumer.current, consumer'.applied = c.applied,
                        NEW s \in Subscription
                 PROVE  /\ c.applied[s] \in {NULL, consumer.current}
                        /\ \A b \in Attempt :
                             /\ consuming'[s][b] \in {0, 1}
                             /\ c.applied[s] = b =>
                                  consuming'[s][b] = 1 \/ <<s, b>> \in cancelled
                             /\ consuming'[s][b] = 1 => stage[b] = "open"
                             /\ consuming'[s][b] = 1 /\ consumer.current = b => c.applied[s] = b
      BY <1>b, <2>3 DEF AppliedIsConsumed, SameMarks
    <3>1. CASE s = q
      BY <1>a, <1>b, <2>2, <2>6, <3>1 DEF AppliedIsConsumed
    <3>2. CASE s # q
      BY <1>a, <2>6, <3>2 DEF AppliedIsConsumed
    <3> QED
      BY <3>1, <3>2
  <2> QED
    BY <1>d, <2>1, <2>3, <2>5, <2>7
<1> QED
  BY <1>1, <1>2, <1>3 DEF SetupReplies, InSetup

(* The broker cancels a consumer: its subscription stays marked, and the   *)
(* broker has cancelled it.                                                *)
LEMMA ConsumerCancelledKeeps ==
  ASSUME RecoveryInv, NEW q \in Subscription, NEW b \in Attempt, ConsumerCancelled(q, b)
  PROVE  RecoveryInv'
<1>a. TypeOK /\ Linked /\ AppliedIsConsumed /\ SetupIsNeeded /\ NothingForgotten
  BY DEF RecoveryInv
<1>b. /\ UNCHANGED <<up, stage, alive, link, consumer, applying, unguarded>>
      /\ consuming' = [consuming EXCEPT ![q][b] = @ - 1]
      /\ cancelled' = cancelled \cup {<<q, b>>}
      /\ consuming[q][b] > 0
  BY DEF ConsumerCancelled
<1>c. faults' \in 0..MaxFaults
  <2>1. faults < MaxFaults /\ faults' = faults + 1
    BY DEF ConsumerCancelled, Fault
  <2> QED
    BY <1>a, <2>1, FaultsAssumption DEF TypeOK
<1>d. consuming[q][b] = 1
  <2>1. consuming[q][b] \in {0, 1}
    BY <1>a DEF AppliedIsConsumed
  <2> QED
    BY <1>b, <2>1
<1>e. /\ consuming' \in [Subscription -> [Attempt -> Nat]]
      /\ consuming'[q][b] = 0
      /\ \A s \in Subscription, a \in Attempt :
           s # q \/ a # b => consuming'[s][a] = consuming[s][a]
  BY <1>a, <1>b, <1>d DEF TypeOK
<1>1. TypeOK'
  BY <1>a, <1>b, <1>c, <1>e DEF TypeOK
<1>2. Linked' /\ SetupIsNeeded' /\ NothingForgotten'
  BY <1>a, <1>b DEF Linked, SetupIsNeeded, InSetup, NothingForgotten
<1>3. AppliedIsConsumed'
  <2> SUFFICES ASSUME NEW s \in Subscription, NEW a \in Attempt
               PROVE  /\ consumer.applied[s] \in {NULL, consumer.current}
                      /\ consuming'[s][a] \in {0, 1}
                      /\ consumer.applied[s] = a => consuming'[s][a] = 1 \/ <<s, a>> \in cancelled'
                      /\ consuming'[s][a] = 1 => stage[a] = "open"
                      /\ consuming'[s][a] = 1 /\ consumer.current = a => consumer.applied[s] = a
    BY <1>b DEF AppliedIsConsumed, Attempt
  <2>1. CASE s = q /\ a = b
    BY <1>a, <1>b, <1>e, <2>1 DEF AppliedIsConsumed
  <2>2. CASE s # q \/ a # b
    BY <1>a, <1>b, <1>e, <2>2 DEF AppliedIsConsumed
  <2> QED
    BY <2>1, <2>2
<1> QED
  BY <1>1, <1>2, <1>3 DEF RecoveryInv

(* Every step preserves the invariant.                                     *)
LEMMA NextPreservesRecoveryInv == RecoveryInv /\ [Next]_vars => RecoveryInv'
<1> SUFFICES ASSUME RecoveryInv, [Next]_vars PROVE RecoveryInv'
  OBVIOUS
<1> USE UndefinedAssumption, FaultsAssumption
<1>a. TypeOK /\ Linked /\ AppliedIsConsumed /\ SetupIsNeeded /\ NothingForgotten
  BY DEF RecoveryInv
<1>b. consumer \in ConsumerFields
  BY <1>a DEF TypeOK, ConsumerFields
<1>1. CASE UNCHANGED vars
  BY <1>1, <1>a
  DEF vars, RecoveryInv, TypeOK, Linked, AppliedIsConsumed, SetupIsNeeded, InSetup,
      NothingForgotten
<1>2. ASSUME NEW s \in Subscription, Subscribe(s) PROVE RecoveryInv'
  <2> DEFINE c == [consumer EXCEPT !.registered = @ \cup {s}]
  <2>1. /\ c \in ConsumerFields /\ SameMarks(c, consumer)
        /\ consumer.registered \subseteq c.registered
    BY <1>b DEF ConsumerFields, SameMarks
  <2>2. Restore(c, {"boot"}) /\ UNCHANGED <<up, alive, consuming, cancelled, faults>>
    BY <1>2 DEF Subscribe
  <2> HIDE DEF c
  <2> QED
    BY <2>1, <2>2, RestoreKeepsRecoveryInv
<1>3. ASSUME NEW a \in Attempt, PublisherConnects(a) PROVE RecoveryInv'
  <2>1. /\ NewAttempt(a) /\ link.promise = NULL
        /\ UNCHANGED <<up, alive, consumer, applying, unguarded, consuming, cancelled, faults>>
    BY <1>3 DEF PublisherConnects
  <2>2. /\ Linked' /\ stage' \in [Attempt -> Stage]
        /\ link' \in [active : Field, promise : Field, connection : Field, channel : Field]
        /\ \A b \in Attempt : stage[b] = "open" => stage'[b] = "open"
    BY <2>1, NewAttemptKeepsLinked
  <2>3. TypeOK'
    BY <1>a, <2>1, <2>2 DEF TypeOK
  <2>4. AppliedIsConsumed'
    BY <1>a, <2>1, <2>2, MarksStay DEF SameMarks
  <2>5. SetupIsNeeded' /\ NothingForgotten'
    BY <1>a, <2>1, <2>2 DEF SetupIsNeeded, InSetup, NothingForgotten
  <2> QED
    BY <2>2, <2>3, <2>4, <2>5 DEF RecoveryInv
<1>4. ASSUME NEW a \in Attempt, AttemptStep(a) \/ Lost(a) PROVE RecoveryInv'
  BY <1>4, ConnectedKeeps, ChannelOpenedKeeps, AttemptFailsKeeps, AttemptRejectsKeeps, LostKeeps
  DEF AttemptStep
<1>5. CASE TimerFires
  <2> DEFINE c == [consumer EXCEPT !.timer = FALSE]
  <2>1. /\ c \in ConsumerFields /\ SameMarks(c, consumer)
        /\ consumer.registered \subseteq c.registered
    BY <1>b DEF ConsumerFields, SameMarks
  <2>2. Restore(c, {}) /\ UNCHANGED <<up, alive, consuming, cancelled, faults>>
    BY <1>5 DEF TimerFires
  <2> HIDE DEF c
  <2> QED
    BY <2>1, <2>2, RestoreKeepsRecoveryInv
<1>6. CASE SetupReplies
  BY <1>6, SetupRepliesKeeps
<1>7. CASE SetupFails
  <2>1. RestoreFails /\ UNCHANGED <<stage, alive, link, consuming, cancelled, faults>>
    BY <1>7 DEF SetupFails
  <2>2. /\ up' \in BOOLEAN
        /\ consumer' \in ConsumerFields
        /\ SameMarks(consumer', consumer) /\ consumer'.registered = consumer.registered
        /\ applying' \in Applying(consumer.registered) /\ applying'.phase = "none"
        /\ unguarded' \subseteq {"boot", "listener"}
        /\ NothingForgotten'
    BY <1>a, <2>1, RestoreFailsLeavesTimer
  <2>3. TypeOK'
    BY <1>a, <2>1, <2>2 DEF TypeOK, ConsumerFields, Applying
  <2>4. Linked'
    BY <1>a, <2>1, <2>2 DEF Linked, SameMarks
  <2>5. AppliedIsConsumed'
    BY <1>a, <2>1, <2>2, MarksStay
  <2>6. SetupIsNeeded'
    BY <2>2 DEF SetupIsNeeded, InSetup
  <2> QED
    BY <2>2, <2>3, <2>4, <2>5, <2>6 DEF RecoveryInv
<1>8. CASE Killed
  <2>1. faults' \in 0..MaxFaults
    BY <1>a, <1>8 DEF Killed, Fault, TypeOK
  <2>2. up' \in BOOLEAN /\ UNCHANGED <<stage, alive, link, consumer, applying, unguarded, consuming, cancelled>>
    BY <1>8 DEF Killed
  <2> QED
    BY <1>a, <2>1, <2>2
    DEF RecoveryInv, TypeOK, Linked, AppliedIsConsumed, SetupIsNeeded, InSetup, NothingForgotten
<1>9. CASE Restart
  <2>1. /\ stage' = [a \in Attempt |-> "unused"] /\ alive' = {} /\ link' = NoLink
        /\ consumer' = NewConsumer /\ applying' = NotApplying /\ unguarded' = {}
        /\ consuming' = NotConsuming /\ cancelled' = {} /\ up' \in BOOLEAN
        /\ UNCHANGED faults
    BY <1>9 DEF Restart
  <2>2. TypeOK'
    BY <1>a, <2>1 DEF TypeOK, NoLink, NewConsumer, NotApplied, NotApplying, NotConsuming, Field,
                      Stage
  <2>3. Linked' /\ NothingForgotten'
    BY <2>1 DEF Linked, NothingForgotten, NoLink, NewConsumer
  <2>4. AppliedIsConsumed'
    BY <2>1 DEF AppliedIsConsumed, NewConsumer, NotApplied, NotConsuming, Attempt
  <2>5. SetupIsNeeded'
    BY <2>1 DEF SetupIsNeeded, InSetup, NotApplying
  <2> QED
    BY <2>2, <2>3, <2>4, <2>5 DEF RecoveryInv
<1>10. ASSUME NEW s \in Subscription, NEW a \in Attempt, ConsumerCancelled(s, a)
       PROVE  RecoveryInv'
  BY <1>10, ConsumerCancelledKeeps
<1> QED
  BY <1>1, <1>2, <1>3, <1>4, <1>5, <1>6, <1>7, <1>8, <1>9, <1>10 DEF Next

(* Every reachable state of a replica satisfies every part.                *)
LEMMA RecoveryInvariant == Spec => []RecoveryInv
  BY InitEstablishesRecoveryInv, NextPreservesRecoveryInv, PTL DEF Spec

-----------------------------------------------------------------------------
(* The fields of the connection and of the consumer keep the types         *)
(* declared for them.                                                      *)
THEOREM SubscriptionsTypeCorrect == Spec => []TypeOK
<1>1. RecoveryInv => TypeOK
  BY DEF RecoveryInv
<1> QED
  BY <1>1, RecoveryInvariant, PTL

(* A subscription that receives nothing, and whose consumer the broker has *)
(* not cancelled on the open channel, has a setup in progress or a timer   *)
(* set (scheduleRecovery, clearRecoveryTimer).                             *)
THEOREM NoSubscriptionIsForgotten == Spec => []RecoveryIsPending
<1>1. RecoveryInv => RecoveryIsPending
  <2> SUFFICES ASSUME RecoveryInv, applying.phase = "none", ~consumer.timer,
                      NEW s \in consumer.registered
               PROVE  Consumes(s) \/ IsCancelled(s)
    BY DEF RecoveryIsPending
  <2>1. TypeOK /\ Linked /\ AppliedIsConsumed /\ NothingForgotten
    BY DEF RecoveryInv
  <2>2. s \in Subscription /\ consumer.applied[s] # NULL /\ consumer.applied[s] \in Field
    BY <2>1 DEF NothingForgotten, TypeOK
  <2>3. consumer.applied[s] = link.channel /\ link.channel \in Attempt
    BY <2>1, <2>2 DEF AppliedIsConsumed, Linked, Field
  <2>4. link.channel \in alive
    BY <2>1, <2>3, UndefinedAssumption DEF Linked, Attempt
  <2>5. consuming[s][link.channel] = 1 \/ <<s, link.channel>> \in cancelled
    BY <2>1, <2>2, <2>3 DEF AppliedIsConsumed
  <2> QED
    BY <2>4, <2>5 DEF Consumes, IsCancelled
<1> QED
  BY <1>1, RecoveryInvariant, PTL

(* A queue is consumed at most once per channel (appliedChannel).          *)
THEOREM NoQueueIsConsumedTwice == Spec => []ConsumedOnce
<1>1. RecoveryInv => ConsumedOnce
  <2> SUFFICES ASSUME RecoveryInv, NEW s \in Subscription, NEW a \in Attempt
               PROVE  consuming[s][a] <= 1
    BY DEF ConsumedOnce
  <2>1. consuming[s][a] \in {0, 1}
    BY DEF RecoveryInv, AppliedIsConsumed
  <2> QED
    BY <2>1
<1> QED
  BY <1>1, RecoveryInvariant, PTL
=============================================================================
