-------------------------- MODULE ExecutionsProofs --------------------------
(***************************************************************************)
(* Proofs about executions, for any messages, failures and bounds and any  *)
(* number of deliveries that overlap.  What is proved of the commands      *)
(* assumes that they do not overlap (OneCaller): nothing locks the row, and *)
(* two commands at a time can break each of these properties.              *)
(***************************************************************************)
EXTENDS Executions, SequenceTheorems, TLAPS

-----------------------------------------------------------------------------
(* The table and its rows.                                                 *)

(* The ids of a table are numbers from 1 on.                               *)
LEMMA IdsArePositive ==
  ASSUME NEW R, NEW t \in Seq(R)
  PROVE  /\ DOMAIN t = 1..Len(t) /\ Len(t) \in Nat
         /\ \A i \in DOMAIN t : i \in Nat \ {0} /\ t[i] \in R
<1>1. DOMAIN t = 1..Len(t) /\ Len(t) \in Nat
  BY LenProperties
<1>2. \A i \in 1..Len(t) : i \in Nat \ {0} /\ t[i] \in R
  BY <1>1, ElementOfSeq
<1> QED
  BY <1>1, <1>2

(* An UPDATE of a row leaves the other rows alone.                         *)
LEMMA ChangedTable ==
  ASSUME NEW R, NEW t \in Seq(R), NEW i \in DOMAIN t, NEW r \in R
  PROVE  LET u == [t EXCEPT ![i] = r]
         IN /\ u \in Seq(R) /\ DOMAIN u = DOMAIN t
            /\ u[i] = r /\ \A j \in DOMAIN t : j # i => u[j] = t[j]
<1>1. i \in 1..Len(t)
  BY IdsArePositive
<1> QED
  BY <1>1, ExceptSeq, IdsArePositive

(* An INSERT adds a row under a new id.                                    *)
LEMMA LongerTable ==
  ASSUME NEW R, NEW t \in Seq(R), NEW r \in R
  PROVE  LET u == Append(t, r)
         IN /\ u \in Seq(R) /\ DOMAIN u = DOMAIN t \cup {Len(t) + 1}
            /\ Len(t) + 1 \notin DOMAIN t
            /\ u[Len(t) + 1] = r /\ \A j \in DOMAIN t : u[j] = t[j]
<1>1. DOMAIN t = 1..Len(t) /\ Len(t) \in Nat
  BY IdsArePositive
<1>2. Append(t, r) \in Seq(R) /\ Len(Append(t, r)) = Len(t) + 1
      /\ \A j \in 1..Len(t) + 1 : Append(t, r)[j] = IF j = Len(t) + 1 THEN r ELSE t[j]
  BY AppendProperties
<1>3. DOMAIN Append(t, r) = 1..Len(t) + 1
  BY <1>2, IdsArePositive
<1> QED
  BY <1>1, <1>2, <1>3

(* A new execution is a row.                                               *)
LEMMA QueuedIsRow == \A m \in Message \cup Legacy : Queued(m) \in Row
  BY DEF Queued, Row, Status

(* What save writes is a row.                                              *)
LEMMA SavedIsRow ==
  ASSUME NEW current \in Row, NEW before \in Row, NEW after \in Row
  PROVE  /\ SaveColumns(current, before, after) \in Row
         /\ after.message = before.message =>
              SaveColumns(current, before, after).message = current.message
  BY DEF SaveColumns, Row

(* What save writes of a row that nobody has changed in between is what    *)
(* the command made of it.                                                 *)
LEMMA SavedIsEntity ==
  ASSUME NEW before \in Row, NEW after \in Row
  PROVE  SaveColumns(before, before, after) = after
  BY DEF SaveColumns, Row

(* What the row keeps of a failure; of what it has kept, it keeps all.     *)
LEMMA FailureIsKept ==
  ASSUME NEW f \in Failure
  PROVE  /\ f.code \in FailureCode /\ f.reason \in FailureReason \cup {NULL}
         /\ KeptCode[f.code] \in FailureCode
         /\ KeptCode[KeptCode[f.code]] = KeptCode[f.code]
<1>1. f \in [code : FailureCode, reason : FailureReason \cup {NULL}]
  BY FailureAssumption
<1>2. f.code \in FailureCode /\ f.reason \in FailureReason \cup {NULL}
  BY <1>1
<1> QED
  BY <1>2, KeptCodeAssumption

(* The entity's methods make a row of a row, of the same message.          *)
LEMMA AppliedIsRow ==
  ASSUME NEW cmd \in Command, cmd.verb = "fail" => cmd.failure \in Failure,
         NEW row \in Row, NEW t \in Nat, NEW r \in Apply(cmd, row, t)
  PROVE  r \in Row /\ r.message = row.message
<1>1. \/ cmd.verb = "startDiagnosis" /\ r \in startDiagnosis(row, t)
      \/ cmd.verb = "startRepair" /\ r \in startRepair(row, t)
      \/ cmd.verb = "finish" /\ r \in finish(row, t)
      \/ cmd.verb = "fail" /\ r \in fail(row, cmd.failure, t)
  BY DEF Apply, Command
<1>2. ASSUME cmd.verb = "startDiagnosis", r \in startDiagnosis(row, t)
      PROVE  r \in Row /\ r.message = row.message
  BY <1>2 DEF startDiagnosis, Row, Status
<1>3. ASSUME cmd.verb = "startRepair", r \in startRepair(row, t)
      PROVE  r \in Row /\ r.message = row.message
  BY <1>3 DEF startRepair, Row, Status
<1>4. ASSUME cmd.verb = "finish", r \in finish(row, t)
      PROVE  r \in Row /\ r.message = row.message
  BY <1>4 DEF finish, Row, Status
<1>5. ASSUME cmd.verb = "fail", r \in fail(row, cmd.failure, t)
      PROVE  r \in Row /\ r.message = row.message
  <2>1. KeptCode[cmd.failure.code] \in FailureCode
        /\ cmd.failure.reason \in FailureReason \cup {NULL}
    BY <1>5, FailureIsKept
  <2> QED
    BY <1>5, <2>1 DEF fail, Row, Status
<1> QED
  BY <1>1, <1>2, <1>3, <1>4, <1>5

-----------------------------------------------------------------------------
(* The inductive invariant, however many commands overlap, by parts.       *)

(* The unique keys on saga_id and order_id.                                *)
KeysAreUnique ==
  \A i, j \in Id :
    \/ executions[i].message.saga = executions[j].message.saga
    \/ executions[i].message.order = executions[j].message.order
    => i = j

(* What a delivery has found is still there: rows stay, and keep their     *)
(* message.                                                                *)
ConsumerKnows(k) ==
  /\ phase[k] = "lookup" => message[k] \in Message
  /\ bySaga[k] # NULL => phase[k] = "lookup" /\ bySaga[k].ids \subseteq WithSaga(message[k].saga)
  /\ byOrder[k] # NULL => phase[k] = "lookup" /\ byOrder[k].ids \subseteq WithOrder(message[k].order)

(* What a command has in memory: an entity of the message of its row.      *)
CallerKnows(c) ==
  /\ pc[c] # "idle" => /\ command[c] \in Command /\ command[c].id \in Id
                       /\ command[c].verb = "fail" => command[c].failure \in Failure
  /\ pc[c] \in {"reload", "update"} =>
       entity[c] \in Row /\ entity[c].message = executions[command[c].id].message
  /\ pc[c] = "update" =>
       loaded[c] \in Row /\ loaded[c].message = executions[command[c].id].message
  /\ pc[c] = "publish" => command[c].verb # "startRepair"

EventsHaveRows == \A e \in events : e.id \in Id

TableInv ==
  /\ TypeOK
  /\ KeysAreUnique
  /\ \A k \in Consumer : ConsumerKnows(k)
  /\ \A c \in Caller : CallerKnows(c)
  /\ AcceptedHasExecution
  /\ EventsHaveRows

(* All rows are there that were, each of its message.                      *)
RowsStay ==
  /\ executions' \in Seq(Row)
  /\ Id \subseteq Id'
  /\ \A i \in Id : executions'[i].message = executions[i].message

(* The steps of a delivery, as seen by the table: at most it adds a row,   *)
(* of a saga and an order that have none.                                  *)
TableGrows ==
  \/ UNCHANGED executions
  \/ \E m \in Message :
       KeysAreFree(m) /\ executions' = Append(executions, Queued(m))

(* A table that grows keeps its rows.                                      *)
LEMMA GrowingKeepsRows ==
  ASSUME executions \in Seq(Row), TableGrows
  PROVE  /\ RowsStay
         /\ \A i \in Id : executions'[i] = executions[i]
         /\ \A i \in Id' \ Id : \E m \in Message : KeysAreFree(m) /\ executions'[i] = Queued(m)
         /\ \A i, j \in Id' \ Id : i = j
<1>1. CASE UNCHANGED executions
  BY <1>1 DEF RowsStay, Id
<1>2. ASSUME NEW m \in Message, KeysAreFree(m), executions' = Append(executions, Queued(m))
      PROVE  /\ RowsStay
             /\ \A i \in Id : executions'[i] = executions[i]
             /\ \A i \in Id' \ Id : KeysAreFree(m) /\ executions'[i] = Queued(m)
             /\ \A i, j \in Id' \ Id : i = j
  <2>1. Queued(m) \in Row
    BY QueuedIsRow
  <2> QED
    BY <1>2, <2>1, LongerTable DEF RowsStay, Id
<1> QED
  BY <1>1, <1>2 DEF TableGrows

(* Rows that stay are found by what they were found by.                    *)
LEMMA RowsAreStillFound ==
  ASSUME RowsStay
  PROVE  /\ \A s : WithSaga(s) \subseteq WithSaga(s)'
         /\ \A o : WithOrder(o) \subseteq WithOrder(o)'
  BY DEF RowsStay, WithSaga, WithOrder

-----------------------------------------------------------------------------
(* The steps keep TableInv.                                                *)

DeliveryStep(k) ==
  \/ \E m \in Message : Deliver(k, m)
  \/ FindBySagaId(k) \/ FindByOrderId(k)
  \/ ReturnExisting(k) \/ RejectConflict(k) \/ InsertQueued(k)

CommandStep(c) ==
  \/ \E cmd \in Commands : Load(c, cmd)
  \/ Reload(c) \/ Update(c) \/ Publish(c) \/ Interrupt(c)

(* The invariant holds at first.                                           *)
LEMMA InitEstablishesTableInv == Init => TableInv
<1> SUFFICES ASSUME Init PROVE TableInv
  OBVIOUS
<1>1. executions \in Seq(Row) /\ \A i, j \in Id : i = j
  <2>1. CASE executions = <<>>
    BY <2>1, EmptySeq, IdsArePositive DEF Id
  <2>2. ASSUME NEW m \in Legacy, executions = <<Queued(m)>>
        PROVE  executions \in Seq(Row) /\ \A i, j \in Id : i = j
    BY <2>2, QueuedIsRow DEF Id
  <2> QED
    BY <2>1, <2>2 DEF Init
<1>2. TypeOK
  BY <1>1 DEF Init, TypeOK
<1>3. KeysAreUnique
  BY <1>1 DEF KeysAreUnique
<1>4. (\A k \in Consumer : ConsumerKnows(k)) /\ (\A c \in Caller : CallerKnows(c))
  BY DEF Init, ConsumerKnows, CallerKnows
<1>5. AcceptedHasExecution /\ EventsHaveRows
  BY DEF Init, AcceptedHasExecution, EventsHaveRows
<1> QED
  BY <1>2, <1>3, <1>4, <1>5 DEF TableInv

(* What a step of a delivery does to the table and to what is known of it. *)
LEMMA DeliveryTouches ==
  ASSUME TableInv, NEW k \in Consumer, DeliveryStep(k)
  PROVE  /\ TableGrows /\ UNCHANGED callerVars
         /\ \A m \in accepted' : m \in accepted \/ \E i \in Id' : executions'[i].message = m
<1> USE DEF TableInv, TypeOK
<1>0. executions \in Seq(Row)
  OBVIOUS
<1>1. ASSUME NEW m \in Message, Deliver(k, m)
      PROVE  TableGrows /\ UNCHANGED callerVars /\ accepted' = accepted
  BY <1>1 DEF Deliver, TableGrows
<1>2. ASSUME FindBySagaId(k) \/ FindByOrderId(k) \/ RejectConflict(k)
      PROVE  TableGrows /\ UNCHANGED callerVars /\ accepted' = accepted
  BY <1>2 DEF FindBySagaId, FindByOrderId, RejectConflict, TableGrows
<1>3. ASSUME ReturnExisting(k)
      PROVE  /\ UNCHANGED <<executions, callerVars>> /\ accepted' = accepted \cup {message[k]}
             /\ \E i \in Id : executions[i].message = message[k]
  <2>1. bySaga[k].ids # {} /\ bySaga[k] # NULL /\ bySaga[k].ids \subseteq WithSaga(message[k].saga)
    BY <1>3 DEF ReturnExisting, SameExecution, LookedUp, ConsumerKnows
  <2>2. PICK i \in bySaga[k].ids : TRUE
    BY <2>1
  <2>3. i \in Id /\ executions[i].message = message[k]
    BY <1>3, <2>1, <2>2 DEF ReturnExisting, SameExecution, WithSaga
  <2> QED
    BY <1>3, <2>3 DEF ReturnExisting
<1>4. ASSUME InsertQueued(k)
      PROVE  /\ TableGrows /\ UNCHANGED callerVars
             /\ \/ accepted' = accepted
                \/ /\ accepted' = accepted \cup {message[k]}
                   /\ \E i \in Id' : executions'[i].message = message[k]
  <2>1. message[k] \in Message
    BY <1>4 DEF InsertQueued, LookedUp, ConsumerKnows
  <2>2. CASE UNCHANGED <<executions, accepted>>
    BY <1>4, <2>2 DEF InsertQueued, TableGrows
  <2>3. CASE /\ KeysAreFree(message[k])
             /\ executions' = Append(executions, Queued(message[k]))
             /\ accepted' = accepted \cup {message[k]}
    <3>1. Queued(message[k]) \in Row /\ Queued(message[k]).message = message[k]
      BY <2>1, QueuedIsRow DEF Queued
    <3>2. Len(executions) + 1 \in Id' /\ executions'[Len(executions) + 1].message = message[k]
      BY <1>0, <2>3, <3>1, LongerTable DEF Id
    <3> QED
      BY <1>4, <2>1, <2>3, <3>2 DEF InsertQueued, TableGrows
  <2> QED
    BY <1>4, <2>2, <2>3 DEF InsertQueued
<1> QED
  BY <1>1, <1>2, <1>3, <1>4 DEF DeliveryStep, TableGrows, Id

(* What a step of a delivery does to what deliveries know.                 *)
LEMMA DeliveryKnowsMore ==
  ASSUME TableInv, NEW k \in Consumer, DeliveryStep(k)
  PROVE  /\ deliveries' \in Nat /\ accepted' \subseteq Message
         /\ phase' \in [Consumer -> {"idle", "lookup"}]
         /\ message' \in [Consumer -> Message \cup {NULL}]
         /\ bySaga' \in [Consumer -> Found \cup {NULL}]
         /\ byOrder' \in [Consumer -> Found \cup {NULL}]
         /\ \A j \in Consumer : ConsumerKnows(j)'
<1> USE DEF TableInv, TypeOK
<1>0. RowsStay /\ \A s : WithSaga(s) \subseteq Nat /\ WithOrder(s) \subseteq Nat
  BY DeliveryTouches, GrowingKeepsRows, IdsArePositive DEF WithSaga, WithOrder, Id
<1>1. \A s : WithSaga(s) \subseteq WithSaga(s)' /\ WithOrder(s) \subseteq WithOrder(s)'
  BY <1>0, RowsAreStillFound
<1>2. ASSUME NEW j \in Consumer, j # k PROVE ConsumerKnows(j)'
  <2>1. UNCHANGED <<phase[j], message[j], bySaga[j], byOrder[j]>>
    BY <1>2 DEF DeliveryStep, Deliver, FindBySagaId, FindByOrderId, ReturnExisting,
                RejectConflict, InsertQueued, EndDelivery
  <2> QED
    BY <1>1, <2>1 DEF ConsumerKnows
<1>3. ASSUME NEW m \in Message, Deliver(k, m)
      PROVE  /\ deliveries' \in Nat /\ accepted' \subseteq Message
             /\ phase' \in [Consumer -> {"idle", "lookup"}]
             /\ message' \in [Consumer -> Message \cup {NULL}]
             /\ bySaga' \in [Consumer -> Found \cup {NULL}]
             /\ byOrder' \in [Consumer -> Found \cup {NULL}]
             /\ ConsumerKnows(k)'
  BY <1>3 DEF Deliver, ConsumerKnows
<1>4. ASSUME FindBySagaId(k)
      PROVE  /\ deliveries' \in Nat /\ accepted' \subseteq Message
             /\ phase' \in [Consumer -> {"idle", "lookup"}]
             /\ message' \in [Consumer -> Message \cup {NULL}]
             /\ bySaga' \in [Consumer -> Found \cup {NULL}]
             /\ byOrder' \in [Consumer -> Found \cup {NULL}]
             /\ ConsumerKnows(k)'
  BY <1>0, <1>1, <1>4 DEF FindBySagaId, ConsumerKnows, Found
<1>5. ASSUME FindByOrderId(k)
      PROVE  /\ deliveries' \in Nat /\ accepted' \subseteq Message
             /\ phase' \in [Consumer -> {"idle", "lookup"}]
             /\ message' \in [Consumer -> Message \cup {NULL}]
             /\ bySaga' \in [Consumer -> Found \cup {NULL}]
             /\ byOrder' \in [Consumer -> Found \cup {NULL}]
             /\ ConsumerKnows(k)'
  BY <1>0, <1>1, <1>5 DEF FindByOrderId, ConsumerKnows, Found
<1>6. ASSUME ReturnExisting(k) \/ RejectConflict(k) \/ InsertQueued(k)
      PROVE  /\ deliveries' \in Nat /\ accepted' \subseteq Message
             /\ phase' \in [Consumer -> {"idle", "lookup"}]
             /\ message' \in [Consumer -> Message \cup {NULL}]
             /\ bySaga' \in [Consumer -> Found \cup {NULL}]
             /\ byOrder' \in [Consumer -> Found \cup {NULL}]
             /\ ConsumerKnows(k)'
  <2>1. message[k] \in Message
    BY <1>6 DEF ReturnExisting, RejectConflict, InsertQueued, LookedUp, ConsumerKnows
  <2>2. EndDelivery(k) /\ deliveries' = deliveries
        /\ (accepted' = accepted \/ accepted' = accepted \cup {message[k]})
    BY <1>6 DEF ReturnExisting, RejectConflict, InsertQueued
  <2> QED
    BY <2>1, <2>2 DEF EndDelivery, ConsumerKnows
<1> QED
  BY <1>2, <1>3, <1>4, <1>5, <1>6 DEF DeliveryStep

(* A step of a delivery keeps the invariant.                               *)
LEMMA DeliveryKeepsTableInv ==
  ASSUME TableInv, NEW k \in Consumer, DeliveryStep(k)
  PROVE  TableInv'
<1>1. /\ RowsStay /\ TableGrows /\ UNCHANGED callerVars
      /\ \A i \in Id : executions'[i] = executions[i]
      /\ \A i \in Id' \ Id : \E m \in Message : KeysAreFree(m) /\ executions'[i] = Queued(m)
      /\ \A i, j \in Id' \ Id : i = j
  BY DeliveryTouches, GrowingKeepsRows DEF TableInv, TypeOK
<1>2. TypeOK'
  BY <1>1, DeliveryKnowsMore DEF TableInv, TypeOK, callerVars, RowsStay
<1>3. KeysAreUnique'
  <2> SUFFICES ASSUME NEW i \in Id', NEW j \in Id',
                      \/ executions'[i].message.saga = executions'[j].message.saga
                      \/ executions'[i].message.order = executions'[j].message.order
               PROVE  i = j
    BY DEF KeysAreUnique
  <2>1. CASE i \in Id /\ j \in Id
    BY <1>1, <2>1 DEF TableInv, KeysAreUnique
  <2>2. CASE i \notin Id /\ j \notin Id
    BY <1>1, <2>2
  <2>3. ASSUME NEW n \in Id' \ Id, NEW o \in Id
        PROVE  /\ executions'[n].message.saga # executions'[o].message.saga
               /\ executions'[n].message.order # executions'[o].message.order
    <3>1. PICK m \in Message : KeysAreFree(m) /\ executions'[n] = Queued(m)
      BY <1>1
    <3>2. executions'[n].message = m
      BY <3>1 DEF Queued
    <3> QED
      BY <1>1, <3>1, <3>2 DEF KeysAreFree, WithSaga, WithOrder
  <2> QED
    BY <2>1, <2>2, <2>3
<1>4. \A j \in Consumer : ConsumerKnows(j)'
  BY DeliveryKnowsMore
<1>5. \A c \in Caller : CallerKnows(c)'
  BY <1>1 DEF TableInv, CallerKnows, callerVars, RowsStay
<1>6. AcceptedHasExecution'
  <2> SUFFICES ASSUME NEW m \in accepted'
               PROVE  \E i \in Id' : /\ WithSaga(m.saga)' = {i} /\ WithOrder(m.order)' = {i}
                                     /\ executions'[i].message = m
    BY DEF AcceptedHasExecution
  <2>1. PICK i \in Id' : executions'[i].message = m
    BY <1>1, DeliveryTouches DEF TableInv, AcceptedHasExecution, RowsStay
  <2>2. WithSaga(m.saga)' = {i} /\ WithOrder(m.order)' = {i}
    BY <1>3, <2>1 DEF KeysAreUnique, WithSaga, WithOrder
  <2> QED
    BY <2>1, <2>2
<1>7. EventsHaveRows'
  BY <1>1 DEF TableInv, EventsHaveRows, RowsStay, callerVars
<1> QED
  BY <1>2, <1>3, <1>4, <1>5, <1>6, <1>7 DEF TableInv

(* A table with the same ids and messages is as good as before.            *)
LEMMA SameMessagesKeepTableInv ==
  ASSUME TableInv, UNCHANGED consumerVars,
         executions' \in Seq(Row), Id' = Id,
         \A i \in Id : executions'[i].message = executions[i].message
  PROVE  /\ KeysAreUnique' /\ AcceptedHasExecution'
         /\ \A k \in Consumer : ConsumerKnows(k)'
<1>1. \A s : WithSaga(s)' = WithSaga(s) /\ WithOrder(s)' = WithOrder(s)
  BY DEF WithSaga, WithOrder
<1>2. KeysAreUnique'
  BY DEF TableInv, KeysAreUnique
<1>3. AcceptedHasExecution'
  BY <1>1 DEF TableInv, AcceptedHasExecution, consumerVars
<1>4. \A k \in Consumer : ConsumerKnows(k)'
  BY <1>1 DEF TableInv, ConsumerKnows, consumerVars
<1> QED
  BY <1>2, <1>3, <1>4

(* The commands that operators ask are commands, of rows.                  *)
LEMMA AskedCommands ==
  ASSUME executions \in Seq(Row), NEW cmd \in Commands
  PROVE  /\ cmd \in Command /\ cmd.id \in Id
         /\ cmd.verb = "fail" => cmd.failure \in Failure
<1>1. \A i \in Id : i \in Nat \ {0}
  BY IdsArePositive DEF Id
<1> QED
  BY <1>1 DEF Commands, Command

(* What a step of a command does to the rows.                              *)
LEMMA CommandTouches ==
  ASSUME TableInv, NEW c \in Caller, CommandStep(c)
  PROVE  /\ UNCHANGED consumerVars
         /\ executions' \in Seq(Row) /\ Id' = Id
         /\ \A i \in Id : executions'[i].message = executions[i].message
<1>0. executions \in Seq(Row) /\ \A i \in Id : executions[i] \in Row
  BY IdsArePositive DEF TableInv, TypeOK, Id
<1>1. ASSUME UNCHANGED executions
      PROVE  /\ executions' \in Seq(Row) /\ Id' = Id
             /\ \A i \in Id : executions'[i].message = executions[i].message
  BY <1>0, <1>1 DEF Id
<1>2. ASSUME Update(c)
      PROVE  /\ executions' \in Seq(Row) /\ Id' = Id
             /\ \A i \in Id : executions'[i].message = executions[i].message
  <2> DEFINE i == command[c].id
             row == SaveColumns(executions[i], loaded[c], entity[c])
  <2>1. /\ i \in Id /\ entity[c] \in Row /\ loaded[c] \in Row
        /\ entity[c].message = loaded[c].message
    BY <1>2 DEF Update, TableInv, CallerKnows
  <2>2. row \in Row /\ row.message = executions[i].message
    BY <1>0, <2>1, SavedIsRow
  <2>3. executions' = [executions EXCEPT ![i] = row]
    BY <1>2 DEF Update
  <2> HIDE DEF i, row
  <2>4. /\ executions' \in Seq(Row) /\ Id' = Id
        /\ executions'[i] = row /\ \A j \in Id : j # i => executions'[j] = executions[j]
    BY <1>0, <2>1, <2>2, <2>3, ChangedTable DEF Id
  <2> QED
    BY <2>2, <2>4
<1>3. UNCHANGED consumerVars /\ (UNCHANGED executions \/ Update(c))
  BY DEF CommandStep, Load, Reload, Update, Publish, Interrupt
<1> QED
  BY <1>1, <1>2, <1>3

(* The event that a command publishes is an event, of its row.             *)
LEMMA PublishedIsEvent ==
  ASSUME executions \in Seq(Row), NEW cmd \in Command, cmd.id \in Id,
         cmd.verb = "fail" => cmd.failure \in Failure,
         cmd.verb # "startRepair", HasContext(cmd)
  PROVE  EventOf(cmd) \in Event /\ EventOf(cmd).id = cmd.id
<1>1. executions[cmd.id] \in Row
  BY IdsArePositive DEF Id
<1>2. CASE cmd.verb = "startDiagnosis"
  BY <1>1, <1>2 DEF EventOf, HasContext, Event, Command, Row
<1>3. CASE cmd.verb = "finish"
  BY <1>1, <1>3 DEF EventOf, HasContext, Event, Command, Row
<1>4. CASE cmd.verb = "fail"
  <2>1. cmd.failure.code \in FailureCode
    BY <1>4, FailureIsKept
  <2> QED
    BY <1>1, <1>4, <2>1 DEF EventOf, HasContext, Event, Command, Row
<1> QED
  BY <1>2, <1>3, <1>4 DEF Command

(* What is missed is a stage of a row.                                     *)
LEMMA UnsentIsMissed ==
  ASSUME NEW c \in Caller, command[c] \in Command, command[c].verb # "startRepair"
  PROVE  Unsent(c) \in [id : Nat \ {0}, stage : Status]
  BY DEF Unsent, Stage, Status, Command

(* What the types say of the fields of a command.                          *)
CallerTypes ==
  /\ now \in Nat
  /\ pc \in [Caller -> {"idle", "reload", "update", "publish"}]
  /\ command \in [Caller -> Command \cup {NULL}]
  /\ entity \in [Caller -> Row \cup {NULL}]
  /\ loaded \in [Caller -> Row \cup {NULL}]
  /\ events \subseteq Event
  /\ missed \subseteq [id : Nat \ {0}, stage : Status]

(* What a step of a command does to what commands have in memory.          *)
LEMMA CommandKnowsMore ==
  ASSUME TableInv, NEW c \in Caller, CommandStep(c)
  PROVE  CallerTypes' /\ EventsHaveRows' /\ CallerKnows(c)'
         /\ \A d \in Caller \ {c} : UNCHANGED <<pc[d], command[d], entity[d], loaded[d]>>
<1> USE DEF TableInv, TypeOK
<1>0. /\ executions \in Seq(Row) /\ Id' = Id /\ \A i \in Id : executions[i] \in Row
      /\ \A i \in Id : executions'[i].message = executions[i].message
  BY CommandTouches, IdsArePositive DEF Id
<1>1. ASSUME NEW cmd \in Commands, Load(c, cmd)
      PROVE  CallerTypes' /\ EventsHaveRows' /\ CallerKnows(c)'
             /\ \A d \in Caller \ {c} : UNCHANGED <<pc[d], command[d], entity[d], loaded[d]>>
  <2>1. /\ cmd \in Command /\ cmd.id \in Id
        /\ cmd.verb = "fail" => cmd.failure \in Failure
    BY <1>0, AskedCommands
  <2>2. /\ now' \in Nat /\ command' = [command EXCEPT ![c] = cmd]
        /\ UNCHANGED <<executions, loaded, events, missed>>
    BY <1>1 DEF Load
  <2>3. CASE AlreadyDone(cmd, executions[cmd.id]) /\ Goto(c, "publish") /\ UNCHANGED entity
    <3>1. cmd.verb # "startRepair"
      BY <2>3 DEF AlreadyDone
    <3> QED
      BY <1>0, <2>1, <2>2, <2>3, <3>1 DEF Goto, CallerTypes, EventsHaveRows, CallerKnows
  <2>4. ASSUME NEW row \in Apply(cmd, executions[cmd.id], now'),
               entity' = [entity EXCEPT ![c] = row], Goto(c, "reload")
        PROVE  CallerTypes' /\ EventsHaveRows' /\ CallerKnows(c)'
               /\ \A d \in Caller \ {c} : UNCHANGED <<pc[d], command[d], entity[d], loaded[d]>>
    <3>1. row \in Row /\ row.message = executions[cmd.id].message
      BY <1>0, <2>1, <2>2, AppliedIsRow
    <3> QED
      BY <1>0, <2>1, <2>2, <2>4, <3>1 DEF Goto, CallerTypes, EventsHaveRows, CallerKnows
  <2> QED
    BY <1>1, <2>3, <2>4 DEF Load
<1>2. ASSUME Reload(c)
      PROVE  CallerTypes' /\ EventsHaveRows' /\ CallerKnows(c)'
             /\ \A d \in Caller \ {c} : UNCHANGED <<pc[d], command[d], entity[d], loaded[d]>>
  BY <1>0, <1>2 DEF Reload, Goto, CallerTypes, EventsHaveRows, CallerKnows
<1>3. ASSUME EndCommand(c), UNCHANGED now, Id' = Id,
             events' \subseteq Event, \A e \in events' : e.id \in Id,
             missed' \subseteq [id : Nat \ {0}, stage : Status]
      PROVE  CallerTypes' /\ EventsHaveRows' /\ CallerKnows(c)'
             /\ \A d \in Caller \ {c} : UNCHANGED <<pc[d], command[d], entity[d], loaded[d]>>
  BY <1>3 DEF EndCommand, Goto, CallerTypes, EventsHaveRows, CallerKnows
<1>4. ASSUME Update(c)
      PROVE  CallerTypes' /\ EventsHaveRows' /\ CallerKnows(c)'
             /\ \A d \in Caller \ {c} : UNCHANGED <<pc[d], command[d], entity[d], loaded[d]>>
  <2>1. CASE command[c].verb = "startRepair"
    BY <1>0, <1>3, <1>4, <2>1 DEF Update, EventsHaveRows
  <2>2. CASE command[c].verb # "startRepair"
    BY <1>0, <1>4, <2>2 DEF Update, Goto, CallerTypes, EventsHaveRows, CallerKnows
  <2> QED
    BY <2>1, <2>2
<1>5. ASSUME Publish(c)
      PROVE  CallerTypes' /\ EventsHaveRows' /\ CallerKnows(c)'
             /\ \A d \in Caller \ {c} : UNCHANGED <<pc[d], command[d], entity[d], loaded[d]>>
  <2>1. EventOf(command[c]) \in Event /\ EventOf(command[c]).id \in Id
    BY <1>0, <1>5, PublishedIsEvent DEF Publish, CallerKnows
  <2> QED
    BY <1>0, <1>3, <1>5, <2>1 DEF Publish, EventsHaveRows
<1>6. ASSUME Interrupt(c)
      PROVE  CallerTypes' /\ EventsHaveRows' /\ CallerKnows(c)'
             /\ \A d \in Caller \ {c} : UNCHANGED <<pc[d], command[d], entity[d], loaded[d]>>
  <2>1. pc[c] = "publish" => Unsent(c) \in [id : Nat \ {0}, stage : Status]
    BY UnsentIsMissed DEF CallerKnows
  <2>2. missed' \subseteq [id : Nat \ {0}, stage : Status]
    BY <1>6, <2>1 DEF Interrupt
  <2> QED
    BY <1>0, <1>3, <1>6, <2>2 DEF Interrupt, EventsHaveRows
<1> QED
  BY <1>1, <1>2, <1>4, <1>5, <1>6 DEF CommandStep

(* A step of a command keeps the invariant.                                *)
LEMMA CommandKeepsTableInv ==
  ASSUME TableInv, NEW c \in Caller, CommandStep(c)
  PROVE  TableInv'
<1>1. /\ UNCHANGED consumerVars /\ executions' \in Seq(Row) /\ Id' = Id
      /\ \A i \in Id : executions'[i].message = executions[i].message
  BY CommandTouches
<1>2. /\ CallerTypes' /\ EventsHaveRows' /\ CallerKnows(c)'
      /\ \A d \in Caller \ {c} : UNCHANGED <<pc[d], command[d], entity[d], loaded[d]>>
  BY CommandKnowsMore
<1>3. TypeOK'
  BY <1>1, <1>2 DEF TableInv, TypeOK, CallerTypes, consumerVars
<1>4. \A d \in Caller : CallerKnows(d)'
  BY <1>1, <1>2 DEF TableInv, CallerKnows
<1> QED
  BY <1>1, <1>2, <1>3, <1>4, SameMessagesKeepTableInv DEF TableInv

(* Every step keeps the invariant.                                         *)
LEMMA NextKeepsTableInv == TableInv /\ [Next]_vars => TableInv'
<1> SUFFICES ASSUME TableInv, [Next]_vars PROVE TableInv'
  OBVIOUS
<1>1. CASE UNCHANGED vars
  <2>1. UNCHANGED <<executions, deliveries, phase, message, bySaga, byOrder, accepted, now, pc,
                    command, entity, loaded, events, missed>>
    BY <1>1 DEF vars, consumerVars, callerVars
  <2> QED
    BY <2>1 DEF TableInv, TypeOK, KeysAreUnique, ConsumerKnows, CallerKnows,
                AcceptedHasExecution, EventsHaveRows, Id, WithSaga, WithOrder
<1>2. ASSUME NEW k \in Consumer, DeliveryStep(k) PROVE TableInv'
  BY <1>2, DeliveryKeepsTableInv
<1>3. ASSUME NEW c \in Caller, CommandStep(c) PROVE TableInv'
  BY <1>3, CommandKeepsTableInv
<1> QED
  BY <1>1, <1>2, <1>3 DEF Next, DeliveryStep, CommandStep

(* The invariant, whatever overlaps.                                       *)
THEOREM TableInvariant == Spec => []TableInv
  BY InitEstablishesTableInv, NextKeepsTableInv, PTL DEF Spec

(* The types, however deliveries and commands overlap: what save writes    *)
(* over another's row is a row still.                                      *)
THEOREM ExecutionsTypeCorrect == Spec => []TypeOK
<1>1. TableInv => TypeOK
  BY DEF TableInv
<1> QED
  BY <1>1, TableInvariant, PTL

(* An acknowledged message has its one execution (createQueuedExecution),  *)
(* however deliveries and commands overlap.                                *)
THEOREM AcceptedMessagesHaveExecutions == Spec => []AcceptedHasExecution
<1>1. TableInv => AcceptedHasExecution
  BY DEF TableInv
<1> QED
  BY <1>1, TableInvariant, PTL

-----------------------------------------------------------------------------
(* The inductive invariant when commands do not overlap, by parts.         *)

(* There is at most one caller: a command ends before the next one starts. *)
OneCaller == \A c, d \in Caller : c = d

(* What a row has not reached yet is empty, and a failure code is one that *)
(* the row can keep.                                                       *)
WellFormed(row) ==
  /\ row.status = "QUEUED" => row.diagnosisStartedAt = NULL
  /\ row.status \in {"QUEUED", "IN_DIAGNOSIS"} => row.repairStartedAt = NULL
  /\ row.status # "FINISHED" => row.finishedAt = NULL
  /\ row.status # "FAILED" =>
       row.failedAt = NULL /\ row.failureCode = NULL /\ row.failureReason = NULL
  /\ row.status = "FAILED" =>
       row.failureCode \in FailureCode /\ KeptCode[row.failureCode] = row.failureCode

(* The row is where the command takes it.                                  *)
AtGoal(cmd, row) ==
  \/ cmd.verb = "startDiagnosis" /\ row.status = "IN_DIAGNOSIS"
  \/ cmd.verb = "finish" /\ row.status = "FINISHED"
  \/ cmd.verb = "fail" /\ FailedWith(row, KeptCode[cmd.failure.code], cmd.failure.reason)

(* The row is still the one that the command has loaded, and is where the  *)
(* command took it when that is to be published.                           *)
WorksOnItsRow(c) ==
  LET row == executions[command[c].id]
  IN /\ pc[c] \in {"reload", "update"} => \E t \in Nat : entity[c] \in Apply(command[c], row, t)
     /\ pc[c] = "update" => loaded[c] = row
     /\ pc[c] = "publish" => AtGoal(command[c], row)

(* Only a failure is told with a code.                                     *)
PlainEvents == \A e \in events : e.name # "execution.failed" => e.failureCode = NULL

(* What EventsAreComplete says, with the commands that are about to        *)
(* publish.                                                                *)
IsAnnounced(i, s) ==
  \/ \E e \in events : e.id = i /\ e.name = EventName[s]
  \/ /\ [id |-> i, stage |-> s] \in missed
     /\ executions[i].status = s \/ s = "IN_DIAGNOSIS"
  \/ \E c \in Caller : pc[c] = "publish" /\ Unsent(c) = [id |-> i, stage |-> s]

StagesAreAnnounced ==
  \A i \in Id, s \in DOMAIN EventName : executions[i][Column[s]] # NULL => IsAnnounced(i, s)

SoleInv ==
  /\ \A i \in Id : WellFormed(executions[i])
  /\ \A c \in Caller : WorksOnItsRow(c)
  /\ EventsAgreeWithRow
  /\ PlainEvents
  /\ StagesAreAnnounced

(* A row that fails says with what; otherwise it says what it said.        *)
SaysWhy(row, r, s) ==
  IF s = "FAILED"
    THEN FailureOf(r) \in [code : FailureCode, reason : FailureReason \cup {NULL}]
    ELSE r.failureCode = row.failureCode /\ r.failureReason = row.failureReason

(* A row enters a stage at an instant.                                     *)
Enters(row, r, s, t) ==
  /\ <<row.status, s>> \in Lifecycle!Onward
  /\ row[Column[s]] = NULL
  /\ r.status = s /\ r[Column[s]] = t
  /\ \A x \in DOMAIN Column : x # s => r[Column[x]] = row[Column[x]]
  /\ SaysWhy(row, r, s)

(* The stage that a command leads to.                                      *)
Goal(cmd) == IF cmd.verb = "startRepair" THEN "IN_REPAIR" ELSE Stage(cmd)

(* The columns and events of the stages.                                   *)
LEMMA StageNames ==
  /\ DOMAIN Column = {"IN_DIAGNOSIS", "IN_REPAIR", "FINISHED", "FAILED"}
  /\ Column["IN_DIAGNOSIS"] = "diagnosisStartedAt" /\ Column["IN_REPAIR"] = "repairStartedAt"
  /\ Column["FINISHED"] = "finishedAt" /\ Column["FAILED"] = "failedAt"
  /\ DOMAIN EventName = {"IN_DIAGNOSIS", "FINISHED", "FAILED"}
  /\ EventName["IN_DIAGNOSIS"] = "execution.started"
  /\ EventName["FINISHED"] = "execution.finished" /\ EventName["FAILED"] = "execution.failed"
  BY DEF Column, EventName

(* What it takes to enter a stage, spelled out for each.                   *)
LEMMA EntersStage ==
  ASSUME NEW row, NEW r, NEW t, NEW s \in DOMAIN Column,
         r.status = s,
         \/ row.status = "QUEUED" /\ s \in {"IN_DIAGNOSIS", "FAILED"}
         \/ row.status = "IN_DIAGNOSIS" /\ s \in {"IN_REPAIR", "FINISHED", "FAILED"}
         \/ row.status = "IN_REPAIR" /\ s \in {"FINISHED", "FAILED"},
         row[Column[s]] = NULL, r[Column[s]] = t,
         s # "IN_DIAGNOSIS" => r.diagnosisStartedAt = row.diagnosisStartedAt,
         s # "IN_REPAIR" => r.repairStartedAt = row.repairStartedAt,
         s # "FINISHED" => r.finishedAt = row.finishedAt,
         s # "FAILED" => r.failedAt = row.failedAt,
         SaysWhy(row, r, s)
  PROVE  Enters(row, r, s, t)
<1>1. <<row.status, s>> \in Lifecycle!Onward
  BY DEF Lifecycle!Onward
<1>2. \A x \in DOMAIN Column : x # s => r[Column[x]] = row[Column[x]]
  BY StageNames
<1> QED
  BY <1>1, <1>2 DEF Enters

(* A row that needs no change is where the command takes it.               *)
LEMMA DoneIsAtGoal ==
  ASSUME NEW cmd, NEW row, WellFormed(row), AlreadyDone(cmd, row)
  PROVE  AtGoal(cmd, row)
  BY DEF WellFormed, AlreadyDone, AtGoal, FailedWith

(* A method leaves the row as it is or enters its stage.                   *)
LEMMA AppliedEnters ==
  ASSUME NEW cmd \in Command, cmd.verb = "fail" => cmd.failure \in Failure,
         NEW row \in Row, WellFormed(row), NEW t \in Nat, NEW r \in Apply(cmd, row, t)
  PROVE  /\ WellFormed(r)
         /\ cmd.verb # "startRepair" => AtGoal(cmd, r)
         /\ r = row \/ Enters(row, r, Goal(cmd), t)
<1>0. NULL \notin Nat /\ NULL \notin Failure
  BY NullAssumption
<1>1. \/ cmd.verb = "startDiagnosis" /\ r \in startDiagnosis(row, t)
      \/ cmd.verb = "startRepair" /\ r \in startRepair(row, t)
      \/ cmd.verb = "finish" /\ r \in finish(row, t)
      \/ cmd.verb = "fail" /\ r \in fail(row, cmd.failure, t)
  BY DEF Apply, Command
<1>2. WellFormed(r) /\ (cmd.verb # "startRepair" => AtGoal(cmd, r))
  <2> USE DEF WellFormed, AtGoal
  <2>1. CASE cmd.verb = "startDiagnosis" /\ r \in startDiagnosis(row, t)
    BY <1>0, <2>1 DEF startDiagnosis, Row
  <2>2. CASE cmd.verb = "startRepair" /\ r \in startRepair(row, t)
    BY <1>0, <2>2 DEF startRepair, Row
  <2>3. CASE cmd.verb = "finish" /\ r \in finish(row, t)
    BY <1>0, <2>3 DEF finish, Row
  <2>4. CASE cmd.verb = "fail" /\ r \in fail(row, cmd.failure, t)
    <3>1. KeptCode[cmd.failure.code] \in FailureCode
          /\ KeptCode[KeptCode[cmd.failure.code]] = KeptCode[cmd.failure.code]
      BY <2>4, FailureIsKept
    <3>2. CASE r = row /\ FailedWith(row, KeptCode[cmd.failure.code], cmd.failure.reason)
      BY <2>4, <3>2
    <3>3. CASE r = [row EXCEPT !.status = "FAILED", !.failedAt = t,
                               !.failureCode = KeptCode[cmd.failure.code],
                               !.failureReason = cmd.failure.reason]
               /\ ~isTerminal(row)
      <4>1. /\ r.status = "FAILED" /\ r.failureCode = KeptCode[cmd.failure.code]
            /\ r.failureReason = cmd.failure.reason
            /\ r.finishedAt = row.finishedAt /\ row.status # "FINISHED"
        BY <3>3 DEF Row, isTerminal
      <4> QED
        BY <2>4, <3>1, <4>1 DEF FailedWith
    <3> QED
      BY <2>4, <3>2, <3>3 DEF fail
  <2> QED
    BY <1>1, <2>1, <2>2, <2>3, <2>4
<1>3. r = row \/ Enters(row, r, Goal(cmd), t)
  <2> USE StageNames
  <2>1. CASE cmd.verb = "startDiagnosis" /\ r \in startDiagnosis(row, t)
    <3>1. Goal(cmd) = "IN_DIAGNOSIS"
      BY <2>1 DEF Goal, Stage
    <3>2. ASSUME r # row PROVE Enters(row, r, "IN_DIAGNOSIS", t)
      <4>1. row.status = "QUEUED"
            /\ r = [row EXCEPT !.status = "IN_DIAGNOSIS", !.diagnosisStartedAt = t]
        BY <2>1, <3>2 DEF startDiagnosis
      <4> QED
        BY <4>1, EntersStage DEF WellFormed, Row, SaysWhy
    <3> QED
      BY <3>1, <3>2
  <2>2. CASE cmd.verb = "startRepair" /\ r \in startRepair(row, t)
    <3>1. Goal(cmd) = "IN_REPAIR"
      BY <2>2 DEF Goal
    <3>2. ASSUME r # row PROVE Enters(row, r, "IN_REPAIR", t)
      <4>1. row.status = "IN_DIAGNOSIS"
            /\ r = [row EXCEPT !.status = "IN_REPAIR", !.repairStartedAt = t]
        BY <2>2, <3>2 DEF startRepair
      <4> QED
        BY <4>1, EntersStage DEF WellFormed, Row, SaysWhy
    <3> QED
      BY <3>1, <3>2
  <2>3. CASE cmd.verb = "finish" /\ r \in finish(row, t)
    <3>1. Goal(cmd) = "FINISHED"
      BY <2>3 DEF Goal, Stage
    <3>2. ASSUME r # row PROVE Enters(row, r, "FINISHED", t)
      <4>1. row.status \in {"IN_DIAGNOSIS", "IN_REPAIR"}
            /\ r = [row EXCEPT !.status = "FINISHED", !.finishedAt = t,
                               !.failureCode = NULL, !.failureReason = NULL]
        BY <2>3, <3>2 DEF finish
      <4> QED
        BY <4>1, EntersStage DEF WellFormed, Row, SaysWhy
    <3> QED
      BY <3>1, <3>2
  <2>4. CASE cmd.verb = "fail" /\ r \in fail(row, cmd.failure, t)
    <3>1. Goal(cmd) = "FAILED"
      BY <2>4 DEF Goal, Stage
    <3>2. ASSUME r # row PROVE Enters(row, r, "FAILED", t)
      <4>1. row.status \in {"QUEUED", "IN_DIAGNOSIS", "IN_REPAIR"}
            /\ r = [row EXCEPT !.status = "FAILED", !.failedAt = t,
                               !.failureCode = KeptCode[cmd.failure.code],
                               !.failureReason = cmd.failure.reason]
        BY <2>4, <3>2 DEF fail, isTerminal, Row, Status
      <4>2. /\ KeptCode[cmd.failure.code] \in FailureCode
            /\ cmd.failure.reason \in FailureReason \cup {NULL}
        BY <2>4, FailureIsKept
      <4>3. SaysWhy(row, r, "FAILED")
        <5>1. /\ r.failureCode = KeptCode[cmd.failure.code]
              /\ r.failureReason = cmd.failure.reason
          BY <4>1 DEF Row
        <5>2. r.failureCode # NULL
          BY <4>2, <5>1, NullAssumption
        <5>3. FailureOf(r) = [code |-> r.failureCode, reason |-> r.failureReason]
          BY <5>2 DEF FailureOf
        <5> QED
          BY <4>2, <5>1, <5>3 DEF SaysWhy
      <4>4. /\ r.status = "FAILED" /\ r.failedAt = t /\ row.failedAt = NULL
            /\ r.diagnosisStartedAt = row.diagnosisStartedAt
            /\ r.repairStartedAt = row.repairStartedAt /\ r.finishedAt = row.finishedAt
        BY <4>1 DEF WellFormed, Row
      <4> QED
        BY <4>1, <4>3, <4>4, EntersStage
    <3> QED
      BY <3>1, <3>2
  <2> QED
    BY <1>1, <2>1, <2>2, <2>3, <2>4
<1> QED
  BY <1>2, <1>3

-----------------------------------------------------------------------------
(* The steps keep SoleInv, when commands do not overlap.                   *)

(* A row stays as it is or enters a stage.                                 *)
RowsMove ==
  /\ Id \subseteq Id'
  /\ \A i \in Id : \/ executions'[i] = executions[i]
                  \/ \E s \in DOMAIN Column, t \in Nat : Enters(executions[i], executions'[i], s, t)

(* An update saves the entity as it is.                                    *)
LEMMA UpdateSavesEntity ==
  ASSUME TableInv, SoleInv, NEW c \in Caller, Update(c)
  PROVE  LET i == command[c].id
         IN /\ i \in Id /\ command[c] \in Command /\ entity[c] \in Row
            /\ executions[i] \in Row /\ WellFormed(executions[i]) /\ WellFormed(entity[c])
            /\ Id' = Id /\ executions'[i] = entity[c]
            /\ \A j \in Id : j # i => executions'[j] = executions[j]
            /\ command[c].verb # "startRepair" => AtGoal(command[c], entity[c])
            /\ \/ entity[c] = executions[i]
               \/ \E t \in Nat : Enters(executions[i], entity[c], Goal(command[c]), t)
<1> DEFINE i == command[c].id
<1>1. /\ pc[c] = "update" /\ i \in Id /\ command[c] \in Command /\ entity[c] \in Row
      /\ command[c].verb = "fail" => command[c].failure \in Failure
  BY DEF Update, TableInv, CallerKnows
<1>2. executions \in Seq(Row) /\ executions[i] \in Row /\ WellFormed(executions[i])
  BY <1>1, IdsArePositive DEF TableInv, TypeOK, SoleInv, Id
<1>3. PICK t \in Nat : entity[c] \in Apply(command[c], executions[i], t)
  BY <1>1 DEF SoleInv, WorksOnItsRow
<1>4. /\ WellFormed(entity[c])
      /\ command[c].verb # "startRepair" => AtGoal(command[c], entity[c])
      /\ entity[c] = executions[i] \/ Enters(executions[i], entity[c], Goal(command[c]), t)
  BY <1>1, <1>2, <1>3, AppliedEnters
<1>5. loaded[c] = executions[i]
  BY <1>1 DEF SoleInv, WorksOnItsRow
<1>6. executions' = [executions EXCEPT ![i] = SaveColumns(executions[i], loaded[c], entity[c])]
  BY DEF Update
<1>7. SaveColumns(executions[i], loaded[c], entity[c]) = entity[c]
  BY <1>1, <1>2, <1>5, SavedIsEntity
<1>8. executions' = [executions EXCEPT ![i] = entity[c]]
  BY <1>6, <1>7
<1>9. /\ DOMAIN executions' = DOMAIN executions /\ executions'[i] = entity[c]
      /\ \A j \in DOMAIN executions : j # i => executions'[j] = executions[j]
  BY <1>1, <1>2, <1>8, ChangedTable DEF Id
<1> QED
  BY <1>1, <1>2, <1>4, <1>9 DEF Id

(* The stage that a command leads to is one.                               *)
LEMMA GoalIsStage == \A cmd \in Command : Goal(cmd) \in DOMAIN Column
  BY StageNames DEF Goal, Stage, Command

(* Every step moves the rows so, when commands do not overlap.             *)
LEMMA StepsMoveRows ==
  ASSUME TableInv, SoleInv
  PROVE  /\ \A k \in Consumer : DeliveryStep(k) => RowsMove
         /\ \A c \in Caller : CommandStep(c) => RowsMove
<1>1. ASSUME NEW k \in Consumer, DeliveryStep(k) PROVE RowsMove
  BY <1>1, DeliveryTouches, GrowingKeepsRows DEF RowsMove, RowsStay, TableInv, TypeOK
<1>2. ASSUME NEW c \in Caller, Update(c) PROVE RowsMove
  BY <1>2, UpdateSavesEntity, GoalIsStage DEF RowsMove
<1>3. ASSUME NEW c \in Caller, CommandStep(c), ~Update(c) PROVE RowsMove
  BY <1>3 DEF CommandStep, Load, Reload, Publish, Interrupt, RowsMove, Id
<1> QED
  BY <1>1, <1>2, <1>3

(* Rows that move stay true to the events.                                 *)
LEMMA MovingKeepsEvents ==
  ASSUME TableInv, EventsAgreeWithRow, RowsMove, UNCHANGED events
  PROVE  EventsAgreeWithRow'
<1> SUFFICES ASSUME NEW e \in events
             PROVE  AgreesWithRow(e)'
  BY DEF EventsAgreeWithRow
<1>1. e.id \in Id /\ e \in Event /\ e.at \in Nat
  BY DEF TableInv, TypeOK, EventsHaveRows, Event
<1>2. CASE executions'[e.id] = executions[e.id]
  BY <1>2 DEF EventsAgreeWithRow, AgreesWithRow
<1>3. ASSUME NEW s \in DOMAIN Column, NEW t \in Nat, Enters(executions[e.id], executions'[e.id], s, t)
      PROVE  e.name = "execution.started" /\ executions'[e.id].diagnosisStartedAt = e.at
  <2>1. executions[e.id].status \notin {"FINISHED", "FAILED"}
    BY <1>3 DEF Enters, Lifecycle!Onward
  <2>2. e.name = "execution.started" /\ executions[e.id].diagnosisStartedAt = e.at
    BY <1>1, <2>1 DEF EventsAgreeWithRow, AgreesWithRow, Event
  <2>3. s # "IN_DIAGNOSIS"
    BY <1>1, <1>3, <2>2, StageNames, NullAssumption DEF Enters
  <2>4. executions'[e.id].diagnosisStartedAt = executions[e.id].diagnosisStartedAt
    BY <1>3, <2>3, StageNames DEF Enters
  <2> QED
    BY <2>2, <2>4
<1> QED
  BY <1>1, <1>2, <1>3 DEF RowsMove, AgreesWithRow

(* A stage that a row enters is empty before; so what is announced stays so. *)
LEMMA MovingKeepsAnnouncements ==
  ASSUME TableInv, RowsMove, NEW i \in Id, NEW s \in DOMAIN EventName,
         executions[i].status = s \/ s = "IN_DIAGNOSIS"
  PROVE  executions'[i].status = s \/ s = "IN_DIAGNOSIS"
<1>1. CASE executions'[i] = executions[i]
  BY <1>1
<1>2. ASSUME NEW x \in DOMAIN Column, NEW t \in Nat, Enters(executions[i], executions'[i], x, t)
      PROVE  s = "IN_DIAGNOSIS"
  BY <1>2, StageNames DEF Enters, Lifecycle!Onward
<1> QED
  BY <1>1, <1>2 DEF RowsMove

(* The event of a command that is at its goal agrees with the row.         *)
LEMMA PublishedAgrees ==
  ASSUME NEW cmd \in Command, AtGoal(cmd, executions[cmd.id]),
         NEW e, e = EventOf(cmd)
  PROVE  /\ AgreesWithRow(e)
         /\ e.name # "execution.failed" => e.failureCode = NULL
         /\ e.id = cmd.id /\ e.name = EventName[Stage(cmd)] /\ Stage(cmd) \in DOMAIN EventName
<1>1. CASE cmd.verb = "startDiagnosis"
  BY <1>1, StageNames DEF AtGoal, FailedWith, EventOf, Stage, AgreesWithRow
<1>2. CASE cmd.verb = "finish"
  BY <1>2, StageNames DEF AtGoal, FailedWith, EventOf, Stage, AgreesWithRow
<1>3. CASE cmd.verb = "fail"
  BY <1>3, StageNames DEF AtGoal, FailedWith, EventOf, Stage, AgreesWithRow
<1> QED
  BY <1>1, <1>2, <1>3 DEF AtGoal

(* A new execution has not reached any stage.                              *)
LEMMA QueuedReachedNothing ==
  ASSUME NEW m
  PROVE  WellFormed(Queued(m)) /\ \A s \in DOMAIN Column : Queued(m)[Column[s]] = NULL
<1>1. WellFormed(Queued(m))
  BY DEF WellFormed, Queued
<1>2. \A s \in DOMAIN Column : Queued(m)[Column[s]] = NULL
  BY StageNames DEF Queued
<1> QED
  BY <1>1, <1>2

(* The invariant holds at first.                                           *)
LEMMA InitEstablishesSoleInv == Init => SoleInv
<1> SUFFICES ASSUME Init PROVE SoleInv
  OBVIOUS
<1>1. \A i \in Id : \E m \in Legacy : executions[i] = Queued(m)
  BY DEF Init, Id
<1>2. \A i \in Id : WellFormed(executions[i])
  BY <1>1, QueuedReachedNothing
<1>3. StagesAreAnnounced
  BY <1>1, QueuedReachedNothing, StageNames DEF StagesAreAnnounced
<1>4. \A c \in Caller : WorksOnItsRow(c)
  BY DEF Init, WorksOnItsRow
<1>5. EventsAgreeWithRow /\ PlainEvents
  BY DEF Init, EventsAgreeWithRow, PlainEvents
<1> QED
  BY <1>2, <1>3, <1>4, <1>5 DEF SoleInv

(* A step of a delivery keeps the invariant.                               *)
LEMMA DeliveryKeepsSoleInv ==
  ASSUME TableInv, SoleInv, NEW k \in Consumer, DeliveryStep(k)
  PROVE  SoleInv'
<1>1. /\ RowsMove /\ Id \subseteq Id'
      /\ UNCHANGED <<pc, command, entity, loaded, events, missed>>
      /\ \A i \in Id : executions'[i] = executions[i]
      /\ \A i \in Id' \ Id : \E m \in Message : executions'[i] = Queued(m)
  BY DeliveryTouches, GrowingKeepsRows, StepsMoveRows DEF TableInv, TypeOK, callerVars, RowsStay
<1>2. \A i \in Id' : WellFormed(executions'[i])
  <2>1. \A m \in Message : WellFormed(Queued(m))
    BY QueuedReachedNothing
  <2>2. \A i \in Id : WellFormed(executions[i])
    BY DEF SoleInv
  <2> QED
    BY <1>1, <2>1, <2>2
<1>3. \A c \in Caller : WorksOnItsRow(c)'
  BY <1>1 DEF SoleInv, TableInv, CallerKnows, WorksOnItsRow
<1>4. EventsAgreeWithRow' /\ PlainEvents'
  BY <1>1, MovingKeepsEvents DEF SoleInv, PlainEvents
<1>5. StagesAreAnnounced'
  <2> SUFFICES ASSUME NEW i \in Id', NEW s \in DOMAIN EventName, executions'[i][Column[s]] # NULL
               PROVE  IsAnnounced(i, s)'
    BY DEF StagesAreAnnounced
  <2>1. i \in Id /\ executions'[i] = executions[i]
    BY <1>1, QueuedReachedNothing, StageNames
  <2> QED
    BY <1>1, <2>1 DEF SoleInv, StagesAreAnnounced, IsAnnounced, Unsent
<1> QED
  BY <1>2, <1>3, <1>4, <1>5 DEF SoleInv, WellFormed

(* A command that loads a row works on it.                                 *)
LEMMA LoadKeepsSoleInv ==
  ASSUME OneCaller, TableInv, SoleInv, NEW c \in Caller, NEW cmd \in Commands, Load(c, cmd)
  PROVE  SoleInv'
<1>1. /\ cmd \in Command /\ cmd.id \in Id /\ now' \in Nat /\ Caller = {c}
  BY AskedCommands DEF Load, TableInv, TypeOK, OneCaller
<1>2. UNCHANGED <<executions, loaded, events, missed>> /\ command' = [command EXCEPT ![c] = cmd]
      /\ pc[c] = "idle"
  BY DEF Load
<1>3. WorksOnItsRow(c)'
  <2>1. CASE AlreadyDone(cmd, executions[cmd.id]) /\ Goto(c, "publish")
    <3>1. AtGoal(cmd, executions[cmd.id])
      BY <1>1, <2>1, DoneIsAtGoal DEF SoleInv
    <3> QED
      BY <1>1, <1>2, <2>1, <3>1 DEF Goto, WorksOnItsRow, TableInv, TypeOK
  <2>2. ASSUME NEW row \in Apply(cmd, executions[cmd.id], now'),
               entity' = [entity EXCEPT ![c] = row], Goto(c, "reload")
        PROVE  WorksOnItsRow(c)'
    BY <1>1, <1>2, <2>2 DEF Goto, WorksOnItsRow, TableInv, TypeOK
  <2> QED
    BY <2>1, <2>2 DEF Load
<1>4. StagesAreAnnounced'
  BY <1>1, <1>2 DEF SoleInv, StagesAreAnnounced, IsAnnounced, Id
<1>5. EventsAgreeWithRow' /\ PlainEvents' /\ \A i \in Id' : WellFormed(executions[i])'
  BY <1>2 DEF SoleInv, EventsAgreeWithRow, PlainEvents, AgreesWithRow, WellFormed, Id
<1> QED
  BY <1>1, <1>3, <1>4, <1>5 DEF SoleInv

(* A command that loads it again finds it as it was.                       *)
LEMMA ReloadKeepsSoleInv ==
  ASSUME OneCaller, TableInv, SoleInv, NEW c \in Caller, Reload(c)
  PROVE  SoleInv'
<1>1. UNCHANGED <<executions, command, entity, events, missed>> /\ pc[c] = "reload"
      /\ Caller = {c} /\ pc'[c] = "update" /\ loaded'[c] = executions[command[c].id]
  BY DEF Reload, Goto, OneCaller, TableInv, TypeOK
<1>2. WorksOnItsRow(c)'
  BY <1>1 DEF SoleInv, WorksOnItsRow
<1>3. StagesAreAnnounced'
  BY <1>1 DEF SoleInv, StagesAreAnnounced, IsAnnounced, Id
<1>4. EventsAgreeWithRow' /\ PlainEvents' /\ \A i \in Id' : WellFormed(executions[i])'
  BY <1>1 DEF SoleInv, EventsAgreeWithRow, PlainEvents, AgreesWithRow, WellFormed, Id
<1> QED
  BY <1>1, <1>2, <1>3, <1>4 DEF SoleInv

(* What was announced and is not withdrawn is announced.                   *)
LEMMA StaysAnnounced ==
  ASSUME TableInv, SoleInv, RowsMove, NEW i \in Id, NEW s \in DOMAIN EventName,
         executions[i][Column[s]] # NULL,
         events \subseteq events',
         [id |-> i, stage |-> s] \in missed =>
           \/ [id |-> i, stage |-> s] \in missed'
           \/ \E e \in events' : e.id = i /\ e.name = EventName[s],
         \A c \in Caller : pc[c] = "publish" /\ Unsent(c) = [id |-> i, stage |-> s] =>
           \/ [id |-> i, stage |-> s] \in missed'
           \/ \E e \in events' : e.id = i /\ e.name = EventName[s]
  PROVE  IsAnnounced(i, s)'
<1>1. IsAnnounced(i, s)
  BY DEF SoleInv, StagesAreAnnounced
<1>2. CASE \E e \in events' : e.id = i /\ e.name = EventName[s]
  BY <1>2 DEF IsAnnounced
<1>3. ASSUME [id |-> i, stage |-> s] \in missed',
             executions[i].status = s \/ s = "IN_DIAGNOSIS"
      PROVE  IsAnnounced(i, s)'
  BY <1>3, MovingKeepsAnnouncements DEF IsAnnounced
<1>4. ASSUME NEW c \in Caller, pc[c] = "publish", Unsent(c) = [id |-> i, stage |-> s]
      PROVE  executions[i].status = s \/ s = "IN_DIAGNOSIS"
  <2>1. AtGoal(command[c], executions[command[c].id]) /\ command[c].id = i /\ Stage(command[c]) = s
    BY <1>4 DEF SoleInv, WorksOnItsRow, Unsent
  <2> QED
    BY <2>1 DEF AtGoal, FailedWith, Stage
<1> QED
  BY <1>1, <1>2, <1>3, <1>4 DEF IsAnnounced

(* An update leads to the goal, which is to be published.                  *)
LEMMA UpdateKeepsSoleInv ==
  ASSUME OneCaller, TableInv, SoleInv, NEW c \in Caller, Update(c)
  PROVE  SoleInv'
<1> DEFINE i == command[c].id
<1>1. /\ UNCHANGED <<events, missed>> /\ Caller = {c} /\ pc[c] = "update"
      /\ command[c].verb = "startRepair" => pc'[c] = "idle"
      /\ command[c].verb # "startRepair" => pc'[c] = "publish" /\ command' = command
  BY DEF Update, Goto, EndCommand, OneCaller, TableInv, TypeOK
<1>2. /\ i \in Id /\ command[c] \in Command /\ Id' = Id /\ executions'[i] = entity[c]
      /\ WellFormed(entity[c]) /\ executions[i] \in Row
      /\ \A j \in Id : j # i => executions'[j] = executions[j]
      /\ command[c].verb # "startRepair" => AtGoal(command[c], entity[c])
      /\ \/ entity[c] = executions[i]
         \/ \E t \in Nat : Enters(executions[i], entity[c], Goal(command[c]), t)
  BY UpdateSavesEntity
<1>3. RowsMove
  BY StepsMoveRows DEF CommandStep
<1>4. \A j \in Id' : WellFormed(executions'[j])
  BY <1>2 DEF SoleInv
<1>5. WorksOnItsRow(c)'
  BY <1>1, <1>2 DEF WorksOnItsRow, Command
<1>6. EventsAgreeWithRow' /\ PlainEvents'
  BY <1>1, <1>3, MovingKeepsEvents DEF SoleInv, PlainEvents
<1>7. StagesAreAnnounced'
  <2> SUFFICES ASSUME NEW j \in Id, NEW s \in DOMAIN EventName, executions'[j][Column[s]] # NULL
               PROVE  IsAnnounced(j, s)'
    BY <1>2 DEF StagesAreAnnounced
  <2>1. CASE executions[j][Column[s]] # NULL
    BY <1>1, <1>3, <2>1, StaysAnnounced
  <2>2. CASE executions[j][Column[s]] = NULL
    <3>1. PICK t \in Nat : j = i /\ Enters(executions[i], entity[c], Goal(command[c]), t)
      BY <1>2, <2>2
    <3>2. s = Goal(command[c])
      BY <1>2, <2>2, <3>1, StageNames DEF Enters
    <3>3. command[c].verb # "startRepair" /\ s = Stage(command[c])
      BY <3>2, StageNames DEF Goal
    <3>4. pc'[c] = "publish" /\ Unsent(c)' = [id |-> j, stage |-> s]
      BY <1>1, <3>1, <3>3 DEF Unsent
    <3> QED
      BY <3>4 DEF IsAnnounced
  <2> QED
    BY <2>1, <2>2
<1> QED
  BY <1>1, <1>4, <1>5, <1>6, <1>7 DEF SoleInv, WellFormed

(* What is published agrees with the row, and is no longer missed.         *)
LEMMA PublishKeepsSoleInv ==
  ASSUME OneCaller, TableInv, SoleInv, NEW c \in Caller, Publish(c)
  PROVE  SoleInv'
<1> DEFINE e == EventOf(command[c])
<1>1. /\ UNCHANGED executions /\ Caller = {c} /\ pc[c] = "publish" /\ pc'[c] = "idle"
      /\ events' = events \cup {e} /\ missed' = missed \ {Unsent(c)}
  BY DEF Publish, Goto, EndCommand, OneCaller, TableInv, TypeOK
<1>2. command[c] \in Command /\ AtGoal(command[c], executions[command[c].id])
  BY <1>1 DEF TableInv, CallerKnows, SoleInv, WorksOnItsRow
<1>3. /\ AgreesWithRow(e)
      /\ e.name # "execution.failed" => e.failureCode = NULL
      /\ e.id = command[c].id /\ e.name = EventName[Stage(command[c])]
  BY <1>2, PublishedAgrees
<1> HIDE DEF e
<1>4. EventsAgreeWithRow' /\ PlainEvents'
  <2>1. \A d \in events : AgreesWithRow(d) /\ (d.name # "execution.failed" => d.failureCode = NULL)
    BY DEF SoleInv, EventsAgreeWithRow, PlainEvents
  <2>2. \A d \in events' : AgreesWithRow(d) /\ (d.name # "execution.failed" => d.failureCode = NULL)
    BY <1>1, <1>3, <2>1
  <2>3. \A d \in events' : AgreesWithRow(d)'
    BY <1>1, <2>2 DEF AgreesWithRow
  <2> QED
    BY <2>2, <2>3 DEF EventsAgreeWithRow, PlainEvents
<1>5. StagesAreAnnounced'
  <2> SUFFICES ASSUME NEW i \in Id, NEW s \in DOMAIN EventName, executions[i][Column[s]] # NULL
               PROVE  IsAnnounced(i, s)'
    BY <1>1 DEF StagesAreAnnounced, Id
  <2>1. RowsMove
    BY <1>1 DEF RowsMove, Id
  <2>2. Unsent(c) = [id |-> i, stage |-> s] => e \in events' /\ e.id = i /\ e.name = EventName[s]
    BY <1>1, <1>3 DEF Unsent
  <2> QED
    BY <1>1, <2>1, <2>2, StaysAnnounced
<1>6. WorksOnItsRow(c)'
  BY <1>1 DEF WorksOnItsRow
<1> QED
  BY <1>1, <1>4, <1>5, <1>6 DEF SoleInv, WellFormed, Id

(* What is interrupted before it is confirmed is missed.                   *)
LEMMA InterruptKeepsSoleInv ==
  ASSUME OneCaller, TableInv, SoleInv, NEW c \in Caller, Interrupt(c)
  PROVE  SoleInv'
<1>1. /\ UNCHANGED <<executions, events>> /\ Caller = {c} /\ pc'[c] = "idle"
      /\ missed' = IF pc[c] = "publish" THEN missed \cup {Unsent(c)} ELSE missed
  BY DEF Interrupt, Goto, EndCommand, OneCaller, TableInv, TypeOK
<1>2. EventsAgreeWithRow' /\ PlainEvents'
  BY <1>1 DEF SoleInv, EventsAgreeWithRow, PlainEvents, AgreesWithRow
<1>3. StagesAreAnnounced'
  <2> SUFFICES ASSUME NEW i \in Id, NEW s \in DOMAIN EventName, executions[i][Column[s]] # NULL
               PROVE  IsAnnounced(i, s)'
    BY <1>1 DEF StagesAreAnnounced, Id
  <2>1. RowsMove
    BY <1>1 DEF RowsMove, Id
  <2> QED
    BY <1>1, <2>1, StaysAnnounced
<1>4. WorksOnItsRow(c)'
  BY <1>1 DEF WorksOnItsRow
<1> QED
  BY <1>1, <1>2, <1>3, <1>4 DEF SoleInv, WellFormed, Id

(* Every step keeps the invariant, when commands do not overlap.           *)
LEMMA NextKeepsSoleInv ==
  ASSUME OneCaller, TableInv, SoleInv, [Next]_vars
  PROVE  SoleInv'
<1>1. CASE UNCHANGED vars
  <2>1. UNCHANGED <<executions, pc, command, entity, loaded, events, missed>>
    BY <1>1 DEF vars, callerVars
  <2>2. (\A i \in Id : WellFormed(executions[i]))'
    BY <2>1 DEF SoleInv, WellFormed, Id
  <2>3. (\A c \in Caller : WorksOnItsRow(c))'
    BY <2>1 DEF SoleInv, WorksOnItsRow
  <2>4. EventsAgreeWithRow' /\ PlainEvents'
    BY <2>1 DEF SoleInv, EventsAgreeWithRow, PlainEvents, AgreesWithRow
  <2>5. StagesAreAnnounced'
    <3>1. \A c \in Caller : Unsent(c)' = Unsent(c)
      BY <2>1 DEF Unsent
    <3>2. \A i \in Id, s \in DOMAIN EventName : IsAnnounced(i, s) => IsAnnounced(i, s)'
      BY <2>1, <3>1 DEF IsAnnounced
    <3> QED
      BY <2>1, <3>2 DEF SoleInv, StagesAreAnnounced, Id
  <2> QED
    BY <2>2, <2>3, <2>4, <2>5 DEF SoleInv
<1>2. ASSUME NEW k \in Consumer, DeliveryStep(k) PROVE SoleInv'
  BY <1>2, DeliveryKeepsSoleInv
<1>3. ASSUME NEW c \in Caller, CommandStep(c) PROVE SoleInv'
  BY <1>3, LoadKeepsSoleInv, ReloadKeepsSoleInv, UpdateKeepsSoleInv, PublishKeepsSoleInv,
     InterruptKeepsSoleInv DEF CommandStep
<1> QED
  BY <1>1, <1>2, <1>3 DEF Next, DeliveryStep, CommandStep

(* The invariant, when commands do not overlap.                            *)
THEOREM SoleInvariant == OneCaller => (Spec => []SoleInv)
<1> SUFFICES ASSUME OneCaller PROVE Spec => []SoleInv
  OBVIOUS
<1>1. TableInv /\ SoleInv /\ [Next]_vars => SoleInv'
  BY NextKeepsSoleInv
<1> QED
  BY <1>1, InitEstablishesSoleInv, TableInvariant, PTL DEF Spec

(* When commands do not overlap, every event that was sent agrees with its *)
(* row for good (publishStarted, publishFinished, publishFailed).          *)
THEOREM EventsStayTrue == OneCaller => (Spec => []EventsAgreeWithRow)
<1> SUFFICES ASSUME OneCaller PROVE Spec => []EventsAgreeWithRow
  OBVIOUS
<1>1. SoleInv => EventsAgreeWithRow
  BY DEF SoleInv
<1> QED
  BY <1>1, SoleInvariant, PTL

(* When commands do not overlap, an event id is never sent with two        *)
(* contents, but for what the row does not keep of a failure code          *)
(* (createDeterministicEventId).                                           *)
THEOREM EventsDoNotDiffer == OneCaller => (Spec => []OneContentPerEventId)
<1> SUFFICES ASSUME OneCaller PROVE Spec => []OneContentPerEventId
  OBVIOUS
<1>1. TableInv /\ SoleInv => OneContentPerEventId
  <2> SUFFICES ASSUME TableInv, SoleInv, NEW d \in events, NEW e \in events,
                      d.name = e.name, d.id = e.id
               PROVE  /\ d.at = e.at
                      /\ \/ d.failureCode = e.failureCode
                         \/ KeptCode[d.failureCode] = KeptCode[e.failureCode]
    BY DEF OneContentPerEventId
  <2>1. d \in Event /\ e \in Event
    BY DEF TableInv, TypeOK
  <2>2. CASE e.name = "execution.started"
    BY <2>2 DEF SoleInv, EventsAgreeWithRow, PlainEvents, AgreesWithRow
  <2>3. CASE e.name = "execution.finished"
    BY <2>3 DEF SoleInv, EventsAgreeWithRow, PlainEvents, AgreesWithRow
  <2>4. CASE e.name = "execution.failed"
    BY <2>4 DEF SoleInv, EventsAgreeWithRow, AgreesWithRow
  <2> QED
    BY <2>1, <2>2, <2>3, <2>4 DEF Event
<1> QED
  BY <1>1, SoleInvariant, TableInvariant, PTL

(* When commands do not overlap, what a row has been through has been      *)
(* announced or can be, but for execution.started (ExecutionService).      *)
THEOREM EventsCanBeCompleted == OneCaller => (Spec => []EventsAreComplete)
<1> SUFFICES ASSUME OneCaller PROVE Spec => []EventsAreComplete
  OBVIOUS
<1>1. SoleInv => EventsAreComplete
  BY DEF SoleInv, StagesAreAnnounced, IsAnnounced, EventsAreComplete
<1> QED
  BY <1>1, SoleInvariant, PTL

(* When commands do not overlap, a finished or failed execution stays so   *)
(* (finish, fail); executions_concurrent shows what two at a time can do.  *)
THEOREM TerminalStaysTerminal == OneCaller => (Spec => TerminalIsFinal)
<1> SUFFICES ASSUME OneCaller PROVE Spec => TerminalIsFinal
  OBVIOUS
<1> DEFINE Stays == \A i \in Id : isTerminal(executions[i]) => executions'[i].status = executions[i].status
<1>1. RowsMove => Stays
  BY DEF RowsMove, Enters, Lifecycle!Onward, isTerminal
<1>2. TableInv /\ SoleInv /\ [Next]_vars => [Stays]_vars
  <2> SUFFICES ASSUME TableInv, SoleInv, Next PROVE RowsMove
    BY <1>1
  <2> QED
    BY StepsMoveRows DEF Next, DeliveryStep, CommandStep
<1> QED
  BY <1>2, SoleInvariant, TableInvariant, PTL DEF Spec, TerminalIsFinal

-----------------------------------------------------------------------------
(* The refinement: the columns of a row are a lifecycle.                   *)

Tracked == 1..(MaxDeliveries + 1)

(* What the refinement shows of a table.                                   *)
statusOf(t) == [i \in Tracked |-> IF i \in DOMAIN t THEN t[i].status ELSE NULL]
enteredOf(t) == [i \in Tracked |-> [s \in DOMAIN Column |->
                  IF i \in DOMAIN t THEN t[i][Column[s]] ELSE NULL]]
failureOf(t) == [i \in Tracked |-> IF i \in DOMAIN t THEN FailureOf(t[i]) ELSE NULL]

(* Executions are queued at first.                                         *)
LEMMA InitRefinesLifecycle == Init => Lifecycle!Init
<1> SUFFICES ASSUME Init PROVE Lifecycle!Init
  OBVIOUS
<1>1. \A i \in Id : \E m \in Legacy : executions[i] = Queued(m)
  BY DEF Init, Id
<1>2. \A i \in Id : /\ executions[i].status = "QUEUED" /\ FailureOf(executions[i]) = NULL
                     /\ \A s \in DOMAIN Column : executions[i][Column[s]] = NULL
  <2>1. \A m : Queued(m).status = "QUEUED" /\ FailureOf(Queued(m)) = NULL
    BY DEF Queued, FailureOf
  <2> QED
    BY <1>1, <2>1, QueuedReachedNothing
<1>3. DOMAIN Column = Lifecycle!Stage
  BY StageNames DEF Lifecycle!Stage
<1> QED
  BY <1>2, <1>3 DEF Lifecycle!Init

(* A row that is added opens an execution; others stay.                    *)
LEMMA GrowingRefinesOpen ==
  ASSUME executions \in Seq(Row), TableGrows
  PROVE  [Lifecycle!Next]_(Lifecycle!vars)
<1>1. CASE UNCHANGED executions
  BY <1>1 DEF Lifecycle!vars, Id
<1>2. ASSUME NEW m \in Message, executions' = Append(executions, Queued(m))
      PROVE  [Lifecycle!Next]_(Lifecycle!vars)
  <2> DEFINE n == Len(executions) + 1
  <2>1. /\ n \notin Id /\ Id' = Id \cup {n} /\ executions'[n] = Queued(m)
        /\ \A i \in Id : executions'[i] = executions[i]
    BY <1>2, QueuedIsRow, LongerTable DEF Id
  <2>2. /\ Queued(m).status = "QUEUED" /\ FailureOf(Queued(m)) = NULL
        /\ \A s \in DOMAIN Column : Queued(m)[Column[s]] = NULL
    BY QueuedReachedNothing DEF Queued, FailureOf
  <2> HIDE DEF n
  <2>3. enteredOf(executions)' = enteredOf(executions) /\ failureOf(executions)' = failureOf(executions)
    BY <2>1, <2>2 DEF enteredOf, failureOf, Id
  <2>4. CASE n \in Tracked
    <3>1. /\ statusOf(executions)[n] = NULL
          /\ statusOf(executions)' = [statusOf(executions) EXCEPT ![n] = "QUEUED"]
      BY <2>1, <2>2, <2>4 DEF statusOf, Id
    <3>2. Lifecycle!Open(n)
      BY <2>3, <3>1 DEF Lifecycle!Open, statusOf, enteredOf, failureOf, Tracked, Id
    <3>3. Lifecycle!Next
      BY <2>4, <3>2 DEF Lifecycle!Next, Lifecycle!Open, Tracked
    <3> QED
      BY <3>3
  <2>5. CASE n \notin Tracked
    <3>1. statusOf(executions)' = statusOf(executions)
      BY <2>1, <2>5 DEF statusOf, Id
    <3> QED
      BY <2>3, <3>1 DEF Lifecycle!vars, statusOf, enteredOf, failureOf, Tracked, Id
  <2> QED
    BY <2>4, <2>5
<1> QED
  BY <1>1, <1>2 DEF TableGrows

(* A row that enters a stage lets its execution enter it.                  *)
LEMMA EnteringRefinesEnter ==
  ASSUME NEW i \in Id, NEW s \in DOMAIN Column, NEW t \in Nat, i \in Tracked,
         Id' = Id, Enters(executions[i], executions'[i], s, t),
         \A j \in Id : j # i => executions'[j] = executions[j]
  PROVE  Lifecycle!Next
<1>1. <<statusOf(executions)[i], s>> \in Lifecycle!Onward /\ enteredOf(executions)[i][s] = NULL
  BY DEF Enters, statusOf, enteredOf, Id
<1>2. statusOf(executions)' = [statusOf(executions) EXCEPT ![i] = s]
  BY DEF Enters, statusOf, Id
<1>3. enteredOf(executions)'[i][s] = t
  BY DEF Enters, enteredOf, Id
<1>4. enteredOf(executions)' = [enteredOf(executions) EXCEPT ![i][s] = t]
  <2>1. PICK after : after = enteredOf(executions)'
    OBVIOUS
  <2>2. PICK before : before = enteredOf(executions)
    OBVIOUS
  <2>3. ASSUME NEW j \in Tracked, j # i PROVE after[j] = before[j]
    BY <2>1, <2>2, <2>3 DEF enteredOf, Id
  <2>4. \A x \in DOMAIN Column : x # s => after[i][x] = before[i][x]
    BY <2>1, <2>2 DEF Enters, enteredOf, Id
  <2>5. /\ before = [j \in Tracked |-> before[j]] /\ after = [j \in Tracked |-> after[j]]
        /\ before[i] = [x \in DOMAIN Column |-> before[i][x]]
        /\ after[i] = [x \in DOMAIN Column |-> after[i][x]]
    BY <2>1, <2>2 DEF enteredOf
  <2>6. after[i] = [before[i] EXCEPT ![s] = t]
    BY <1>3, <2>1, <2>4, <2>5
  <2>7. after = [before EXCEPT ![i] = after[i]]
    BY <2>3, <2>5
  <2> QED
    BY <2>1, <2>2, <2>6, <2>7
<1>5. \/ /\ s = "FAILED"
         /\ \E f \in [code : FailureCode, reason : FailureReason \cup {NULL}] :
              failureOf(executions)' = [failureOf(executions) EXCEPT ![i] = f]
      \/ s # "FAILED" /\ failureOf(executions)' = failureOf(executions)
  <2>1. CASE s = "FAILED"
    <3>1. PICK f : f = FailureOf(executions'[i])
      OBVIOUS
    <3>2. f \in [code : FailureCode, reason : FailureReason \cup {NULL}]
      BY <2>1, <3>1 DEF Enters, SaysWhy
    <3>3. failureOf(executions)' = [failureOf(executions) EXCEPT ![i] = f]
      BY <3>1 DEF failureOf, Id
    <3> QED
      BY <2>1, <3>2, <3>3
  <2>2. CASE s # "FAILED"
    BY <2>2 DEF Enters, SaysWhy, FailureOf, failureOf, Id
  <2> QED
    BY <2>1, <2>2
<1>6. Lifecycle!Enter(i, s)
  BY <1>1, <1>2, <1>3, <1>4, <1>5
  DEF Lifecycle!Enter, statusOf, enteredOf, failureOf, Tracked, Id
<1>7. s \in Lifecycle!Stage
  BY StageNames DEF Lifecycle!Stage
<1>8. \E x \in Lifecycle!Stage : Lifecycle!Enter(i, x)
  BY <1>6, <1>7
<1> QED
  BY <1>8 DEF Lifecycle!Next, Tracked

(* An update of a row lets its execution enter a stage; others stay.       *)
LEMMA UpdateRefinesEnter ==
  ASSUME TableInv, SoleInv, NEW c \in Caller, Update(c)
  PROVE  [Lifecycle!Next]_(Lifecycle!vars)
<1>1. PICK i, s : i = command[c].id /\ s = Goal(command[c])
  OBVIOUS
<1>2. /\ i \in Id /\ Id' = Id /\ s \in DOMAIN Column
      /\ \A j \in Id : j # i => executions'[j] = executions[j]
      /\ \/ executions'[i] = executions[i]
         \/ \E t \in Nat : Enters(executions[i], executions'[i], s, t)
  BY <1>1, UpdateSavesEntity, GoalIsStage
<1>3. CASE executions'[i] = executions[i] \/ i \notin Tracked
  <2>1. \A j \in Id : j \in Tracked => executions'[j] = executions[j]
    BY <1>2, <1>3
  <2> QED
    BY <1>2, <2>1 DEF Lifecycle!vars, Tracked
<1>4. ASSUME NEW t \in Nat, Enters(executions[i], executions'[i], s, t), i \in Tracked
      PROVE  Lifecycle!Next
  BY <1>2, <1>4, EnteringRefinesEnter
<1> QED
  BY <1>2, <1>3, <1>4

(* Every step is one of a lifecycle or a stutter.                          *)
LEMMA StepRefinesLifecycle ==
  ASSUME TableInv, SoleInv, [Next]_vars
  PROVE  [Lifecycle!Next]_(Lifecycle!vars)
<1>1. CASE UNCHANGED executions
  BY <1>1 DEF Lifecycle!vars, Id
<1>2. ASSUME NEW k \in Consumer, DeliveryStep(k) PROVE TableGrows
  BY <1>2, DeliveryTouches
<1>3. ASSUME NEW c \in Caller, CommandStep(c) PROVE Update(c) \/ UNCHANGED executions
  BY <1>3 DEF CommandStep, Load, Reload, Publish, Interrupt
<1>4. executions \in Seq(Row)
  BY DEF TableInv, TypeOK
<1> QED
  BY <1>1, <1>2, <1>3, <1>4, GrowingRefinesOpen, UpdateRefinesEnter
  DEF Next, DeliveryStep, CommandStep, vars

(* When commands do not overlap, the rows implement ExecutionLifecycle:    *)
(* stages in their order, each entered once, at an instant that stays.     *)
THEOREM ExecutionsAreLifecycles == OneCaller => (Spec => IsLifecycle)
<1> SUFFICES ASSUME OneCaller PROVE Spec => IsLifecycle
  OBVIOUS
<1>1. TableInv /\ SoleInv /\ [Next]_vars => [Lifecycle!Next]_(Lifecycle!vars)
  BY StepRefinesLifecycle
<1> QED
  BY <1>1, InitRefinesLifecycle, SoleInvariant, TableInvariant, PTL
  DEF Spec, IsLifecycle, Lifecycle!Spec

=============================================================================
