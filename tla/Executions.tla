----------------------------- MODULE Executions -----------------------------
(***************************************************************************)
(* The execution component: createQueuedExecution, called for each         *)
(* delivery of an execution.requested message, and the operator's commands *)
(* (start-diagnosis, start-repair, finish, fail), each of which loads the  *)
(* row, applies the entity's method to the copy, saves the copy, and reads *)
(* the row again to publish an event.  Nothing locks the row and no        *)
(* version is compared, so the steps of several calls interleave.          *)
(***************************************************************************)
EXTENDS Integers, Sequences

CONSTANTS
  Consumer,       (* deliveries in flight                                  *)
  Caller,         (* operator requests in flight                           *)
  Message,        (* valid execution.requested messages: [event, saga, order] *)
  Legacy,         (* what executions of the release without the columns    *)
                  (* request_event_id and correlation_id were created for  *)
  Failure,        (* what fail() is asked: [code, reason], normalised      *)
  FailureCode,    (* codes as normalizeFailureCode makes them              *)
  FailureReason,
  KeptCode,       (* what sanitizeFailureCode keeps of a code: its first   *)
                  (* 100 characters; a request has no more, but upper case *)
                  (* can be longer                                         *)
  MaxDeliveries,  (* bound on the deliveries                               *)
  MaxCommands,    (* bound on the operator requests                        *)
  NULL

ASSUME MessageAssumption ==
  \A m, n \in Message : m.event = n.event => m = n
ASSUME LegacyAssumption == \A m \in Legacy : m.event = NULL
ASSUME FailureAssumption ==
  Failure \subseteq [code : FailureCode, reason : FailureReason \cup {NULL}]
ASSUME KeptCodeAssumption ==
  /\ KeptCode \in [FailureCode -> FailureCode]
  /\ \A code \in FailureCode : KeptCode[KeptCode[code]] = KeptCode[code]
ASSUME BoundAssumption == MaxDeliveries \in Nat /\ MaxCommands \in Nat

VARIABLES
  executions,   (* the table, in the order of insertion; a row's index is its id *)
  deliveries,   (* deliveries so far                                       *)
  phase,        (* per consumer                                            *)
  message,      (* what it handles                                         *)
  bySaga,       (* existingBySagaId: unread, or what was found             *)
  byOrder,      (* existingByOrderId                                       *)
  accepted,     (* history: messages for which createQueuedExecution returned *)
  now,          (* commands so far: the time new Date() returns            *)
  pc,           (* per caller                                              *)
  command,      (* what it asks: [verb, id, failure]                       *)
  entity,       (* the Execution object it holds                           *)
  loaded,       (* the row as its save() loaded it again                   *)
  events,       (* the confirmed events                                    *)
  missed        (* history: [id, stage] of the commands that have saved    *)
                (* their transition, broken before the event was confirmed *)
                (* and not been repeated with success                      *)

consumerVars == <<deliveries, phase, message, bySaga, byOrder, accepted>>
callerVars == <<now, pc, command, entity, loaded, events, missed>>
vars == <<executions, consumerVars, callerVars>>

Status == {"QUEUED", "IN_DIAGNOSIS", "IN_REPAIR", "FINISHED", "FAILED"}

Row == [message : Message \cup Legacy, status : Status,
        failureCode : FailureCode \cup {NULL}, failureReason : FailureReason \cup {NULL},
        diagnosisStartedAt : Nat \cup {NULL}, repairStartedAt : Nat \cup {NULL},
        finishedAt : Nat \cup {NULL}, failedAt : Nat \cup {NULL}]

Command == [verb : {"startDiagnosis", "startRepair", "finish", "fail"},
            id : Nat \ {0}, failure : Failure \cup {NULL}]

Event == [name : {"execution.started", "execution.finished", "execution.failed"},
          id : Nat \ {0}, at : Nat, failureCode : FailureCode \cup {NULL}]

(* What a lookup returns: the ids of the rows.                             *)
Found == [ids : SUBSET Nat]

ASSUME NullAssumption ==
  /\ NULL \notin Message /\ NULL \notin Failure /\ NULL \notin FailureCode
  /\ NULL \notin Nat /\ NULL \notin Found /\ NULL \notin Row /\ NULL \notin Command

TypeOK ==
  /\ executions \in Seq(Row)
  /\ deliveries \in Nat
  /\ phase \in [Consumer -> {"idle", "lookup"}]
  /\ message \in [Consumer -> Message \cup {NULL}]
  /\ bySaga \in [Consumer -> Found \cup {NULL}]
  /\ byOrder \in [Consumer -> Found \cup {NULL}]
  /\ accepted \subseteq Message
  /\ now \in Nat
  /\ pc \in [Caller -> {"idle", "reload", "update", "publish"}]
  /\ command \in [Caller -> Command \cup {NULL}]
  /\ entity \in [Caller -> Row \cup {NULL}]
  /\ loaded \in [Caller -> Row \cup {NULL}]
  /\ events \subseteq Event
  /\ missed \subseteq [id : Nat \ {0}, stage : Status]

Id == DOMAIN executions

Queued(m) ==
  [message |-> m, status |-> "QUEUED", failureCode |-> NULL, failureReason |-> NULL,
   diagnosisStartedAt |-> NULL, repairStartedAt |-> NULL, finishedAt |-> NULL, failedAt |-> NULL]

(* An execution may be there from the release that kept no message context. *)
Init ==
  /\ \/ executions = <<>>
     \/ \E m \in Legacy : executions = <<Queued(m)>>
  /\ deliveries = 0
  /\ phase = [k \in Consumer |-> "idle"]
  /\ message = [k \in Consumer |-> NULL]
  /\ bySaga = [k \in Consumer |-> NULL]
  /\ byOrder = [k \in Consumer |-> NULL]
  /\ accepted = {}
  /\ now = 0
  /\ pc = [c \in Caller |-> "idle"]
  /\ command = [c \in Caller |-> NULL]
  /\ entity = [c \in Caller |-> NULL]
  /\ loaded = [c \in Caller |-> NULL]
  /\ events = {}
  /\ missed = {}

-----------------------------------------------------------------------------
(* The creation of executions.                                             *)

WithSaga(s) == {i \in Id : executions[i].message.saga = s}
WithOrder(o) == {i \in Id : executions[i].message.order = o}

EndDelivery(k) ==
  /\ phase' = [phase EXCEPT ![k] = "idle"]
  /\ message' = [message EXCEPT ![k] = NULL]
  /\ bySaga' = [bySaga EXCEPT ![k] = NULL]
  /\ byOrder' = [byOrder EXCEPT ![k] = NULL]

Deliver(k, m) ==
  /\ phase[k] = "idle"
  /\ deliveries < MaxDeliveries
  /\ deliveries' = deliveries + 1
  /\ phase' = [phase EXCEPT ![k] = "lookup"]
  /\ message' = [message EXCEPT ![k] = m]
  /\ UNCHANGED <<executions, bySaga, byOrder, accepted, callerVars>>

(* The two lookups run concurrently, in either order.                      *)
FindBySagaId(k) ==
  /\ phase[k] = "lookup" /\ bySaga[k] = NULL
  /\ bySaga' = [bySaga EXCEPT ![k] = [ids |-> WithSaga(message[k].saga)]]
  /\ UNCHANGED <<executions, deliveries, phase, message, byOrder, accepted, callerVars>>

FindByOrderId(k) ==
  /\ phase[k] = "lookup" /\ byOrder[k] = NULL
  /\ byOrder' = [byOrder EXCEPT ![k] = [ids |-> WithOrder(message[k].order)]]
  /\ UNCHANGED <<executions, deliveries, phase, message, bySaga, accepted, callerVars>>

LookedUp(k) == phase[k] = "lookup" /\ bySaga[k] # NULL /\ byOrder[k] # NULL

(* Seeded fault of SameExecution: found by its saga alone.                 *)
SameSaga(k) == bySaga[k].ids # {}

(* The row was created by an earlier delivery of the same message.         *)
SameExecution(k) ==
  /\ bySaga[k].ids # {} /\ bySaga[k] = byOrder[k]
  /\ \A i \in bySaga[k].ids : executions[i].message = message[k]

ReturnExisting(k) ==
  /\ LookedUp(k)
  /\ SameExecution(k)
  /\ accepted' = accepted \cup {message[k]}
  /\ EndDelivery(k)
  /\ UNCHANGED <<executions, deliveries, callerVars>>

(* EXECUTION_IDENTITY_CONFLICT: the message fails and is retried.          *)
RejectConflict(k) ==
  /\ LookedUp(k)
  /\ ~SameExecution(k)
  /\ bySaga[k].ids \cup byOrder[k].ids # {}
  /\ EndDelivery(k)
  /\ UNCHANGED <<executions, deliveries, accepted, callerVars>>

(* The unique keys on saga_id and order_id decide between two inserts.     *)
KeysAreFree(m) == WithSaga(m.saga) = {} /\ WithOrder(m.order) = {}

InsertQueued(k) ==
  /\ LookedUp(k)
  /\ bySaga[k].ids \cup byOrder[k].ids = {}
  /\ \/ /\ KeysAreFree(message[k])
        /\ executions' = Append(executions, Queued(message[k]))
        /\ accepted' = accepted \cup {message[k]}
     \/ /\ ~KeysAreFree(message[k])
        /\ UNCHANGED <<executions, accepted>>
  /\ EndDelivery(k)
  /\ UNCHANGED <<deliveries, callerVars>>

-----------------------------------------------------------------------------
(* The entity's methods, on a row at an instant: the set of the resulting  *)
(* row, or {} when the method throws.                                      *)

startDiagnosis(row, t) ==
  IF row.status = "IN_DIAGNOSIS" THEN {row}
  ELSE IF row.status = "QUEUED"
    THEN {[row EXCEPT !.status = "IN_DIAGNOSIS", !.diagnosisStartedAt = t]}
  ELSE {}

(* Seeded fault of startRepair: from the queue too.                        *)
startRepairFromQueue(row, t) ==
  IF row.status = "IN_REPAIR" THEN {row}
  ELSE IF row.status \in {"QUEUED", "IN_DIAGNOSIS"}
    THEN {[row EXCEPT !.status = "IN_REPAIR", !.repairStartedAt = t]}
  ELSE {}

startRepair(row, t) ==
  IF row.status = "IN_REPAIR" THEN {row}
  ELSE IF row.status = "IN_DIAGNOSIS"
    THEN {[row EXCEPT !.status = "IN_REPAIR", !.repairStartedAt = t]}
  ELSE {}

(* Seeded fault of finish: whatever the execution's status.                *)
finishAlways(row, t) ==
  IF row.status = "FINISHED" THEN {row}
  ELSE {[row EXCEPT !.status = "FINISHED", !.finishedAt = t,
                    !.failureCode = NULL, !.failureReason = NULL]}

finish(row, t) ==
  IF row.status = "FINISHED" THEN {row}
  ELSE IF row.status \in {"IN_DIAGNOSIS", "IN_REPAIR"}
    THEN {[row EXCEPT !.status = "FINISHED", !.finishedAt = t,
                      !.failureCode = NULL, !.failureReason = NULL]}
  ELSE {}

(* Seeded fault of isTerminal: a failed execution can fail again.          *)
isFinished(row) == row.status = "FINISHED"

isTerminal(row) == row.status \in {"FINISHED", "FAILED"}

FailedWith(row, code, reason) ==
  row.status = "FAILED" /\ row.failureCode = code /\ row.failureReason = reason

fail(row, f, t) ==
  IF FailedWith(row, KeptCode[f.code], f.reason) THEN {row}
  ELSE IF ~isTerminal(row)
    THEN {[row EXCEPT !.status = "FAILED", !.failedAt = t,
                      !.failureCode = KeptCode[f.code], !.failureReason = f.reason]}
  ELSE {}

Apply(cmd, row, t) ==
  CASE cmd.verb = "startDiagnosis" -> startDiagnosis(row, t)
    [] cmd.verb = "startRepair"    -> startRepair(row, t)
    [] cmd.verb = "finish"         -> finish(row, t)
    [] cmd.verb = "fail"           -> fail(row, cmd.failure, t)

(* The row is where the command would take it: only the event is sent.     *)
(* The service compares the code as it was asked, not what the entity      *)
(* keeps of it.                                                            *)
AlreadyDone(cmd, row) ==
  \/ cmd.verb = "startDiagnosis" /\ row.status = "IN_DIAGNOSIS"
  \/ cmd.verb = "finish" /\ row.status = "FINISHED"
  \/ cmd.verb = "fail" /\ FailedWith(row, cmd.failure.code, cmd.failure.reason)

-----------------------------------------------------------------------------
Goto(c, label) == pc' = [pc EXCEPT ![c] = label]

EndCommand(c) ==
  /\ Goto(c, "idle")
  /\ command' = [command EXCEPT ![c] = NULL]
  /\ entity' = [entity EXCEPT ![c] = NULL]
  /\ loaded' = [loaded EXCEPT ![c] = NULL]

(* The request loads the row and applies the method to its copy.           *)
Load(c, cmd) ==
  /\ pc[c] = "idle"
  /\ now < MaxCommands
  /\ now' = now + 1
  /\ \/ /\ AlreadyDone(cmd, executions[cmd.id])
        /\ command' = [command EXCEPT ![c] = cmd]
        /\ Goto(c, "publish")
        /\ UNCHANGED entity
     \/ /\ ~AlreadyDone(cmd, executions[cmd.id])
        /\ \E row \in Apply(cmd, executions[cmd.id], now') :
             /\ command' = [command EXCEPT ![c] = cmd]
             /\ entity' = [entity EXCEPT ![c] = row]
        /\ Goto(c, "reload")
  /\ UNCHANGED <<executions, consumerVars, loaded, events, missed>>

(* Repository.save loads the row again to find the columns to update.      *)
Reload(c) ==
  /\ pc[c] = "reload"
  /\ loaded' = [loaded EXCEPT ![c] = executions[command[c].id]]
  /\ Goto(c, "update")
  /\ UNCHANGED <<executions, consumerVars, now, command, entity, events, missed>>

(* Seeded fault of SaveColumns: the columns left out are set to NULL.      *)
SaveChangedOnly(current, before, after) ==
  [col \in DOMAIN current |-> IF after[col] = before[col] THEN NULL ELSE after[col]]

SaveColumns(current, before, after) ==
  [col \in DOMAIN current |-> IF after[col] = before[col] THEN current[col] ELSE after[col]]

Update(c) ==
  /\ pc[c] = "update"
  /\ executions' = [executions EXCEPT ![command[c].id] = SaveColumns(@, loaded[c], entity[c])]
  /\ IF command[c].verb = "startRepair"
       THEN EndCommand(c)
       ELSE Goto(c, "publish") /\ UNCHANGED <<command, entity, loaded>>
  /\ UNCHANGED <<consumerVars, now, events, missed>>

(* The publisher reads the row once more: its timestamp must be there, and *)
(* goes into the event; the failure code is the caller's, as normalised.   *)
EventOf(cmd) ==
  LET row == executions[cmd.id]
  IN CASE cmd.verb = "startDiagnosis" ->
            [name |-> "execution.started", id |-> cmd.id, at |-> row.diagnosisStartedAt,
             failureCode |-> NULL]
       [] cmd.verb = "finish" ->
            [name |-> "execution.finished", id |-> cmd.id, at |-> row.finishedAt,
             failureCode |-> NULL]
       [] cmd.verb = "fail" ->
            [name |-> "execution.failed", id |-> cmd.id, at |-> row.failedAt,
             failureCode |-> cmd.failure.code]

(* The columns and the events that tell when an execution entered a stage. *)
Column == [IN_DIAGNOSIS |-> "diagnosisStartedAt", IN_REPAIR |-> "repairStartedAt",
           FINISHED |-> "finishedAt", FAILED |-> "failedAt"]

EventName == [IN_DIAGNOSIS |-> "execution.started", FINISHED |-> "execution.finished",
              FAILED |-> "execution.failed"]

Stage(cmd) ==
  CASE cmd.verb = "startDiagnosis" -> "IN_DIAGNOSIS"
    [] cmd.verb = "finish" -> "FINISHED"
    [] cmd.verb = "fail" -> "FAILED"

Unsent(c) == [id |-> command[c].id, stage |-> Stage(command[c])]

(* The row has what the event takes from it; the publisher throws if not.  *)
HasContext(cmd) == executions[cmd.id].message.event # NULL /\ EventOf(cmd).at # NULL

(* Seeded fault of Publish: the confirmation is not awaited.               *)
PublishUnconfirmed(c) ==
  /\ pc[c] = "publish"
  /\ HasContext(command[c])
  /\ events' \in {events, events \cup {EventOf(command[c])}}
  /\ missed' = missed \ {Unsent(c)}
  /\ EndCommand(c)
  /\ UNCHANGED <<executions, consumerVars, now>>

Publish(c) ==
  /\ pc[c] = "publish"
  /\ HasContext(command[c])
  /\ events' = events \cup {EventOf(command[c])}
  /\ missed' = missed \ {Unsent(c)}
  /\ EndCommand(c)
  /\ UNCHANGED <<executions, consumerVars, now>>

(* The request ends early: a database or broker error, a missing context,  *)
(* or the replica dies.                                                    *)
Interrupt(c) ==
  /\ pc[c] # "idle"
  /\ missed' = IF pc[c] = "publish" THEN missed \cup {Unsent(c)} ELSE missed
  /\ EndCommand(c)
  /\ UNCHANGED <<executions, consumerVars, now, events>>

Commands ==
  {[verb |-> v, id |-> i, failure |-> NULL] : v \in {"startDiagnosis", "startRepair", "finish"}, i \in Id}
  \cup {[verb |-> "fail", id |-> i, failure |-> f] : i \in Id, f \in Failure}

Next ==
  \/ \E k \in Consumer :
       \/ \E m \in Message : Deliver(k, m)
       \/ FindBySagaId(k) \/ FindByOrderId(k)
       \/ ReturnExisting(k) \/ RejectConflict(k) \/ InsertQueued(k)
  \/ \E c \in Caller :
       \/ \E cmd \in Commands : Load(c, cmd)
       \/ Reload(c) \/ Update(c) \/ Publish(c) \/ Interrupt(c)

Spec == Init /\ [][Next]_vars

-----------------------------------------------------------------------------
(* A message is acknowledged only if one execution carries its saga, one   *)
(* its order, and they are the same and were created for that message      *)
(* (createQueuedExecution, whatever the interleaving of deliveries).       *)
AcceptedHasExecution ==
  \A m \in accepted : \E i \in Id :
    WithSaga(m.saga) = {i} /\ WithOrder(m.order) = {i} /\ executions[i].message = m

AgreesWithRow(e) ==
  LET row == executions[e.id]
  IN CASE e.name = "execution.started"  -> row.diagnosisStartedAt = e.at
       [] e.name = "execution.finished" -> row.status = "FINISHED" /\ row.finishedAt = e.at
       [] e.name = "execution.failed"   -> /\ row.status = "FAILED" /\ row.failedAt = e.at
                                           /\ row.failureCode = KeptCode[e.failureCode]

(* Every event that was sent still agrees with the row: the stage was      *)
(* entered at the instant it tells, and an execution reported finished or  *)
(* failed is so (publishStarted, publishFinished, publishFailed).          *)
EventsAgreeWithRow == \A e \in events : AgreesWithRow(e)

(* An event's id is a function of its name and its execution, so the same  *)
(* id must never be sent with two contents (createDeterministicEventId),   *)
(* but for what the row does not keep of a failure code.                   *)
OneContentPerEventId ==
  \A d, e \in events : d.name = e.name /\ d.id = e.id =>
    /\ d.at = e.at
    /\ \/ d.failureCode = e.failureCode
       \/ KeptCode[d.failureCode] = KeptCode[e.failureCode]

(* Once a command has ended, a transition of the row has been announced,   *)
(* or the command that made it broke and may be repeated to announce it:   *)
(* only execution.started is out of reach when the execution has moved on, *)
(* and only an execution without its message's context has no events       *)
(* (startDiagnosis, finish and fail of ExecutionService).                  *)
EventsAreComplete ==
  (\A c \in Caller : pc[c] = "idle") =>
    \A i \in Id : executions[i].message.event # NULL =>
      \A s \in DOMAIN EventName : executions[i][Column[s]] # NULL =>
        \/ \E e \in events : e.id = i /\ e.name = EventName[s]
        \/ /\ [id |-> i, stage |-> s] \in missed
           /\ executions[i].status = s \/ s = "IN_DIAGNOSIS"

(* "Terminal executions cannot transition to another state."               *)
TerminalIsFinal ==
  [][\A i \in Id : isTerminal(executions[i]) => executions'[i].status = executions[i].status]_vars

FailureOf(row) ==
  IF row.failureCode = NULL THEN NULL
  ELSE [code |-> row.failureCode, reason |-> row.failureReason]

(* The component implements the lifecycle of each execution.               *)
Lifecycle == INSTANCE ExecutionLifecycle WITH
  Failure <- [code : FailureCode, reason : FailureReason \cup {NULL}],
  Execution <- 1..(MaxDeliveries + 1),
  status  <- [i \in 1..(MaxDeliveries + 1) |-> IF i \in Id THEN executions[i].status ELSE NULL],
  entered <- [i \in 1..(MaxDeliveries + 1) |-> [s \in DOMAIN Column |->
                IF i \in Id THEN executions[i][Column[s]] ELSE NULL]],
  failure <- [i \in 1..(MaxDeliveries + 1) |-> IF i \in Id THEN FailureOf(executions[i]) ELSE NULL]

IsLifecycle == Lifecycle!Spec
=============================================================================
