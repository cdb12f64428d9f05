-------------------------- MODULE ConsumedMessages --------------------------
(***************************************************************************)
(* The consumed-message ledger (src/messaging/consumed-message.repository) *)
(* for one (consumerName, eventId): the row, the statements that claim()   *)
(* sends one after the other, each awaited and so interleaved with those   *)
(* of other workers, and the completion of a claim.  A worker is one       *)
(* delivery of the message in some replica; replicas share the row only.   *)
(***************************************************************************)
EXTENDS Integers

CONSTANTS
  Worker,     (* deliveries that may be in flight at once                  *)
  Lease,      (* CONSUMED_MESSAGE_LEASE_MS, in ticks of the clock          *)
  Precision,  (* ticks in a unit of the lease_expires_at column            *)
  MaxClaims,  (* bound on the calls of claim()                             *)
  MaxClock,   (* bound on the clock                                        *)
  NULL        (* an SQL NULL                                               *)

ASSUME WorkerAssumption == NULL \notin Nat
ASSUME TimeAssumption == /\ Lease \in Nat \ {0}
                         /\ Precision \in Nat \ {0}
ASSUME BoundAssumption == MaxClaims \in Nat /\ MaxClock \in Nat

VARIABLES
  clock,      (* the time new Date() returns                               *)
  row,        (* the consumed_messages row; status "ABSENT" before insert  *)
  issued,     (* tokens drawn so far: randomUUID() never repeats           *)
  pc,         (* where each worker is between two awaits                   *)
  token,      (* claimToken of each worker                                 *)
  startedAt,  (* `now` of each worker, read once when claim() starts       *)
  seen,       (* existing.status as read, which the row may have left      *)
  lastClaim,  (* history: the token of the latest successful claim         *)
  processedBy (* history: the tokens whose markProcessed took effect       *)

vars == <<clock, row, issued, pc, token, startedAt, seen, lastClaim, processedBy>>

Token == Nat \ {0}

Row == [status : {"ABSENT", "PROCESSING", "PROCESSED", "FAILED"},
        token  : Token \cup {NULL},
        lease  : Nat \cup {NULL}]

Phase == {"idle", "insert", "read", "updateFailed", "updateExpired",
          "working", "completing", "failing"}

(* The phases of a worker whose claim() has returned a token.              *)
Engaged(w) == pc[w] \in {"working", "completing", "failing"}

TypeOK ==
  /\ clock \in Nat
  /\ row \in Row
  /\ issued \in Nat
  /\ pc \in [Worker -> Phase]
  /\ token \in [Worker -> Token \cup {NULL}]
  /\ startedAt \in [Worker -> Nat]
  /\ seen \in [Worker -> {"PROCESSING", "FAILED", NULL}]
  /\ lastClaim \in Token \cup {NULL}
  /\ processedBy \subseteq Token

-----------------------------------------------------------------------------
(* A `timestamp` column without a precision rounds to its unit.            *)
Stored(t) == Precision * ((t + Precision \div 2) \div Precision)

LeaseEnd(w) == Stored(startedAt[w] + Lease)

(* The row as a claim of w leaves it.                                      *)
ClaimedRow(w) == [status |-> "PROCESSING", token |-> token[w], lease |-> LeaseEnd(w)]

ClosedRow(status) == [status |-> status, token |-> NULL, lease |-> NULL]

(* Seeded faults of HoldsRow: no token in the WHERE, and no claim at all.  *)
HoldsRowByStatus(w) == row.status = "PROCESSING"
HoldsRowById(w) == TRUE

(* The WHERE clause of markProcessed and markFailed.                       *)
HoldsRow(w) == row.status = "PROCESSING" /\ row.token = token[w]

Goto(w, phase) == pc' = [pc EXCEPT ![w] = phase]

Leave(w) == /\ Goto(w, "idle")
            /\ token' = [token EXCEPT ![w] = NULL]
            /\ startedAt' = [startedAt EXCEPT ![w] = 0]
            /\ seen' = [seen EXCEPT ![w] = NULL]

TakeRow(w) == /\ row' = ClaimedRow(w)
              /\ lastClaim' = token[w]
              /\ Goto(w, "working")

-----------------------------------------------------------------------------
(* A row without token and lease is one left behind by the release that    *)
(* had no lease columns: the migration adds them as NULL.                  *)
Init ==
  /\ clock = 0
  /\ row \in {ClosedRow("ABSENT"), ClosedRow("PROCESSING")}
  /\ issued = 0
  /\ pc = [w \in Worker |-> "idle"]
  /\ token = [w \in Worker |-> NULL]
  /\ startedAt = [w \in Worker |-> 0]
  /\ seen = [w \in Worker |-> NULL]
  /\ lastClaim = NULL
  /\ processedBy = {}

(* A delivery reaches a consumer, which calls claim().                     *)
StartClaim(w) ==
  /\ pc[w] = "idle"
  /\ issued < MaxClaims
  /\ issued' = issued + 1
  /\ token' = [token EXCEPT ![w] = issued + 1]
  /\ startedAt' = [startedAt EXCEPT ![w] = clock]
  /\ Goto(w, "insert")
  /\ UNCHANGED <<clock, row, seen, lastClaim, processedBy>>

(* Seeded fault of InsertRow: no unique key.                               *)
InsertRowAnyway(w) ==
  /\ pc[w] = "insert"
  /\ TakeRow(w)
  /\ UNCHANGED <<clock, issued, token, startedAt, seen, processedBy>>

(* INSERT: the unique key decides whether the row is new.                  *)
InsertRow(w) ==
  /\ pc[w] = "insert"
  /\ \/ row.status = "ABSENT" /\ TakeRow(w)
     \/ row.status # "ABSENT" /\ Goto(w, "read") /\ UNCHANGED <<row, lastClaim>>
  /\ UNCHANGED <<clock, issued, token, startedAt, seen, processedBy>>

(* findOneBy: a processed message is skipped (claim returns null), a live  *)
(* lease refused (it throws); rows are never deleted, so one is found.     *)
LeaseIsLive(w) == row.status = "PROCESSING" /\ row.lease # NULL /\ row.lease > startedAt[w]

(* Seeded fault of ReadRow: a processed message is not skipped.            *)
ReadRowWithoutSkip(w) ==
  /\ pc[w] = "read"
  /\ ~LeaseIsLive(w)
  /\ seen' = [seen EXCEPT ![w] = row.status]
  /\ Goto(w, "updateFailed")
  /\ UNCHANGED <<clock, row, issued, token, startedAt, lastClaim, processedBy>>

ReadRow(w) ==
  /\ pc[w] = "read"
  /\ IF row.status = "PROCESSED" \/ LeaseIsLive(w)
       THEN Leave(w)
       ELSE /\ seen' = [seen EXCEPT ![w] = row.status]
            /\ Goto(w, "updateFailed")
            /\ UNCHANGED <<token, startedAt>>
  /\ UNCHANGED <<clock, row, issued, lastClaim, processedBy>>

(* UPDATE ... WHERE status = 'FAILED'.                                     *)
UpdateFailed(w) ==
  /\ pc[w] = "updateFailed"
  /\ \/ /\ row.status = "FAILED"
        /\ TakeRow(w)
        /\ UNCHANGED <<token, startedAt, seen>>
     \/ /\ row.status # "FAILED" /\ seen[w] = "PROCESSING"
        /\ Goto(w, "updateExpired")
        /\ UNCHANGED <<row, token, startedAt, seen, lastClaim>>
     \/ /\ row.status # "FAILED" /\ seen[w] # "PROCESSING"
        /\ Leave(w)
        /\ UNCHANGED <<row, lastClaim>>
  /\ UNCHANGED <<clock, issued, processedBy>>

(* Seeded fault of LeaseIsOver: the take-over trusts the lease it has read. *)
LeaseWasOver(w) == TRUE

(* UPDATE ... WHERE status = 'PROCESSING' and the lease is over or NULL.   *)
LeaseIsOver(w) == row.lease = NULL \/ row.lease <= startedAt[w]

UpdateExpired(w) ==
  /\ pc[w] = "updateExpired"
  /\ IF row.status = "PROCESSING" /\ LeaseIsOver(w)
       THEN TakeRow(w) /\ UNCHANGED <<token, startedAt, seen>>
       ELSE Leave(w) /\ UNCHANGED <<row, lastClaim>>
  /\ UNCHANGED <<clock, issued, processedBy>>

(* The consumer's operation returns, or throws.                            *)
Operate(w) ==
  /\ pc[w] = "working"
  /\ \E phase \in {"completing", "failing"} : Goto(w, phase)
  /\ UNCHANGED <<clock, row, issued, token, startedAt, seen, lastClaim, processedBy>>

(* markProcessed: throws when the claim was lost; the consumer's catch     *)
(* then calls markFailed.                                                  *)
MarkProcessed(w) ==
  /\ pc[w] = "completing"
  /\ \/ /\ HoldsRow(w)
        /\ row' = ClosedRow("PROCESSED")
        /\ processedBy' = processedBy \cup {token[w]}
        /\ Leave(w)
     \/ /\ ~HoldsRow(w)
        /\ Goto(w, "failing")
        /\ UNCHANGED <<row, token, startedAt, seen, processedBy>>
  /\ UNCHANGED <<clock, issued, lastClaim>>

(* The database connection breaks during markProcessed, before or after    *)
(* the statement takes effect: the consumer only sees an error.            *)
MarkProcessedBreaks(w) ==
  /\ pc[w] = "completing"
  /\ Goto(w, "failing")
  /\ \/ UNCHANGED <<row, processedBy>>
     \/ /\ HoldsRow(w)
        /\ row' = ClosedRow("PROCESSED")
        /\ processedBy' = processedBy \cup {token[w]}
  /\ UNCHANGED <<clock, issued, token, startedAt, seen, lastClaim>>

(* markFailed: whether it matches the row or throws, the delivery ends     *)
(* rejected.                                                               *)
MarkFailed(w) ==
  /\ pc[w] = "failing"
  /\ row' = IF HoldsRow(w) THEN ClosedRow("FAILED") ELSE row
  /\ Leave(w)
  /\ UNCHANGED <<clock, issued, lastClaim, processedBy>>

(* The replica dies, or the connection breaks in any other statement: the  *)
(* token is forgotten and the row stays as the statement left it.          *)
Crash(w) ==
  /\ pc[w] # "idle"
  /\ Leave(w)
  /\ UNCHANGED <<clock, row, issued, lastClaim, processedBy>>

Tick ==
  /\ clock < MaxClock
  /\ clock' = clock + 1
  /\ UNCHANGED <<row, issued, pc, token, startedAt, seen, lastClaim, processedBy>>

Next ==
  \/ Tick
  \/ \E w \in Worker :
       \/ StartClaim(w) \/ InsertRow(w) \/ ReadRow(w)
       \/ UpdateFailed(w) \/ UpdateExpired(w) \/ Operate(w)
       \/ MarkProcessed(w) \/ MarkProcessedBreaks(w) \/ MarkFailed(w) \/ Crash(w)

Spec == Init /\ [][Next]_vars

-----------------------------------------------------------------------------
(* Two deliveries of a message are worked on at the same time only after   *)
(* the lease of one of them has run out (claim, markFailed).               *)
NoOverlapWithinLease ==
  \A v, w \in Worker :
    v # w /\ Engaged(v) /\ Engaged(w) => LeaseEnd(v) <= clock \/ LeaseEnd(w) <= clock

(* Only the latest claim completes a message: a worker whose expired claim *)
(* was taken over cannot mark it processed (claimToken in the WHERE of     *)
(* markProcessed).                                                         *)
OnlyLatestClaimCompletes == processedBy \subseteq {lastClaim}

(* A processed row is never claimed, failed or changed again, whatever     *)
(* statements are still in flight.                                         *)
ProcessedIsFinal == [][row.status = "PROCESSED" => UNCHANGED <<row, lastClaim>>]_vars

(* The ledger implements the fencing-token promise.                        *)
Job == INSTANCE FencedJob WITH
  None   <- NULL,
  holder <- row.token,
  winner <- IF row.status = "PROCESSED" THEN lastClaim ELSE NULL

IsFencedJob == Job!Spec
=============================================================================
