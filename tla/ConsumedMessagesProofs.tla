----------------------- MODULE ConsumedMessagesProofs -----------------------
(***************************************************************************)
(* Proofs about the consumed-message ledger, for any number of workers,    *)
(* any lease and any column precision.                                     *)
(***************************************************************************)
EXTENDS ConsumedMessages, TLAPS

-----------------------------------------------------------------------------
(* The inductive invariant, by parts.                                      *)

(* Tokens are drawn from a counter, so workers never share one.            *)
TokensDistinct ==
  /\ \A w \in Worker : /\ (pc[w] = "idle") <=> (token[w] = NULL)
                       /\ token[w] # NULL => token[w] <= issued
  /\ \A v, w \in Worker : v # w /\ token[v] # NULL => token[v] # token[w]

StartedInPast == \A w \in Worker : startedAt[w] <= clock

(* The token in the row is that of the latest claim.                       *)
RowIsLatestClaim == row.token # NULL => row.status = "PROCESSING" /\ row.token = lastClaim

ReadersFoundRow == \A w \in Worker : pc[w] = "read" => row.status # "ABSENT"

(* A worker that has a claim still holds the row, or its lease is over, or *)
(* the message is processed.                                               *)
EngagedHoldOrExpired ==
  \A w \in Worker : Engaged(w) =>
    \/ HoldsRow(w) /\ row.lease = LeaseEnd(w)
    \/ LeaseEnd(w) <= clock
    \/ row.status = "PROCESSED"

ProcessedOnce ==
  /\ row.status = "PROCESSED" => lastClaim # NULL /\ processedBy = {lastClaim}
  /\ row.status # "PROCESSED" => processedBy = {}

IInv == /\ TypeOK
        /\ TokensDistinct
        /\ StartedInPast
        /\ RowIsLatestClaim
        /\ ReadersFoundRow
        /\ EngagedHoldOrExpired
        /\ ProcessedOnce
        /\ NoOverlapWithinLease

-----------------------------------------------------------------------------
(* Rounding an instant to the column's unit gives an instant.              *)
LEMMA StoredNat == \A t \in Nat : Stored(t) \in Nat
<1> SUFFICES ASSUME NEW t \in Nat PROVE Stored(t) \in Nat
  OBVIOUS
<1>1. Precision \in Nat /\ Precision > 0 /\ Precision \div 2 \in Nat
  BY TimeAssumption
<1>2. (t + Precision \div 2) \div Precision \in Nat
  BY <1>1
<1> QED
  BY <1>1, <1>2 DEF Stored

(* LeaseEnd of a worker is an instant.                                     *)
LEMMA LeaseEndNat == TypeOK => \A w \in Worker : LeaseEnd(w) \in Nat
<1> SUFFICES ASSUME TypeOK, NEW w \in Worker PROVE LeaseEnd(w) \in Nat
  OBVIOUS
<1> QED
  BY StoredNat, TimeAssumption DEF TypeOK, LeaseEnd

-----------------------------------------------------------------------------
(* The first state satisfies every part of the inductive invariant.        *)
LEMMA InitEstablishesIInv == Init => IInv
  BY WorkerAssumption
  DEF Init, IInv, TypeOK, TokensDistinct, StartedInPast, RowIsLatestClaim, ReadersFoundRow,
      EngagedHoldOrExpired, ProcessedOnce, NoOverlapWithinLease, ClosedRow, Engaged,
      Row, Phase, Token

(* Every statement of every worker preserves it.                           *)
LEMMA NextPreservesIInv == IInv /\ [Next]_vars => IInv'
<1> SUFFICES ASSUME IInv, [Next]_vars PROVE IInv'
  OBVIOUS
<1> USE WorkerAssumption, LeaseEndNat
    DEF Goto, Leave, TakeRow, ClaimedRow, ClosedRow, HoldsRow, Engaged
<1>a. /\ TypeOK /\ TokensDistinct /\ StartedInPast /\ RowIsLatestClaim /\ ReadersFoundRow
      /\ EngagedHoldOrExpired /\ ProcessedOnce /\ NoOverlapWithinLease
  BY DEF IInv
<1>0. CASE UNCHANGED vars
  BY <1>0, <1>a
  DEF vars, IInv, TypeOK, TokensDistinct, StartedInPast, RowIsLatestClaim, ReadersFoundRow,
      EngagedHoldOrExpired, ProcessedOnce, NoOverlapWithinLease, LeaseEnd
<1>1. CASE Tick
  <2>1. TypeOK'
    BY <1>1, <1>a DEF Tick, TypeOK, Row, Phase, Token
  <2>2. TokensDistinct' /\ StartedInPast'
    BY <1>1, <1>a DEF Tick, TypeOK, Token, TokensDistinct, StartedInPast
  <2>3. RowIsLatestClaim' /\ ReadersFoundRow' /\ ProcessedOnce'
    BY <1>1, <1>a DEF Tick, TypeOK, Row, Token, TokensDistinct, RowIsLatestClaim,
       ReadersFoundRow, ProcessedOnce
  <2>4. EngagedHoldOrExpired'
    BY <1>1, <1>a DEF Tick, TypeOK, Row, Token, TokensDistinct, StartedInPast, RowIsLatestClaim,
       EngagedHoldOrExpired, LeaseEnd
  <2>5. NoOverlapWithinLease'
    BY <1>1, <1>a DEF Tick, TypeOK, Row, Token, TokensDistinct, StartedInPast,
       EngagedHoldOrExpired, NoOverlapWithinLease, LeaseEnd
  <2> QED
    BY <2>1, <2>2, <2>3, <2>4, <2>5 DEF IInv
<1>2. ASSUME NEW w \in Worker, StartClaim(w) PROVE IInv'
  <2>1. TypeOK'
    BY <1>2, <1>a DEF StartClaim, TypeOK, Row, Phase, Token
  <2>2. TokensDistinct' /\ StartedInPast'
    BY <1>2, <1>a DEF StartClaim, TypeOK, Token, TokensDistinct, StartedInPast
  <2>3. RowIsLatestClaim' /\ ReadersFoundRow' /\ ProcessedOnce'
    BY <1>2, <1>a DEF StartClaim, TypeOK, Row, Token, TokensDistinct, RowIsLatestClaim,
       ReadersFoundRow, ProcessedOnce
  <2>4. EngagedHoldOrExpired'
    BY <1>2, <1>a DEF StartClaim, TypeOK, Row, Token, TokensDistinct, StartedInPast, RowIsLatestClaim,
       EngagedHoldOrExpired, LeaseEnd
  <2>5. NoOverlapWithinLease'
    BY <1>2, <1>a DEF StartClaim, TypeOK, Row, Token, TokensDistinct, StartedInPast,
       EngagedHoldOrExpired, NoOverlapWithinLease, LeaseEnd
  <2> QED
    BY <2>1, <2>2, <2>3, <2>4, <2>5 DEF IInv
<1>3. ASSUME NEW w \in Worker, InsertRow(w) PROVE IInv'
  <2>1. TypeOK'
    BY <1>3, <1>a DEF InsertRow, TypeOK, Row, Phase, Token
  <2>2. TokensDistinct' /\ StartedInPast'
    BY <1>3, <1>a DEF InsertRow, TypeOK, Token, TokensDistinct, StartedInPast
  <2>3. RowIsLatestClaim' /\ ReadersFoundRow' /\ ProcessedOnce'
    BY <1>3, <1>a DEF InsertRow, TypeOK, Row, Token, TokensDistinct, RowIsLatestClaim,
       ReadersFoundRow, ProcessedOnce
  <2>4. EngagedHoldOrExpired'
    BY <1>3, <1>a DEF InsertRow, TypeOK, Row, Token, TokensDistinct, StartedInPast, RowIsLatestClaim,
       EngagedHoldOrExpired, LeaseEnd
  <2>5. NoOverlapWithinLease'
    BY <1>3, <1>a DEF InsertRow, TypeOK, Row, Token, TokensDistinct, StartedInPast,
       EngagedHoldOrExpired, NoOverlapWithinLease, LeaseEnd
  <2> QED
    BY <2>1, <2>2, <2>3, <2>4, <2>5 DEF IInv
<1>4. ASSUME NEW w \in Worker, ReadRow(w) PROVE IInv'
  <2>1. TypeOK'
    BY <1>4, <1>a DEF ReadRow, TypeOK, Row, Phase, Token, ReadersFoundRow
  <2>2. TokensDistinct' /\ StartedInPast'
    BY <1>4, <1>a DEF ReadRow, TypeOK, Token, TokensDistinct, StartedInPast
  <2>3. RowIsLatestClaim' /\ ReadersFoundRow' /\ ProcessedOnce'
    BY <1>4, <1>a DEF ReadRow, TypeOK, Row, Token, TokensDistinct, RowIsLatestClaim,
       ReadersFoundRow, ProcessedOnce
  <2>4. EngagedHoldOrExpired'
    BY <1>4, <1>a DEF ReadRow, LeaseIsLive, TypeOK, Row, Token, TokensDistinct, StartedInPast, RowIsLatestClaim,
       EngagedHoldOrExpired, LeaseEnd
  <2>5. NoOverlapWithinLease'
    BY <1>4, <1>a DEF ReadRow, LeaseIsLive, TypeOK, Row, Token, TokensDistinct, StartedInPast,
       EngagedHoldOrExpired, NoOverlapWithinLease, LeaseEnd
  <2> QED
    BY <2>1, <2>2, <2>3, <2>4, <2>5 DEF IInv
<1>5. ASSUME NEW w \in Worker, UpdateFailed(w) PROVE IInv'
  <2>1. TypeOK'
    BY <1>5, <1>a DEF UpdateFailed, TypeOK, Row, Phase, Token
  <2>2. TokensDistinct' /\ StartedInPast'
    BY <1>5, <1>a DEF UpdateFailed, TypeOK, Token, TokensDistinct, StartedInPast
  <2>3. RowIsLatestClaim' /\ ReadersFoundRow' /\ ProcessedOnce'
    BY <1>5, <1>a DEF UpdateFailed, TypeOK, Row, Token, TokensDistinct, RowIsLatestClaim,
       ReadersFoundRow, ProcessedOnce
  <2>4. EngagedHoldOrExpired'
    BY <1>5, <1>a DEF UpdateFailed, TypeOK, Row, Token, TokensDistinct, StartedInPast, RowIsLatestClaim,
       EngagedHoldOrExpired, LeaseEnd
  <2>5. NoOverlapWithinLease'
    BY <1>5, <1>a DEF UpdateFailed, TypeOK, Row, Token, TokensDistinct, StartedInPast,
       EngagedHoldOrExpired, NoOverlapWithinLease, LeaseEnd
  <2> QED
    BY <2>1, <2>2, <2>3, <2>4, <2>5 DEF IInv
<1>6. ASSUME NEW w \in Worker, UpdateExpired(w) PROVE IInv'
  <2>1. TypeOK'
    BY <1>6, <1>a DEF UpdateExpired, TypeOK, Row, Phase, Token
  <2>2. TokensDistinct' /\ StartedInPast'
    BY <1>6, <1>a DEF UpdateExpired, TypeOK, Token, TokensDistinct, StartedInPast
  <2>3. RowIsLatestClaim' /\ ReadersFoundRow' /\ ProcessedOnce'
    BY <1>6, <1>a DEF UpdateExpired, LeaseIsOver, TypeOK, Row, Token, TokensDistinct, RowIsLatestClaim,
       ReadersFoundRow, ProcessedOnce
  <2>4. EngagedHoldOrExpired'
    BY <1>6, <1>a DEF UpdateExpired, LeaseIsOver, TypeOK, Row, Token, TokensDistinct, StartedInPast, RowIsLatestClaim,
       EngagedHoldOrExpired, LeaseEnd
  <2>5. NoOverlapWithinLease'
    BY <1>6, <1>a DEF UpdateExpired, LeaseIsOver, TypeOK, Row, Token, TokensDistinct, StartedInPast,
       EngagedHoldOrExpired, NoOverlapWithinLease, LeaseEnd
  <2> QED
    BY <2>1, <2>2, <2>3, <2>4, <2>5 DEF IInv
<1>7. ASSUME NEW w \in Worker, Operate(w) PROVE IInv'
  <2>1. TypeOK'
    BY <1>7, <1>a DEF Operate, TypeOK, Row, Phase, Token
  <2>2. TokensDistinct' /\ StartedInPast'
    BY <1>7, <1>a DEF Operate, TypeOK, Token, TokensDistinct, StartedInPast
  <2>3. RowIsLatestClaim' /\ ReadersFoundRow' /\ ProcessedOnce'
    BY <1>7, <1>a DEF Operate, TypeOK, Row, Token, TokensDistinct, RowIsLatestClaim,
       ReadersFoundRow, ProcessedOnce
  <2>4. EngagedHoldOrExpired'
    BY <1>7, <1>a DEF Operate, TypeOK, Row, Token, TokensDistinct, StartedInPast, RowIsLatestClaim,
       EngagedHoldOrExpired, LeaseEnd
  <2>5. NoOverlapWithinLease'
    BY <1>7, <1>a DEF Operate, TypeOK, Row, Token, TokensDistinct, StartedInPast,
       EngagedHoldOrExpired, NoOverlapWithinLease, LeaseEnd
  <2> QED
    BY <2>1, <2>2, <2>3, <2>4, <2>5 DEF IInv
<1>8. ASSUME NEW w \in Worker, MarkProcessed(w) PROVE IInv'
  <2>1. TypeOK'
    <3>1. token[w] \in Token
      BY <1>8, <1>a DEF MarkProcessed, TypeOK, TokensDistinct
    <3>2. processedBy' \subseteq Token
      <4>1. processedBy' \subseteq processedBy \cup {token[w]}
        BY <1>8, <1>a DEF MarkProcessed
      <4> QED
        BY <1>a, <3>1, <4>1 DEF TypeOK
    <3>3. row' \in Row
      BY <1>8, <1>a DEF MarkProcessed, TypeOK, Row
    <3> QED
      BY <1>8, <1>a, <3>2, <3>3 DEF MarkProcessed, TypeOK, Phase
  <2>2. TokensDistinct' /\ StartedInPast'
    BY <1>8, <1>a DEF MarkProcessed, TypeOK, Token, TokensDistinct, StartedInPast
  <2>3. RowIsLatestClaim' /\ ReadersFoundRow' /\ ProcessedOnce'
    <3>1. CASE UNCHANGED <<row, processedBy>>
      BY <1>8, <1>a, <3>1 DEF MarkProcessed, TypeOK, RowIsLatestClaim, ReadersFoundRow, ProcessedOnce
    <3>2. CASE HoldsRow(w) /\ row' = ClosedRow("PROCESSED") /\ processedBy' = processedBy \cup {token[w]}
      <4>1. lastClaim = token[w] /\ token[w] # NULL /\ processedBy = {}
        BY <1>8, <1>a, <3>2 DEF MarkProcessed, TokensDistinct, RowIsLatestClaim, ProcessedOnce
      <4>2. processedBy' = {lastClaim}
        BY <3>2, <4>1
      <4> QED
        BY <1>8, <1>a, <3>2, <4>1, <4>2 DEF MarkProcessed, TypeOK, RowIsLatestClaim, ReadersFoundRow, ProcessedOnce
    <3> QED
      BY <1>8, <1>a, <3>1, <3>2 DEF MarkProcessed
  <2>4. EngagedHoldOrExpired'
    BY <1>8, <1>a DEF MarkProcessed, TypeOK, Row, Token, TokensDistinct, StartedInPast, RowIsLatestClaim,
       EngagedHoldOrExpired, LeaseEnd
  <2>5. NoOverlapWithinLease'
    BY <1>8, <1>a DEF MarkProcessed, TypeOK, Row, Token, TokensDistinct, StartedInPast,
       EngagedHoldOrExpired, NoOverlapWithinLease, LeaseEnd
  <2> QED
    BY <2>1, <2>2, <2>3, <2>4, <2>5 DEF IInv
<1>9. ASSUME NEW w \in Worker, MarkProcessedBreaks(w) PROVE IInv'
  <2>1. TypeOK'
    <3>1. token[w] \in Token
      BY <1>9, <1>a DEF MarkProcessedBreaks, TypeOK, TokensDistinct
    <3>2. processedBy' \subseteq Token
      <4>1. processedBy' \subseteq processedBy \cup {token[w]}
        BY <1>9, <1>a DEF MarkProcessedBreaks
      <4> QED
        BY <1>a, <3>1, <4>1 DEF TypeOK
    <3>3. row' \in Row
      BY <1>9, <1>a DEF MarkProcessedBreaks, TypeOK, Row
    <3> QED
      BY <1>9, <1>a, <3>2, <3>3 DEF MarkProcessedBreaks, TypeOK, Phase
  <2>2. TokensDistinct' /\ StartedInPast'
    BY <1>9, <1>a DEF MarkProcessedBreaks, TypeOK, Token, TokensDistinct, StartedInPast
  <2>3. RowIsLatestClaim' /\ ReadersFoundRow' /\ ProcessedOnce'
    <3>1. CASE UNCHANGED <<row, processedBy>>
      BY <1>9, <1>a, <3>1 DEF MarkProcessedBreaks, TypeOK, RowIsLatestClaim, ReadersFoundRow, ProcessedOnce
    <3>2. CASE HoldsRow(w) /\ row' = ClosedRow("PROCESSED") /\ processedBy' = processedBy \cup {token[w]}
      <4>1. lastClaim = token[w] /\ token[w] # NULL /\ processedBy = {}
        BY <1>9, <1>a, <3>2 DEF MarkProcessedBreaks, TokensDistinct, RowIsLatestClaim, ProcessedOnce
      <4>2. processedBy' = {lastClaim}
        BY <3>2, <4>1
      <4> QED
        BY <1>9, <1>a, <3>2, <4>1, <4>2 DEF MarkProcessedBreaks, TypeOK, RowIsLatestClaim, ReadersFoundRow, ProcessedOnce
    <3> QED
      BY <1>9, <1>a, <3>1, <3>2 DEF MarkProcessedBreaks
  <2>4. EngagedHoldOrExpired'
    BY <1>9, <1>a DEF MarkProcessedBreaks, TypeOK, Row, Token, TokensDistinct, StartedInPast, RowIsLatestClaim,
       EngagedHoldOrExpired, LeaseEnd
  <2>5. NoOverlapWithinLease'
    BY <1>9, <1>a DEF MarkProcessedBreaks, TypeOK, Row, Token, TokensDistinct, StartedInPast,
       EngagedHoldOrExpired, NoOverlapWithinLease, LeaseEnd
  <2> QED
    BY <2>1, <2>2, <2>3, <2>4, <2>5 DEF IInv
<1>10. ASSUME NEW w \in Worker, MarkFailed(w) PROVE IInv'
  <2>1. TypeOK'
    BY <1>10, <1>a DEF MarkFailed, TypeOK, Row, Phase, Token
  <2>2. TokensDistinct' /\ StartedInPast'
    BY <1>10, <1>a DEF MarkFailed, TypeOK, Token, TokensDistinct, StartedInPast
  <2>3. RowIsLatestClaim' /\ ReadersFoundRow' /\ ProcessedOnce'
    BY <1>10, <1>a DEF MarkFailed, TypeOK, Row, Token, TokensDistinct, RowIsLatestClaim,
       ReadersFoundRow, ProcessedOnce
  <2>4. EngagedHoldOrExpired'
    BY <1>10, <1>a DEF MarkFailed, TypeOK, Row, Token, TokensDistinct, StartedInPast, RowIsLatestClaim,
       EngagedHoldOrExpired, LeaseEnd
  <2>5. NoOverlapWithinLease'
    BY <1>10, <1>a DEF MarkFailed, TypeOK, Row, Token, TokensDistinct, StartedInPast,
       EngagedHoldOrExpired, NoOverlapWithinLease, LeaseEnd
  <2> QED
    BY <2>1, <2>2, <2>3, <2>4, <2>5 DEF IInv
<1>11. ASSUME NEW w \in Worker, Crash(w) PROVE IInv'
  <2>1. TypeOK'
    BY <1>11, <1>a DEF Crash, TypeOK, Row, Phase, Token
  <2>2. TokensDistinct' /\ StartedInPast'
    BY <1>11, <1>a DEF Crash, TypeOK, Token, TokensDistinct, StartedInPast
  <2>3. RowIsLatestClaim' /\ ReadersFoundRow' /\ ProcessedOnce'
    BY <1>11, <1>a DEF Crash, TypeOK, Row, Token, TokensDistinct, RowIsLatestClaim,
       ReadersFoundRow, ProcessedOnce
  <2>4. EngagedHoldOrExpired'
    BY <1>11, <1>a DEF Crash, TypeOK, Row, Token, TokensDistinct, StartedInPast, RowIsLatestClaim,
       EngagedHoldOrExpired, LeaseEnd
  <2>5. NoOverlapWithinLease'
    BY <1>11, <1>a DEF Crash, TypeOK, Row, Token, TokensDistinct, StartedInPast,
       EngagedHoldOrExpired, NoOverlapWithinLease, LeaseEnd
  <2> QED
    BY <2>1, <2>2, <2>3, <2>4, <2>5 DEF IInv
<1> QED
  BY <1>0, <1>1, <1>2, <1>3, <1>4, <1>5, <1>6, <1>7, <1>8, <1>9, <1>10, <1>11 DEF Next

(* The inductive invariant holds in every behaviour.                       *)
LEMMA LedgerInvariant == Spec => []IInv
  BY InitEstablishesIInv, NextPreservesIInv, PTL DEF Spec

-----------------------------------------------------------------------------
(* The ledger's variables keep the types declared for them; that claim()   *)
(* never records a status it cannot go on from is part of it.              *)
THEOREM TypeCorrect == Spec => []TypeOK
<1>1. IInv => TypeOK
  BY DEF IInv
<1> QED
  BY <1>1, LedgerInvariant, PTL

(* At most one delivery works on a message while its lease lasts (claim).  *)
THEOREM Exclusion == Spec => []NoOverlapWithinLease
<1>1. IInv => NoOverlapWithinLease
  BY DEF IInv
<1> QED
  BY <1>1, LedgerInvariant, PTL

(* A worker whose claim was taken over never completes the message         *)
(* (markProcessed).                                                        *)
THEOREM Fencing == Spec => []OnlyLatestClaimCompletes
<1>1. IInv => OnlyLatestClaimCompletes
  BY DEF IInv, ProcessedOnce, OnlyLatestClaimCompletes
<1> QED
  BY <1>1, LedgerInvariant, PTL

(* No statement in flight changes a processed row.                         *)
LEMMA StepKeepsProcessed ==
  IInv /\ [Next]_vars => (row.status = "PROCESSED" => UNCHANGED <<row, lastClaim>>)
<1> SUFFICES ASSUME IInv, [Next]_vars, row.status = "PROCESSED"
             PROVE  UNCHANGED <<row, lastClaim>>
  OBVIOUS
<1> USE DEF HoldsRow
<1>0. CASE UNCHANGED vars
  BY <1>0 DEF vars
<1>1. CASE Tick
  BY <1>1 DEF Tick
<1>2. ASSUME NEW w \in Worker, StartClaim(w) PROVE UNCHANGED <<row, lastClaim>>
  BY <1>2 DEF StartClaim
<1>3. ASSUME NEW w \in Worker, InsertRow(w) PROVE UNCHANGED <<row, lastClaim>>
  BY <1>3 DEF InsertRow
<1>4. ASSUME NEW w \in Worker, UpdateFailed(w) PROVE UNCHANGED <<row, lastClaim>>
  BY <1>4 DEF UpdateFailed
<1>5. ASSUME NEW w \in Worker, UpdateExpired(w) PROVE UNCHANGED <<row, lastClaim>>
  BY <1>5 DEF UpdateExpired
<1>6. ASSUME NEW w \in Worker, MarkProcessed(w) \/ MarkProcessedBreaks(w) \/ MarkFailed(w)
      PROVE  UNCHANGED <<row, lastClaim>>
  BY <1>6 DEF MarkProcessed, MarkProcessedBreaks, MarkFailed
<1>7. ASSUME NEW w \in Worker, ReadRow(w) \/ Operate(w) \/ Crash(w)
      PROVE  UNCHANGED <<row, lastClaim>>
  BY <1>7 DEF ReadRow, Operate, Crash
<1> QED
  BY <1>0, <1>1, <1>2, <1>3, <1>4, <1>5, <1>6, <1>7 DEF Next

(* A message is processed once and for all.                                *)
THEOREM Finality == Spec => ProcessedIsFinal
  BY LedgerInvariant, StepKeepsProcessed, PTL DEF Spec, ProcessedIsFinal

-----------------------------------------------------------------------------
(* Every step of the ledger is a step of the fencing token or leaves it    *)
(* alone: a claim acquires, markFailed abandons, markProcessed completes.  *)
LEMMA StepRefinesFencedJob == IInv /\ [Next]_vars => [Job!Next]_(Job!vars)
<1> SUFFICES ASSUME IInv, [Next]_vars PROVE [Job!Next]_(Job!vars)
  OBVIOUS
<1> USE DEF Goto, Leave, ClosedRow, HoldsRow
<1>a. TypeOK /\ TokensDistinct /\ RowIsLatestClaim /\ ReadersFoundRow
  BY DEF IInv
<1>b. ASSUME UNCHANGED <<row, lastClaim>> PROVE UNCHANGED Job!vars
  BY <1>b DEF Job!vars
<1>c. ASSUME NEW w \in Worker, pc[w] # "idle", row.status # "PROCESSED", TakeRow(w)
      PROVE  Job!Acquire
  <2>1. token[w] \in Token
    BY <1>a, <1>c DEF TypeOK, TokensDistinct
  <2>2. row'.token = token[w] /\ row'.status = "PROCESSING"
    BY <1>c DEF TakeRow, ClaimedRow
  <2> QED
    BY <1>c, <2>1, <2>2 DEF Job!Acquire
<1>d. ASSUME NEW w \in Worker, pc[w] # "idle", HoldsRow(w), row' = ClosedRow("PROCESSED"),
             lastClaim' = lastClaim
      PROVE  Job!Complete
  <2>1. token[w] # NULL /\ lastClaim = row.token
    BY <1>a, <1>d DEF TokensDistinct, RowIsLatestClaim
  <2> QED
    BY <1>d, <2>1 DEF Job!Complete
<1>0. CASE UNCHANGED vars
  BY <1>0, <1>b DEF vars
<1>1. CASE Tick
  BY <1>1, <1>b DEF Tick
<1>2. ASSUME NEW w \in Worker, StartClaim(w) \/ ReadRow(w) \/ Operate(w) \/ Crash(w)
      PROVE  UNCHANGED Job!vars
  BY <1>2, <1>b DEF StartClaim, ReadRow, Operate, Crash
<1>3. ASSUME NEW w \in Worker, InsertRow(w) PROVE [Job!Next]_(Job!vars)
  <2>1. CASE row.status = "ABSENT" /\ TakeRow(w)
    BY <1>3, <1>c, <2>1 DEF InsertRow, Job!Next
  <2>2. CASE UNCHANGED <<row, lastClaim>>
    BY <2>2, <1>b
  <2> QED
    BY <1>3, <2>1, <2>2 DEF InsertRow
<1>4. ASSUME NEW w \in Worker, UpdateFailed(w) PROVE [Job!Next]_(Job!vars)
  <2>1. CASE row.status = "FAILED" /\ TakeRow(w)
    BY <1>4, <1>c, <2>1 DEF UpdateFailed, Job!Next
  <2>2. CASE UNCHANGED <<row, lastClaim>>
    BY <2>2, <1>b
  <2> QED
    BY <1>4, <2>1, <2>2 DEF UpdateFailed
<1>5. ASSUME NEW w \in Worker, UpdateExpired(w) PROVE [Job!Next]_(Job!vars)
  <2>1. CASE row.status = "PROCESSING" /\ TakeRow(w)
    BY <1>5, <1>c, <2>1 DEF UpdateExpired, Job!Next
  <2>2. CASE UNCHANGED <<row, lastClaim>>
    BY <2>2, <1>b
  <2> QED
    BY <1>5, <2>1, <2>2 DEF UpdateExpired
<1>6. ASSUME NEW w \in Worker, MarkProcessed(w) \/ MarkProcessedBreaks(w)
      PROVE  [Job!Next]_(Job!vars)
  <2>1. CASE HoldsRow(w) /\ row' = ClosedRow("PROCESSED")
    BY <1>6, <1>d, <2>1 DEF MarkProcessed, MarkProcessedBreaks, Job!Next
  <2>2. CASE UNCHANGED row
    BY <1>6, <1>b, <2>2 DEF MarkProcessed, MarkProcessedBreaks
  <2> QED
    BY <1>6, <2>1, <2>2 DEF MarkProcessed, MarkProcessedBreaks
<1>7. ASSUME NEW w \in Worker, MarkFailed(w) PROVE [Job!Next]_(Job!vars)
  <2>1. CASE HoldsRow(w)
    <3>1. row.token # NULL /\ row'.token = NULL /\ row'.status = "FAILED"
      BY <1>7, <1>a, <2>1 DEF MarkFailed, TokensDistinct
    <3> QED
      BY <2>1, <3>1 DEF Job!Next, Job!Abandon
  <2>2. CASE ~HoldsRow(w)
    BY <1>7, <1>b, <2>2 DEF MarkFailed
  <2> QED
    BY <2>1, <2>2
<1> QED
  BY <1>0, <1>1, <1>2, <1>3, <1>4, <1>5, <1>6, <1>7 DEF Next

(* The ledger implements the fencing-token promise of FencedJob.           *)
THEOREM Refinement == Spec => IsFencedJob
<1>1. Init => Job!Init
  BY DEF Init, ClosedRow, Job!Init
<1> QED
  BY <1>1, LedgerInvariant, StepRefinesFencedJob, PTL DEF Spec, IsFencedJob, Job!Spec
=============================================================================
