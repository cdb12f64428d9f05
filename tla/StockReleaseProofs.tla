------------------------- MODULE StockReleaseProofs -------------------------
(***************************************************************************)
(* Proofs about the release of stock, for any workers, parts, orders and   *)
(* commands.                                                               *)
(***************************************************************************)
EXTENDS StockRelease, SumTheorems

-----------------------------------------------------------------------------
(* Some part of a set of parts comes first.                                *)
LEMMA FirstPart ==
  ASSUME NEW T \in SUBSET Part, T # {}
  PROVE  \E p \in T : \A q \in T : p <= q
<1>1. IsFiniteSet(T) /\ T \subseteq Int
  BY PartAssumption, FS_Subset
<1> QED
  BY <1>1, LeastOfFinite

(* A worker that has parts to do has one to do next.                       *)
LEMMA ItemIsToDo ==
  ASSUME NEW w \in Worker, request[w] \in Request, ToDo(w) # {}
  PROVE  Item(w) \in ToDo(w)
<1>1. ToDo(w) \in SUBSET Part
  BY RequestAssumption DEF ToDo, Valid, IsNormalized, IsPartMap
<1>2. \E p \in ToDo(w) : \A q \in ToDo(w) : p <= q
  BY <1>1, FirstPart
<1> QED
  BY <1>2 DEF Item

-----------------------------------------------------------------------------
(* The inductive invariant, by parts.                                      *)

InTransaction(w) == pc[w] \in {"lockReservation", "lockPart", "commit"}

OperationLock(w) == <<"operation", request[w].id>>
ReservationLock(w, p) == <<"reservation", <<request[w].order, p>>>>
PartLock(p) == <<"part", p>>

(* A row is locked by one transaction at a time.                           *)
LocksAreExclusive ==
  \A v, w \in Worker : v # w => held[v] \cap held[w] = {}

(* Where the handling of a command is, and what it then knows.             *)
Matches(w, p) ==
  /\ reservation[request[w].order][p].status = "RESERVED"
  /\ reservation[request[w].order][p].quantity = request[w].items[p]

PhaseHolds(w) ==
  /\ pc[w] # "idle" => request[w] \in Request
  /\ InTransaction(w) => operation[request[w].id] = NULL /\ OperationLock(w) \in held[w]
  /\ ~InTransaction(w) => held[w] = {} /\ DOMAIN verdict[w] = {} /\ DOMAIN write[w] = {}
  /\ pc[w] \in {"lockReservation", "lockPart"} => ToDo(w) # {}
  /\ pc[w] = "lockPart" => ReservationLock(w, Item(w)) \in held[w] /\ Matches(w, Item(w))
  /\ pc[w] = "commit" => ToDo(w) = {}
  /\ pc[w] = "publish" => operation[request[w].id] # NULL

(* A judgement that has been made stays right, because the rows it rests   *)
(* on are locked.                                                          *)
Moved(row, quantity) ==
  [row EXCEPT !.available = @ + quantity, !.reserved = @ - quantity]

IsGranted(w, p) ==
  /\ PartLock(p) \in held[w]
  /\ Matches(w, p) /\ stock[p].reserved >= request[w].items[p]
  /\ p \in DOMAIN write[w]
  /\ write[w][p] = Moved(stock[p], request[w].items[p])

IsRefused(w, p) ==
  /\ p \notin DOMAIN write[w]
  /\ \/ ~Matches(w, p)
     \/ PartLock(p) \in held[w] /\ stock[p].reserved < request[w].items[p]

JudgementHolds(w, p) ==
  /\ ReservationLock(w, p) \in held[w]
  /\ IF verdict[w][p] = "RELEASED" THEN IsGranted(w, p) ELSE IsRefused(w, p)

JudgementsHold(w) ==
  InTransaction(w) =>
    /\ DOMAIN write[w] \subseteq DOMAIN verdict[w]
    /\ DOMAIN verdict[w] \subseteq DOMAIN request[w].items
    /\ \A p \in DOMAIN verdict[w] : JudgementHolds(w, p)

(* Since the snapshot, units have only come back: so an entity always      *)
(* differs from the snapshot in both quantities, and save writes both.     *)
SnapshotIsOlder(w) ==
  pc[w] = "insert" \/ InTransaction(w) =>
    /\ snapshot[w] \in [stock : [Part -> StockRow],
                        reservation : [Order -> [Part -> ReservationRow(Command)]]]
    /\ \A p \in Part : /\ snapshot[w].stock[p].available <= stock[p].available
                       /\ snapshot[w].stock[p].reserved >= stock[p].reserved

(* A reservation is released by a command, or not at all.                  *)
ReleaserIsKnown ==
  \A o \in Order, p \in Part :
    reservation[o][p].releasedBy # {} => reservation[o][p].status = "RELEASED"

(* What is published is what is stored.                                    *)
PublishedIsStored ==
  \A e \in published :
    /\ e.command \in Command
    /\ operation[e.command] # NULL
    /\ e = EnvelopeOf(e.command)

ReleaseInv ==
  /\ TypeOK
  /\ LocksAreExclusive
  /\ \A w \in Worker : PhaseHolds(w) /\ JudgementsHold(w) /\ SnapshotIsOlder(w)
  /\ ReleaserIsKnown
  /\ ReportIsPhysical
  /\ StockConserved
  /\ PublishedIsStored

-----------------------------------------------------------------------------
(* The sums of the quantities are integers.                                *)
LEMMA QuantityInType ==
  ASSUME NEW p \in Part, NEW status, NEW E,
         reservation \in [Order -> [Part -> ReservationRow(E)]]
  PROVE  QuantityIn(p, status) \in Int
<1> DEFINE f == [o \in Order |-> reservation[o][p].quantity]
           S == {o \in Order : reservation[o][p].status = status}
<1>1. IsFiniteSet(S) /\ \A o \in S : f[o] \in Int
  BY OrderAssumption, FS_Subset DEF ReservationRow
<1> HIDE DEF f, S
<1>2. SumFunctionOnSet(f, S) \in Int
  BY <1>1, SumIsInteger
<1> QED
  BY <1>2 DEF QuantityIn, f, S

(* The empty function maps nothing, whatever its range.                    *)
LEMMA NoMap == ASSUME NEW R PROVE DOMAIN <<>> = {} /\ IsPartMap(<<>>, R)
  BY DEF IsPartMap

(* Nothing is at work at first, and the initial rows balance.              *)
LEMMA InitEstablishesReleaseInv == Init => ReleaseInv
<1> SUFFICES ASSUME Init PROVE ReleaseInv
  OBVIOUS
<1> USE DEF Init, TablesInit, WorkersInit
<1>1. reservation \in [Order -> [Part -> ReservationRow({})]]
  BY InitialAssumption
<1>2. \A o \in Order, p \in Part :
        /\ reservation[o][p] \in ReservationRow({})
        /\ reservation[o][p].releasedBy = {} /\ reservation[o][p].status # "RELEASED"
  BY <1>1, InitialAssumption DEF ReservationRow
<1>3. TypeOK
  <2>1. reservation \in [Order -> [Part -> ReservationRow(Command)]]
    <3>1. ReservationRow({}) \subseteq ReservationRow(Command)
      BY DEF ReservationRow
    <3> QED
      BY <1>1, <3>1
  <2>2. \A p \in Part : ReservedQuantity(p) \in Int
    BY <1>1, QuantityInType DEF ReservedQuantity
  <2>3. stock \in [Part -> StockRow]
    BY <2>2, InitialAssumption DEF StockRow
  <2>4. \A w \in Worker : IsPartMap(verdict[w], Verdict) /\ IsPartMap(write[w], StockRow)
    BY NoMap
  <2> QED
    BY <2>1, <2>3, <2>4 DEF TypeOK, Phase
<1>4. LocksAreExclusive
  BY DEF LocksAreExclusive
<1>5. \A w \in Worker : PhaseHolds(w) /\ JudgementsHold(w) /\ SnapshotIsOlder(w)
  BY NoMap DEF PhaseHolds, JudgementsHold, SnapshotIsOlder, InTransaction
<1>6. ReleaserIsKnown /\ ReportIsPhysical
  BY <1>2 DEF ReleaserIsKnown, ReportIsPhysical
<1>7. StockConserved
  <2> SUFFICES ASSUME NEW p \in Part
               PROVE  /\ stock[p].reserved = ReservedQuantity(p)
                      /\ stock[p].available = InitialAvailable[p] + QuantityIn(p, "RELEASED")
    BY DEF StockConserved
  <2>1. {o \in Order : reservation[o][p].status = "RELEASED"} = {}
    BY <1>2
  <2>2. QuantityIn(p, "RELEASED") = 0
    BY <2>1, SumOfNone DEF QuantityIn
  <2>3. InitialAvailable[p] \in Int
    BY InitialAssumption
  <2> QED
    BY <2>2, <2>3
<1>8. PublishedIsStored
  BY DEF PublishedIsStored
<1> QED
  BY <1>3, <1>4, <1>5, <1>6, <1>7, <1>8 DEF ReleaseInv

-----------------------------------------------------------------------------
(* The steps of a worker.                                                  *)

(* What a step has left alone.                                             *)
Untouched(v) ==
  UNCHANGED <<pc[v], request[v], snapshot[v], held[v], verdict[v], write[v]>>

Knows(v) == PhaseHolds(v) /\ JudgementsHold(v) /\ SnapshotIsOlder(v)

(* What a worker has judged and still has to do.                           *)
LEMMA SameItem ==
  ASSUME NEW v \in Worker, UNCHANGED <<request[v], verdict[v]>>
  PROVE  UNCHANGED <<ToDo(v), Item(v)>>
<1>1. ToDo(v)' = ToDo(v)
  BY DEF ToDo
<1> QED
  BY <1>1 DEF Item

(* While the rows stay, so does what the other workers know.               *)
LEMMA OthersStillKnow ==
  ASSUME NEW v \in Worker, Knows(v), Untouched(v), UNCHANGED <<tables, operation>>
  PROVE  Knows(v)'
<1>1. UNCHANGED <<ToDo(v), Item(v)>>
  BY SameItem DEF Untouched
<1>2. UNCHANGED <<InTransaction(v), OperationLock(v)>>
      /\ \A p : UNCHANGED <<ReservationLock(v, p), PartLock(p), Matches(v, p),
                            IsGranted(v, p), IsRefused(v, p)>>
  BY DEF Untouched, tables, InTransaction, OperationLock, ReservationLock, PartLock,
         Matches, IsGranted, IsRefused, Moved
<1>3. PhaseHolds(v)'
  BY <1>1, <1>2 DEF Knows, PhaseHolds, Untouched
<1>4. JudgementsHold(v)'
  BY <1>2 DEF Knows, JudgementsHold, JudgementHolds, Untouched
<1>5. SnapshotIsOlder(v)'
  BY <1>2 DEF Knows, SnapshotIsOlder, Untouched, tables
<1> QED
  BY <1>3, <1>4, <1>5 DEF Knows

(* And so does what the tables say.                                        *)
LEMMA TablesStillAgree ==
  ASSUME ReleaseInv, UNCHANGED <<tables, operation>>
  PROVE  ReleaserIsKnown' /\ ReportIsPhysical' /\ StockConserved'
<1>1. ReleaserIsKnown'
  BY DEF ReleaseInv, ReleaserIsKnown, tables
<1>2. ReportIsPhysical'
  BY DEF ReleaseInv, ReportIsPhysical, tables
<1>3. StockConserved'
  BY DEF ReleaseInv, StockConserved, ReservedQuantity, QuantityIn, tables
<1> QED
  BY <1>1, <1>2, <1>3

(* Envelopes come from the command rows.                                   *)
LEMMA EnvelopesStillAgree ==
  ASSUME PublishedIsStored, UNCHANGED <<operation, published>>
  PROVE  PublishedIsStored'
BY DEF PublishedIsStored, EnvelopeOf

(* After COMMIT, ROLLBACK or nothing at all, a worker holds nothing.       *)
LEMMA LocksStayExclusive ==
  ASSUME TypeOK, LocksAreExclusive, NEW w \in Worker,
         \/ held' = held
         \/ held' = [held EXCEPT ![w] = {}]
         \/ Lock(w) /\ Waits(w)
  PROVE  LocksAreExclusive'
<1> SUFFICES ASSUME NEW u \in Worker, NEW v \in Worker, u # v
             PROVE  held'[u] \cap held'[v] = {}
  BY DEF LocksAreExclusive
<1>1. held[u] \cap held[v] = {} /\ DOMAIN held = Worker
  BY DEF LocksAreExclusive, TypeOK
<1>2. CASE held' = [held EXCEPT ![w] = {}] \/ held' = held
  BY <1>1, <1>2
<1>3. CASE Lock(w) /\ Waits(w)
  <2>1. \A x \in Worker : x # w => Wanted(w) \notin held[x]
    BY <1>3 DEF Lock, WaitsFor
  <2>2. held' = [held EXCEPT ![w] = @ \cup {Wanted(w)}]
    BY <1>3 DEF Lock
  <2> QED
    BY <1>1, <2>1, <2>2
<1> QED
  BY <1>2, <1>3

-----------------------------------------------------------------------------
(* Steps that leave the rows alone.                                        *)

(* A step that changes no row has to be checked for its own worker only.   *)
LEMMA QuietStep ==
  ASSUME ReleaseInv, NEW w \in Worker, UNCHANGED <<tables, operation>>,
         \A v \in Worker \ {w} : Untouched(v),
         TypeOK', LocksAreExclusive', Knows(w)', PublishedIsStored'
  PROVE  ReleaseInv'
<1>1. \A v \in Worker : Knows(v)
  BY DEF ReleaseInv, Knows
<1>2. \A v \in Worker : Knows(v)'
  BY <1>1, OthersStillKnow
<1>3. \A v \in Worker : (PhaseHolds(v) /\ JudgementsHold(v) /\ SnapshotIsOlder(v))'
  BY <1>2 DEF Knows
<1> QED
  BY <1>3, TablesStillAgree DEF ReleaseInv

(* What the steps have in common that end a transaction.                   *)
LEMMA EndedTransaction ==
  ASSUME TypeOK, NEW w \in Worker, EndTransaction(w)
  PROVE  /\ held' \in [Worker -> SUBSET RowName] /\ held'[w] = {}
         /\ DOMAIN verdict' = Worker /\ DOMAIN write' = Worker
         /\ \A v \in Worker : IsPartMap(verdict'[v], Verdict) /\ IsPartMap(write'[v], StockRow)
         /\ DOMAIN verdict'[w] = {} /\ DOMAIN write'[w] = {}
         /\ snapshot' = [snapshot EXCEPT ![w] = NULL]
         /\ occurredAt' \in [Worker -> Nat]
         /\ \A v \in Worker \ {w} :
              UNCHANGED <<snapshot[v], held[v], verdict[v], write[v]>>
<1> USE DEF TypeOK, EndTransaction
<1>1. verdict' = [verdict EXCEPT ![w] = <<>>] /\ write' = [write EXCEPT ![w] = <<>>]
  OBVIOUS
<1>2. \A v \in Worker : IsPartMap(verdict'[v], Verdict) /\ IsPartMap(write'[v], StockRow)
  <2> SUFFICES ASSUME NEW v \in Worker
               PROVE  IsPartMap(verdict'[v], Verdict) /\ IsPartMap(write'[v], StockRow)
    OBVIOUS
  <2>1. CASE v = w
    BY <1>1, <2>1, NoMap
  <2>2. CASE v # w
    BY <1>1, <2>2
  <2> QED
    BY <2>1, <2>2
<1> QED
  BY <1>1, <1>2, NoMap

(* The snapshot that a transaction takes equals the rows.                  *)
LEMMA BeginKeepsReleaseInv ==
  ASSUME ReleaseInv, NEW w \in Worker, NEW r \in Request, Begin(w, r)
  PROVE  ReleaseInv'
<1> USE DEF Begin, Goto
<1>1. TypeOK /\ Knows(w) /\ pc[w] = "idle" /\ r.id \in Command
  BY RequestAssumption DEF ReleaseInv, Knows, Valid
<1>2. TypeOK'
  <2>1. [stock |-> stock, reservation |-> reservation]
          \in [stock : [Part -> StockRow],
              reservation : [Order -> [Part -> ReservationRow(Command)]]]
    BY <1>1 DEF TypeOK
  <2>2. snapshot' \in [Worker -> [stock : [Part -> StockRow],
                                 reservation : [Order -> [Part -> ReservationRow(Command)]]]
                                \cup {NULL}]
    BY <1>1, <2>1 DEF TypeOK
  <2>3. pc' \in [Worker -> Phase] /\ request' \in [Worker -> Request \cup {NULL}]
        /\ attempts' \in Nat
    BY <1>1 DEF TypeOK, Phase
  <2> QED
    BY <1>1, <2>2, <2>3 DEF TypeOK, tables
<1>3. \A v \in Worker \ {w} : Untouched(v)
  BY <1>1 DEF TypeOK, Untouched
<1>4. Knows(w)'
  <2>1. PhaseHolds(w)'
    BY <1>1 DEF TypeOK, Knows, PhaseHolds, InTransaction
  <2>2. JudgementsHold(w)'
    BY <1>1 DEF TypeOK, JudgementsHold, InTransaction
  <2>3. SnapshotIsOlder(w)'
    <3>1. \A p \in Part : stock[p].available \in Int /\ stock[p].reserved \in Int
      BY <1>1 DEF TypeOK, StockRow
    <3> QED
      BY <1>1, <3>1 DEF TypeOK, SnapshotIsOlder, InTransaction, tables
  <2> QED
    BY <2>1, <2>2, <2>3 DEF Knows
<1>5. LocksAreExclusive' /\ PublishedIsStored'
  <2>1. held' = held /\ UNCHANGED <<operation, published>>
    OBVIOUS
  <2> QED
    BY <1>1, <2>1, LocksStayExclusive, EnvelopesStillAgree DEF ReleaseInv, Waits, Lock
<1> QED
  BY <1>2, <1>3, <1>4, <1>5, QuietStep

(* Inserting the command row locks it, or ends the transaction.            *)
LEMMA InsertKeepsReleaseInv ==
  ASSUME ReleaseInv, NEW w \in Worker, InsertOperation(w)
  PROVE  ReleaseInv'
<1> USE DEF InsertOperation, Goto
<1>1. TypeOK /\ Knows(w) /\ pc[w] = "insert"
      /\ request[w] \in Request /\ request[w].id \in Command
      /\ DOMAIN request[w].items # {}
  BY RequestAssumption DEF ReleaseInv, Knows, PhaseHolds, Valid, IsNormalized
<1>2. LocksAreExclusive' /\ PublishedIsStored'
  BY <1>1, LocksStayExclusive, EnvelopesStillAgree
  DEF ReleaseInv, EndTransaction, Waits
<1>3. CASE operation[request[w].id] = NULL
  <2>1. held' = [held EXCEPT ![w] = @ \cup {OperationLock(w)}]
        /\ OperationLock(w) \in RowName
    BY <1>1, <1>3 DEF Lock, Wanted, OperationLock, RowName
  <2>2. TypeOK'
    BY <1>1, <1>3, <2>1 DEF TypeOK, Phase, tables
  <2>3. \A v \in Worker \ {w} : Untouched(v)
    BY <1>1, <1>3, <2>1 DEF TypeOK, Untouched
  <2>4. DOMAIN verdict[w] = {} /\ DOMAIN write[w] = {}
    BY <1>1 DEF Knows, PhaseHolds, InTransaction
  <2>5. OperationLock(w) \in held'[w] /\ OperationLock(w)' = OperationLock(w)
        /\ pc'[w] = "lockReservation"
    BY <1>1, <1>3, <2>1 DEF TypeOK, OperationLock
  <2>6. PhaseHolds(w)'
    BY <1>1, <1>3, <2>4, <2>5 DEF PhaseHolds, InTransaction, ToDo
  <2>7. JudgementsHold(w)'
    BY <1>3, <2>4 DEF JudgementsHold
  <2>8. SnapshotIsOlder(w)'
    BY <1>1, <1>3 DEF Knows, SnapshotIsOlder, tables
  <2> QED
    BY <1>2, <2>2, <2>3, <2>6, <2>7, <2>8, QuietStep DEF Knows
<1>4. CASE operation[request[w].id] # NULL
  <2>1. EndTransaction(w) /\ pc' = [pc EXCEPT ![w] = "recover"]
    BY <1>4
  <2>2. TypeOK'
    BY <1>1, <2>1, EndedTransaction DEF TypeOK, Phase, tables
  <2>3. \A v \in Worker \ {w} : Untouched(v)
    BY <1>1, <2>1, EndedTransaction DEF TypeOK, Untouched
  <2>4. pc'[w] = "recover" /\ held'[w] = {} /\ DOMAIN verdict'[w] = {}
        /\ DOMAIN write'[w] = {}
    BY <1>1, <2>1, EndedTransaction DEF TypeOK
  <2>5. Knows(w)'
    BY <1>1, <2>4 DEF Knows, PhaseHolds, JudgementsHold, SnapshotIsOlder, InTransaction
  <2> QED
    BY <1>2, <2>2, <2>3, <2>5, QuietStep
<1> QED
  BY <1>3, <1>4

(* Recovery reads the command row and touches nothing.                     *)
LEMMA RecoverKeepsReleaseInv ==
  ASSUME ReleaseInv, NEW w \in Worker, Recover(w)
  PROVE  ReleaseInv'
<1> USE DEF Recover, Goto, Finish
<1>1. TypeOK /\ Knows(w) /\ pc[w] = "recover" /\ request[w] \in Request
  BY DEF ReleaseInv, Knows, PhaseHolds
<1>2. TypeOK'
  BY <1>1 DEF TypeOK, Phase, tables
<1>3. \A v \in Worker \ {w} : Untouched(v)
  BY <1>1 DEF TypeOK, Untouched
<1>4. Knows(w)'
  BY <1>1 DEF TypeOK, Knows, PhaseHolds, JudgementsHold, SnapshotIsOlder, InTransaction
<1>5. LocksAreExclusive' /\ PublishedIsStored'
  <2>1. held' = held /\ UNCHANGED <<operation, published>>
    OBVIOUS
  <2> QED
    BY <1>1, <2>1, LocksStayExclusive, EnvelopesStillAgree DEF ReleaseInv, Waits, Lock
<1> QED
  BY <1>2, <1>3, <1>4, <1>5, QuietStep

(* A rollback forgets what was not committed.                              *)
LEMMA AbortKeepsReleaseInv ==
  ASSUME ReleaseInv, NEW w \in Worker, Abort(w)
  PROVE  ReleaseInv'
<1> USE DEF Abort, Goto, Finish
<1>1. TypeOK /\ EndTransaction(w)
  BY DEF ReleaseInv
<1>2. TypeOK'
  BY <1>1, EndedTransaction DEF TypeOK, Phase, tables
<1>3. \A v \in Worker \ {w} : Untouched(v)
  BY <1>1, EndedTransaction DEF TypeOK, Untouched
<1>4. pc'[w] = "idle" /\ held'[w] = {} /\ DOMAIN verdict'[w] = {} /\ DOMAIN write'[w] = {}
  BY <1>1, EndedTransaction DEF TypeOK
<1>5. Knows(w)'
  BY <1>4 DEF Knows, PhaseHolds, JudgementsHold, SnapshotIsOlder, InTransaction
<1>6. LocksAreExclusive' /\ PublishedIsStored'
  <2>1. held' = [held EXCEPT ![w] = {}] /\ UNCHANGED <<operation, published>>
    BY <1>1 DEF EndTransaction
  <2> QED
    BY <1>1, <2>1, LocksStayExclusive, EnvelopesStillAgree DEF ReleaseInv, Waits, Lock
<1> QED
  BY <1>2, <1>3, <1>5, <1>6, QuietStep

(* A publication adds the envelope of a stored result.                     *)
LEMMA PublishKeepsReleaseInv ==
  ASSUME ReleaseInv, NEW w \in Worker, Publish(w)
  PROVE  ReleaseInv'
<1> USE DEF Publish, Goto, Finish
<1>1. TypeOK /\ Knows(w) /\ pc[w] = "publish" /\ request[w].id \in Command
      /\ operation[request[w].id] # NULL
  BY RequestAssumption DEF ReleaseInv, Knows, PhaseHolds, Valid
<1>2. TypeOK'
  BY <1>1 DEF TypeOK, Phase, tables
<1>3. \A v \in Worker \ {w} : Untouched(v)
  BY <1>1 DEF TypeOK, Untouched
<1>4. Knows(w)'
  BY <1>1 DEF TypeOK, Knows, PhaseHolds, JudgementsHold, SnapshotIsOlder, InTransaction
<1>5. PublishedIsStored'
  <2>1. \A c : EnvelopeOf(c)' = EnvelopeOf(c) /\ EnvelopeOf(c).command = c
    BY DEF EnvelopeOf
  <2> QED
    BY <1>1, <2>1 DEF ReleaseInv, PublishedIsStored
<1>6. LocksAreExclusive'
  <2>1. held' = held
    OBVIOUS
  <2> QED
    BY <1>1, <2>1, LocksStayExclusive DEF ReleaseInv, Waits, Lock
<1> QED
  BY <1>2, <1>3, <1>4, <1>5, <1>6, QuietStep

-----------------------------------------------------------------------------
(* Steps that lock a row and judge an item.                                *)

(* Adding an entry to a map of parts.                                      *)
LEMMA Extended ==
  ASSUME NEW R, NEW f, IsPartMap(f, R), NEW x \in Part, NEW y \in R
  PROVE  /\ IsPartMap(Extend(f, x, y), R)
         /\ DOMAIN Extend(f, x, y) = DOMAIN f \cup {x}
         /\ Extend(f, x, y)[x] = y
         /\ \A z \in DOMAIN f : z # x => Extend(f, x, y)[z] = f[z]
BY DEF IsPartMap, Extend

(* What a reservation's row alone decides.                                 *)
LEMMA VerdictOfRow ==
  ASSUME NEW row \in ReservationRow(Command), NEW quantity, NEW c
  PROVE  LET code == ReservationVerdict(row, quantity, c)
         IN /\ code = NULL <=> row.status = "RESERVED" /\ row.quantity = quantity
            /\ code = NULL \/ code \in Verdict
            /\ code = "RELEASED" => row.releasedBy = {c}
BY NullAssumption DEF ReservationVerdict, ReservationRow, ReservationStatus, Verdict

(* A lock that is taken is added to those of its worker.                   *)
LEMMA TakenLock ==
  ASSUME TypeOK, NEW w \in Worker, Wanted(w) \in RowName, Lock(w)
  PROVE  /\ held' \in [Worker -> SUBSET RowName]
         /\ held'[w] = held[w] \cup {Wanted(w)}
         /\ \A v \in Worker \ {w} : held'[v] = held[v]
BY DEF TypeOK, Lock

(* A judged item gets its verdict, and the next one is taken up.           *)
LEMMA JudgedItem ==
  ASSUME TypeOK, NEW w \in Worker, request[w] \in Request, ToDo(w) # {},
         NEW code \in Verdict, Judge(w, code), UNCHANGED request
  PROVE  /\ Item(w) \in ToDo(w) /\ Item(w) \in Part
         /\ pc' \in [Worker -> Phase] /\ DOMAIN verdict' = Worker
         /\ \A v \in Worker : IsPartMap(verdict'[v], Verdict)
         /\ \A v \in Worker \ {w} : UNCHANGED <<pc[v], verdict[v]>>
         /\ DOMAIN verdict'[w] = DOMAIN verdict[w] \cup {Item(w)}
         /\ verdict'[w][Item(w)] = code
         /\ \A p \in DOMAIN verdict[w] : verdict'[w][p] = verdict[w][p]
         /\ pc'[w] = IF ToDo(w)' = {} THEN "commit" ELSE "lockReservation"
<1>1. Item(w) \in ToDo(w)
  BY ItemIsToDo
<1>2. Item(w) \in Part /\ Item(w) \notin DOMAIN verdict[w]
  BY <1>1, RequestAssumption DEF ToDo, Valid, IsNormalized, IsPartMap
<1>3. IsPartMap(verdict[w], Verdict)
  BY DEF TypeOK
<1> DEFINE f == Extend(verdict[w], Item(w), code)
<1>4. /\ IsPartMap(f, Verdict) /\ DOMAIN f = DOMAIN verdict[w] \cup {Item(w)}
      /\ f[Item(w)] = code /\ \A p \in DOMAIN verdict[w] : f[p] = verdict[w][p]
  BY <1>2, <1>3, Extended
<1>5. verdict' = [verdict EXCEPT ![w] = f] /\ verdict'[w] = f
  BY DEF Judge, TypeOK
<1> HIDE DEF f
<1>6. ToDo(w)' = ToDo(w) \ {Item(w)}
  BY <1>4, <1>5 DEF ToDo
<1>7. /\ pc' \in [Worker -> Phase] /\ \A v \in Worker \ {w} : pc'[v] = pc[v]
      /\ pc'[w] = IF ToDo(w)' = {} THEN "commit" ELSE "lockReservation"
  BY <1>1, <1>6 DEF Judge, Goto, TypeOK, Phase
<1>8. \A v \in Worker : IsPartMap(verdict'[v], Verdict)
  <2> SUFFICES ASSUME NEW v \in Worker PROVE IsPartMap(verdict'[v], Verdict)
    OBVIOUS
  <2>1. CASE v = w
    BY <1>4, <1>5, <2>1
  <2>2. CASE v # w
    BY <1>5, <2>2 DEF TypeOK
  <2> QED
    BY <2>1, <2>2
<1> QED
  BY <1>1, <1>2, <1>4, <1>5, <1>7, <1>8 DEF TypeOK

(* A judgement survives the steps of its own worker.                       *)
LEMMA JudgementStays ==
  ASSUME NEW w \in Worker, NEW p, JudgementHolds(w, p),
         UNCHANGED <<tables, request[w], verdict[w][p]>>,
         held[w] \subseteq held'[w],
         p \in DOMAIN write'[w] <=> p \in DOMAIN write[w],
         p \in DOMAIN write[w] => write'[w][p] = write[w][p]
  PROVE  JudgementHolds(w, p)'
<1>1. UNCHANGED <<ReservationLock(w, p), PartLock(p), Matches(w, p)>>
  BY DEF ReservationLock, PartLock, Matches, tables
<1> QED
  BY <1>1 DEF JudgementHolds, IsGranted, IsRefused, Moved, tables

(* A reservation that matches has its part looked at next; any other one   *)
(* is judged, and never as released, since nobody decided the command yet. *)
LEMMA LockReservationKeepsReleaseInv ==
  ASSUME ReleaseInv, NEW w \in Worker, LockReservation(w)
  PROVE  ReleaseInv'
<1> PICK p : p = Item(w)
  OBVIOUS
<1> DEFINE row == reservation[request[w].order][p]
           code == ReservationVerdict(row, request[w].items[p], request[w].id)
<1>1. /\ TypeOK /\ PhaseHolds(w) /\ JudgementsHold(w) /\ SnapshotIsOlder(w)
      /\ ReportIsPhysical
  BY DEF ReleaseInv
<1>2. /\ pc[w] = "lockReservation" /\ Lock(w)
      /\ IF code = NULL THEN Goto(w, "lockPart") /\ UNCHANGED verdict ELSE Judge(w, code)
      /\ UNCHANGED <<tables, operation, attempts, request, snapshot, write, occurredAt,
                    published>>
  BY DEF LockReservation
<1>3. request[w] \in Request /\ request[w].order \in Order /\ request[w].id \in Command
      /\ ToDo(w) # {}
  BY <1>1, <1>2, RequestAssumption DEF PhaseHolds, Valid
<1>4. p \in ToDo(w) /\ p \in Part /\ p \notin DOMAIN verdict[w] /\ p \in DOMAIN request[w].items
  BY <1>3, ItemIsToDo, RequestAssumption DEF ToDo, Valid, IsNormalized, IsPartMap
<1>5. row \in ReservationRow(Command)
  BY <1>1, <1>3, <1>4 DEF TypeOK
<1>6. /\ code = NULL <=> Matches(w, p)
      /\ code = NULL \/ code \in Verdict
      /\ code = "RELEASED" => row.releasedBy = {request[w].id}
  BY <1>5, VerdictOfRow DEF Matches
<1>7. Wanted(w) = ReservationLock(w, p) /\ Wanted(w) \in RowName /\ Waits(w)
  BY <1>2, <1>3, <1>4 DEF Wanted, ReservationLock, RowName, Waits
<1>8. /\ held' \in [Worker -> SUBSET RowName]
      /\ held'[w] = held[w] \cup {ReservationLock(w, p)}
      /\ \A v \in Worker \ {w} : held'[v] = held[v]
  BY <1>1, <1>2, <1>7, TakenLock
<1>9. LocksAreExclusive' /\ PublishedIsStored'
  BY <1>1, <1>2, <1>7, LocksStayExclusive, EnvelopesStillAgree DEF ReleaseInv
<1>10. operation[request[w].id] = NULL /\ OperationLock(w) \in held[w]
       /\ OperationLock(w)' = OperationLock(w)
  BY <1>1, <1>2 DEF PhaseHolds, InTransaction, OperationLock
<1>11. SnapshotIsOlder(w)'
  BY <1>1, <1>2 DEF SnapshotIsOlder, InTransaction, tables
<1>12. ASSUME NEW q \in DOMAIN verdict[w], verdict'[w][q] = verdict[w][q]
       PROVE  JudgementHolds(w, q)'
  <2>1. JudgementHolds(w, q)
    BY <1>1, <1>2 DEF JudgementsHold, InTransaction
  <2> QED
    BY <1>2, <1>8, <1>12, <2>1, JudgementStays
<1>13. DOMAIN write[w] \subseteq DOMAIN verdict[w]
       /\ DOMAIN verdict[w] \subseteq DOMAIN request[w].items
  BY <1>1, <1>2 DEF JudgementsHold, InTransaction
<1> HIDE DEF row, code
<1>14. CASE code = NULL
  <2>1. pc' = [pc EXCEPT ![w] = "lockPart"] /\ verdict' = verdict
    BY <1>2, <1>14 DEF Goto
  <2>2. TypeOK'
    BY <1>1, <1>2, <1>8, <2>1 DEF TypeOK, Phase, tables
  <2>3. \A v \in Worker \ {w} : Untouched(v)
    BY <1>1, <1>2, <1>8, <2>1 DEF TypeOK, Untouched
  <2>4. UNCHANGED <<ToDo(w), Item(w)>>
    BY <1>2, <2>1, SameItem
  <2>5. Matches(w, p)' /\ Item(w)' = p /\ ReservationLock(w, p)' = ReservationLock(w, p)
    BY <1>2, <1>6, <1>14, <2>4 DEF Matches, ReservationLock, tables
  <2>6. pc'[w] = "lockPart"
    BY <1>1, <2>1 DEF TypeOK
  <2>7. PhaseHolds(w)'
    BY <1>2, <1>3, <1>8, <1>10, <2>4, <2>5, <2>6 DEF PhaseHolds, InTransaction
  <2>8. JudgementsHold(w)'
    BY <1>2, <1>12, <1>13, <2>1 DEF JudgementsHold
  <2> QED
    BY <1>2, <1>9, <1>11, <2>2, <2>3, <2>7, <2>8, QuietStep DEF Knows
<1>15. CASE code # NULL
  <2>1. code \in Verdict /\ Judge(w, code)
    BY <1>2, <1>6, <1>15
  <2>2. /\ pc' \in [Worker -> Phase] /\ DOMAIN verdict' = Worker
        /\ \A v \in Worker : IsPartMap(verdict'[v], Verdict)
        /\ \A v \in Worker \ {w} : UNCHANGED <<pc[v], verdict[v]>>
        /\ DOMAIN verdict'[w] = DOMAIN verdict[w] \cup {p}
        /\ verdict'[w][p] = code
        /\ \A q \in DOMAIN verdict[w] : verdict'[w][q] = verdict[w][q]
        /\ pc'[w] = IF ToDo(w)' = {} THEN "commit" ELSE "lockReservation"
    BY <1>1, <1>2, <1>3, <2>1, JudgedItem
  <2>3. TypeOK'
    BY <1>1, <1>2, <1>8, <2>2 DEF TypeOK, tables
  <2>4. \A v \in Worker \ {w} : Untouched(v)
    BY <1>2, <1>8, <2>2 DEF Untouched
  <2>5. PhaseHolds(w)'
    BY <1>2, <1>3, <1>8, <1>10, <2>2 DEF PhaseHolds, InTransaction
  <2>6. code # "RELEASED"
    BY <1>1, <1>3, <1>4, <1>6, <1>10 DEF ReportIsPhysical, row
  <2>7. JudgementHolds(w, p)'
    <3>1. ~Matches(w, p)'
      BY <1>2, <1>6, <1>15 DEF Matches, tables
    <3>2. p \notin DOMAIN write'[w] /\ ReservationLock(w, p)' = ReservationLock(w, p)
      BY <1>2, <1>4, <1>13 DEF ReservationLock
    <3> QED
      BY <1>8, <2>2, <2>6, <3>1, <3>2 DEF JudgementHolds, IsRefused
  <2>8. JudgementsHold(w)'
    BY <1>2, <1>4, <1>12, <1>13, <2>2, <2>7 DEF JudgementsHold
  <2> QED
    BY <1>2, <1>9, <1>11, <2>3, <2>4, <2>5, <2>8, QuietStep DEF Knows
<1> QED
  BY <1>14, <1>15

(* Moving a quantity back keeps the type of a row.                         *)
LEMMA MovedRow ==
  ASSUME NEW row \in StockRow, NEW n \in Int
  PROVE  /\ Moved(row, n) \in StockRow
         /\ Moved(row, n) = [available |-> row.available + n, reserved |-> row.reserved - n,
                             active |-> row.active]
<1> DEFINE a == row.available + n
           r == row.reserved - n
           m == [row EXCEPT !.available = a]
<1>1. a \in Int /\ r \in Int
  BY DEF StockRow
<1>2. Moved(row, n) = [m EXCEPT !.reserved = r]
  BY DEF Moved, StockRow
<1>3. m \in StockRow /\ m.available = a /\ m.active = row.active
  <2> HIDE DEF a, r
  <2> QED
    BY <1>1 DEF StockRow
<1>4. /\ Moved(row, n) \in StockRow /\ Moved(row, n).available = a
      /\ Moved(row, n).reserved = r /\ Moved(row, n).active = row.active
  <2> HIDE DEF a, r, m
  <2> QED
    BY <1>1, <1>2, <1>3 DEF StockRow
<1>5. \A x \in StockRow :
        x = [available |-> x.available, reserved |-> x.reserved, active |-> x.active]
  BY DEF StockRow
<1> QED
  BY <1>4, <1>5

(* The locked part decides; save writes both quantities, because the       *)
(* entity differs from the snapshot in both.                               *)
LEMMA LockPartKeepsReleaseInv ==
  ASSUME ReleaseInv, NEW w \in Worker, LockPart(w)
  PROVE  ReleaseInv'
<1> PICK p : p = Item(w)
  OBVIOUS
<1> PICK n : n = request[w].items[p]
  OBVIOUS
<1>1. /\ TypeOK /\ PhaseHolds(w) /\ JudgementsHold(w) /\ SnapshotIsOlder(w)
      /\ pc[w] = "lockPart"
  BY DEF ReleaseInv, LockPart
<1>2. /\ request[w] \in Request /\ ToDo(w) # {}
      /\ request[w].order \in Order /\ request[w].id \in Command
  BY <1>1, RequestAssumption DEF PhaseHolds, Valid
<1>3. /\ p \in ToDo(w) /\ p \in Part /\ p \notin DOMAIN verdict[w]
      /\ p \in DOMAIN request[w].items /\ n \in Nat /\ n > 0
  BY <1>2, ItemIsToDo, RequestAssumption DEF ToDo, Valid, IsNormalized, IsPartMap
<1>4. /\ operation[request[w].id] = NULL /\ OperationLock(w) \in held[w]
      /\ Matches(w, p) /\ ReservationLock(w, p) \in held[w]
  BY <1>1 DEF PhaseHolds, InTransaction
<1>5. /\ DOMAIN write[w] \subseteq DOMAIN verdict[w]
      /\ DOMAIN verdict[w] \subseteq DOMAIN request[w].items
  BY <1>1 DEF JudgementsHold, InTransaction
<1>6. UNCHANGED <<tables, operation, attempts, request, published>>
  BY DEF LockPart
<1>7. PublishedIsStored'
  BY <1>6, EnvelopesStillAgree DEF ReleaseInv
<1>8. CASE \/ stock[p].reserved < n
           \/ snapshot[w].reservation[request[w].order][p].status # "ABSENT"
  <2> DEFINE code == IF stock[p].reserved < n THEN "PART_RESERVED_STOCK_INSUFFICIENT"
                                              ELSE "RELEASED"
  <2>1. /\ Judge(w, code) /\ Lock(w) /\ UNCHANGED <<snapshot, occurredAt>>
        /\ IF stock[p].reserved < n THEN UNCHANGED write
           ELSE write' = [write EXCEPT ![w] = Extend(@, p, Returned(w, p))]
    BY <1>8 DEF LockPart
  <2>2. Wanted(w) = PartLock(p) /\ Wanted(w) \in RowName /\ Waits(w)
    BY <1>1, <1>3 DEF Wanted, PartLock, RowName, Waits
  <2>3. /\ held' \in [Worker -> SUBSET RowName] /\ held'[w] = held[w] \cup {PartLock(p)}
        /\ \A v \in Worker \ {w} : held'[v] = held[v]
    BY <1>1, <2>1, <2>2, TakenLock
  <2>4. LocksAreExclusive'
    BY <1>1, <2>1, <2>2, LocksStayExclusive DEF ReleaseInv
  <2>5. code \in Verdict
    BY DEF Verdict
  <2>6. /\ pc' \in [Worker -> Phase] /\ DOMAIN verdict' = Worker
        /\ \A v \in Worker : IsPartMap(verdict'[v], Verdict)
        /\ \A v \in Worker \ {w} : UNCHANGED <<pc[v], verdict[v]>>
        /\ DOMAIN verdict'[w] = DOMAIN verdict[w] \cup {p}
        /\ verdict'[w][p] = code
        /\ \A q \in DOMAIN verdict[w] : verdict'[w][q] = verdict[w][q]
        /\ pc'[w] = IF ToDo(w)' = {} THEN "commit" ELSE "lockReservation"
    <3> HIDE DEF code
    <3> QED
      BY <1>1, <1>2, <1>6, <2>1, <2>5, JudgedItem
  <2>7. ~(stock[p].reserved < n) =>
          Returned(w, p) = Moved(stock[p], n) /\ Moved(stock[p], n) \in StockRow
    <3> SUFFICES ASSUME ~(stock[p].reserved < n)
                 PROVE  Returned(w, p) = Moved(stock[p], n) /\ Moved(stock[p], n) \in StockRow
      OBVIOUS
    <3> DEFINE old == snapshot[w].stock[p]
    <3>1. /\ stock[p] \in StockRow /\ old \in StockRow
          /\ old.available <= stock[p].available /\ old.reserved >= stock[p].reserved
      BY <1>1, <1>3 DEF TypeOK, SnapshotIsOlder, InTransaction
    <3>2. /\ Moved(stock[p], n) \in StockRow
          /\ Moved(stock[p], n) = [available |-> stock[p].available + n,
                                   reserved  |-> stock[p].reserved - n,
                                   active    |-> stock[p].active]
      BY <1>3, <3>1, MovedRow
    <3>3. stock[p].available + n # old.available /\ stock[p].reserved - n # old.reserved
      BY <1>3, <3>1 DEF StockRow
    <3>4. Returned(w, p) = SaveColumns(stock[p], old, Moved(stock[p], n))
      BY DEF Returned, Moved
    <3> HIDE DEF old
    <3>5. SaveColumns(stock[p], old, Moved(stock[p], n)) = Moved(stock[p], n)
      BY <3>1, <3>2, <3>3 DEF SaveColumns, StockRow
    <3> QED
      BY <3>2, <3>4, <3>5
  <2>8. /\ DOMAIN write' = Worker /\ \A v \in Worker : IsPartMap(write'[v], StockRow)
        /\ \A v \in Worker \ {w} : write'[v] = write[v]
        /\ \A q \in DOMAIN verdict[w] :
             /\ q \in DOMAIN write'[w] <=> q \in DOMAIN write[w]
             /\ q \in DOMAIN write[w] => write'[w][q] = write[w][q]
        /\ DOMAIN write'[w] \subseteq DOMAIN verdict'[w]
        /\ IF stock[p].reserved < n THEN p \notin DOMAIN write'[w]
           ELSE p \in DOMAIN write'[w] /\ write'[w][p] = Moved(stock[p], n)
    <3>1. CASE stock[p].reserved < n
      BY <1>1, <1>3, <1>5, <2>1, <2>6, <3>1 DEF TypeOK
    <3>2. CASE ~(stock[p].reserved < n)
      <4> DEFINE f == Extend(write[w], p, Moved(stock[p], n))
      <4>1. write' = [write EXCEPT ![w] = f] /\ write'[w] = f
        BY <1>1, <2>1, <2>7, <3>2 DEF TypeOK
      <4>2. /\ IsPartMap(f, StockRow) /\ DOMAIN f = DOMAIN write[w] \cup {p}
            /\ f[p] = Moved(stock[p], n)
            /\ \A q \in DOMAIN write[w] : q # p => f[q] = write[w][q]
        <5>1. IsPartMap(write[w], StockRow) /\ Moved(stock[p], n) \in StockRow
          BY <1>1, <2>7, <3>2 DEF TypeOK
        <5> QED
          BY <1>3, <5>1, Extended
      <4> HIDE DEF f
      <4>3. \A v \in Worker : IsPartMap(write'[v], StockRow)
        <5> SUFFICES ASSUME NEW v \in Worker PROVE IsPartMap(write'[v], StockRow)
          OBVIOUS
        <5>1. CASE v = w
          BY <4>1, <4>2, <5>1
        <5>2. CASE v # w
          BY <1>1, <4>1, <5>2 DEF TypeOK
        <5> QED
          BY <5>1, <5>2
      <4> QED
        BY <1>1, <1>3, <1>5, <2>6, <3>2, <4>1, <4>2, <4>3 DEF TypeOK
    <3> QED
      BY <3>1, <3>2
  <2>9. TypeOK'
    BY <1>1, <1>6, <2>1, <2>3, <2>6, <2>8 DEF TypeOK, tables
  <2>10. \A v \in Worker \ {w} : Untouched(v)
    BY <1>6, <2>1, <2>3, <2>6, <2>8 DEF Untouched
  <2>11. PhaseHolds(w)'
    <3>1. OperationLock(w)' = OperationLock(w)
      BY <1>6 DEF OperationLock
    <3> QED
      BY <1>2, <1>4, <1>6, <2>3, <2>6, <3>1 DEF PhaseHolds, InTransaction
  <2>12. JudgementHolds(w, p)'
    <3>1. UNCHANGED <<Matches(w, p), ReservationLock(w, p), PartLock(p), stock, request>>
      BY <1>6 DEF Matches, ReservationLock, PartLock, tables
    <3> QED
      BY <1>1, <1>3, <1>4, <2>3, <2>6, <2>8, <3>1
      DEF JudgementHolds, IsGranted, IsRefused, TypeOK, StockRow
  <2>13. ASSUME NEW q \in DOMAIN verdict[w] PROVE JudgementHolds(w, q)'
    <3>1. JudgementHolds(w, q)
      BY <1>1 DEF JudgementsHold, InTransaction
    <3> QED
      BY <1>6, <2>3, <2>6, <2>8, <3>1, JudgementStays
  <2>14. JudgementsHold(w)'
    BY <1>3, <1>5, <1>6, <2>6, <2>8, <2>12, <2>13 DEF JudgementsHold
  <2>15. SnapshotIsOlder(w)'
    BY <1>1, <1>6, <2>1 DEF SnapshotIsOlder, InTransaction, tables
  <2> QED
    BY <1>6, <1>7, <2>4, <2>9, <2>10, <2>11, <2>14, <2>15, QuietStep DEF Knows
<1>9. CASE ~ \/ stock[p].reserved < n
             \/ snapshot[w].reservation[request[w].order][p].status # "ABSENT"
  <2>1. EndTransaction(w) /\ pc' = [pc EXCEPT ![w] = "recover"]
    BY <1>9 DEF LockPart, Goto
  <2>2. TypeOK'
    BY <1>1, <1>6, <2>1, EndedTransaction DEF TypeOK, Phase, tables
  <2>3. \A v \in Worker \ {w} : Untouched(v)
    BY <1>1, <1>6, <2>1, EndedTransaction DEF TypeOK, Untouched
  <2>4. /\ pc'[w] = "recover" /\ held'[w] = {}
        /\ DOMAIN verdict'[w] = {} /\ DOMAIN write'[w] = {}
    BY <1>1, <2>1, EndedTransaction DEF TypeOK
  <2>5. Knows(w)'
    BY <1>2, <1>6, <2>4 DEF Knows, PhaseHolds, JudgementsHold, SnapshotIsOlder, InTransaction
  <2>6. LocksAreExclusive'
    <3>1. held' = [held EXCEPT ![w] = {}]
      BY <2>1 DEF EndTransaction
    <3> QED
      BY <1>1, <3>1, LocksStayExclusive DEF ReleaseInv, Waits, Lock
  <2> QED
    BY <1>6, <1>7, <2>2, <2>3, <2>5, <2>6, QuietStep
<1> QED
  BY <1>8, <1>9

-----------------------------------------------------------------------------
(* The commit.                                                             *)

ReleasedRow(row, c) == [row EXCEPT !.status = "RELEASED", !.releasedBy = {c}]

(* What a transaction knows when it commits, and what the commit does: it  *)
(* decides its command against the rows as they are.                       *)
LEMMA CommitDecides ==
  ASSUME ReleaseInv, NEW w \in Worker, Commit(w),
         NEW r, r = request[w], NEW W, W = DOMAIN write[w]
  PROVE  /\ r \in Request /\ r.id \in Command /\ r.order \in Order
         /\ DOMAIN r.items \subseteq Part /\ \A p \in W : r.items[p] \in Nat
         /\ operation[r.id] = NULL /\ OperationLock(w) \in held[w]
         /\ DOMAIN verdict[w] = DOMAIN r.items
         /\ W = {p \in DOMAIN r.items : verdict[w][p] = "RELEASED"}
         /\ \A p \in W : JudgementHolds(w, p) /\ IsGranted(w, p)
         /\ \A p \in DOMAIN r.items \ W : IsRefused(w, p)
         /\ operation' = [operation EXCEPT ![r.id] =
              [request |-> r, verdict |-> verdict[w], at |-> occurredAt[w]]]
         /\ stock' = [p \in Part |-> IF p \in W THEN Moved(stock[p], r.items[p]) ELSE stock[p]]
         /\ reservation' = [o \in Order |-> [p \in Part |->
              IF o = r.order /\ p \in W THEN ReleasedRow(reservation[o][p], r.id)
                                        ELSE reservation[o][p]]]
<1>1. TypeOK /\ PhaseHolds(w) /\ JudgementsHold(w) /\ pc[w] = "commit"
  BY DEF ReleaseInv, Commit
<1>2. /\ r \in Request /\ r.id \in Command /\ r.order \in Order
      /\ DOMAIN r.items \subseteq Part /\ \A p \in DOMAIN r.items : r.items[p] \in Nat
  BY <1>1, RequestAssumption DEF PhaseHolds, Valid, IsNormalized, IsPartMap
<1>3. operation[r.id] = NULL /\ OperationLock(w) \in held[w] /\ ToDo(w) = {}
  BY <1>1 DEF PhaseHolds, InTransaction
<1>4. /\ W \subseteq DOMAIN verdict[w] /\ DOMAIN verdict[w] = DOMAIN r.items
      /\ \A p \in DOMAIN verdict[w] : JudgementHolds(w, p)
  BY <1>1, <1>3 DEF JudgementsHold, InTransaction, ToDo
<1>5. /\ W = {p \in DOMAIN r.items : verdict[w][p] = "RELEASED"}
      /\ \A p \in W : JudgementHolds(w, p) /\ IsGranted(w, p)
      /\ \A p \in DOMAIN r.items \ W : IsRefused(w, p)
  BY <1>4 DEF JudgementHolds, IsGranted, IsRefused
<1>6. \A p \in W : write[w][p] = Moved(stock[p], r.items[p])
  BY <1>5 DEF IsGranted
<1>7. stock' = [p \in Part |-> IF p \in W THEN Moved(stock[p], r.items[p]) ELSE stock[p]]
  <2>1. stock' = [p \in Part |-> IF p \in W THEN write[w][p] ELSE stock[p]]
    BY DEF Commit
  <2> QED
    BY <1>6, <2>1
<1>8. reservation' = [o \in Order |-> [p \in Part |->
        IF o = r.order /\ p \in W THEN ReleasedRow(reservation[o][p], r.id)
                                  ELSE reservation[o][p]]]
  <2> DEFINE table == [p \in Part |-> IF p \in W THEN ReleasedRow(reservation[r.order][p], r.id)
                                                 ELSE reservation[r.order][p]]
  <2>1. reservation' = [reservation EXCEPT ![r.order] = table]
    BY DEF Commit, ReleasedRow
  <2>2. \A o \in Order : reservation[o] = [p \in Part |-> reservation[o][p]]
        /\ DOMAIN reservation = Order
    BY <1>1 DEF TypeOK
  <2>3. \A o \in Order : reservation'[o] = IF o = r.order THEN table ELSE reservation[o]
    BY <1>2, <2>1, <2>2
  <2>4. reservation' = [o \in Order |-> IF o = r.order THEN table ELSE reservation[o]]
    <3> HIDE DEF table
    <3> QED
      BY <1>2, <2>1, <2>2
  <2>5. \A o \in Order : (IF o = r.order THEN table ELSE reservation[o])
          = [p \in Part |-> IF o = r.order /\ p \in W THEN ReleasedRow(reservation[o][p], r.id)
                                                      ELSE reservation[o][p]]
    <3> SUFFICES ASSUME NEW o \in Order
                 PROVE  (IF o = r.order THEN table ELSE reservation[o])
          = [p \in Part |-> IF o = r.order /\ p \in W THEN ReleasedRow(reservation[o][p], r.id)
                                                      ELSE reservation[o][p]]
      OBVIOUS
    <3>1. CASE o = r.order
      BY <3>1
    <3>2. CASE o # r.order
      <4> HIDE DEF table
      <4> QED
        BY <2>2, <3>2
    <3> QED
      BY <3>1, <3>2
  <2> HIDE DEF table
  <2> QED
    BY <2>4, <2>5
<1>9. operation' = [operation EXCEPT ![r.id] =
        [request |-> r, verdict |-> verdict[w], at |-> occurredAt[w]]]
  BY DEF Commit
<1> QED
  BY <1>2, <1>3, <1>4, <1>5, <1>7, <1>8, <1>9

(* A sum loses what it gives up and gains what it takes in.                *)
LEMMA QuantityMoves ==
  ASSUME TypeOK, NEW p \in Part, NEW o \in Order, reservation[o][p].status = "RESERVED",
         reservation' \in [Order -> [Part -> ReservationRow(Command)]],
         \A x \in Order : reservation'[x][p].quantity = reservation[x][p].quantity,
         \A x \in Order : reservation'[x][p].status =
           IF x = o THEN "RELEASED" ELSE reservation[x][p].status
  PROVE  /\ QuantityIn(p, "RESERVED") = reservation[o][p].quantity + QuantityIn(p, "RESERVED")'
         /\ QuantityIn(p, "RELEASED")' = reservation[o][p].quantity + QuantityIn(p, "RELEASED")
         /\ QuantityIn(p, "RESERVED") \in Int /\ QuantityIn(p, "RELEASED") \in Int
         /\ QuantityIn(p, "RESERVED")' \in Int
<1> DEFINE f == [x \in Order |-> reservation[x][p].quantity]
           S == {x \in Order : reservation[x][p].status = "RESERVED"}
           R == {x \in Order : reservation[x][p].status = "RELEASED"}
<1>1. f' = f
  OBVIOUS
<1>2. S' = S \ {o} /\ o \in S
  OBVIOUS
<1>3. R' = R \cup {o} /\ o \in R' /\ R' \ {o} = R
  OBVIOUS
<1>4. IsFiniteSet(S) /\ IsFiniteSet(R') /\ IsFiniteSet(R) /\ IsFiniteSet(S')
  BY OrderAssumption, FS_Subset
<1>5. \A x \in Order : f[x] \in Int
  BY DEF TypeOK, ReservationRow
<1>6. /\ QuantityIn(p, "RESERVED") = SumFunctionOnSet(f, S)
      /\ QuantityIn(p, "RELEASED") = SumFunctionOnSet(f, R)
      /\ QuantityIn(p, "RESERVED")' = SumFunctionOnSet(f', S')
      /\ QuantityIn(p, "RELEASED")' = SumFunctionOnSet(f', R')
  BY DEF QuantityIn
<1>7. f[o] = reservation[o][p].quantity /\ S \subseteq Order /\ R \subseteq Order
      /\ R' \subseteq Order
  OBVIOUS
<1> HIDE DEF f, S, R
<1>8. SumFunctionOnSet(f, S) = f[o] + SumFunctionOnSet(f, S \ {o})
  BY <1>2, <1>4, <1>5, <1>7, SumTakesAny
<1>9. SumFunctionOnSet(f, R') = f[o] + SumFunctionOnSet(f, R' \ {o})
  <2>1. PICK g, T : g = f /\ T = R'
    OBVIOUS
  <2>2. IsFiniteSet(T)
    BY <1>4, <2>1
  <2>3. o \in T
    BY <1>3, <2>1
  <2>4. \A x \in T : g[x] \in Int
    BY <1>5, <1>7, <2>1
  <2>5. SumFunctionOnSet(g, T) = g[o] + SumFunctionOnSet(g, T \ {o})
    BY <2>2, <2>3, <2>4, SumTakesAny
  <2> QED
    BY <2>1, <2>5
<1>10. /\ SumFunctionOnSet(f, S) \in Int /\ SumFunctionOnSet(f, R) \in Int
       /\ SumFunctionOnSet(f, S \ {o}) \in Int
  <2>1. IsFiniteSet(S \ {o}) /\ S \ {o} \subseteq Order
    BY <1>4, <1>7, FS_Subset
  <2> QED
    BY <1>4, <1>5, <1>7, <2>1, SumIsInteger
<1> QED
  <2>1. QuantityIn(p, "RESERVED")' = SumFunctionOnSet(f, S \ {o})
    BY <1>1, <1>2, <1>6
  <2>2. QuantityIn(p, "RELEASED")' = f[o] + SumFunctionOnSet(f, R)
    BY <1>1, <1>3, <1>6, <1>9
  <2> QED
    BY <1>6, <1>7, <1>8, <1>10, <2>1, <2>2

(* A commit changes rows that its transaction has locked, so what the      *)
(* others know of theirs stays true.                                       *)
LEMMA CommitKeepsReleaseInv ==
  ASSUME ReleaseInv, NEW w \in Worker, Commit(w)
  PROVE  ReleaseInv'
<1> PICK r, W : r = request[w] /\ W = DOMAIN write[w]
  OBVIOUS
<1>1. /\ TypeOK /\ LocksAreExclusive /\ ReleaserIsKnown /\ ReportIsPhysical
      /\ StockConserved /\ PublishedIsStored /\ \A v \in Worker : Knows(v)
  BY DEF ReleaseInv, Knows
<1>2. /\ EndTransaction(w) /\ pc' = [pc EXCEPT ![w] = "publish"]
      /\ UNCHANGED <<attempts, request, published>>
  BY DEF Commit, Goto
<1>3. /\ r \in Request /\ r.id \in Command /\ r.order \in Order
      /\ DOMAIN r.items \subseteq Part /\ \A p \in W : r.items[p] \in Nat
      /\ operation[r.id] = NULL /\ OperationLock(w) \in held[w]
      /\ DOMAIN verdict[w] = DOMAIN r.items
      /\ W = {p \in DOMAIN r.items : verdict[w][p] = "RELEASED"}
      /\ \A p \in W : JudgementHolds(w, p) /\ IsGranted(w, p)
      /\ operation' = [operation EXCEPT ![r.id] =
           [request |-> r, verdict |-> verdict[w], at |-> occurredAt[w]]]
      /\ stock' = [p \in Part |-> IF p \in W THEN Moved(stock[p], r.items[p]) ELSE stock[p]]
      /\ reservation' = [o \in Order |-> [p \in Part |->
           IF o = r.order /\ p \in W THEN ReleasedRow(reservation[o][p], r.id)
                                     ELSE reservation[o][p]]]
  BY CommitDecides
<1>4. /\ IsOperationRow(operation'[r.id]) /\ operation'[r.id] # NULL
      /\ operation'[r.id].request = r /\ operation'[r.id].verdict = verdict[w]
      /\ DOMAIN operation' = Command
      /\ \A c \in Command : c # r.id => operation'[c] = operation[c]
  <2>1. IsPartMap(verdict[w], Verdict) /\ occurredAt[w] \in Nat
    BY <1>1 DEF TypeOK
  <2>2. verdict[w] \in UNION {[P -> Verdict] : P \in SUBSET Part}
    BY <2>1 DEF IsPartMap
  <2>3. operation'[r.id] = [request |-> r, verdict |-> verdict[w], at |-> occurredAt[w]]
    BY <1>1, <1>3 DEF TypeOK
  <2>4. operation'[r.id] # NULL
    BY <1>3, <2>1, <2>2, <2>3, NullAssumption
  <2> QED
    BY <1>1, <1>3, <2>1, <2>3, <2>4 DEF TypeOK, IsOperationRow
<1>5. \A p \in W : /\ reservation[r.order][p].status = "RESERVED"
                   /\ reservation[r.order][p].quantity = r.items[p]
                   /\ stock[p].reserved >= r.items[p]
                   /\ <<"reservation", <<r.order, p>>>> \in held[w]
                   /\ <<"part", p>> \in held[w]
  BY <1>3 DEF JudgementHolds, IsGranted, Matches, ReservationLock, PartLock
<1>6. \A o \in Order, p \in Part :
        /\ reservation[o][p] \in ReservationRow(Command)
        /\ reservation'[o][p] = IF o = r.order /\ p \in W
                                THEN ReleasedRow(reservation[o][p], r.id)
                                ELSE reservation[o][p]
  BY <1>1, <1>3 DEF TypeOK
<1>7. \A row \in ReservationRow(Command) :
        /\ ReleasedRow(row, r.id) \in ReservationRow(Command)
        /\ ReleasedRow(row, r.id).status = "RELEASED"
        /\ ReleasedRow(row, r.id).quantity = row.quantity
        /\ ReleasedRow(row, r.id).releasedBy = {r.id}
  BY <1>3 DEF ReleasedRow, ReservationRow, ReservationStatus
<1>8. \A p \in Part :
        /\ stock[p] \in StockRow
        /\ p \in W => /\ stock'[p] \in StockRow
                      /\ stock'[p].available = stock[p].available + r.items[p]
                      /\ stock'[p].reserved = stock[p].reserved - r.items[p]
        /\ p \notin W => stock'[p] = stock[p]
  <2>1. stock \in [Part -> StockRow] /\ \A p \in W : r.items[p] \in Int
    BY <1>1, <1>3 DEF TypeOK
  <2>2. \A p \in Part : stock'[p] = IF p \in W THEN Moved(stock[p], r.items[p]) ELSE stock[p]
    BY <1>3
  <2>3. ASSUME NEW p \in W, p \in Part
        PROVE  /\ stock'[p] \in StockRow
               /\ stock'[p].available = stock[p].available + r.items[p]
               /\ stock'[p].reserved = stock[p].reserved - r.items[p]
    <3>1. stock'[p] = Moved(stock[p], r.items[p])
      BY <2>2, <2>3
    <3>2. /\ Moved(stock[p], r.items[p]) \in StockRow
          /\ Moved(stock[p], r.items[p]) =
               [available |-> stock[p].available + r.items[p],
                reserved |-> stock[p].reserved - r.items[p], active |-> stock[p].active]
      BY <2>1, <2>3, MovedRow
    <3> QED
      BY <3>1, <3>2
  <2> QED
    BY <2>1, <2>2, <2>3
<1>9. /\ stock' \in [Part -> StockRow]
      /\ reservation' \in [Order -> [Part -> ReservationRow(Command)]]
  <2>1. stock' \in [Part -> StockRow]
    BY <1>3, <1>8
  <2>2. \A o \in Order, p \in Part : reservation'[o][p] \in ReservationRow(Command)
    BY <1>6, <1>7
  <2> QED
    BY <1>3, <2>1, <2>2
<1>10. TypeOK'
  <2>1. \A c \in Command : operation'[c] = NULL \/ IsOperationRow(operation'[c])
    BY <1>1, <1>4 DEF TypeOK
  <2>2. pc' \in [Worker -> Phase]
    BY <1>1, <1>2 DEF TypeOK, Phase
  <2>3. (\A c \in Command : operation[c] = NULL \/ IsOperationRow(operation[c]))'
    BY <2>1 DEF IsOperationRow
  <2>4. snapshot' \in [Worker -> [stock : [Part -> StockRow],
                                 reservation : [Order -> [Part -> ReservationRow(Command)]]]
                                \cup {NULL}]
    BY <1>1, <1>2, EndedTransaction DEF TypeOK
  <2> QED
    BY <1>1, <1>2, <1>4, <1>9, <2>2, <2>3, <2>4, EndedTransaction DEF TypeOK
<1>11. LocksAreExclusive'
  <2>1. held' = [held EXCEPT ![w] = {}]
    BY <1>2 DEF EndTransaction
  <2> QED
    BY <1>1, <2>1, LocksStayExclusive DEF Waits, Lock
<1>12. Knows(w)'
  <2>1. /\ pc'[w] = "publish" /\ held'[w] = {} /\ request'[w] = r
        /\ DOMAIN verdict'[w] = {} /\ DOMAIN write'[w] = {}
    BY <1>1, <1>2, EndedTransaction DEF TypeOK
  <2> QED
    BY <1>3, <1>4, <2>1 DEF Knows, PhaseHolds, JudgementsHold, SnapshotIsOlder, InTransaction
<1>13. ASSUME NEW v \in Worker, v # w PROVE Knows(v)'
  <2>1. Untouched(v)
    BY <1>1, <1>2, <1>13, EndedTransaction DEF TypeOK, Untouched
  <2>2. /\ UNCHANGED <<ToDo(v), Item(v), InTransaction(v), OperationLock(v)>>
        /\ \A p : UNCHANGED <<ReservationLock(v, p), PartLock(p)>>
    BY <2>1, SameItem DEF Untouched, InTransaction, OperationLock, ReservationLock, PartLock
  <2>3. held[v] \cap held[w] = {}
    BY <1>1, <1>13 DEF LocksAreExclusive
  <2>4. pc[v] # "idle" => request[v] \in Request /\ request[v].id \in Command
                          /\ request[v].order \in Order
                          /\ DOMAIN request[v].items \subseteq Part
    BY <1>1, RequestAssumption DEF Knows, PhaseHolds, Valid, IsNormalized, IsPartMap
  <2>5. ASSUME NEW p \in Part, request[v].order \in Order, ReservationLock(v, p) \in held[v]
        PROVE  Matches(v, p)' = Matches(v, p)
    <3>1. ~(request[v].order = r.order /\ p \in W)
      BY <1>5, <2>3, <2>5 DEF ReservationLock
    <3> QED
      BY <1>6, <2>1, <2>5, <3>1 DEF Matches, Untouched
  <2>6. \A p \in Part : PartLock(p) \in held[v] => stock'[p] = stock[p]
    BY <1>5, <1>8, <2>3 DEF PartLock
  <2>7. PhaseHolds(v)'
    <3>1. InTransaction(v) => (operation[request[v].id])' = NULL
      <4> SUFFICES ASSUME InTransaction(v) PROVE operation'[request[v].id] = NULL
        BY <2>1 DEF Untouched
      <4>1. operation[request[v].id] = NULL /\ OperationLock(v) \in held[v] /\ pc[v] # "idle"
        BY <1>1 DEF Knows, PhaseHolds, InTransaction
      <4>2. request[v].id # r.id
        BY <1>3, <2>3, <4>1 DEF OperationLock
      <4> QED
        BY <1>4, <2>4, <4>1, <4>2
    <3>2. pc[v] = "publish" => (operation[request[v].id])' # NULL
      BY <1>1, <1>4, <2>1, <2>4 DEF Knows, PhaseHolds, Untouched
    <3>3. pc[v] = "lockPart" => Matches(v, Item(v))' = Matches(v, Item(v))
      <4> SUFFICES ASSUME pc[v] = "lockPart"
                   PROVE  Matches(v, Item(v))' = Matches(v, Item(v))
        OBVIOUS
      <4>1. /\ request[v] \in Request /\ ToDo(v) # {} /\ request[v].order \in Order
            /\ ReservationLock(v, Item(v)) \in held[v]
        BY <1>1, <2>4 DEF Knows, PhaseHolds
      <4> PICK p : p = Item(v)
        OBVIOUS
      <4>2. p \in Part /\ Item(v)' = p
        BY <2>2, <2>4, <4>1, ItemIsToDo DEF ToDo
      <4>3. Matches(v, p)' = Matches(v, p)
        BY <2>5, <4>1, <4>2
      <4> QED
        BY <4>2, <4>3 DEF Matches
    <3> QED
      BY <1>1, <2>1, <2>2, <3>1, <3>2, <3>3 DEF Knows, PhaseHolds, Untouched
  <2>8. JudgementsHold(v)'
    <3> SUFFICES ASSUME InTransaction(v) PROVE JudgementsHold(v)'
      BY <2>2 DEF JudgementsHold
    <3>1. /\ DOMAIN write[v] \subseteq DOMAIN verdict[v]
          /\ DOMAIN verdict[v] \subseteq DOMAIN request[v].items
          /\ \A p \in DOMAIN verdict[v] : JudgementHolds(v, p)
          /\ request[v].order \in Order /\ DOMAIN request[v].items \subseteq Part
      BY <1>1, <2>4 DEF Knows, JudgementsHold, InTransaction
    <3>2. ASSUME NEW p \in DOMAIN verdict[v] PROVE JudgementHolds(v, p)'
      <4>1. JudgementHolds(v, p) /\ p \in Part
        BY <3>1
      <4>2. Matches(v, p)' = Matches(v, p)
        BY <2>5, <3>1, <4>1 DEF JudgementHolds
      <4>3. PartLock(p) \in held[v] => stock'[p] = stock[p]
        BY <2>6, <4>1
      <4> QED
        BY <2>1, <2>2, <4>1, <4>2, <4>3 DEF JudgementHolds, IsGranted, IsRefused, Untouched
    <3> QED
      BY <2>1, <3>1, <3>2 DEF JudgementsHold, Untouched
  <2>9. SnapshotIsOlder(v)'
    <3>1. \A p \in Part : /\ stock'[p].available \in Int /\ stock'[p].reserved \in Int
                          /\ stock[p].available \in Int /\ stock[p].reserved \in Int
                          /\ stock[p].available <= stock'[p].available
                          /\ stock[p].reserved >= stock'[p].reserved
      BY <1>3, <1>8 DEF StockRow
    <3> SUFFICES ASSUME pc[v] = "insert" \/ InTransaction(v) PROVE SnapshotIsOlder(v)'
      BY <2>1, <2>2 DEF SnapshotIsOlder, Untouched
    <3>2. SnapshotIsOlder(v)
      BY <1>1 DEF Knows
    <3>3. \A p \in Part : /\ snapshot[v].stock[p].available \in Int
                          /\ snapshot[v].stock[p].reserved \in Int
                          /\ snapshot[v].stock[p].available <= stock[p].available
                          /\ snapshot[v].stock[p].reserved >= stock[p].reserved
      BY <3>2 DEF SnapshotIsOlder, StockRow
    <3> QED
      BY <2>1, <3>1, <3>2, <3>3 DEF SnapshotIsOlder, Untouched
  <2> QED
    BY <2>7, <2>8, <2>9 DEF Knows
<1>14. ReleaserIsKnown'
  BY <1>1, <1>6, <1>7 DEF ReleaserIsKnown
<1>15. ReportIsPhysical'
  <2> SUFFICES ASSUME NEW c \in Command, NEW o \in Order, NEW p \in Part
               PROVE  (reservation'[o][p].releasedBy = {c}) <=>
                        /\ operation'[c] # NULL /\ operation'[c].request.order = o
                        /\ p \in DOMAIN operation'[c].verdict
                        /\ operation'[c].verdict[p] = "RELEASED"
    BY DEF ReportIsPhysical
  <2>1. (reservation[o][p].releasedBy = {c}) <=>
          /\ operation[c] # NULL /\ operation[c].request.order = o
          /\ p \in DOMAIN operation[c].verdict /\ operation[c].verdict[p] = "RELEASED"
    BY <1>1 DEF ReportIsPhysical
  <2>2. CASE o = r.order /\ p \in W
    <3>1. reservation'[o][p].releasedBy = {r.id}
      BY <1>6, <1>7, <2>2
    <3>2. reservation[o][p].releasedBy = {}
      BY <1>1, <1>5, <2>2 DEF ReleaserIsKnown
    <3>3. ({r.id} = {c} <=> c = r.id) /\ {} # {c}
      OBVIOUS
    <3>4. p \in DOMAIN verdict[w] /\ verdict[w][p] = "RELEASED"
      BY <1>3, <2>2
    <3>5. CASE c = r.id
      BY <1>4, <2>2, <3>1, <3>4, <3>5
    <3>6. CASE c # r.id
      BY <1>4, <2>1, <3>1, <3>2, <3>3, <3>6
    <3> QED
      BY <3>5, <3>6
  <2>3. CASE ~(o = r.order /\ p \in W)
    BY <1>3, <1>4, <1>6, <2>1, <2>3
  <2> QED
    BY <2>2, <2>3
<1>16. StockConserved'
  <2> SUFFICES ASSUME NEW p \in Part
               PROVE  /\ stock'[p].reserved = QuantityIn(p, "RESERVED")'
                      /\ stock'[p].available = InitialAvailable[p] + QuantityIn(p, "RELEASED")'
    BY DEF StockConserved, ReservedQuantity
  <2>1. /\ stock[p].reserved = QuantityIn(p, "RESERVED")
        /\ stock[p].available = InitialAvailable[p] + QuantityIn(p, "RELEASED")
    BY <1>1 DEF StockConserved, ReservedQuantity
  <2>2. CASE p \in W
    <3>1. /\ \A x \in Order : reservation'[x][p].quantity = reservation[x][p].quantity
          /\ \A x \in Order : reservation'[x][p].status =
               IF x = r.order THEN "RELEASED" ELSE reservation[x][p].status
      BY <1>6, <1>7, <2>2
    <3>2. /\ QuantityIn(p, "RESERVED") = r.items[p] + QuantityIn(p, "RESERVED")'
          /\ QuantityIn(p, "RELEASED")' = r.items[p] + QuantityIn(p, "RELEASED")
          /\ QuantityIn(p, "RESERVED") \in Int /\ QuantityIn(p, "RELEASED") \in Int
          /\ QuantityIn(p, "RESERVED")' \in Int
      <4>1. /\ r.order \in Order /\ reservation[r.order][p].status = "RESERVED"
            /\ reservation[r.order][p].quantity = r.items[p]
        BY <1>3, <1>5, <2>2
      <4> QED
        BY <1>1, <1>9, <3>1, <4>1, QuantityMoves
    <3>3. InitialAvailable[p] \in Int /\ r.items[p] \in Int
      BY <1>3, <2>2, InitialAssumption
    <3> QED
      BY <1>8, <2>1, <2>2, <3>2, <3>3
  <2>3. CASE p \notin W
    <3>1. \A x \in Order : reservation'[x][p] = reservation[x][p]
      BY <1>6, <2>3
    <3>2. /\ QuantityIn(p, "RESERVED")' = QuantityIn(p, "RESERVED")
          /\ QuantityIn(p, "RELEASED")' = QuantityIn(p, "RELEASED")
      BY <3>1 DEF QuantityIn
    <3> QED
      BY <1>8, <2>1, <2>3, <3>2
  <2> QED
    BY <2>2, <2>3
<1>17. PublishedIsStored'
  BY <1>1, <1>2, <1>3, <1>4 DEF PublishedIsStored, EnvelopeOf
<1> QED
  BY <1>10, <1>11, <1>12, <1>13, <1>14, <1>15, <1>16, <1>17 DEF ReleaseInv, Knows

-----------------------------------------------------------------------------
(* The theorems.                                                           *)

(* Every step of a worker keeps the invariant, and so does a stutter.      *)
LEMMA NextKeepsReleaseInv == ReleaseInv /\ [Next]_vars => ReleaseInv'
<1> SUFFICES ASSUME ReleaseInv, [Next]_vars PROVE ReleaseInv'
  OBVIOUS
<1>1. ASSUME NEW w \in Worker, NEW r \in Request, Begin(w, r) PROVE ReleaseInv'
  BY <1>1, BeginKeepsReleaseInv
<1>2. ASSUME NEW w \in Worker, InsertOperation(w) PROVE ReleaseInv'
  BY <1>2, InsertKeepsReleaseInv
<1>3. ASSUME NEW w \in Worker, Recover(w) PROVE ReleaseInv'
  BY <1>3, RecoverKeepsReleaseInv
<1>4. ASSUME NEW w \in Worker, LockReservation(w) PROVE ReleaseInv'
  BY <1>4, LockReservationKeepsReleaseInv
<1>5. ASSUME NEW w \in Worker, LockPart(w) PROVE ReleaseInv'
  BY <1>5, LockPartKeepsReleaseInv
<1>6. ASSUME NEW w \in Worker, Commit(w) PROVE ReleaseInv'
  BY <1>6, CommitKeepsReleaseInv
<1>7. ASSUME NEW w \in Worker, Publish(w) PROVE ReleaseInv'
  BY <1>7, PublishKeepsReleaseInv
<1>8. ASSUME NEW w \in Worker, Abort(w) PROVE ReleaseInv'
  BY <1>8, AbortKeepsReleaseInv
<1>9. CASE UNCHANGED vars
  <2>1. UNCHANGED <<tables, operation, published>> /\ UNCHANGED attempts
        /\ UNCHANGED <<pc, request, snapshot, held, verdict, write, occurredAt>>
    BY <1>9 DEF vars, workerVars
  <2>2. TypeOK' /\ LocksAreExclusive'
    BY <2>1 DEF ReleaseInv, TypeOK, LocksAreExclusive, IsOperationRow, tables
  <2>3. PublishedIsStored'
    BY <2>1, EnvelopesStillAgree DEF ReleaseInv
  <2>4. \A v \in Worker : Knows(v)'
    <3>1. \A v \in Worker : Knows(v) /\ Untouched(v)
      BY <2>1 DEF ReleaseInv, Knows, Untouched
    <3> QED
      BY <2>1, <3>1, OthersStillKnow
  <2> QED
    BY <2>1, <2>2, <2>3, <2>4, TablesStillAgree DEF ReleaseInv, Knows
<1> QED
  BY <1>1, <1>2, <1>3, <1>4, <1>5, <1>6, <1>7, <1>8, <1>9 DEF Next, Step

(* The unit of work keeps the invariant, whatever it meets.                *)
THEOREM ReleaseInvariant == Spec => []ReleaseInv
  BY InitEstablishesReleaseInv, NextKeepsReleaseInv, PTL DEF Spec

(* The variables keep their types: a stored result always names its parts. *)
THEOREM ReleaseTypeCorrect == Spec => []TypeOK
<1>1. ReleaseInv => TypeOK
  BY DEF ReleaseInv
<1> QED
  BY <1>1, ReleaseInvariant, PTL

(* No unit is created or lost, for any number of overlapping commands      *)
(* (executeTransaction, releaseOne).                                       *)
THEOREM UnitsAreConserved == Spec => []StockConserved
<1>1. ReleaseInv => StockConserved
  BY DEF ReleaseInv
<1> QED
  BY <1>1, ReleaseInvariant, PTL

(* What a command reports as released is what it released (releaseOne).    *)
THEOREM ReportsArePhysical == Spec => []ReportIsPhysical
<1>1. ReleaseInv => ReportIsPhysical
  BY DEF ReleaseInv
<1> QED
  BY <1>1, ReleaseInvariant, PTL

(* Every envelope of a command is the same one, however often it is        *)
(* delivered (releaseResultEnvelope).                                      *)
THEOREM EnvelopesAreTheSame == Spec => []SameEnvelope
<1>1. ReleaseInv => SameEnvelope
  BY DEF ReleaseInv, PublishedIsStored, SameEnvelope
<1> QED
  BY <1>1, ReleaseInvariant, PTL

-----------------------------------------------------------------------------
(* The order of the locks.                                                 *)

(* A transaction has locked rows of its command, of the parts it has       *)
(* judged, and the reservation of the part it is at; and it judges the     *)
(* parts from the first to the last.                                       *)
LocksAreItsOwn(w) ==
  InTransaction(w) =>
    \A x \in held[w] :
      \/ x = OperationLock(w)
      \/ \E p \in DOMAIN verdict[w] : x = ReservationLock(w, p) \/ x = PartLock(p)
      \/ pc[w] = "lockPart" /\ x = ReservationLock(w, Item(w))

JudgesInOrder(w) ==
  pc[w] \in {"lockReservation", "lockPart"} => \A p \in DOMAIN verdict[w] : p < Item(w)

LockOrder == \A w \in Worker : LocksAreItsOwn(w) /\ JudgesInOrder(w)

(* The next item is the first of those that are left.                      *)
LEMMA ItemIsFirst ==
  ASSUME NEW w \in Worker, request[w] \in Request, ToDo(w) # {}
  PROVE  /\ Item(w) \in ToDo(w) /\ \A q \in ToDo(w) : Item(w) <= q
         /\ ToDo(w) \in SUBSET Part /\ ToDo(w) \subseteq Int
<1>1. ToDo(w) \in SUBSET Part /\ ToDo(w) \subseteq Int
  BY RequestAssumption, PartAssumption DEF ToDo, Valid, IsNormalized, IsPartMap
<1>2. \E p \in ToDo(w) : \A q \in ToDo(w) : p <= q
  BY <1>1, FirstPart
<1> QED
  BY <1>1, <1>2 DEF Item

(* After a judgement the next item comes later than all that are judged.   *)
LEMMA JudgedInOrder ==
  ASSUME ReleaseInv, NEW w \in Worker, JudgesInOrder(w), UNCHANGED request,
         pc[w] \in {"lockReservation", "lockPart"},
         NEW p, p = Item(w), DOMAIN verdict'[w] = DOMAIN verdict[w] \cup {p},
         pc'[w] = IF ToDo(w)' = {} THEN "commit" ELSE "lockReservation"
  PROVE  JudgesInOrder(w)'
<1>1. request[w] \in Request /\ ToDo(w) # {}
  BY DEF ReleaseInv, PhaseHolds
<1>2. /\ p \in ToDo(w) /\ \A q \in ToDo(w) : p <= q
      /\ ToDo(w) \subseteq Int
  BY <1>1, ItemIsFirst
<1>3. ToDo(w)' = ToDo(w) \ {p}
  BY DEF ToDo
<1> SUFFICES ASSUME ToDo(w)' # {} PROVE \A q \in DOMAIN verdict'[w] : q < Item(w)'
  BY DEF JudgesInOrder
<1> PICK n : n = Item(w)'
  OBVIOUS
<1>4. n \in ToDo(w)'
  <2>1. \E a \in ToDo(w)' : \A b \in ToDo(w)' : a <= b
    <3>1. ToDo(w) \ {p} \in SUBSET Part /\ ToDo(w) \ {p} # {}
      BY <1>1, <1>3, ItemIsFirst
    <3>2. \E a \in ToDo(w) \ {p} : \A b \in ToDo(w) \ {p} : a <= b
      BY <3>1, FirstPart
    <3> QED
      BY <1>3, <3>2
  <2>2. Item(w)' = CHOOSE a \in ToDo(w)' : \A b \in ToDo(w)' : a <= b
    BY DEF Item
  <2> QED
    BY <2>1, <2>2
<1>5. p < n
  BY <1>2, <1>3, <1>4
<1>6. \A q \in DOMAIN verdict[w] : q < p
  BY DEF JudgesInOrder
<1>7. DOMAIN verdict[w] \subseteq Int
  BY PartAssumption DEF ReleaseInv, TypeOK, IsPartMap
<1>8. n \in Int /\ p \in Int
  BY <1>2, <1>3, <1>4
<1>9. \A q \in DOMAIN verdict'[w] : q = p \/ (q \in DOMAIN verdict[w] /\ q < p /\ q \in Int)
  BY <1>6, <1>7
<1> QED
  BY <1>5, <1>8, <1>9

(* A judgement adds one row of the item that is judged.                    *)
LEMMA JudgedRowIsItsOwn ==
  ASSUME NEW w \in Worker, LocksAreItsOwn(w), InTransaction(w), UNCHANGED request,
         NEW p, p = Item(w), DOMAIN verdict'[w] = DOMAIN verdict[w] \cup {p},
         \/ held'[w] = held[w] \cup {ReservationLock(w, p)}
         \/ held'[w] = held[w] \cup {PartLock(p)}
  PROVE  LocksAreItsOwn(w)'
<1>1. /\ OperationLock(w)' = OperationLock(w)
      /\ \A q : ReservationLock(w, q)' = ReservationLock(w, q) /\ PartLock(q)' = PartLock(q)
  BY DEF OperationLock, ReservationLock, PartLock
<1>2. \A x \in held[w] :
        \/ x = OperationLock(w)
        \/ \E q \in DOMAIN verdict'[w] : x = ReservationLock(w, q) \/ x = PartLock(q)
  BY DEF LocksAreItsOwn
<1>3. \A x \in held'[w] :
        \/ x = OperationLock(w)
        \/ \E q \in DOMAIN verdict'[w] : x = ReservationLock(w, q) \/ x = PartLock(q)
  BY <1>2
<1> QED
  BY <1>1, <1>3 DEF LocksAreItsOwn

(* The steps of a worker are nothing to the locks of the others.           *)
LEMMA OthersKeepTheirOrder ==
  ASSUME NEW v \in Worker, LocksAreItsOwn(v), JudgesInOrder(v),
         UNCHANGED <<pc[v], request[v], held[v], verdict[v]>>
  PROVE  LocksAreItsOwn(v)' /\ JudgesInOrder(v)'
<1>1. UNCHANGED <<ToDo(v), Item(v), OperationLock(v)>>
      /\ \A p : UNCHANGED <<ReservationLock(v, p), PartLock(p)>>
  BY SameItem DEF OperationLock, ReservationLock, PartLock
<1> QED
  BY <1>1 DEF LocksAreItsOwn, JudgesInOrder, InTransaction

(* A step of a worker, and then one of any.                                *)
LEMMA WorkerKeepsLockOrder ==
  ASSUME ReleaseInv, LockOrder, NEW w \in Worker,
         Step(w) \/ Abort(w) \/ \E r \in Request : Begin(w, r)
  PROVE  /\ LocksAreItsOwn(w)' /\ JudgesInOrder(w)'
         /\ \A v \in Worker \ {w} : UNCHANGED <<pc[v], request[v], held[v], verdict[v]>>
<1>1. /\ TypeOK /\ PhaseHolds(w) /\ LocksAreItsOwn(w) /\ JudgesInOrder(w)
      /\ pc \in [Worker -> Phase] /\ request \in [Worker -> Request \cup {NULL}]
      /\ held \in [Worker -> SUBSET RowName] /\ DOMAIN verdict = Worker
  BY DEF ReleaseInv, LockOrder, TypeOK
<1>2. ASSUME pc'[w] \notin {"lockReservation", "lockPart", "commit"}
      PROVE  LocksAreItsOwn(w)' /\ JudgesInOrder(w)'
  BY <1>2 DEF LocksAreItsOwn, JudgesInOrder, InTransaction
<1>3. ASSUME NEW r \in Request, Begin(w, r)
      PROVE  /\ pc'[w] \notin {"lockReservation", "lockPart", "commit"}
             /\ \A v \in Worker \ {w} : UNCHANGED <<pc[v], request[v], held[v], verdict[v]>>
  BY <1>1, <1>3 DEF Begin, Goto
<1>4. ASSUME Recover(w) \/ Publish(w)
      PROVE  /\ pc'[w] \notin {"lockReservation", "lockPart", "commit"}
             /\ \A v \in Worker \ {w} : UNCHANGED <<pc[v], request[v], held[v], verdict[v]>>
  BY <1>1, <1>4 DEF Recover, Publish, Goto, Finish
<1>5. ASSUME Commit(w) \/ Abort(w)
      PROVE  /\ pc'[w] \notin {"lockReservation", "lockPart", "commit"}
             /\ \A v \in Worker \ {w} : UNCHANGED <<pc[v], request[v], held[v], verdict[v]>>
  BY <1>1, <1>5 DEF Commit, Abort, Goto, Finish, EndTransaction
<1>6. ASSUME InsertOperation(w)
      PROVE  /\ LocksAreItsOwn(w)' /\ JudgesInOrder(w)'
             /\ \A v \in Worker \ {w} : UNCHANGED <<pc[v], request[v], held[v], verdict[v]>>
  <2>1. CASE operation[request[w].id] # NULL
    <3>1. /\ pc'[w] = "recover"
          /\ \A v \in Worker \ {w} : UNCHANGED <<pc[v], request[v], held[v], verdict[v]>>
      BY <1>1, <1>6, <2>1 DEF InsertOperation, Goto, EndTransaction
    <3> QED
      BY <1>2, <3>1
  <2>2. CASE operation[request[w].id] = NULL
    <3>1. /\ pc[w] = "insert" /\ Lock(w) /\ pc' = [pc EXCEPT ![w] = "lockReservation"]
          /\ UNCHANGED <<verdict, request>>
      BY <1>6, <2>2 DEF InsertOperation, Goto
    <3>2. held[w] = {} /\ DOMAIN verdict[w] = {} /\ Wanted(w) = OperationLock(w)
      BY <1>1, <3>1 DEF PhaseHolds, InTransaction, Wanted, OperationLock
    <3>3. /\ held'[w] = {OperationLock(w)} /\ OperationLock(w)' = OperationLock(w)
          /\ DOMAIN verdict'[w] = {} /\ pc'[w] = "lockReservation"
      BY <1>1, <3>1, <3>2 DEF Lock, OperationLock
    <3>4. \A v \in Worker \ {w} : UNCHANGED <<pc[v], request[v], held[v], verdict[v]>>
      BY <1>1, <3>1 DEF Lock
    <3> QED
      BY <3>3, <3>4 DEF LocksAreItsOwn, JudgesInOrder
  <2> QED
    BY <2>1, <2>2
<1>7. ASSUME LockReservation(w) \/ LockPart(w)
      PROVE  /\ LocksAreItsOwn(w)' /\ JudgesInOrder(w)'
             /\ \A v \in Worker \ {w} : UNCHANGED <<pc[v], request[v], held[v], verdict[v]>>
  <2> PICK p : p = Item(w)
    OBVIOUS
  <2>1. /\ pc[w] \in {"lockReservation", "lockPart"} /\ UNCHANGED request
        /\ InTransaction(w) /\ request[w] \in Request /\ ToDo(w) # {}
    BY <1>1, <1>7 DEF LockReservation, LockPart, InTransaction, PhaseHolds
  <2>2. /\ request[w].order \in Order /\ p \in Part
        /\ Wanted(w) = IF pc[w] = "lockReservation" THEN ReservationLock(w, p) ELSE PartLock(p)
        /\ Wanted(w) \in RowName
    <3>1. request[w].order \in Order /\ p \in Part
      BY <2>1, ItemIsFirst, RequestAssumption DEF Valid
    <3> QED
      BY <2>1, <3>1 DEF Wanted, ReservationLock, PartLock, RowName
  <2>3. ASSUME NEW code \in Verdict, Judge(w, code), Lock(w)
        PROVE  /\ LocksAreItsOwn(w)' /\ JudgesInOrder(w)'
               /\ \A v \in Worker \ {w} : UNCHANGED <<pc[v], request[v], held[v], verdict[v]>>
    <3>1. /\ held'[w] = held[w] \cup {Wanted(w)}
          /\ \A v \in Worker \ {w} : held'[v] = held[v]
      BY <1>1, <2>2, <2>3, TakenLock
    <3>2. /\ DOMAIN verdict'[w] = DOMAIN verdict[w] \cup {p}
          /\ pc'[w] = IF ToDo(w)' = {} THEN "commit" ELSE "lockReservation"
          /\ \A v \in Worker \ {w} : UNCHANGED <<pc[v], verdict[v]>>
      BY <1>1, <2>1, <2>3, JudgedItem
    <3>3. LocksAreItsOwn(w)'
      BY <1>1, <2>1, <2>2, <3>1, <3>2, JudgedRowIsItsOwn
    <3>4. JudgesInOrder(w)'
      BY <1>1, <2>1, <3>2, JudgedInOrder
    <3> QED
      BY <2>1, <3>1, <3>2, <3>3, <3>4
  <2>4. CASE LockReservation(w)
    <3> DEFINE code == ReservationVerdict(reservation[request[w].order][p],
                                          request[w].items[p], request[w].id)
    <3>1. /\ pc[w] = "lockReservation" /\ Lock(w)
          /\ IF code = NULL THEN Goto(w, "lockPart") /\ UNCHANGED verdict ELSE Judge(w, code)
      BY <2>4 DEF LockReservation
    <3>2. code = NULL \/ code \in Verdict
      <4>1. reservation[request[w].order][p] \in ReservationRow(Command)
        BY <1>1, <2>2 DEF TypeOK
      <4> QED
        BY <4>1, VerdictOfRow
    <3> HIDE DEF code
    <3>3. CASE code = NULL
      <4>1. pc' = [pc EXCEPT ![w] = "lockPart"] /\ verdict' = verdict
        BY <3>1, <3>3 DEF Goto
      <4>2. /\ held'[w] = held[w] \cup {ReservationLock(w, p)}
            /\ \A v \in Worker \ {w} : held'[v] = held[v]
        BY <1>1, <2>2, <3>1, TakenLock
      <4>3. /\ UNCHANGED <<Item(w), OperationLock(w)>>
            /\ \A q : UNCHANGED <<ReservationLock(w, q), PartLock(q)>>
        BY <2>1, <4>1, SameItem DEF OperationLock, ReservationLock, PartLock
      <4>4. pc'[w] = "lockPart"
        BY <1>1, <4>1
      <4>5. \A x \in held[w] :
              \/ x = OperationLock(w)
              \/ \E q \in DOMAIN verdict[w] : x = ReservationLock(w, q) \/ x = PartLock(q)
        BY <1>1, <2>1, <3>1 DEF LocksAreItsOwn
      <4>6. LocksAreItsOwn(w)'
        BY <4>1, <4>2, <4>3, <4>4, <4>5 DEF LocksAreItsOwn
      <4>7. JudgesInOrder(w)'
        BY <1>1, <2>1, <4>1, <4>3 DEF JudgesInOrder
      <4> QED
        BY <1>1, <2>1, <4>1, <4>2, <4>6, <4>7
    <3>4. CASE code # NULL
      BY <2>3, <3>1, <3>2, <3>4
    <3> QED
      BY <3>3, <3>4
  <2>5. CASE LockPart(w)
    <3>1. \/ \E code \in Verdict : Judge(w, code) /\ Lock(w)
          \/ Goto(w, "recover") /\ EndTransaction(w)
      BY <2>5 DEF LockPart, Verdict
    <3>2. CASE Goto(w, "recover") /\ EndTransaction(w)
      <4>1. /\ pc'[w] = "recover"
            /\ \A v \in Worker \ {w} : UNCHANGED <<pc[v], request[v], held[v], verdict[v]>>
        BY <1>1, <2>1, <3>2 DEF Goto, EndTransaction
      <4> QED
        BY <1>2, <4>1
    <3> QED
      BY <2>3, <3>1, <3>2
  <2> QED
    BY <1>7, <2>4, <2>5
<1> QED
  BY <1>2, <1>3, <1>4, <1>5, <1>6, <1>7 DEF Step

(* Rows stay locked in the order of the items, whoever takes a step.       *)
LEMMA StepKeepsLockOrder == ReleaseInv /\ LockOrder /\ [Next]_vars => LockOrder'
<1> SUFFICES ASSUME ReleaseInv, LockOrder, [Next]_vars PROVE LockOrder'
  OBVIOUS
<1>1. CASE UNCHANGED vars
  <2>1. \A v \in Worker : UNCHANGED <<pc[v], request[v], held[v], verdict[v]>>
    BY <1>1 DEF vars, workerVars
  <2> QED
    BY <2>1, OthersKeepTheirOrder DEF LockOrder
<1>2. ASSUME NEW w \in Worker, Step(w) \/ Abort(w) \/ \E r \in Request : Begin(w, r)
      PROVE  LockOrder'
  <2>1. /\ LocksAreItsOwn(w)' /\ JudgesInOrder(w)'
        /\ \A v \in Worker \ {w} : UNCHANGED <<pc[v], request[v], held[v], verdict[v]>>
    BY <1>2, WorkerKeepsLockOrder
  <2>2. \A v \in Worker \ {w} : LocksAreItsOwn(v)' /\ JudgesInOrder(v)'
    BY <2>1, OthersKeepTheirOrder DEF LockOrder
  <2> QED
    BY <2>1, <2>2 DEF LockOrder
<1> QED
  BY <1>1, <1>2 DEF Next

(* Whoever is waited for is at a later item, or further on at the same.    *)
LEMMA WaitersComeFirst ==
  ASSUME ReleaseInv, LockOrder, NEW w \in Worker, NEW v \in Worker, WaitsFor(w, v), Waits(v)
  PROVE  /\ pc[v] \in {"lockReservation", "lockPart"} /\ Item(v) \in Part
         /\ pc[w] \in {"lockReservation", "lockPart"} =>
              /\ Item(w) \in Part
              /\ \/ Item(w) < Item(v)
                 \/ Item(w) = Item(v) /\ pc[w] = "lockReservation" /\ pc[v] = "lockPart"
<1>1. /\ PhaseHolds(w) /\ PhaseHolds(v) /\ LocksAreItsOwn(v) /\ JudgesInOrder(v)
      /\ Wanted(w) \in held[v] /\ TypeOK
  BY DEF ReleaseInv, LockOrder, WaitsFor
<1>2. InTransaction(v) /\ pc[v] \in {"lockReservation", "lockPart"}
  BY <1>1 DEF PhaseHolds, Waits, InTransaction
<1>3. request[v] \in Request /\ ToDo(v) # {} /\ Item(v) \in Part
  BY <1>1, <1>2, ItemIsFirst DEF PhaseHolds
<1>4. ASSUME pc[w] \in {"lockReservation", "lockPart"}
      PROVE  /\ Item(w) \in Part
             /\ \/ Item(w) < Item(v)
                \/ Item(w) = Item(v) /\ pc[w] = "lockReservation" /\ pc[v] = "lockPart"
  <2>1. Item(w) \in Part
    BY <1>1, <1>4, ItemIsFirst DEF PhaseHolds
  <2>2. Wanted(w) = IF pc[w] = "lockReservation" THEN ReservationLock(w, Item(w))
                                                ELSE PartLock(Item(w))
    BY <1>4 DEF Wanted, ReservationLock, PartLock
  <2>3. \/ Wanted(w) = OperationLock(v)
        \/ \E p \in DOMAIN verdict[v] : Wanted(w) = ReservationLock(v, p) \/ Wanted(w) = PartLock(p)
        \/ pc[v] = "lockPart" /\ Wanted(w) = ReservationLock(v, Item(v))
    BY <1>1, <1>2 DEF LocksAreItsOwn
  <2>4. CASE Wanted(w) = OperationLock(v)
    BY <2>2, <2>4 DEF OperationLock, ReservationLock, PartLock
  <2>5. ASSUME NEW p \in DOMAIN verdict[v],
               Wanted(w) = ReservationLock(v, p) \/ Wanted(w) = PartLock(p)
        PROVE  Item(w) < Item(v)
    <3>1. Item(w) = p
      BY <2>2, <2>5 DEF ReservationLock, PartLock
    <3> QED
      BY <1>1, <1>2, <3>1 DEF JudgesInOrder
  <2>6. CASE pc[v] = "lockPart" /\ Wanted(w) = ReservationLock(v, Item(v))
    <3>1. pc[w] = "lockReservation" /\ Item(w) = Item(v)
      BY <1>4, <2>2, <2>6 DEF ReservationLock, PartLock
    <3> QED
      BY <2>1, <2>6, <3>1
  <2> QED
    BY <2>1, <2>3, <2>4, <2>5, <2>6
<1> QED
  BY <1>2, <1>3, <1>4

(* Some part of a set of parts comes last.                                 *)
LEMMA LastPart ==
  ASSUME NEW T \in SUBSET Part, T # {}
  PROVE  \E p \in T : \A q \in T : q <= p
<1> DEFINE After(p) == {q \in T : p < q}
           Afters == {After(p) : p \in T}
<1>1. IsFiniteSet(T) /\ T \subseteq Int
  BY PartAssumption, FS_Subset
<1>2. Afters \in SUBSET SUBSET T /\ Afters # {}
  OBVIOUS
<1>3. PICK B \in Afters : \A C \in Afters : C \subseteq B => C = B
  <2>1. PICK sets : sets = Afters
    OBVIOUS
  <2>2. IsFiniteSet(T) /\ sets \in SUBSET SUBSET T /\ sets # {}
    BY <1>1, <1>2, <2>1
  <2>3. \E B \in sets : \A C \in sets : C \subseteq B => C = B
    <3> HIDE DEF Afters
    <3> QED
      BY <2>2, SmallestSet
  <2> QED
    BY <2>1, <2>3
<1>4. PICK p \in T : B = After(p)
  BY <1>3
<1>5. ASSUME NEW q \in T, p < q PROVE FALSE
  <2>1. p \in Int /\ \A r \in T : r \in Int /\ (q < r => p < r) /\ ~(q < q)
    BY <1>1, <1>5
  <2>2. After(q) \subseteq After(p) /\ q \in After(p) /\ q \notin After(q)
    BY <1>5, <2>1
  <2> QED
    BY <1>3, <1>4, <2>2
<1> QED
  BY <1>1, <1>5

(* So a circle of waiting transactions has none that comes last.           *)
LEMMA NoCircle == ReleaseInv /\ LockOrder => NoDeadlock
<1> SUFFICES ASSUME ReleaseInv, LockOrder, NEW ring \in (SUBSET Worker) \ {{}},
                    \A w \in ring : \E v \in ring : WaitsFor(w, v)
             PROVE  FALSE
  BY DEF NoDeadlock
<1> DEFINE inner == {v \in ring : pc[v] \in {"lockReservation", "lockPart"}}
           items == {Item(v) : v \in inner}
<1>1. ring \subseteq Worker /\ ring # {} /\ \A w \in ring : Waits(w)
  <2>1. \A w \in ring : Waits(w)
    BY DEF WaitsFor, Waits
  <2> QED
    BY <2>1
<1>2. \A w \in ring : \E v \in inner : WaitsFor(w, v) /\ Waits(v)
  BY <1>1, WaitersComeFirst
<1>3. inner # {} /\ items \in SUBSET Part /\ items # {}
  <2>1. inner # {}
    BY <1>1, <1>2
  <2>2. ASSUME NEW v \in inner PROVE Item(v) \in Part
    <3>1. PICK u \in inner : WaitsFor(v, u) /\ Waits(u)
      BY <1>2
    <3> QED
      BY <1>1, <3>1, WaitersComeFirst
  <2> QED
    BY <2>1, <2>2
<1>4. PICK p \in items : \A q \in items : q <= p
  <2> HIDE DEF items
  <2> QED
    BY <1>3, LastPart
<1>5. PICK w \in inner : Item(w) = p
  BY <1>4
<1>6. PICK v \in inner : WaitsFor(w, v) /\ Waits(v)
  BY <1>2
<1>7. /\ Item(w) < Item(v) \/ (Item(w) = Item(v) /\ pc[v] = "lockPart")
      /\ Item(v) <= p /\ Item(v) \in Int /\ p \in Int
  <2>1. Item(w) < Item(v) \/ (Item(w) = Item(v) /\ pc[v] = "lockPart")
    BY <1>1, <1>6, WaitersComeFirst
  <2>2. Item(v) <= p
    BY <1>4
  <2> QED
    BY <1>3, <2>1, <2>2, PartAssumption
<1>8. Item(v) = p /\ pc[v] = "lockPart"
  BY <1>5, <1>7
<1>9. PICK u \in inner : WaitsFor(v, u) /\ Waits(u)
  BY <1>2
<1>10. Item(v) < Item(u) /\ Item(u) <= p /\ Item(u) \in Int
  BY <1>1, <1>3, <1>4, <1>8, <1>9, WaitersComeFirst, PartAssumption
<1> QED
  BY <1>7, <1>8, <1>10

(* No circle of transactions wait for one another's rows, since they are   *)
(* locked in the order of the parts (releaseReservations).                 *)
THEOREM ReleasesDoNotDeadlock == Spec => []NoDeadlock
<1>1. Init => LockOrder
  BY DEF Init, WorkersInit, LockOrder, LocksAreItsOwn, JudgesInOrder, InTransaction
<1>2. Spec => []LockOrder
  BY <1>1, StepKeepsLockOrder, ReleaseInvariant, PTL DEF Spec
<1> QED
  BY <1>2, NoCircle, ReleaseInvariant, PTL

-----------------------------------------------------------------------------
(* The refinement: a commit decides, and every other step stutters.        *)

(* No command is decided at first.                                         *)
LEMMA InitRefinesAtomicRelease == Init => Atomic!Init
BY InitialAssumption DEF Init, TablesInit, WorkersInit, Atomic!Init

(* How the abstract decision is read off a command row.                    *)
decisionOf(row) ==
  IF row = NULL THEN NULL
  ELSE [request |-> row.request,
        granted |-> {p \in DOMAIN row.verdict : row.verdict[p] = "RELEASED"}]

(* A commit is the decision of its command, against the current rows.      *)
LEMMA CommitRefinesDecide ==
  ASSUME ReleaseInv, NEW w \in Worker, Commit(w)
  PROVE  Atomic!Next
<1> PICK r, W : r = request[w] /\ W = DOMAIN write[w]
  OBVIOUS
<1>1. /\ TypeOK /\ DOMAIN operation = Command
      /\ \A p \in Part : stock[p] \in StockRow
      /\ IsPartMap(verdict[w], Verdict) /\ occurredAt[w] \in Nat
  BY DEF ReleaseInv, TypeOK
<1>2. /\ r \in Request /\ r.id \in Command /\ r.order \in Order
      /\ DOMAIN r.items \subseteq Part
      /\ operation[r.id] = NULL /\ DOMAIN verdict[w] = DOMAIN r.items
      /\ W = {p \in DOMAIN r.items : verdict[w][p] = "RELEASED"}
      /\ \A p \in W : IsGranted(w, p)
      /\ \A p \in DOMAIN r.items \ W : IsRefused(w, p)
      /\ operation' = [operation EXCEPT ![r.id] =
           [request |-> r, verdict |-> verdict[w], at |-> occurredAt[w]]]
      /\ stock' = [p \in Part |-> IF p \in W THEN Moved(stock[p], r.items[p]) ELSE stock[p]]
      /\ reservation' = [o \in Order |-> [p \in Part |->
           IF o = r.order /\ p \in W THEN ReleasedRow(reservation[o][p], r.id)
                                     ELSE reservation[o][p]]]
  BY CommitDecides
<1>3. Atomic!Granted(r) = W
  <2>1. \A p \in DOMAIN r.items :
          Atomic!Grants(r, p) <=> Matches(w, p) /\ stock[p].reserved >= r.items[p]
    BY DEF Atomic!Grants, Matches
  <2>2. \A p \in DOMAIN r.items : r.items[p] \in Int /\ stock[p].reserved \in Int
    BY <1>1, <1>2, RequestAssumption DEF Valid, IsNormalized, IsPartMap, StockRow
  <2>3. \A p \in DOMAIN r.items : Atomic!Grants(r, p) <=> p \in W
    BY <1>2, <2>1, <2>2 DEF IsGranted, IsRefused
  <2> QED
    BY <1>2, <2>3 DEF Atomic!Granted
<1>4. LET d == [c \in Command |-> decisionOf(operation[c])]
      IN d[r.id] = NULL /\ d' = [d EXCEPT ![r.id] = [request |-> r, granted |-> W]]
  <2> DEFINE d == [c \in Command |-> decisionOf(operation[c])]
             row == [request |-> r, verdict |-> verdict[w], at |-> occurredAt[w]]
  <2>1. row # NULL
    <3>1. verdict[w] \in UNION {[P -> Verdict] : P \in SUBSET Part}
      BY <1>1 DEF IsPartMap
    <3> QED
      BY <1>1, <1>2, <3>1, NullAssumption
  <2>2. decisionOf(row) = [request |-> r, granted |-> W]
    BY <1>2, <2>1 DEF decisionOf
  <2>3. d[r.id] = NULL
    BY <1>2 DEF decisionOf
  <2>4. operation' = [operation EXCEPT ![r.id] = row]
    BY <1>2
  <2> HIDE DEF row
  <2>5. \A c \in Command : operation'[c] = IF c = r.id THEN row ELSE operation[c]
    BY <1>1, <1>2, <2>4
  <2>6. d' = [c \in Command |-> IF c = r.id THEN [request |-> r, granted |-> W]
                                          ELSE decisionOf(operation[c])]
    BY <2>2, <2>5 DEF decisionOf
  <2> QED
    BY <1>2, <2>3, <2>6
<1>5. Atomic!Decide(r)
  <2>1. stock' = [p \in Part |->
          IF p \in W THEN [stock[p] EXCEPT !.available = @ + r.items[p],
                                           !.reserved = @ - r.items[p]]
                     ELSE stock[p]]
    BY <1>2 DEF Moved
  <2>2. reservation' = [o \in Order |-> [p \in Part |->
          IF o = r.order /\ p \in W
            THEN [reservation[o][p] EXCEPT !.status = "RELEASED", !.releasedBy = {r.id}]
            ELSE reservation[o][p]]]
    BY <1>2 DEF ReleasedRow
  <2> QED
    BY <1>3, <1>4, <2>1, <2>2 DEF Atomic!Decide, decisionOf
<1> QED
  BY <1>2, <1>5 DEF Atomic!Next

(* Where no row changes, no decision is taken.                             *)
LEMMA OthersStutter ==
  ASSUME UNCHANGED <<tables, operation>>
  PROVE  UNCHANGED Atomic!vars
BY DEF Atomic!vars, tables

(* A step decides a command or changes nothing of the abstract state.      *)
LEMMA StepRefinesAtomicRelease == ReleaseInv /\ [Next]_vars => [Atomic!Next]_(Atomic!vars)
<1> SUFFICES ASSUME ReleaseInv, [Next]_vars PROVE [Atomic!Next]_(Atomic!vars)
  OBVIOUS
<1>1. ASSUME NEW w \in Worker, Commit(w) PROVE [Atomic!Next]_(Atomic!vars)
  BY <1>1, CommitRefinesDecide
<1>2. ASSUME NEW w \in Worker,
             \/ \E r \in Request : Begin(w, r)
             \/ InsertOperation(w) \/ Recover(w) \/ LockReservation(w) \/ LockPart(w)
             \/ Publish(w) \/ Abort(w)
      PROVE  UNCHANGED <<tables, operation>>
  BY <1>2 DEF Begin, InsertOperation, Recover, LockReservation, LockPart, Publish, Abort
<1>3. CASE UNCHANGED vars
  BY <1>3, OthersStutter DEF vars
<1> QED
  BY <1>1, <1>2, <1>3, OthersStutter DEF Next, Step

(* Statement by statement, the transactions behave as if each command were *)
(* decided in one step (executeTransaction with its row locks).            *)
THEOREM ReleaseIsAtomic == Spec => IsAtomicRelease
  BY InitRefinesAtomicRelease, StepRefinesAtomicRelease, ReleaseInvariant, PTL
  DEF Spec, IsAtomicRelease, Atomic!Spec
=============================================================================
