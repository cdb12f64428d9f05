------------------------- MODULE SharedStockProofs -------------------------
(***************************************************************************)
(* Proofs about everything that works on the tables of the parts together, *)
(* for any deliveries, operators, parts, orders and messages.              *)
(***************************************************************************)
EXTENDS SharedStock, SumTheorems, SequenceTheorems, TLAPS

-----------------------------------------------------------------------------
(* The invariant of requests that overlap in any way, by parts.            *)

(* No save ever writes less than nothing: an entity in memory has counted  *)
(* what it gives away (Part.ensureAvailableStock, Part.releaseReservedStock, *)
(* releaseOne).                                                            *)
CountedRow == [available : Nat, reserved : Nat, active : BOOLEAN]

TaskIsCounted(w, i) ==
  task[w][i].phase \in {"reload", "update"} => task[w][i].part \in CountedRow

CommandIsCounted(o) ==
  /\ entity[o] # NULL => entity[o] \in CountedRow
  /\ loaded[o] # NULL => command[o] # NULL /\ ~Creates(o)

(* Where a release is, and what it then knows, without its row locks.      *)
IsInTransaction(v) == pc[v] \in {"lockReservation", "lockPart", "commit"}

WorkIsKnown(v) ==
  /\ pc[v] # "idle" => releaseRequest[v] \in ReleaseRequest
  /\ pc[v] = "insert" \/ IsInTransaction(v) => snapshot[v] # NULL
  /\ ~IsInTransaction(v) => DOMAIN verdict[v] = {} /\ DOMAIN write[v] = {}
  /\ pc[v] \in {"lockReservation", "lockPart"} => Release!ToDo(v) # {}
  /\ pc[v] = "publish" => operation[releaseRequest[v].id] # NULL

TablesTyped ==
  /\ stock \in [Part -> CountedRow]
  /\ reservation \in [Order -> [Part -> ReservationRow(ReleaseCommand)]]

ReserveTyped ==
  /\ origin \in [Order -> [Part -> [at : Nat, code : Code]]]
  /\ attempts \in Nat
  /\ request \in [Worker -> Request \cup {NULL}]
  /\ DOMAIN task = Worker
  /\ \A w \in Worker : IF request[w] = NULL THEN task[w] = <<>>
                       ELSE task[w] \in [DOMAIN request[w].items -> Task]
  /\ \A w \in Worker : \A i \in DOMAIN task[w] : TaskIsCounted(w, i)

OperatorTyped ==
  /\ code \in [Part -> PartCode \cup {NULL}]
  /\ command \in [Operator -> Command \cup Creation \cup {NULL}]
  /\ entity \in [Operator -> StockRow \cup {NULL}]
  /\ loaded \in [Operator -> StockRow \cup {NULL}]
  /\ \A o \in Operator : (command[o] = NULL) = (entity[o] = NULL)
  /\ commands \in Nat
  /\ byHand \in [Part -> [units : Int, reserved : Int]]
  /\ \A o \in Operator : CommandIsCounted(o)

ReleaseTyped ==
  /\ DOMAIN operation = ReleaseCommand
  /\ \A c \in ReleaseCommand : operation[c] = NULL \/ Release!IsOperationRow(operation[c])
  /\ releases \in Nat
  /\ pc \in [Releaser -> Release!Phase]
  /\ releaseRequest \in [Releaser -> ReleaseRequest \cup {NULL}]
  /\ snapshot \in [Releaser -> [stock : [Part -> StockRow],
                               reservation : [Order -> [Part -> ReservationRow(ReleaseCommand)]]]
                              \cup {NULL}]
  /\ held \in [Releaser -> SUBSET Release!RowName]
  /\ DOMAIN verdict = Releaser /\ DOMAIN write = Releaser
  /\ \A v \in Releaser : IsPartMap(verdict[v], Release!Verdict)
                       /\ IsPartMap(write[v], CountedRow)
  /\ occurredAt \in [Releaser -> Nat]
  /\ \A v \in Releaser : WorkIsKnown(v)

SharedTypeInv ==
  /\ TablesTyped /\ ReserveTyped /\ OperatorTyped /\ ReleaseTyped
  /\ calm \in BOOLEAN /\ clashed \subseteq Part

(* A row says FAILED exactly when it was inserted with a failure code.     *)
OriginHolds(o, p) ==
  /\ reservation[o][p].status # "COMMITTED"
  /\ (reservation[o][p].status = "FAILED") = (origin[o][p].code # NULL)

(* A call of reserveStock that has returned has a row to return.           *)
TaskHolds(w, i) ==
  task[w][i].phase = "done" =>
    LET o == request[w].order
        p == request[w].items[i].part
    IN /\ reservation[o][p].status # "ABSENT"
       /\ reservation[o][p].quantity = request[w].items[i].quantity
       /\ task[w][i].at = origin[o][p].at /\ task[w][i].code = origin[o][p].code

(* What was published is what the rows of the command still say.           *)
Origins(r) == [i \in DOMAIN r.items |-> origin[r.order][r.items[i].part]]

AnswerFrom(r) ==
  [id |-> r.id, name |-> ResultName(Origins(r)), at |-> OccurredAt(Origins(r)),
   code |-> [i \in DOMAIN r.items |-> Origins(r)[i].code]]

AnswerHolds(r) ==
  \A i \in DOMAIN r.items :
    /\ reservation[r.order][r.items[i].part].status # "ABSENT"
    /\ reservation[r.order][r.items[i].part].quantity = r.items[i].quantity

IsAnswered(e) == \E r \in Request : e = AnswerFrom(r) /\ AnswerHolds(r)

ReserveInv ==
  /\ \A o \in Order, p \in Part : OriginHolds(o, p)
  /\ \A w \in Worker : \A i \in DOMAIN task[w] : TaskHolds(w, i)
  /\ \A e \in published : IsAnswered(e)

(* A verdict on an item: the saga learns that units may be left, or the    *)
(* row is not, and will never again be, RESERVED.                          *)
Leftover == {"STOCK_RESERVATION_NOT_FOUND", "STOCK_RESERVATION_QUANTITY_MISMATCH",
             "PART_RESERVED_STOCK_INSUFFICIENT"}

IsSettled(o, p) == reservation[o][p].status \notin {"ABSENT", "RESERVED"}
IsMade(o, p) == reservation[o][p].status \in {"RESERVED", "RELEASED"}

ReleaseHolds(v) ==
  IsInTransaction(v) =>
    /\ pc[v] = "lockPart" => IsMade(releaseRequest[v].order, Release!Item(v))
    /\ \A p \in DOMAIN write[v] : IsMade(releaseRequest[v].order, p)
    /\ \A p \in DOMAIN verdict[v] :
         verdict[v][p] \in Leftover \/ p \in DOMAIN write[v]
         \/ IsSettled(releaseRequest[v].order, p)

OperationHolds(c) ==
  operation[c] # NULL =>
    \A p \in DOMAIN operation[c].verdict :
      operation[c].verdict[p] \in Leftover \/ IsSettled(operation[c].request.order, p)

ReportHolds(e) ==
  /\ e.order \in Order /\ DOMAIN e.verdict \subseteq Part
  /\ \A p \in DOMAIN e.verdict : e.verdict[p] \in Leftover \/ IsSettled(e.order, p)

ReportInv ==
  /\ \A v \in Releaser : ReleaseHolds(v)
  /\ \A c \in ReleaseCommand : OperationHolds(c)
  /\ \A e \in released : ReportHolds(e)

OverlapInv ==
  /\ SharedTypeInv
  /\ ReserveInv
  /\ ReportInv
  /\ CodesAreDistinct

-----------------------------------------------------------------------------
(* Types.                                                                  *)

LEMMA SharedTypes == SharedTypeInv => SharedTypeOK
<1> SUFFICES ASSUME SharedTypeInv PROVE SharedTypeOK
  OBVIOUS
<1>1. \A row \in CountedRow : row \in StockRow /\ row \in Release!StockRow
  BY DEF CountedRow, StockRow, Release!StockRow
<1>2. PartTypeOK
  BY <1>1 DEF SharedTypeInv, TablesTyped, ReserveTyped, OperatorTyped, PartTypeOK, TypeOK, CountedRow
<1>3. Release!TypeOK
  <2>1. \A v \in Releaser : /\ Release!IsPartMap(verdict[v], Release!Verdict)
                           /\ Release!IsPartMap(write[v], Release!StockRow)
    BY <1>1 DEF SharedTypeInv, ReleaseTyped, IsPartMap, Release!IsPartMap
  <2> QED
    BY <1>1, <2>1 DEF SharedTypeInv, TablesTyped, ReleaseTyped, Release!TypeOK, StockRow,
       Release!StockRow, Release!ReservationRow, ReservationRow, ReservationStatus,
       Release!ReservationStatus
<1> QED
  BY <1>2, <1>3 DEF SharedTypeInv, SharedTypeOK

(* Actors that a step does not touch stay as they are.                     *)
LEMMA ReserversKept ==
  ASSUME ReserveTyped, UNCHANGED reserveVars PROVE ReserveTyped'
  BY DEF ReserveTyped, reserveVars, TaskIsCounted

LEMMA OperatorsKept ==
  ASSUME OperatorTyped, UNCHANGED operatorVars PROVE OperatorTyped'
  BY DEF OperatorTyped, operatorVars, CommandIsCounted, Creates

LEMMA ReleasersKept ==
  ASSUME ReleaseTyped, UNCHANGED releaseVars PROVE ReleaseTyped'
  BY DEF ReleaseTyped, releaseVars, WorkIsKnown, Release!ToDo, IsInTransaction

LEMMA ElementIsTyped ==
  ASSUME NEW S, NEW s \in Seq(S), NEW n \in DOMAIN s PROVE s[n] \in S
  BY ElementOfSeq, LenProperties

(* What a call of reserveStock works on.                                   *)
LEMMA TaskIsKnown ==
  ASSUME ReserveTyped, NEW w \in Worker, NEW i \in DOMAIN task[w]
  PROVE  /\ request[w] \in Request /\ request[w] # NULL /\ request[w].order \in Order
         /\ DOMAIN task[w] = DOMAIN request[w].items
         /\ Item(w, i) = request[w].items[i]
         /\ Item(w, i).part \in Part /\ Item(w, i).quantity \in Nat \ {0}
         /\ task[w] \in [DOMAIN task[w] -> Task] /\ task[w][i] \in Task
<1>1. request[w] # NULL
  BY DEF ReserveTyped
<1>2. request[w] \in Request /\ task[w] \in [DOMAIN request[w].items -> Task]
  BY <1>1 DEF ReserveTyped
<1>3. /\ request[w].order \in Order
      /\ request[w].items \in Seq([part : Part, quantity : Nat \ {0}])
  BY <1>2, RequestAssumption DEF Valid
<1>4. i \in DOMAIN request[w].items
  BY <1>2
<1>5. request[w].items[i] \in [part : Part, quantity : Nat \ {0}]
  <2> DEFINE S == [part : Part, quantity : Nat \ {0}]
  <2> HIDE DEF S
  <2> QED
    BY <1>3, <1>4, ElementIsTyped DEF S
<1> QED
  BY <1>1, <1>2, <1>3, <1>4, <1>5 DEF Item

(* One task takes a step, and no other does.                               *)
LEMMA OneTask ==
  ASSUME ReserveTyped, NEW w \in Worker, NEW i \in DOMAIN task[w], NEW t, Set(w, i, t)
  PROVE  /\ DOMAIN task' = DOMAIN task
         /\ \A v \in Worker : DOMAIN task'[v] = DOMAIN task[v]
         /\ task'[w][i] = t
         /\ \A v \in Worker : \A j \in DOMAIN task[v] :
              <<v, j>> # <<w, i>> => task'[v][j] = task[v][j]
         /\ t \in Task => task'[w] \in [DOMAIN task[w] -> Task]
         /\ \A v \in Worker \ {w} : task'[v] = task[v]
  BY TaskIsKnown DEF ReserveTyped, Set

LEMMA TaskTyped ==
  ASSUME ReserveTyped, NEW w \in Worker, NEW i \in DOMAIN task[w], NEW t \in Task, Set(w, i, t),
         t.phase \in {"reload", "update"} => t.part \in CountedRow,
         origin' \in [Order -> [Part -> [at : Nat, code : Code]]],
         UNCHANGED <<attempts, request>>
  PROVE  ReserveTyped'
<1>1. /\ DOMAIN task' = Worker
      /\ \A v \in Worker : DOMAIN task'[v] = DOMAIN task[v]
      /\ task'[w] \in [DOMAIN task[w] -> Task] /\ task'[w][i] = t
      /\ \A v \in Worker \ {w} : task'[v] = task[v]
      /\ \A v \in Worker : \A j \in DOMAIN task[v] :
           <<v, j>> # <<w, i>> => task'[v][j] = task[v][j]
  BY OneTask DEF ReserveTyped
<1>2. DOMAIN task[w] = DOMAIN request[w].items /\ request[w] # NULL
  BY TaskIsKnown
<1>3. \A v \in Worker : IF request[v] = NULL THEN task'[v] = <<>>
                        ELSE task'[v] \in [DOMAIN request[v].items -> Task]
  BY <1>1, <1>2 DEF ReserveTyped
<1>4. \A v \in Worker : \A j \in DOMAIN task[v] :
        task'[v][j].phase \in {"reload", "update"} => task'[v][j].part \in CountedRow
  BY <1>1 DEF ReserveTyped, TaskIsCounted
<1> QED
  BY <1>1, <1>3, <1>4 DEF ReserveTyped, TaskIsCounted

LEMMA AdvanceTyped ==
  ASSUME ReserveTyped, NEW w \in Worker, NEW i \in DOMAIN task[w],
         NEW phase \in {"find", "findPart", "insert", "done", "threw"}, Advance(w, i, phase),
         UNCHANGED <<origin, attempts, request>>
  PROVE  ReserveTyped'
<1> DEFINE t == Fresh(phase)
<1>1. t \in Task /\ t.phase \notin {"reload", "update"}
  BY DEF Fresh, Task, Code
<1>2. Set(w, i, t)
  BY DEF Advance
<1> HIDE DEF t
<1>3. origin' \in [Order -> [Part -> [at : Nat, code : Code]]]
  BY DEF ReserveTyped
<1> QED
  BY <1>1, <1>2, <1>3, TaskTyped

LEMMA CountedIsRow == \A row \in CountedRow : row \in StockRow
  BY DEF CountedRow, StockRow

(* Moving units between the columns of a row that has them.                *)
LEMMA ReservedIsCounted ==
  ASSUME NEW row \in CountedRow, NEW q \in Int, row.available >= q, row.reserved + q >= 0
  PROVE  Reserved(row, q) \in CountedRow
<1>1. row.available - q \in Nat /\ row.reserved + q \in Nat
  BY DEF CountedRow
<1> QED
  BY <1>1 DEF Reserved, CountedRow

(* A save of counted rows writes a counted row.                            *)
LEMMA SavedIsCounted ==
  ASSUME NEW row \in CountedRow, NEW before, NEW after \in CountedRow
  PROVE  SaveColumns(row, before, after) \in CountedRow
  BY DEF SaveColumns, CountedRow

-----------------------------------------------------------------------------
(* A step of a reserve delivery.                                           *)

RequestStep(w) == (\E r \in Request : Begin(w, r)) \/ Answer(w) \/ Abort(w)

TaskStep(w, i) ==
  \/ FindReservation(w, i) \/ FindPart(w, i) \/ ReloadPart(w, i)
  \/ PartIsFree(Item(w, i).part) /\ UpdatePart(w, i)
  \/ KeyIsFree(request[w].order, Item(w, i).part) /\ InsertReservation(w, i)
  \/ Break(w, i)

LEMMA ReserveStepIs ==
  ASSUME NEW w \in Worker
  PROVE  ReserveStep(w) <=> /\ RequestStep(w) \/ \E i \in DOMAIN task[w] : TaskStep(w, i)
                            /\ UNCHANGED <<operatorVars, releaseVars>>
  BY DEF ReserveStep, RequestStep, TaskStep

LEMMA RequestStepTyped ==
  ASSUME TablesTyped, ReserveTyped, NEW w \in Worker, RequestStep(w)
  PROVE  TablesTyped' /\ ReserveTyped'
<1>1. UNCHANGED <<stock, reservation, origin>>
  BY DEF RequestStep, Begin, Answer, Abort, tables
<1>2. TablesTyped'
  BY <1>1 DEF TablesTyped
<1>3. CASE \E r \in Request : Begin(w, r)
  <2> PICK r \in Request : Begin(w, r)
    BY <1>3
  <2> DEFINE t(i) == Fresh("find")
  <2>1. /\ request' = [request EXCEPT ![w] = r] /\ attempts' = attempts + 1
        /\ task' = [task EXCEPT ![w] = [i \in DOMAIN r.items |-> t(i)]]
    BY DEF Begin
  <2>2. \A i \in DOMAIN r.items : t(i) \in Task /\ t(i).phase = "find"
    BY DEF Fresh, Task, Code
  <2> HIDE DEF t
  <2>3. [i \in DOMAIN r.items |-> t(i)] \in [DOMAIN r.items -> Task]
    BY <2>2
  <2>4. \A v \in Worker : IF request'[v] = NULL THEN task'[v] = <<>>
                         ELSE task'[v] \in [DOMAIN request'[v].items -> Task]
    BY <2>1, <2>3, NullAssumption DEF ReserveTyped
  <2>5. \A v \in Worker : \A i \in DOMAIN task'[v] : TaskIsCounted(v, i)'
    BY <2>1, <2>2 DEF ReserveTyped, TaskIsCounted
  <2> QED
    BY <1>1, <1>2, <2>1, <2>4, <2>5 DEF ReserveTyped
<1>4. CASE Answer(w) \/ Abort(w)
  <2>1. /\ request' = [request EXCEPT ![w] = NULL] /\ task' = [task EXCEPT ![w] = <<>>]
        /\ attempts' = attempts
    BY <1>4 DEF Answer, Abort, Finish
  <2>2. \A v \in Worker : \A i \in DOMAIN task'[v] : TaskIsCounted(v, i)'
    BY <2>1 DEF ReserveTyped, TaskIsCounted
  <2> QED
    BY <1>1, <1>2, <2>1, <2>2 DEF ReserveTyped
<1> QED
  BY <1>3, <1>4 DEF RequestStep

LEMMA TaskStepTyped ==
  ASSUME TablesTyped, ReserveTyped, NEW w \in Worker, NEW i \in DOMAIN task[w], TaskStep(w, i)
  PROVE  TablesTyped' /\ ReserveTyped'
<1> DEFINE o == request[w].order
           p == Item(w, i).part
           q == Item(w, i).quantity
<1>1. /\ o \in Order /\ p \in Part /\ q \in Nat \ {0} /\ task[w][i] \in Task
      /\ stock[p] \in CountedRow
  BY TaskIsKnown DEF TablesTyped
<1> HIDE DEF o, p, q
<1>2. CASE FindReservation(w, i)
  <2>1. UNCHANGED <<stock, reservation, origin, attempts, request>>
    BY <1>2 DEF FindReservation, tables
  <2>2. Returned(w, i) \in Task /\ Returned(w, i).phase = "done"
    <3>1. origin[o][p] \in [at : Nat, code : Code]
      BY <1>1 DEF ReserveTyped
    <3> QED
      BY <1>1, <3>1 DEF Returned, Task, o, p
  <2>3. CASE Set(w, i, Returned(w, i))
    BY <2>1, <2>2, <2>3, TaskTyped DEF TablesTyped, ReserveTyped
  <2>4. CASE Advance(w, i, "findPart") \/ Advance(w, i, "threw")
    BY <2>1, <2>4, AdvanceTyped DEF TablesTyped
  <2> QED
    BY <1>2, <2>3, <2>4 DEF FindReservation
<1>3. CASE FindPart(w, i)
  <2>1. UNCHANGED <<stock, reservation, origin, attempts, request>>
    BY <1>3 DEF FindPart, tables
  <2>2. CASE Refusal(p, q) = NULL
    <3> DEFINE row == Reserved(stock[p], q)
               t == [task[w][i] EXCEPT !.phase = "reload", !.part = row]
    <3>1. stock[p].available >= q
      BY <1>1, <2>2, NullAssumption DEF Refusal, CountedRow
    <3>2. row \in CountedRow
      BY <1>1, <3>1, ReservedIsCounted DEF CountedRow
    <3>4. Set(w, i, t)
      BY <1>3, <2>2 DEF FindPart, p, q
    <3> HIDE DEF row
    <3>3. t \in Task /\ t.part \in CountedRow
      BY <1>1, <3>2, CountedIsRow DEF Task
    <3> HIDE DEF t
    <3> QED
      BY <2>1, <3>3, <3>4, TaskTyped DEF TablesTyped, ReserveTyped
  <2>3. CASE Refusal(p, q) # NULL
    <3> DEFINE t == [task[w][i] EXCEPT !.phase = "insert", !.code = Refusal(p, q)]
    <3>1. t \in Task /\ t.phase = "insert"
      BY <1>1 DEF Task, Refusal, Code
    <3>2. Set(w, i, t)
      BY <1>3, <2>3 DEF FindPart, p, q
    <3> HIDE DEF t
    <3> QED
      BY <2>1, <3>1, <3>2, TaskTyped DEF TablesTyped, ReserveTyped
  <2> QED
    BY <2>2, <2>3
<1>4. CASE ReloadPart(w, i)
  <2> DEFINE t == [task[w][i] EXCEPT !.phase = "update", !.loaded = stock[p]]
  <2>1. UNCHANGED <<stock, reservation, origin, attempts, request>> /\ Set(w, i, t)
    BY <1>4 DEF ReloadPart, tables, p
  <2>2. t \in Task /\ t.part = task[w][i].part /\ task[w][i].phase = "reload"
    <3>1. stock[p] \in StockRow
      BY <1>1, CountedIsRow
    <3> QED
      BY <1>1, <1>4, <3>1 DEF Task, ReloadPart, At
  <2> HIDE DEF t
  <2> QED
    BY <2>1, <2>2, TaskTyped DEF TablesTyped, ReserveTyped, TaskIsCounted
<1>5. CASE UpdatePart(w, i)
  <2>1. /\ stock' = [stock EXCEPT ![p] =
                       SaveColumns(stock[p], task[w][i].loaded, task[w][i].part)]
        /\ Advance(w, i, "insert") /\ UNCHANGED <<reservation, origin, attempts, request>>
    BY <1>5 DEF UpdatePart, p
  <2>2. task[w][i].part \in CountedRow
    BY <1>5 DEF UpdatePart, At, ReserveTyped, TaskIsCounted
  <2>3. SaveColumns(stock[p], task[w][i].loaded, task[w][i].part) \in CountedRow
    BY <1>1, <2>2, SavedIsCounted
  <2> QED
    BY <1>1, <2>1, <2>3, AdvanceTyped DEF TablesTyped
<1>6. CASE InsertReservation(w, i)
  <2>1. CASE RowOf(w, i).status = "ABSENT"
    <3> DEFINE t == [task[w][i] EXCEPT !.phase = "done", !.at = attempts]
               row == NewReservation(q, task[w][i].code)
    <3>1. /\ reservation' = [reservation EXCEPT ![o][p] = row]
          /\ origin' = [origin EXCEPT ![o][p] = [at |-> attempts, code |-> task[w][i].code]]
          /\ Set(w, i, t) /\ UNCHANGED <<stock, attempts, request>>
      BY <1>6, <2>1 DEF InsertReservation, o, p, q
    <3>2. row \in ReservationRow(ReleaseCommand)
      BY <1>1 DEF NewReservation, ReservationRow, ReservationStatus
    <3>3. t \in Task /\ t.phase = "done" /\ task[w][i].code \in Code /\ attempts \in Nat
      BY <1>1 DEF Task, ReserveTyped
    <3> HIDE DEF t, row
    <3>4. origin' \in [Order -> [Part -> [at : Nat, code : Code]]]
      BY <1>1, <3>1, <3>3 DEF ReserveTyped
    <3>5. TablesTyped'
      BY <1>1, <3>1, <3>2 DEF TablesTyped
    <3> QED
      BY <3>1, <3>3, <3>4, <3>5, TaskTyped
  <2>2. CASE RowOf(w, i).status # "ABSENT"
    BY <1>6, <2>2, AdvanceTyped DEF InsertReservation, TablesTyped
  <2> QED
    BY <2>1, <2>2
<1>7. CASE Break(w, i)
  BY <1>7, AdvanceTyped DEF Break, TablesTyped, tables
<1> QED
  BY <1>2, <1>3, <1>4, <1>5, <1>6, <1>7 DEF TaskStep

-----------------------------------------------------------------------------
(* A step of an operator.                                                  *)

LEMMA CommandIsAsked ==
  ASSUME NEW c \in Command
  PROVE  c.kind \in Kind /\ c.part \in Part /\ c.quantity \in Nat \ {0} /\ c # NULL
  BY CommandAssumption, NoCommandAssumption

LEMMA CreationIsAsked ==
  ASSUME NEW c \in Creation
  PROVE  /\ c.kind = "create" /\ c.part \in Part /\ c.quantity \in Nat /\ c.code \in PartCode
         /\ c # NULL
  BY CreationAssumption, NoCommandAssumption DEF IsCreation

LEMMA CommandIsKnown ==
  ASSUME OperatorTyped, NEW o \in Operator, command[o] # NULL
  PROVE  /\ command[o] \in Command \cup Creation
         /\ command[o].kind \in Kind \cup {"create"} /\ command[o].part \in Part
         /\ command[o].quantity \in Nat /\ entity[o] \in CountedRow
         /\ Creates(o) => command[o].code \in PartCode
<1>1. command[o] \in Command \cup Creation /\ entity[o] \in CountedRow
  BY DEF OperatorTyped, CommandIsCounted
<1> QED
  BY <1>1, CommandIsAsked, CreationIsAsked DEF Creates, Kind

(* The entity throws rather than give what it has not.                     *)
LEMMA MovedIsCounted ==
  ASSUME NEW row \in CountedRow, NEW c \in Command, Allows(row, c)
  PROVE  Moved(row, c) \in CountedRow
<1>1. c.kind \in Kind /\ c.quantity \in Nat /\ -c.quantity \in Int
      /\ row.available \in Nat /\ row.reserved \in Nat
  BY CommandIsAsked DEF CountedRow
<1>2. CASE c.kind = "add"
  <2>1. Moved(row, c) = [row EXCEPT !.available = @ + c.quantity]
    BY <1>2 DEF Moved
  <2>2. row.available + c.quantity \in Nat
    BY <1>1
  <2> QED
    BY <2>1, <2>2 DEF CountedRow
<1>3. CASE c.kind = "remove"
  <2>1. Moved(row, c) = [row EXCEPT !.available = @ - c.quantity]
    BY <1>3 DEF Moved
  <2>2. row.available - c.quantity \in Nat
    BY <1>1, <1>3 DEF Allows
  <2> QED
    BY <2>1, <2>2 DEF CountedRow
<1>4. CASE c.kind = "reserve"
  <2>1. Moved(row, c) = Reserved(row, c.quantity)
    BY <1>4 DEF Moved
  <2>2. row.available >= c.quantity /\ row.reserved + c.quantity >= 0
    BY <1>1, <1>4 DEF Allows
  <2> QED
    BY <1>1, <2>1, <2>2, ReservedIsCounted
<1>5. CASE c.kind = "release"
  <2>1. Moved(row, c) = Reserved(row, -c.quantity)
    BY <1>5 DEF Moved
  <2>2. row.available >= -c.quantity /\ row.reserved + -c.quantity >= 0
    BY <1>1, <1>5 DEF Allows
  <2> QED
    BY <1>1, <2>1, <2>2, ReservedIsCounted
<1>6. CASE c.kind = "commit"
  <2>1. Moved(row, c) = [row EXCEPT !.reserved = @ - c.quantity]
    BY <1>6 DEF Moved
  <2>2. row.reserved - c.quantity \in Nat
    BY <1>1, <1>6 DEF Allows
  <2> QED
    BY <2>1, <2>2 DEF CountedRow
<1>7. CASE c.kind = "update"
  BY <1>7 DEF Moved
<1>8. CASE c.kind = "delete"
  <2>1. Moved(row, c) = [row EXCEPT !.active = FALSE]
    BY <1>8 DEF Moved
  <2> QED
    BY <2>1 DEF CountedRow
<1> QED
  BY <1>1, <1>2, <1>3, <1>4, <1>5, <1>6, <1>7, <1>8 DEF Kind

(* What a step of an operator may do to what it has in memory.             *)
LEMMA AskTyped ==
  ASSUME TablesTyped, OperatorTyped, NEW o \in Operator, Ask(o)
  PROVE  OperatorTyped' /\ UNCHANGED vars
<1>1. PICK c \in Command \cup Creation, row \in CountedRow :
        /\ command[o] = NULL /\ c # NULL
        /\ command' = [command EXCEPT ![o] = c]
        /\ entity' = [entity EXCEPT ![o] = row]
        /\ commands' = commands + 1
        /\ UNCHANGED <<vars, code, loaded, byHand>>
  <2>1. CASE \E c \in Command : StartCommand(o, c)
    <3> PICK c \in Command : StartCommand(o, c)
      BY <2>1
    <3>1. Moved(stock[c.part], c) \in CountedRow
      BY CommandIsAsked, MovedIsCounted DEF StartCommand, TablesTyped
    <3> QED
      BY <3>1, CommandIsAsked DEF StartCommand
  <2>2. CASE \E c \in Creation : StartCreation(o, c)
    <3> PICK c \in Creation : StartCreation(o, c)
      BY <2>2
    <3>1. [available |-> c.quantity, reserved |-> 0, active |-> TRUE] \in CountedRow
      BY CreationIsAsked DEF CountedRow
    <3> QED
      BY <3>1, CreationIsAsked DEF StartCreation
  <2> QED
    BY <2>1, <2>2 DEF Ask
<1>2. row \in StockRow /\ row # NULL
  BY CountedIsRow, NullAssumption
<1>3. loaded[o] = NULL
  BY <1>1 DEF OperatorTyped, CommandIsCounted
<1>4. \A q \in Operator : CommandIsCounted(q)'
  BY <1>1, <1>3 DEF OperatorTyped, CommandIsCounted, Creates
<1> QED
  BY <1>1, <1>2, <1>4 DEF OperatorTyped

(* What a request ends with: its entity is dropped, and the part saved, or *)
(* not.                                                                    *)
LEMMA DoneTyped ==
  ASSUME OperatorTyped, NEW o \in Operator, Done(o), UNCHANGED commands,
         code' \in [Part -> PartCode \cup {NULL}],
         byHand' \in [Part -> [units : Int, reserved : Int]]
  PROVE  OperatorTyped'
<1>1. /\ command' = [command EXCEPT ![o] = NULL] /\ entity' = [entity EXCEPT ![o] = NULL]
      /\ loaded' = [loaded EXCEPT ![o] = NULL]
  BY DEF Done
<1>2. \A q \in Operator : CommandIsCounted(q)'
  BY <1>1 DEF OperatorTyped, CommandIsCounted, Creates
<1> QED
  BY <1>1, <1>2 DEF OperatorTyped

LEMMA SavedTyped ==
  ASSUME TablesTyped, OperatorTyped, NEW o \in Operator, command[o] # NULL,
         NEW row \in CountedRow, Saved(o, row), UNCHANGED reservation
  PROVE  TablesTyped' /\ byHand' \in [Part -> [units : Int, reserved : Int]]
<1> DEFINE p == command[o].part
           a == Meant(command[o]).units
           b == Meant(command[o]).reserved
           f == byHand
<1>1. p \in Part /\ command[o].quantity \in Nat /\ f \in [Part -> [units : Int, reserved : Int]]
  BY CommandIsKnown DEF OperatorTyped
<1>2. a \in Int /\ b \in Int
  BY <1>1 DEF Meant
<1>3. /\ stock' = [stock EXCEPT ![p] = row]
      /\ byHand' = [f EXCEPT ![p] = [units |-> @.units + a, reserved |-> @.reserved + b]]
  BY DEF Saved
<1> HIDE DEF p, a, b, f
<1>5. f[p].units + a \in Int /\ f[p].reserved + b \in Int
  BY <1>1, <1>2
<1> QED
  BY <1>1, <1>3, <1>5 DEF TablesTyped

LEMMA OperatorStepTyped ==
  ASSUME TablesTyped, OperatorTyped, NEW o \in Operator, OperatorStep(o)
  PROVE  /\ TablesTyped' /\ OperatorTyped'
         /\ UNCHANGED <<reservation, reserveVars, releaseVars>>
<1>0. UNCHANGED releaseVars
  BY DEF OperatorStep
<1>1. CASE Ask(o)
  BY <1>0, <1>1, AskTyped DEF vars, tables, reserveVars, TablesTyped
<1>2. CASE ReloadForCommand(o)
  <2>1. /\ command[o] # NULL /\ ~Creates(o) /\ loaded' = [loaded EXCEPT ![o] = stock[command[o].part]]
        /\ UNCHANGED <<vars, code, command, entity, commands, byHand>>
    BY <1>2 DEF ReloadForCommand
  <2>2. stock[command[o].part] \in StockRow
    BY <2>1, CommandIsKnown, CountedIsRow DEF TablesTyped
  <2>3. \A q \in Operator : CommandIsCounted(q)'
    BY <2>1 DEF OperatorTyped, CommandIsCounted, Creates
  <2>4. OperatorTyped'
    BY <2>1, <2>2, <2>3 DEF OperatorTyped
  <2> QED
    BY <1>0, <2>1, <2>4 DEF vars, tables, reserveVars, TablesTyped
<1>3. CASE UpdateForCommand(o)
  <2> DEFINE row == SaveColumns(stock[command[o].part], loaded[o], entity[o])
  <2>1. /\ loaded[o] # NULL /\ Saved(o, row) /\ Done(o)
        /\ UNCHANGED <<reservation, origin, attempts, request, task, published, code, commands>>
    BY <1>3 DEF UpdateForCommand
  <2>2. command[o] # NULL
    BY <2>1 DEF OperatorTyped, CommandIsCounted
  <2>3. row \in CountedRow
    BY <2>2, CommandIsKnown, SavedIsCounted DEF TablesTyped
  <2> HIDE DEF row
  <2>4. TablesTyped' /\ byHand' \in [Part -> [units : Int, reserved : Int]]
    BY <2>1, <2>2, <2>3, SavedTyped
  <2>5. code' \in [Part -> PartCode \cup {NULL}]
    BY <2>1 DEF OperatorTyped
  <2> QED
    BY <1>0, <2>1, <2>4, <2>5, DoneTyped DEF reserveVars
<1>4. CASE InsertPart(o)
  <2>1. /\ Creates(o) /\ command[o] # NULL /\ Done(o)
        /\ UNCHANGED <<reservation, origin, attempts, request, task, published, commands>>
    BY <1>4 DEF InsertPart, Creates
  <2>2. CASE IndexRefuses(command[o].code)
    <3>1. UNCHANGED <<stock, byHand, code>>
      BY <1>4, <2>2 DEF InsertPart
    <3>2. TablesTyped' /\ code' \in [Part -> PartCode \cup {NULL}]
          /\ byHand' \in [Part -> [units : Int, reserved : Int]]
      BY <2>1, <3>1 DEF TablesTyped, OperatorTyped
    <3> QED
      BY <1>0, <2>1, <3>2, DoneTyped DEF reserveVars
  <2>3. CASE ~IndexRefuses(command[o].code)
    <3>1. Saved(o, entity[o]) /\ code' = [code EXCEPT ![command[o].part] = command[o].code]
      BY <1>4, <2>3 DEF InsertPart
    <3>2. TablesTyped' /\ byHand' \in [Part -> [units : Int, reserved : Int]]
      BY <2>1, <3>1, CommandIsKnown, SavedTyped
    <3>3. code' \in [Part -> PartCode \cup {NULL}]
      BY <2>1, <3>1, CommandIsKnown DEF OperatorTyped
    <3> QED
      BY <1>0, <2>1, <3>2, <3>3, DoneTyped DEF reserveVars
  <2> QED
    BY <2>2, <2>3
<1>5. CASE CommandEnds(o)
  <2>1. Done(o) /\ UNCHANGED <<vars, code, commands, byHand>>
    BY <1>5 DEF CommandEnds
  <2>2. /\ code' \in [Part -> PartCode \cup {NULL}]
        /\ byHand' \in [Part -> [units : Int, reserved : Int]]
    BY <2>1 DEF OperatorTyped
  <2> QED
    BY <1>0, <2>1, <2>2, DoneTyped DEF vars, tables, reserveVars, TablesTyped
<1> QED
  BY <1>1, <1>2, <1>3, <1>4, <1>5 DEF OperatorStep

-----------------------------------------------------------------------------
(* A step of a release.                                                    *)

LEMMA ReleaseIsAsked ==
  ASSUME NEW r \in ReleaseRequest
  PROVE  /\ r.id \in ReleaseCommand /\ r.order \in Order /\ r # NULL
         /\ DOMAIN r.items \subseteq Part /\ DOMAIN r.items # {}
         /\ \A p \in DOMAIN r.items : r.items[p] \in Nat \ {0}
  BY ReleaseAssumption, NoReleaseAssumption
     DEF Release!Valid, Release!IsNormalized, Release!IsPartMap

LEMMA ReleaseItem ==
  ASSUME NEW v \in Releaser, releaseRequest[v] \in ReleaseRequest, Release!ToDo(v) # {}
  PROVE  /\ Release!Item(v) \in Release!ToDo(v) /\ Release!Item(v) \in Part
         /\ Release!Item(v) \in DOMAIN releaseRequest[v].items
         /\ Release!Item(v) \notin DOMAIN verdict[v]
         /\ releaseRequest[v].items[Release!Item(v)] \in Nat \ {0}
<1> DEFINE T == Release!ToDo(v)
<1>1. T \subseteq DOMAIN releaseRequest[v].items /\ T \subseteq Part
  BY ReleaseIsAsked DEF Release!ToDo
<1>2. IsFiniteSet(T) /\ T \subseteq Int /\ T # {}
  BY <1>1, PartAssumption, FS_Subset
<1>3. \E p \in T : \A q \in T : p <= q
  <2> HIDE DEF T
  <2> QED
    BY <1>2, LeastOfFinite
<1>4. Release!Item(v) \in T
  BY <1>3 DEF Release!Item
<1> QED
  BY <1>1, <1>4, ReleaseIsAsked DEF Release!ToDo

LEMMA ExtendedMap ==
  ASSUME NEW f, NEW R, IsPartMap(f, R), NEW p \in Part, NEW y \in R
  PROVE  /\ IsPartMap(Release!Extend(f, p, y), R)
         /\ DOMAIN Release!Extend(f, p, y) = DOMAIN f \cup {p}
         /\ Release!Extend(f, p, y)[p] = y
         /\ \A q \in DOMAIN f \ {p} : Release!Extend(f, p, y)[q] = f[q]
  BY DEF IsPartMap, Release!Extend

LEMMA NoPartMap == ASSUME NEW R PROVE DOMAIN <<>> = {} /\ IsPartMap(<<>>, R)
  BY DEF IsPartMap

(* A release that locks a row, if it has to.                               *)
LEMMA LockTyped ==
  ASSUME ReleaseTyped, NEW v \in Releaser, Release!Lock(v),
         pc[v] \in {"insert", "lockReservation", "lockPart"}
  PROVE  held' \in [Releaser -> SUBSET Release!RowName]
<1>1. releaseRequest[v] \in ReleaseRequest
  BY DEF ReleaseTyped, WorkIsKnown
<1>2. Release!Wanted(v) \in Release!RowName
  <2>1. CASE pc[v] = "insert"
    BY <1>1, <2>1, ReleaseIsAsked DEF Release!Wanted, Release!RowName
  <2>2. CASE pc[v] = "lockReservation"
    <3>1. Release!Item(v) \in Part
      BY <1>1, <2>2, ReleaseItem DEF ReleaseTyped, WorkIsKnown
    <3> QED
      BY <1>1, <2>2, <3>1, ReleaseIsAsked DEF Release!Wanted, Release!RowName
  <2>3. CASE pc[v] = "lockPart"
    <3>1. Release!Item(v) \in Part
      BY <1>1, <2>3, ReleaseItem DEF ReleaseTyped, WorkIsKnown
    <3> QED
      BY <2>3, <3>1 DEF Release!Wanted, Release!RowName
  <2> QED
    BY <2>1, <2>2, <2>3
<1> QED
  BY <1>2 DEF Release!Lock, ReleaseTyped

(* What one release writes in its own memory leaves the others as they are. *)
LEMMA OthersWorkOn ==
  ASSUME ReleaseTyped, NEW v \in Releaser,
         \A u \in Releaser \ {v} : /\ pc'[u] = pc[u] /\ releaseRequest'[u] = releaseRequest[u]
                                 /\ snapshot'[u] = snapshot[u] /\ verdict'[u] = verdict[u]
                                 /\ write'[u] = write[u],
         \A c \in ReleaseCommand : operation[c] # NULL => operation'[c] # NULL,
         NEW u \in Releaser \ {v}
  PROVE  WorkIsKnown(u)'
<1>1. pc[u] = "publish" => releaseRequest[u].id \in ReleaseCommand
  BY ReleaseIsAsked DEF ReleaseTyped, WorkIsKnown
<1> QED
  BY <1>1 DEF ReleaseTyped, WorkIsKnown, IsInTransaction, Release!ToDo

(* An item that is judged gets its verdict, and the next one is taken up.  *)
LEMMA ItemJudged ==
  ASSUME ReleaseTyped, NEW v \in Releaser, releaseRequest[v] \in ReleaseRequest,
         Release!ToDo(v) # {}, NEW x \in Release!Verdict, Release!Judge(v, x),
         UNCHANGED releaseRequest
  PROVE  /\ verdict' = [verdict EXCEPT ![v] = Release!Extend(@, Release!Item(v), x)]
         /\ DOMAIN verdict' = Releaser
         /\ \A u \in Releaser : IsPartMap(verdict'[u], Release!Verdict)
         /\ \A u \in Releaser \ {v} : verdict'[u] = verdict[u] /\ pc'[u] = pc[u]
         /\ DOMAIN verdict'[v] = DOMAIN verdict[v] \cup {Release!Item(v)}
         /\ verdict'[v][Release!Item(v)] = x
         /\ \A p \in DOMAIN verdict[v] : verdict'[v][p] = verdict[v][p]
         /\ pc' \in [Releaser -> Release!Phase] /\ pc'[v] \in {"commit", "lockReservation"}
         /\ pc'[v] = "lockReservation" => Release!ToDo(v)' # {}
<1> DEFINE p == Release!Item(v)
           f == Release!Extend(verdict[v], p, x)
<1>1. p \in Release!ToDo(v) /\ p \in Part /\ p \notin DOMAIN verdict[v]
  BY ReleaseItem
<1>2. IsPartMap(verdict[v], Release!Verdict)
  BY DEF ReleaseTyped
<1>3. /\ IsPartMap(f, Release!Verdict) /\ DOMAIN f = DOMAIN verdict[v] \cup {p} /\ f[p] = x
      /\ \A q \in DOMAIN verdict[v] : f[q] = verdict[v][q]
  <2> HIDE DEF p
  <2> QED
    BY <1>1, <1>2, ExtendedMap
<1>4. /\ verdict' = [verdict EXCEPT ![v] = f] /\ DOMAIN verdict = Releaser
      /\ pc' = [pc EXCEPT ![v] = IF Release!ToDo(v) = {p} THEN "commit" ELSE "lockReservation"]
  BY DEF Release!Judge, Release!Goto, ReleaseTyped
<1>5. \A u \in Releaser : IsPartMap(verdict[u], Release!Verdict)
  BY DEF ReleaseTyped
<1> HIDE DEF f, p
<1>6. \A u \in Releaser : verdict'[u] = IF u = v THEN f ELSE verdict[u]
  BY <1>4
<1>7. pc' \in [Releaser -> Release!Phase] /\ pc'[v] \in {"commit", "lockReservation"}
      /\ \A u \in Releaser \ {v} : pc'[u] = pc[u]
  BY <1>4 DEF ReleaseTyped, Release!Phase
<1>8. pc'[v] = "lockReservation" => Release!ToDo(v)' # {}
  <2>1. pc'[v] = "lockReservation" => Release!ToDo(v) # {p}
    BY <1>4 DEF ReleaseTyped
  <2>2. Release!ToDo(v)' = Release!ToDo(v) \ {p}
    BY <1>3, <1>6 DEF Release!ToDo
  <2> QED
    BY <1>1, <2>1, <2>2
<1>9. \A u \in Releaser : IsPartMap(verdict'[u], Release!Verdict)
  BY <1>3, <1>5, <1>6
<1> QED
  BY <1>3, <1>4, <1>6, <1>7, <1>8, <1>9 DEF f, p

(* The end of a transaction.                                               *)
LEMMA EndTyped ==
  ASSUME ReleaseTyped, NEW v \in Releaser, Release!EndTransaction(v)
  PROVE  /\ held' \in [Releaser -> SUBSET Release!RowName]
         /\ DOMAIN verdict' = Releaser /\ DOMAIN write' = Releaser
         /\ \A u \in Releaser : IsPartMap(verdict'[u], Release!Verdict)
                              /\ IsPartMap(write'[u], CountedRow)
         /\ snapshot' \in [Releaser -> [stock : [Part -> StockRow],
                               reservation : [Order -> [Part -> ReservationRow(ReleaseCommand)]]]
                              \cup {NULL}]
         /\ occurredAt' \in [Releaser -> Nat]
         /\ DOMAIN verdict'[v] = {} /\ DOMAIN write'[v] = {}
         /\ \A u \in Releaser \ {v} : /\ snapshot'[u] = snapshot[u] /\ verdict'[u] = verdict[u]
                                     /\ write'[u] = write[u]
<1>1. /\ held' = [held EXCEPT ![v] = {}] /\ write' = [write EXCEPT ![v] = <<>>]
      /\ verdict' = [verdict EXCEPT ![v] = <<>>] /\ snapshot' = [snapshot EXCEPT ![v] = NULL]
      /\ occurredAt' = [occurredAt EXCEPT ![v] = 0]
  BY DEF Release!EndTransaction
<1>2. \A u \in Releaser : /\ write'[u] = IF u = v THEN <<>> ELSE write[u]
                         /\ verdict'[u] = IF u = v THEN <<>> ELSE verdict[u]
  BY <1>1 DEF ReleaseTyped
<1> QED
  BY <1>1, <1>2, NoPartMap DEF ReleaseTyped

LEMMA BeginTyped ==
  ASSUME TablesTyped, ReleaseTyped, NEW v \in Releaser, NEW r \in ReleaseRequest,
         Release!Begin(v, r)
  PROVE  ReleaseTyped' /\ UNCHANGED tables
<1>1. /\ pc[v] = "idle" /\ releases' = releases + 1
      /\ UNCHANGED <<stock, reservation, operation, held, verdict, write, occurredAt, released>>
  BY DEF Release!Begin, Release!tables
<1> DEFINE copy == [stock |-> stock, reservation |-> reservation]
<1>2. copy \in [stock : [Part -> StockRow],
                reservation : [Order -> [Part -> ReservationRow(ReleaseCommand)]]]
  BY CountedIsRow DEF TablesTyped
<1>3. copy # NULL
  BY <1>2, NoReleaseAssumption
<1>4. \/ /\ pc' = [pc EXCEPT ![v] = "insert"] /\ releaseRequest' = [releaseRequest EXCEPT ![v] = r]
         /\ snapshot' = [snapshot EXCEPT ![v] = copy]
      \/ /\ pc' = [pc EXCEPT ![v] = "publish"] /\ operation[r.id] # NULL
         /\ releaseRequest' = [releaseRequest EXCEPT ![v] = r] /\ snapshot' = snapshot
      \/ UNCHANGED <<pc, releaseRequest, snapshot>>
  BY DEF Release!Begin, Release!Goto
<1> HIDE DEF copy
<1>5. \A u \in Releaser \ {v} : WorkIsKnown(u)'
  BY <1>1, <1>4, OthersWorkOn DEF ReleaseTyped
<1>6. WorkIsKnown(v)'
  <2>1. DOMAIN verdict[v] = {} /\ DOMAIN write[v] = {}
    BY <1>1 DEF ReleaseTyped, WorkIsKnown, IsInTransaction
  <2> QED
    BY <1>1, <1>3, <1>4, <2>1 DEF ReleaseTyped, WorkIsKnown, IsInTransaction, Release!ToDo
<1>7. /\ pc' \in [Releaser -> Release!Phase]
      /\ releaseRequest' \in [Releaser -> ReleaseRequest \cup {NULL}]
  BY <1>4 DEF ReleaseTyped, Release!Phase
<1>8. snapshot' \in [Releaser -> [stock : [Part -> StockRow],
                        reservation : [Order -> [Part -> ReservationRow(ReleaseCommand)]]]
                       \cup {NULL}]
  BY <1>2, <1>4 DEF ReleaseTyped
<1> QED
  BY <1>1, <1>5, <1>6, <1>7, <1>8 DEF ReleaseTyped, tables

LEMMA InsertOperationTyped ==
  ASSUME ReleaseTyped, NEW v \in Releaser, Release!InsertOperation(v)
  PROVE  ReleaseTyped' /\ UNCHANGED tables
<1>1. /\ pc[v] = "insert" /\ releaseRequest[v] \in ReleaseRequest /\ snapshot[v] # NULL
      /\ UNCHANGED <<stock, reservation, operation, releases, releaseRequest, released>>
  BY DEF Release!InsertOperation, Release!tables, ReleaseTyped, WorkIsKnown
<1>2. DOMAIN verdict[v] = {} /\ DOMAIN write[v] = {}
  BY <1>1 DEF ReleaseTyped, WorkIsKnown, IsInTransaction
<1>3. CASE operation[releaseRequest[v].id] = NULL
  <2>1. /\ Release!Lock(v) /\ occurredAt' = [occurredAt EXCEPT ![v] = releases]
        /\ pc' = [pc EXCEPT ![v] = "lockReservation"] /\ UNCHANGED <<verdict, write, snapshot>>
    BY <1>3 DEF Release!InsertOperation, Release!Goto
  <2>2. held' \in [Releaser -> SUBSET Release!RowName]
    BY <1>1, <2>1, LockTyped
  <2>3. \A u \in Releaser \ {v} : WorkIsKnown(u)'
    BY <1>1, <2>1, OthersWorkOn DEF ReleaseTyped
  <2>4. WorkIsKnown(v)'
    <3>1. Release!ToDo(v)' # {}
      BY <1>1, <1>2, <2>1, ReleaseIsAsked DEF Release!ToDo
    <3> QED
      BY <1>1, <2>1, <3>1 DEF ReleaseTyped, WorkIsKnown, IsInTransaction
  <2> QED
    BY <1>1, <2>1, <2>2, <2>3, <2>4 DEF ReleaseTyped, tables, Release!Phase
<1>4. CASE operation[releaseRequest[v].id] # NULL
  <2>1. Release!EndTransaction(v) /\ pc' = [pc EXCEPT ![v] = "recover"]
    BY <1>4 DEF Release!InsertOperation, Release!Goto
  <2>2. \A u \in Releaser \ {v} : WorkIsKnown(u)'
    BY <1>1, <2>1, EndTyped, OthersWorkOn DEF ReleaseTyped
  <2>3. WorkIsKnown(v)'
    BY <1>1, <2>1, EndTyped DEF ReleaseTyped, WorkIsKnown, IsInTransaction
  <2> QED
    BY <1>1, <2>1, <2>2, <2>3, EndTyped DEF ReleaseTyped, tables, Release!Phase
<1> QED
  BY <1>3, <1>4

LEMMA RecoverTyped ==
  ASSUME ReleaseTyped, NEW v \in Releaser, Release!Recover(v)
  PROVE  ReleaseTyped' /\ UNCHANGED tables
<1>1. /\ pc[v] = "recover" /\ releaseRequest[v] \in ReleaseRequest
      /\ UNCHANGED <<stock, reservation, operation, releases, snapshot, held, verdict, write,
                     occurredAt, released>>
  BY DEF Release!Recover, Release!tables, ReleaseTyped, WorkIsKnown
<1>2. \/ /\ pc' = [pc EXCEPT ![v] = "publish"] /\ operation[releaseRequest[v].id] # NULL
         /\ releaseRequest' = releaseRequest
      \/ /\ pc' = [pc EXCEPT ![v] = "idle"]
         /\ releaseRequest' = [releaseRequest EXCEPT ![v] = NULL]
  BY DEF Release!Recover, Release!Goto, Release!Finish
<1>3. \A u \in Releaser \ {v} : WorkIsKnown(u)'
  BY <1>1, <1>2, OthersWorkOn DEF ReleaseTyped
<1>4. WorkIsKnown(v)'
  BY <1>1, <1>2 DEF ReleaseTyped, WorkIsKnown, IsInTransaction
<1> QED
  BY <1>1, <1>2, <1>3, <1>4 DEF ReleaseTyped, tables, Release!Phase

LEMMA LockReservationTyped ==
  ASSUME ReleaseTyped, NEW v \in Releaser, Release!LockReservation(v)
  PROVE  ReleaseTyped' /\ UNCHANGED tables
<1>1. /\ pc[v] = "lockReservation" /\ releaseRequest[v] \in ReleaseRequest
      /\ Release!Lock(v) /\ Release!ToDo(v) # {} /\ snapshot[v] # NULL
      /\ UNCHANGED <<stock, reservation, operation, releases, releaseRequest, snapshot, write,
                     occurredAt, released>>
  BY DEF Release!LockReservation, Release!tables, ReleaseTyped, WorkIsKnown, IsInTransaction
<1>2. held' \in [Releaser -> SUBSET Release!RowName]
  BY <1>1, LockTyped
<1> DEFINE x == Release!ReservationVerdict(
                  reservation[releaseRequest[v].order][Release!Item(v)],
                  releaseRequest[v].items[Release!Item(v)], releaseRequest[v].id)
<1>3. x = NULL \/ x \in Release!Verdict
  BY DEF Release!ReservationVerdict, Release!Verdict
<1>4. IF x = NULL THEN pc' = [pc EXCEPT ![v] = "lockPart"] /\ verdict' = verdict
                  ELSE Release!Judge(v, x)
  BY DEF Release!LockReservation, Release!Goto
<1> HIDE DEF x
<1>5. CASE x = NULL
  <2>1. \A u \in Releaser \ {v} : WorkIsKnown(u)'
    BY <1>1, <1>4, <1>5, OthersWorkOn DEF ReleaseTyped
  <2>2. WorkIsKnown(v)'
    BY <1>1, <1>4, <1>5 DEF ReleaseTyped, WorkIsKnown, IsInTransaction, Release!ToDo
  <2> QED
    BY <1>1, <1>2, <1>4, <1>5, <2>1, <2>2 DEF ReleaseTyped, tables, Release!Phase
<1>6. CASE x # NULL
  <2>1. x \in Release!Verdict /\ Release!Judge(v, x)
    BY <1>3, <1>4, <1>6
  <2>2. \A u \in Releaser \ {v} : WorkIsKnown(u)'
    <3>1. \A u \in Releaser \ {v} : verdict'[u] = verdict[u] /\ pc'[u] = pc[u]
      BY <1>1, <2>1, ItemJudged
    <3> QED
      BY <1>1, <3>1, OthersWorkOn
  <2>3. WorkIsKnown(v)'
    BY <1>1, <2>1, ItemJudged DEF WorkIsKnown, IsInTransaction
  <2> QED
    BY <1>1, <1>2, <2>1, <2>2, <2>3, ItemJudged DEF ReleaseTyped, tables
<1> QED
  BY <1>5, <1>6

(* The row that a release gives a part back.                               *)
LEMMA ReturnedIsCounted ==
  ASSUME TablesTyped, NEW v \in Releaser, NEW p \in Part,
         releaseRequest[v].items[p] \in Nat, stock[p].reserved >= releaseRequest[v].items[p]
  PROVE  Release!Returned(v, p) \in CountedRow
<1> DEFINE q == releaseRequest[v].items[p]
           entityOf(row) == [row EXCEPT !.available = @ + q, !.reserved = @ - q]
<1>1. \A row \in CountedRow : row.reserved >= q => entityOf(row) \in CountedRow
  <2> SUFFICES ASSUME NEW row \in CountedRow, row.reserved >= q
               PROVE  entityOf(row) \in CountedRow
    OBVIOUS
  <2>1. row.available + q \in Nat /\ row.reserved - q \in Nat
    BY DEF CountedRow
  <2> QED
    BY <2>1 DEF CountedRow
<1>2. stock[p] \in CountedRow /\ entityOf(stock[p]) \in CountedRow
  BY <1>1 DEF TablesTyped
<1>3. Release!Returned(v, p) = SaveColumns(stock[p], snapshot[v].stock[p], entityOf(stock[p]))
  BY DEF Release!Returned, Release!SaveColumns, SaveColumns
<1> HIDE DEF entityOf
<1> QED
  BY <1>2, <1>3, SavedIsCounted

LEMMA LockPartTyped ==
  ASSUME TablesTyped, ReleaseTyped, NEW v \in Releaser, Release!LockPart(v)
  PROVE  ReleaseTyped' /\ UNCHANGED tables
<1>1. /\ pc[v] = "lockPart" /\ releaseRequest[v] \in ReleaseRequest /\ Release!ToDo(v) # {}
      /\ snapshot[v] # NULL
      /\ UNCHANGED <<stock, reservation, operation, releases, releaseRequest, released>>
  BY DEF Release!LockPart, Release!tables, ReleaseTyped, WorkIsKnown, IsInTransaction
<1> PICK p : p = Release!Item(v)
  OBVIOUS
<1>2. p \in Part /\ releaseRequest[v].items[p] \in Nat
  BY <1>1, ReleaseItem
<1>3. CASE stock[p].reserved < releaseRequest[v].items[p]
  <2>1. /\ Release!Judge(v, "PART_RESERVED_STOCK_INSUFFICIENT") /\ Release!Lock(v)
        /\ UNCHANGED <<write, snapshot, occurredAt>>
    BY <1>3 DEF Release!LockPart
  <2>2. held' \in [Releaser -> SUBSET Release!RowName]
    BY <1>1, <2>1, LockTyped
  <2>3. "PART_RESERVED_STOCK_INSUFFICIENT" \in Release!Verdict
    BY DEF Release!Verdict
  <2>4. \A u \in Releaser \ {v} : WorkIsKnown(u)'
    BY <1>1, <2>1, <2>3, ItemJudged, OthersWorkOn DEF ReleaseTyped
  <2>5. WorkIsKnown(v)'
    BY <1>1, <2>1, <2>3, ItemJudged DEF WorkIsKnown, IsInTransaction
  <2> QED
    BY <1>1, <2>1, <2>2, <2>3, <2>4, <2>5, ItemJudged DEF ReleaseTyped, tables
<1>4. CASE /\ ~(stock[p].reserved < releaseRequest[v].items[p])
           /\ snapshot[v].reservation[releaseRequest[v].order][p].status = "ABSENT"
  <2>1. Release!EndTransaction(v) /\ pc' = [pc EXCEPT ![v] = "recover"]
    BY <1>4 DEF Release!LockPart, Release!Goto
  <2>2. \A u \in Releaser \ {v} : WorkIsKnown(u)'
    BY <1>1, <2>1, EndTyped, OthersWorkOn DEF ReleaseTyped
  <2>3. WorkIsKnown(v)'
    BY <1>1, <2>1, EndTyped DEF ReleaseTyped, WorkIsKnown, IsInTransaction
  <2> QED
    BY <1>1, <2>1, <2>2, <2>3, EndTyped DEF ReleaseTyped, tables, Release!Phase
<1>5. CASE /\ ~(stock[p].reserved < releaseRequest[v].items[p])
           /\ snapshot[v].reservation[releaseRequest[v].order][p].status # "ABSENT"
  <2> DEFINE row == Release!Returned(v, p)
             f == Release!Extend(write[v], p, row)
  <2>1. /\ Release!Judge(v, "RELEASED") /\ Release!Lock(v) /\ write' = [write EXCEPT ![v] = f]
        /\ UNCHANGED <<snapshot, occurredAt>>
    BY <1>5 DEF Release!LockPart
  <2>2. held' \in [Releaser -> SUBSET Release!RowName]
    BY <1>1, <2>1, LockTyped
  <2>3. "RELEASED" \in Release!Verdict
    BY DEF Release!Verdict
  <2>4. row \in CountedRow
    BY <1>2, <1>5, ReturnedIsCounted DEF TablesTyped, CountedRow
  <2>5. IsPartMap(f, CountedRow)
    <3> HIDE DEF row
    <3> QED
      BY <1>2, <2>4, ExtendedMap DEF ReleaseTyped
  <2> HIDE DEF row, f
  <2>6. \A u \in Releaser : write'[u] = IF u = v THEN f ELSE write[u]
    BY <2>1 DEF ReleaseTyped
  <2>7. DOMAIN write' = Releaser /\ \A u \in Releaser : IsPartMap(write'[u], CountedRow)
    BY <2>1, <2>5, <2>6 DEF ReleaseTyped
  <2>8. \A u \in Releaser \ {v} : WorkIsKnown(u)'
    BY <1>1, <2>1, <2>3, <2>6, ItemJudged, OthersWorkOn DEF ReleaseTyped
  <2>9. WorkIsKnown(v)'
    BY <1>1, <2>1, <2>3, ItemJudged DEF WorkIsKnown, IsInTransaction
  <2> QED
    BY <1>1, <2>1, <2>2, <2>3, <2>7, <2>8, <2>9, ItemJudged DEF ReleaseTyped, tables
<1> QED
  BY <1>3, <1>4, <1>5

LEMMA CommitTyped ==
  ASSUME TablesTyped, ReleaseTyped, NEW v \in Releaser, Release!Commit(v)
  PROVE  ReleaseTyped' /\ TablesTyped'
<1>1. /\ pc[v] = "commit" /\ releaseRequest[v] \in ReleaseRequest
      /\ Release!EndTransaction(v) /\ pc' = [pc EXCEPT ![v] = "publish"]
      /\ UNCHANGED <<releases, releaseRequest, released>>
  BY DEF Release!Commit, Release!Goto, ReleaseTyped, WorkIsKnown
<1> DEFINE c == releaseRequest[v].id
           d == [request |-> releaseRequest[v], verdict |-> verdict[v], at |-> occurredAt[v]]
<1>2. operation' = [operation EXCEPT ![c] = d]
  BY DEF Release!Commit
<1>3. Release!IsOperationRow(d) /\ d # NULL /\ c \in ReleaseCommand
  <2>1. IsPartMap(verdict[v], Release!Verdict)
    BY DEF ReleaseTyped
  <2>2. Release!IsOperationRow(d)
    BY <1>1, <2>1 DEF ReleaseTyped, Release!IsOperationRow, Release!IsPartMap, IsPartMap
  <2>3. d \in [request : ReleaseRequest,
               verdict : UNION {[P -> Release!Verdict] : P \in SUBSET Part}, at : Nat]
    <3>1. verdict[v] \in UNION {[P -> Release!Verdict] : P \in SUBSET Part}
      BY <2>1 DEF IsPartMap
    <3> QED
      BY <1>1, <3>1 DEF ReleaseTyped
  <2> QED
    BY <1>1, <2>2, <2>3, NoReleaseAssumption, ReleaseIsAsked
<1> HIDE DEF c, d
<1>4. /\ DOMAIN operation' = ReleaseCommand
      /\ \A b \in ReleaseCommand : operation'[b] = NULL \/ Release!IsOperationRow(operation'[b])
      /\ \A b \in ReleaseCommand : operation[b] # NULL => operation'[b] # NULL
      /\ operation'[c] # NULL
  BY <1>2, <1>3 DEF ReleaseTyped
<1>5. \A u \in Releaser \ {v} : WorkIsKnown(u)'
  BY <1>1, <1>4, EndTyped, OthersWorkOn DEF ReleaseTyped
<1>6. WorkIsKnown(v)'
  BY <1>1, <1>4, EndTyped DEF ReleaseTyped, WorkIsKnown, IsInTransaction, c
<1>7. ReleaseTyped'
  BY <1>1, <1>4, <1>5, <1>6, EndTyped DEF ReleaseTyped, Release!Phase
<1>8. stock' \in [Part -> CountedRow]
  <2>1. stock' = [p \in Part |-> IF p \in DOMAIN write[v] THEN write[v][p] ELSE stock[p]]
    BY DEF Release!Commit
  <2>2. \A p \in DOMAIN write[v] : write[v][p] \in CountedRow
    BY DEF ReleaseTyped, IsPartMap
  <2> QED
    BY <2>1, <2>2 DEF TablesTyped
<1>9. reservation' \in [Order -> [Part -> ReservationRow(ReleaseCommand)]]
  <2> DEFINE o == releaseRequest[v].order
             back(p) == [reservation[o][p] EXCEPT !.status = "RELEASED", !.releasedBy = {c}]
  <2>1. reservation' = [reservation EXCEPT ![o] =
          [p \in Part |-> IF p \in DOMAIN write[v] THEN back(p) ELSE reservation[o][p]]]
    BY DEF Release!Commit, c
  <2>2. o \in Order
    BY <1>1, ReleaseIsAsked
  <2>3. \A p \in Part : reservation[o][p] \in ReservationRow(ReleaseCommand)
    BY <2>2 DEF TablesTyped
  <2>4. \A p \in Part : back(p) \in ReservationRow(ReleaseCommand)
    BY <1>3, <2>3 DEF ReservationRow, ReservationStatus
  <2> HIDE DEF back, o
  <2> QED
    BY <2>1, <2>2, <2>3, <2>4 DEF TablesTyped
<1> QED
  BY <1>7, <1>8, <1>9 DEF TablesTyped

LEMMA EndsTyped ==
  ASSUME ReleaseTyped, NEW v \in Releaser, Release!Publish(v) \/ Release!Abort(v)
  PROVE  ReleaseTyped' /\ UNCHANGED tables
<1>1. /\ pc' = [pc EXCEPT ![v] = "idle"] /\ releaseRequest' = [releaseRequest EXCEPT ![v] = NULL]
      /\ UNCHANGED <<stock, reservation, operation, releases>>
  BY DEF Release!Publish, Release!Abort, Release!Finish, Release!Goto, Release!tables
<1>2. CASE Release!Publish(v)
  <2>1. UNCHANGED <<snapshot, held, verdict, write, occurredAt>> /\ pc[v] = "publish"
    BY <1>2 DEF Release!Publish
  <2>2. \A u \in Releaser \ {v} : WorkIsKnown(u)'
    BY <1>1, <2>1, OthersWorkOn DEF ReleaseTyped
  <2>3. WorkIsKnown(v)'
    BY <1>1, <2>1 DEF ReleaseTyped, WorkIsKnown, IsInTransaction
  <2> QED
    BY <1>1, <2>1, <2>2, <2>3 DEF ReleaseTyped, tables, Release!Phase
<1>3. CASE Release!Abort(v)
  <2>1. Release!EndTransaction(v)
    BY <1>3 DEF Release!Abort
  <2>2. \A u \in Releaser \ {v} : WorkIsKnown(u)'
    BY <1>1, <2>1, EndTyped, OthersWorkOn DEF ReleaseTyped
  <2>3. WorkIsKnown(v)'
    BY <1>1, <2>1, EndTyped DEF ReleaseTyped, WorkIsKnown, IsInTransaction
  <2> QED
    BY <1>1, <2>1, <2>2, <2>3, EndTyped DEF ReleaseTyped, tables, Release!Phase
<1> QED
  BY <1>2, <1>3

LEMMA ReleaseStepTyped ==
  ASSUME TablesTyped, ReleaseTyped, NEW v \in Releaser, ReleaseStep(v)
  PROVE  TablesTyped' /\ ReleaseTyped' /\ UNCHANGED <<reserveVars, operatorVars>>
<1>1. (\E r \in ReleaseRequest : Release!Begin(v, r)) \/ Release!Step(v) \/ Release!Abort(v)
  BY DEF ReleaseStep
<1>2. UNCHANGED <<reserveVars, operatorVars>>
  BY DEF ReleaseStep
<1>3. CASE Release!Commit(v)
  BY <1>2, <1>3, CommitTyped
<1>4. CASE \/ \E r \in ReleaseRequest : Release!Begin(v, r)
           \/ Release!InsertOperation(v) \/ Release!Recover(v) \/ Release!LockReservation(v)
           \/ Release!LockPart(v) \/ Release!Publish(v) \/ Release!Abort(v)
  <2>1. ReleaseTyped' /\ UNCHANGED tables
    BY <1>4, BeginTyped, InsertOperationTyped, RecoverTyped, LockReservationTyped, LockPartTyped,
       EndsTyped
  <2> QED
    BY <1>2, <2>1 DEF TablesTyped, tables
<1> QED
  BY <1>1, <1>3, <1>4 DEF Release!Step

LEMMA TypedKeepsClashed ==
  ASSUME clashed \subseteq Part, SharedNext, OperatorTyped' PROVE clashed' \subseteq Part
<1>1. \A o \in Operator : Clashes(o)' => command'[o].part \in Part
  BY CommandIsAsked, CreationIsAsked DEF Clashes, OperatorTyped
<1> QED
  BY <1>1 DEF SharedNext

(* The whole step.                                                         *)
LEMMA StepTyped ==
  ASSUME SharedTypeInv, [SharedNext]_sharedVars PROVE SharedTypeInv'
<1> USE DEF SharedTypeInv
<1>1. CASE UNCHANGED sharedVars
  BY <1>1, ReserversKept, OperatorsKept, ReleasersKept DEF sharedVars, tables, TablesTyped
<1>2. CASE SharedNext
  <2> DEFINE Typed == TablesTyped /\ ReserveTyped /\ OperatorTyped /\ ReleaseTyped
  <2>1. calm' \in BOOLEAN
    BY <1>2 DEF SharedNext, OneAtATime
  <2>2. CASE \E w \in Worker : ReserveStep(w)
    <3> PICK w \in Worker : ReserveStep(w)
      BY <2>2
    <3>1. UNCHANGED <<operatorVars, releaseVars>>
      BY ReserveStepIs
    <3>2. TablesTyped' /\ ReserveTyped'
      BY ReserveStepIs, RequestStepTyped, TaskStepTyped
    <3>3. Typed'
      BY <3>1, <3>2, OperatorsKept, ReleasersKept
    <3> QED
      BY <2>1, <3>3, TypedKeepsClashed, <1>2
  <2>3. CASE \E o \in Operator : OperatorStep(o)
    <3>1. Typed'
      BY <2>3, OperatorStepTyped, ReserversKept, ReleasersKept
    <3> QED
      BY <2>1, <3>1, TypedKeepsClashed, <1>2
  <2>4. CASE \E v \in Releaser : ReleaseStep(v)
    <3>1. Typed'
      BY <2>4, ReleaseStepTyped, ReserversKept, OperatorsKept
    <3> QED
      BY <2>1, <3>1, TypedKeepsClashed, <1>2
  <2> QED
    BY <1>2, <2>2, <2>3, <2>4 DEF SharedNext
<1> QED
  BY <1>1, <1>2

LEMMA InitTyped == SharedInit => SharedTypeInv
<1> SUFFICES ASSUME SharedInit PROVE SharedTypeInv
  OBVIOUS
<1> USE DEF SharedInit, PartInit, Init
<1>1. TablesTyped
  <2>1. PICK active \in InitialActive :
          stock = [p \in Part |-> [available |-> InitialAvailable[p], reserved |-> 0,
                                   active |-> active[p]]]
    OBVIOUS
  <2>2. stock \in [Part -> CountedRow]
    BY <2>1, InitialAssumption DEF CountedRow
  <2>3. [status |-> "ABSENT", quantity |-> 0, releasedBy |-> {}] \in ReservationRow(ReleaseCommand)
    BY DEF ReservationRow, ReservationStatus
  <2> QED
    BY <2>2, <2>3 DEF TablesTyped
<1>2. ReserveTyped
  BY DEF ReserveTyped, Code, TaskIsCounted
<1>3. OperatorTyped
  BY CodeAssumption DEF OperatorTyped, CommandIsCounted
<1>4. ReleaseTyped
  BY NoPartMap DEF Release!WorkersInit, ReleaseTyped, WorkIsKnown, IsInTransaction, Release!Phase
<1> QED
  BY <1>1, <1>2, <1>3, <1>4 DEF SharedTypeInv

-----------------------------------------------------------------------------
(* A row appears once, as what its command came to, and can then only be   *)
(* released.                                                               *)

RowMoves(o, p) ==
  \/ reservation'[o][p] = reservation[o][p] /\ origin'[o][p] = origin[o][p]
  \/ /\ IsMade(o, p) /\ reservation'[o][p].status = "RELEASED"
     /\ reservation'[o][p].quantity = reservation[o][p].quantity /\ origin'[o][p] = origin[o][p]
  \/ /\ reservation[o][p].status = "ABSENT"
     /\ reservation'[o][p].status = IF origin'[o][p].code = NULL THEN "RESERVED" ELSE "FAILED"

RowsMove == \A o \in Order, p \in Part : RowMoves(o, p)

LEMMA InsertMovesRow ==
  ASSUME SharedTypeInv, NEW w \in Worker, NEW i \in DOMAIN task[w], InsertReservation(w, i),
         RowOf(w, i).status = "ABSENT"
  PROVE  /\ RowsMove /\ UNCHANGED <<attempts, request, published>>
         /\ Set(w, i, [task[w][i] EXCEPT !.phase = "done", !.at = attempts])
         /\ LET o == request[w].order
                p == request[w].items[i].part
            IN /\ o \in Order /\ p \in Part
               /\ reservation'[o][p].status # "ABSENT"
               /\ reservation'[o][p].quantity = request[w].items[i].quantity
               /\ origin'[o][p].at = attempts /\ origin'[o][p].code = task[w][i].code
<1> DEFINE o == request[w].order
           p == request[w].items[i].part
           c == task[w][i].code
           row == NewReservation(request[w].items[i].quantity, c)
<1>1. /\ o \in Order /\ p \in Part
      /\ reservation \in [Order -> [Part -> ReservationRow(ReleaseCommand)]]
      /\ origin \in [Order -> [Part -> [at : Nat, code : Code]]]
  BY TaskIsKnown DEF SharedTypeInv, TablesTyped, ReserveTyped, Item
<1>2. /\ reservation' = [reservation EXCEPT ![o][p] = row]
      /\ origin' = [origin EXCEPT ![o][p] = [at |-> attempts, code |-> c]]
      /\ reservation[o][p].status = "ABSENT"
      /\ UNCHANGED <<attempts, request, published>>
      /\ Set(w, i, [task[w][i] EXCEPT !.phase = "done", !.at = attempts])
  BY DEF InsertReservation, RowOf, Item
<1>3. /\ row.status = IF c = NULL THEN "RESERVED" ELSE "FAILED"
      /\ row.quantity = request[w].items[i].quantity
  BY DEF NewReservation
<1> HIDE DEF o, p, c, row
<1>4. /\ reservation'[o][p] = row /\ origin'[o][p] = [at |-> attempts, code |-> c]
      /\ \A a \in Order, b \in Part : <<a, b>> # <<o, p>> =>
           reservation'[a][b] = reservation[a][b] /\ origin'[a][b] = origin[a][b]
  BY <1>1, <1>2
<1>5. RowsMove
  BY <1>2, <1>3, <1>4 DEF RowsMove, RowMoves
<1> QED
  BY <1>1, <1>2, <1>3, <1>4, <1>5 DEF o, p, c

LEMMA CommitMovesRows ==
  ASSUME SharedTypeInv, NEW v \in Releaser, ReleaseHolds(v), Release!Commit(v), UNCHANGED origin
  PROVE  /\ RowsMove
         /\ \A p \in DOMAIN write[v] :
              reservation'[releaseRequest[v].order][p].status = "RELEASED"
<1> DEFINE o == releaseRequest[v].order
           c == releaseRequest[v].id
<1>1. o \in Order /\ pc[v] = "commit" /\ DOMAIN write[v] \subseteq Part
      /\ reservation \in [Order -> [Part -> ReservationRow(ReleaseCommand)]]
  BY ReleaseIsAsked DEF SharedTypeInv, TablesTyped, ReleaseTyped, WorkIsKnown, Release!Commit, IsPartMap
<1>2. reservation' = [reservation EXCEPT ![o] =
        [p \in Part |-> IF p \in DOMAIN write[v]
                          THEN [@[p] EXCEPT !.status = "RELEASED", !.releasedBy = {c}]
                          ELSE @[p]]]
  BY DEF Release!Commit
<1>3. \A p \in DOMAIN write[v] : IsMade(o, p)
  BY <1>1 DEF ReleaseHolds, IsInTransaction
<1>4. \A a \in Order, b \in Part : reservation[a][b] \in ReservationRow(ReleaseCommand)
  BY <1>1
<1> HIDE DEF o, c
<1>5. \A a \in Order, b \in Part :
        IF a = o /\ b \in DOMAIN write[v]
          THEN /\ reservation'[a][b].status = "RELEASED"
               /\ reservation'[a][b].quantity = reservation[a][b].quantity
          ELSE reservation'[a][b] = reservation[a][b]
  BY <1>1, <1>2, <1>4 DEF ReservationRow
<1>6. RowsMove
  BY <1>3, <1>5 DEF RowsMove, RowMoves
<1> QED
  BY <1>1, <1>5, <1>6 DEF o

(* Every step.                                                             *)
LEMMA StepMovesRows ==
  ASSUME SharedTypeInv, ReportInv, [SharedNext]_sharedVars PROVE RowsMove
<1>1. ASSUME UNCHANGED <<reservation, origin>> PROVE RowsMove
  BY <1>1 DEF RowsMove, RowMoves
<1>2. CASE UNCHANGED sharedVars
  BY <1>1, <1>2 DEF sharedVars, tables, reserveVars
<1>3. ASSUME NEW w \in Worker, ReserveStep(w) PROVE RowsMove
  <2>1. CASE RequestStep(w)
    BY <1>1, <2>1 DEF RequestStep, Begin, Answer, Abort, tables
  <2>2. ASSUME NEW i \in DOMAIN task[w], TaskStep(w, i) PROVE RowsMove
    BY <1>1, <2>2, InsertMovesRow DEF TaskStep, FindReservation, FindPart, ReloadPart, UpdatePart,
       InsertReservation, Break, tables
  <2> QED
    BY <1>3, <2>1, <2>2, ReserveStepIs
<1>4. ASSUME NEW o \in Operator, OperatorStep(o) PROVE RowsMove
  BY <1>1, <1>4, OperatorStepTyped DEF SharedTypeInv, reserveVars
<1>5. ASSUME NEW v \in Releaser, ReleaseStep(v) PROVE RowsMove
  <2>1. UNCHANGED origin
    BY <1>5 DEF ReleaseStep, reserveVars
  <2>2. CASE Release!Commit(v)
    BY <2>1, <2>2, CommitMovesRows DEF ReportInv
  <2>3. CASE ~Release!Commit(v)
    <3>1. UNCHANGED reservation
      BY <1>5, <2>3 DEF ReleaseStep, Release!Step, Release!Begin, Release!InsertOperation, Release!Recover,
         Release!LockReservation, Release!LockPart, Release!Publish, Release!Abort, Release!tables
    <3> QED
      BY <1>1, <2>1, <3>1
  <2> QED
    BY <2>2, <2>3
<1> QED
  BY <1>2, <1>3, <1>4, <1>5 DEF SharedNext

-----------------------------------------------------------------------------
(* Answers to reserve commands.                                            *)

LEMMA TaskStaysTrue ==
  ASSUME SharedTypeInv, RowsMove, NEW w \in Worker, NEW i \in DOMAIN task[w], TaskHolds(w, i),
         task'[w][i] = task[w][i], request'[w] = request[w]
  PROVE  TaskHolds(w, i)'
<1>1. request[w].order \in Order /\ request[w].items[i].part \in Part
  BY TaskIsKnown DEF SharedTypeInv, Item
<1>2. RowMoves(request[w].order, request[w].items[i].part)
  BY <1>1 DEF RowsMove
<1> QED
  BY <1>2 DEF TaskHolds, RowMoves, IsMade

LEMMA AnswerStaysTrue ==
  ASSUME RowsMove, NEW r \in Request, AnswerHolds(r)
  PROVE  AnswerHolds(r)' /\ AnswerFrom(r)' = AnswerFrom(r)
<1>1. \A i \in DOMAIN r.items : r.order \in Order /\ r.items[i].part \in Part
  <2>1. r.order \in Order /\ r.items \in Seq([part : Part, quantity : Nat \ {0}])
    BY RequestAssumption DEF Valid
  <2> DEFINE S == [part : Part, quantity : Nat \ {0}]
  <2>2. \A x \in S : x.part \in Part
    OBVIOUS
  <2> HIDE DEF S
  <2>3. \A i \in DOMAIN r.items : r.items[i] \in S
    BY <2>1, ElementIsTyped DEF S
  <2> QED
    BY <2>1, <2>2, <2>3
<1>2. \A i \in DOMAIN r.items : RowMoves(r.order, r.items[i].part)
  BY <1>1 DEF RowsMove
<1>3. AnswerHolds(r)'
  BY <1>2 DEF AnswerHolds, RowMoves, IsMade
<1>4. \A i \in DOMAIN r.items : origin'[r.order][r.items[i].part] = origin[r.order][r.items[i].part]
  BY <1>2 DEF AnswerHolds, RowMoves
<1>5. Origins(r)' = Origins(r)
  BY <1>4 DEF Origins
<1>6. AnswerFrom(r)' = AnswerFrom(r)
  BY <1>5 DEF AnswerFrom, ResultName, OccurredAt
<1> QED
  BY <1>3, <1>6

LEMMA OriginStaysTrue ==
  ASSUME SharedTypeInv, ReserveInv, RowsMove, NEW o \in Order, NEW p \in Part
  PROVE  OriginHolds(o, p)'
  BY DEF ReserveInv, RowsMove, RowMoves, OriginHolds, IsMade

LEMMA AnsweredStaysTrue ==
  ASSUME ReserveInv, RowsMove, NEW e \in published PROVE IsAnswered(e)'
<1>1. PICK r \in Request : e = AnswerFrom(r) /\ AnswerHolds(r)
  BY DEF ReserveInv, IsAnswered
<1>2. AnswerHolds(r)' /\ e = AnswerFrom(r)'
  BY <1>1, AnswerStaysTrue
<1> QED
  BY <1>2 DEF IsAnswered

LEMMA ReserveInvKept ==
  ASSUME SharedTypeInv, ReserveInv, RowsMove, UNCHANGED <<request, task, published>>
  PROVE  ReserveInv'
<1>1. \A o \in Order, p \in Part : OriginHolds(o, p)'
  BY OriginStaysTrue
<1>2. \A w \in Worker : \A i \in DOMAIN task'[w] : TaskHolds(w, i)'
  BY TaskStaysTrue DEF ReserveInv
<1>3. \A e \in published' : IsAnswered(e)'
  BY AnsweredStaysTrue
<1> QED
  BY <1>1, <1>2, <1>3 DEF ReserveInv

LEMMA TaskStepKeepsReserveInv ==
  ASSUME SharedTypeInv, ReserveInv, RowsMove, NEW w \in Worker, NEW i \in DOMAIN task[w],
         TaskStep(w, i)
  PROVE  ReserveInv'
<1>0. /\ ReserveTyped /\ TaskHolds(w, i) /\ task[w][i] \in Task
      /\ UNCHANGED <<attempts, request, published>>
  BY TaskIsKnown DEF SharedTypeInv, ReserveInv, TaskStep, FindReservation, FindPart, ReloadPart, UpdatePart,
     InsertReservation, Break
<1>1. PICK t : Set(w, i, t) /\ (t.phase = "done" => TaskHolds(w, i)')
  <2>1. ASSUME NEW phase \in {"find", "findPart", "insert", "threw"}, Advance(w, i, phase)
        PROVE  \E t : Set(w, i, t) /\ t.phase # "done"
    <3> DEFINE t == Fresh(phase)
    <3>1. Set(w, i, t) /\ t.phase = phase
      BY <2>1 DEF Advance, Fresh
    <3> HIDE DEF t
    <3> QED
      BY <3>1
  <2>2. CASE FindReservation(w, i)
    <3>1. CASE Advance(w, i, "findPart") \/ Advance(w, i, "threw")
      BY <2>1, <3>1
    <3>2. CASE /\ Set(w, i, Returned(w, i)) /\ RowOf(w, i).status # "ABSENT"
               /\ RowOf(w, i).quantity = Item(w, i).quantity
      <4>1. task'[w][i] = Returned(w, i)
        BY <1>0, <3>2, OneTask
      <4>2. /\ task'[w][i].at = origin[request[w].order][Item(w, i).part].at
            /\ task'[w][i].code = origin[request[w].order][Item(w, i).part].code
        BY <1>0, <4>1 DEF Returned, Task
      <4>3. UNCHANGED <<reservation, origin, request>>
        BY <2>2 DEF FindReservation, tables
      <4>4. TaskHolds(w, i)'
        BY <3>2, <4>2, <4>3 DEF TaskHolds, RowOf, Item
      <4> QED
        BY <3>2, <4>4
    <3> QED
      BY <2>2, <3>1, <3>2 DEF FindReservation
  <2>3. CASE FindPart(w, i)
    <3> DEFINE p == Item(w, i).part
               q == Item(w, i).quantity
               s == [task[w][i] EXCEPT !.phase = "reload", !.part = Reserved(stock[p], q)]
               t == [task[w][i] EXCEPT !.phase = "insert", !.code = Refusal(p, q)]
    <3>1. s.phase = "reload" /\ t.phase = "insert"
      BY <1>0 DEF Task
    <3>2. Set(w, i, s) \/ Set(w, i, t)
      BY <2>3 DEF FindPart
    <3> HIDE DEF s, t
    <3> QED
      BY <3>1, <3>2
  <2>4. CASE ReloadPart(w, i)
    <3> DEFINE t == [task[w][i] EXCEPT !.phase = "update", !.loaded = stock[Item(w, i).part]]
    <3>1. t.phase = "update" /\ Set(w, i, t)
      BY <1>0, <2>4 DEF Task, ReloadPart
    <3> HIDE DEF t
    <3> QED
      BY <3>1
  <2>5. CASE UpdatePart(w, i)
    BY <2>1, <2>5 DEF UpdatePart
  <2>6. CASE InsertReservation(w, i)
    <3>1. CASE RowOf(w, i).status # "ABSENT"
      BY <2>1, <2>6, <3>1 DEF InsertReservation
    <3>2. CASE RowOf(w, i).status = "ABSENT"
      <4> DEFINE t == [task[w][i] EXCEPT !.phase = "done", !.at = attempts]
      <4>1. Set(w, i, t)
        BY <2>6, <3>2, InsertMovesRow
      <4>2. t.at = attempts /\ t.code = task[w][i].code
        BY <1>0 DEF Task
      <4> HIDE DEF t
      <4>3. task'[w][i] = t
        BY <1>0, <4>1, OneTask
      <4>4. TaskHolds(w, i)'
        BY <2>6, <3>2, <4>2, <4>3, InsertMovesRow DEF TaskHolds
      <4> QED
        BY <4>1, <4>4
    <3> QED
      BY <3>1, <3>2
  <2>7. CASE Break(w, i)
    BY <2>1, <2>7 DEF Break
  <2> QED
    BY <2>2, <2>3, <2>4, <2>5, <2>6, <2>7 DEF TaskStep
<1>2. /\ \A v \in Worker : DOMAIN task'[v] = DOMAIN task[v]
      /\ task'[w][i] = t
      /\ \A v \in Worker : \A j \in DOMAIN task[v] :
           <<v, j>> # <<w, i>> => task'[v][j] = task[v][j]
  BY <1>0, <1>1, OneTask
<1>3. \A v \in Worker : \A j \in DOMAIN task'[v] : TaskHolds(v, j)'
  <2> SUFFICES ASSUME NEW v \in Worker, NEW j \in DOMAIN task[v] PROVE TaskHolds(v, j)'
    BY <1>2
  <2>1. CASE <<v, j>> # <<w, i>>
    <3>1. TaskHolds(v, j) /\ task'[v][j] = task[v][j] /\ request'[v] = request[v]
      BY <1>0, <1>2, <2>1 DEF ReserveInv
    <3> QED
      BY <3>1, TaskStaysTrue
  <2>2. CASE <<v, j>> = <<w, i>>
    BY <1>1, <1>2, <2>2 DEF TaskHolds
  <2> QED
    BY <2>1, <2>2
<1>4. \A e \in published' : IsAnswered(e)'
  BY <1>0, AnsweredStaysTrue
<1> QED
  BY <1>3, <1>4, OriginStaysTrue DEF ReserveInv

(* The answer that is published is what the rows of the message say.       *)
LEMMA NewAnswerHolds ==
  ASSUME SharedTypeInv, ReserveInv, NEW w \in Worker, Answer(w)
  PROVE  \E r \in Request : AnswerHolds(r) /\ published' = published \cup {AnswerFrom(r)}
<1> DEFINE r == request[w]
<1>1. r \in Request /\ task[w] \in [DOMAIN r.items -> Task]
  BY DEF SharedTypeInv, ReserveTyped, Answer
<1>2. \A i \in DOMAIN r.items : task[w][i].phase = "done" /\ TaskHolds(w, i)
  BY <1>1 DEF Answer, At, ReserveInv
<1>3. \A i \in DOMAIN r.items :
        /\ reservation[r.order][r.items[i].part].status # "ABSENT"
        /\ reservation[r.order][r.items[i].part].quantity = r.items[i].quantity
        /\ task[w][i].at = origin[r.order][r.items[i].part].at
        /\ task[w][i].code = origin[r.order][r.items[i].part].code
  BY <1>2 DEF TaskHolds
<1>4. AnswerHolds(r)
  BY <1>3 DEF AnswerHolds
<1>5. /\ DOMAIN Origins(r) = DOMAIN r.items /\ DOMAIN task[w] = DOMAIN r.items
      /\ \A i \in DOMAIN r.items : Origins(r)[i].at = task[w][i].at /\ Origins(r)[i].code = task[w][i].code
  BY <1>1, <1>3 DEF Origins
<1>7. ResultName(task[w]) = ResultName(Origins(r))
  BY <1>5 DEF ResultName
<1>8. {task[w][i].at : i \in DOMAIN task[w]} = {Origins(r)[i].at : i \in DOMAIN Origins(r)}
  BY <1>5
<1>9. OccurredAt(task[w]) = OccurredAt(Origins(r))
  BY <1>8 DEF OccurredAt
<1>10. [i \in DOMAIN task[w] |-> task[w][i].code] = [i \in DOMAIN r.items |-> Origins(r)[i].code]
  BY <1>5
<1>11. published' = published \cup {AnswerFrom(r)}
  BY <1>7, <1>9, <1>10 DEF Answer, AnswerFrom
<1> QED
  BY <1>1, <1>4, <1>11

LEMMA RequestStepKeepsReserveInv ==
  ASSUME SharedTypeInv, ReserveInv, RowsMove, NEW w \in Worker, RequestStep(w)
  PROVE  ReserveInv'
<1>0. DOMAIN task = Worker /\ DOMAIN request = Worker
  BY DEF SharedTypeInv, ReserveTyped
<1>1. /\ \A i \in DOMAIN task'[w] : task'[w][i].phase # "done"
      /\ \A v \in Worker \ {w} : task'[v] = task[v] /\ request'[v] = request[v]
  <2>1. CASE \E r \in Request : Begin(w, r)
    BY <1>0, <2>1 DEF Begin, Fresh
  <2>2. CASE Answer(w) \/ Abort(w)
    BY <1>0, <2>2 DEF Answer, Abort, Finish
  <2> QED
    BY <2>1, <2>2 DEF RequestStep
<1>2. \A v \in Worker : \A i \in DOMAIN task'[v] : TaskHolds(v, i)'
  <2> SUFFICES ASSUME NEW v \in Worker, NEW i \in DOMAIN task'[v] PROVE TaskHolds(v, i)'
    OBVIOUS
  <2>1. CASE v = w
    BY <1>1, <2>1 DEF TaskHolds
  <2>2. CASE v # w
    BY <1>1, <2>2, TaskStaysTrue DEF ReserveInv
  <2> QED
    BY <2>1, <2>2
<1>3. \A e \in published' : IsAnswered(e)'
  <2>1. CASE ~Answer(w)
    <3>1. published' = published
      BY <2>1 DEF RequestStep, Begin, Abort
    <3> QED
      BY <3>1, AnsweredStaysTrue
  <2>2. CASE Answer(w)
    <3>1. PICK r \in Request : AnswerHolds(r) /\ published' = published \cup {AnswerFrom(r)}
      BY <2>2, NewAnswerHolds
    <3>2. AnswerHolds(r)' /\ AnswerFrom(r)' = AnswerFrom(r)
      BY <3>1, AnswerStaysTrue
    <3>4. PICK a : a = AnswerFrom(r)
      OBVIOUS
    <3>5. IsAnswered(a)'
      BY <3>2, <3>4 DEF IsAnswered
    <3> QED
      BY <3>1, <3>4, <3>5, AnsweredStaysTrue
  <2> QED
    BY <2>1, <2>2
<1> QED
  BY <1>2, <1>3, OriginStaysTrue DEF ReserveInv

LEMMA StepKeepsReserveInv ==
  ASSUME SharedTypeInv, ReserveInv, ReportInv, [SharedNext]_sharedVars PROVE ReserveInv'
<1>1. RowsMove
  BY StepMovesRows
<1>2. CASE UNCHANGED <<request, task, published>>
  BY <1>1, <1>2, ReserveInvKept
<1>3. ASSUME NEW w \in Worker, ReserveStep(w) PROVE ReserveInv'
  BY <1>1, <1>3, ReserveStepIs, RequestStepKeepsReserveInv, TaskStepKeepsReserveInv
<1>4. ASSUME NEW o \in Operator, OperatorStep(o) PROVE UNCHANGED <<request, task, published>>
  BY <1>4, OperatorStepTyped DEF SharedTypeInv, reserveVars
<1>5. ASSUME NEW v \in Releaser, ReleaseStep(v) PROVE UNCHANGED <<request, task, published>>
  BY <1>5 DEF ReleaseStep, reserveVars
<1> QED
  BY <1>2, <1>3, <1>4, <1>5 DEF SharedNext, sharedVars, reserveVars

-----------------------------------------------------------------------------
(* Reports of releases.                                                    *)

LEMMA SettledStaysSettled ==
  ASSUME RowsMove, NEW o \in Order, NEW p \in Part
  PROVE  (IsSettled(o, p) => IsSettled(o, p)') /\ (IsMade(o, p) => IsMade(o, p)')
  BY DEF RowsMove, RowMoves, IsSettled, IsMade

LEMMA ReleaseStaysTrue ==
  ASSUME SharedTypeInv, RowsMove, NEW v \in Releaser, ReleaseHolds(v),
         UNCHANGED <<pc[v], releaseRequest[v], verdict[v], write[v]>>
  PROVE  ReleaseHolds(v)'
<1> SUFFICES ASSUME IsInTransaction(v) PROVE ReleaseHolds(v)'
  BY DEF ReleaseHolds, IsInTransaction
<1> PICK o, i : o = releaseRequest[v].order /\ i = Release!Item(v)
  OBVIOUS
<1>1. /\ o \in Order /\ DOMAIN write[v] \subseteq Part /\ DOMAIN verdict[v] \subseteq Part
      /\ pc[v] = "lockPart" => i \in Part
  BY ReleaseIsAsked, ReleaseItem DEF SharedTypeInv, ReleaseTyped, WorkIsKnown, IsInTransaction, IsPartMap
<1>2. Release!Item(v)' = i
  BY DEF Release!Item, Release!ToDo
<1>3. \A p \in Part : (IsSettled(o, p) => IsSettled(o, p)') /\ (IsMade(o, p) => IsMade(o, p)')
  BY <1>1, SettledStaysSettled
<1>4. pc[v] = "lockPart" => IsMade(o, i)'
  BY <1>1, <1>3 DEF ReleaseHolds
<1> QED
  BY <1>1, <1>2, <1>3, <1>4 DEF ReleaseHolds, IsMade, IsSettled

LEMMA OperationStaysTrue ==
  ASSUME SharedTypeInv, RowsMove, NEW c \in ReleaseCommand, OperationHolds(c),
         operation'[c] = operation[c]
  PROVE  OperationHolds(c)'
<1> SUFFICES ASSUME operation[c] # NULL PROVE OperationHolds(c)'
  BY DEF OperationHolds
<1> PICK o : o = operation[c].request.order
  OBVIOUS
<1>1. o \in Order /\ DOMAIN operation[c].verdict \subseteq Part
  BY ReleaseIsAsked DEF SharedTypeInv, ReleaseTyped, Release!IsOperationRow, Release!IsPartMap
<1>2. \A p \in Part : IsSettled(o, p) => IsSettled(o, p)'
  BY <1>1, SettledStaysSettled
<1> QED
  BY <1>1, <1>2 DEF OperationHolds, IsSettled

LEMMA ReportStaysTrue ==
  ASSUME RowsMove, NEW e, ReportHolds(e) PROVE ReportHolds(e)'
  BY SettledStaysSettled DEF ReportHolds

(* The verdict on a reservation that the part is not asked for.            *)
LEMMA VerdictIsRight ==
  ASSUME NEW o \in Order, NEW p \in Part, NEW q, NEW c,
         reservation[o][p] \in ReservationRow(ReleaseCommand)
  PROVE  LET x == Release!ReservationVerdict(reservation[o][p], q, c)
         IN IF x = NULL THEN IsMade(o, p)
            ELSE x \in Release!Verdict /\ (x \in Leftover \/ IsSettled(o, p))
<1>1. reservation[o][p].status \in ReservationStatus
  BY DEF ReservationRow
<1>2. \A x \in Release!Verdict : x # NULL
  BY NoReleaseAssumption
<1> QED
  BY <1>1, <1>2 DEF Release!ReservationVerdict, Release!Verdict, ReservationStatus, Leftover,
     IsSettled, IsMade

LEMMA LockReservationKeepsReport ==
  ASSUME SharedTypeInv, NEW v \in Releaser, ReleaseHolds(v), Release!LockReservation(v)
  PROVE  ReleaseHolds(v)' /\ \A u \in Releaser \ {v} : UNCHANGED <<pc[u], verdict[u]>>
<1>0. ReleaseTyped /\ TablesTyped
  BY DEF SharedTypeInv
<1>1. /\ pc[v] = "lockReservation" /\ releaseRequest[v] \in ReleaseRequest
      /\ Release!ToDo(v) # {}
      /\ UNCHANGED <<stock, reservation, releaseRequest, write>>
  BY <1>0 DEF Release!LockReservation, Release!tables, ReleaseTyped, WorkIsKnown
<1> PICK p, o : p = Release!Item(v) /\ o = releaseRequest[v].order
  OBVIOUS
<1> DEFINE x == Release!ReservationVerdict(reservation[o][p], releaseRequest[v].items[p],
                                           releaseRequest[v].id)
<1>2. p \in Part /\ o \in Order /\ reservation[o][p] \in ReservationRow(ReleaseCommand)
  BY <1>0, <1>1, ReleaseItem, ReleaseIsAsked DEF TablesTyped
<1>3. IF x = NULL THEN IsMade(o, p)
      ELSE x \in Release!Verdict /\ (x \in Leftover \/ IsSettled(o, p))
  BY <1>2, VerdictIsRight
<1>4. IF x = NULL THEN pc' = [pc EXCEPT ![v] = "lockPart"] /\ verdict' = verdict
                  ELSE Release!Judge(v, x)
  BY DEF Release!LockReservation, Release!Goto
<1>5. /\ \A r \in DOMAIN write[v] : IsMade(o, r)
      /\ \A r \in DOMAIN verdict[v] :
           verdict[v][r] \in Leftover \/ r \in DOMAIN write[v] \/ IsSettled(o, r)
  BY <1>1 DEF ReleaseHolds, IsInTransaction
<1> HIDE DEF x
<1>6. CASE x = NULL
  <2>1. Release!Item(v)' = p
    BY <1>1, <1>4, <1>6 DEF Release!Item, Release!ToDo
  <2>2. pc'[v] = "lockPart" /\ verdict'[v] = verdict[v]
    BY <1>0, <1>4, <1>6 DEF ReleaseTyped
  <2>3. IsMade(o, p)'
    BY <1>1, <1>3, <1>6 DEF IsMade
  <2>4. ReleaseHolds(v)'
    BY <1>1, <1>5, <2>1, <2>2, <2>3 DEF ReleaseHolds, IsMade, IsSettled
  <2> QED
    BY <1>0, <1>4, <1>6, <2>4 DEF ReleaseTyped
<1>7. CASE x # NULL
  <2>1. x \in Release!Verdict /\ Release!Judge(v, x)
    BY <1>3, <1>4, <1>7
  <2>2. /\ DOMAIN verdict'[v] = DOMAIN verdict[v] \cup {p} /\ verdict'[v][p] = x
        /\ \A r \in DOMAIN verdict[v] : verdict'[v][r] = verdict[v][r]
        /\ pc'[v] # "lockPart"
        /\ \A u \in Releaser \ {v} : verdict'[u] = verdict[u] /\ pc'[u] = pc[u]
    BY <1>0, <1>1, <2>1, ItemJudged
  <2>3. ReleaseHolds(v)'
    BY <1>1, <1>3, <1>5, <1>7, <2>2 DEF ReleaseHolds, IsMade, IsSettled
  <2> QED
    BY <2>2, <2>3
<1> QED
  BY <1>6, <1>7

LEMMA LockPartKeepsReport ==
  ASSUME SharedTypeInv, NEW v \in Releaser, ReleaseHolds(v), Release!LockPart(v)
  PROVE  ReleaseHolds(v)' /\ \A u \in Releaser \ {v} : UNCHANGED <<pc[u], verdict[u], write[u]>>
<1>0. ReleaseTyped
  BY DEF SharedTypeInv
<1>1. /\ pc[v] = "lockPart" /\ releaseRequest[v] \in ReleaseRequest
      /\ Release!ToDo(v) # {}
      /\ UNCHANGED <<stock, reservation, releaseRequest>>
  BY <1>0 DEF Release!LockPart, Release!tables, ReleaseTyped, WorkIsKnown
<1> PICK p, o : p = Release!Item(v) /\ o = releaseRequest[v].order
  OBVIOUS
<1>2. /\ IsMade(o, p)
      /\ \A r \in DOMAIN write[v] : IsMade(o, r)
      /\ \A r \in DOMAIN verdict[v] :
           verdict[v][r] \in Leftover \/ r \in DOMAIN write[v] \/ IsSettled(o, r)
  BY <1>1 DEF ReleaseHolds, IsInTransaction
<1>3. CASE Release!EndTransaction(v) /\ pc' = [pc EXCEPT ![v] = "recover"]
  BY <1>0, <1>3, EndTyped DEF ReleaseHolds, IsInTransaction, ReleaseTyped
<1>4. ASSUME NEW x \in Release!Verdict, Release!Judge(v, x), p \in Part,
             \/ x \in Leftover /\ write' = write
             \/ write' = [write EXCEPT ![v] = Release!Extend(@, p, Release!Returned(v, p))]
      PROVE  ReleaseHolds(v)' /\ \A u \in Releaser \ {v} : UNCHANGED <<pc[u], verdict[u], write[u]>>
  <2>1. /\ DOMAIN verdict'[v] = DOMAIN verdict[v] \cup {p} /\ verdict'[v][p] = x
        /\ \A r \in DOMAIN verdict[v] : verdict'[v][r] = verdict[v][r]
        /\ pc'[v] # "lockPart"
        /\ \A u \in Releaser \ {v} : verdict'[u] = verdict[u] /\ pc'[u] = pc[u]
    BY <1>0, <1>1, <1>4, ItemJudged
  <2>2. /\ \A u \in Releaser \ {v} : write'[u] = write[u]
        /\ \/ x \in Leftover /\ DOMAIN write'[v] = DOMAIN write[v]
           \/ DOMAIN write'[v] = DOMAIN write[v] \cup {p}
    BY <1>0, <1>4 DEF ReleaseTyped, Release!Extend
  <2>3. ReleaseHolds(v)'
    BY <1>1, <1>2, <2>1, <2>2 DEF ReleaseHolds, IsMade, IsSettled
  <2> QED
    BY <2>1, <2>2, <2>3
<1>5. p \in Part
  BY <1>1, ReleaseItem
<1>6. /\ "PART_RESERVED_STOCK_INSUFFICIENT" \in Release!Verdict \cap Leftover
      /\ "RELEASED" \in Release!Verdict
  BY DEF Release!Verdict, Leftover
<1>7. \/ Release!EndTransaction(v) /\ pc' = [pc EXCEPT ![v] = "recover"]
      \/ Release!Judge(v, "PART_RESERVED_STOCK_INSUFFICIENT") /\ write' = write
      \/ /\ Release!Judge(v, "RELEASED")
         /\ write' = [write EXCEPT ![v] = Release!Extend(@, p, Release!Returned(v, p))]
  BY DEF Release!LockPart, Release!Goto
<1> QED
  BY <1>3, <1>4, <1>5, <1>6, <1>7

LEMMA StepKeepsReportInv ==
  ASSUME SharedTypeInv, ReportInv, [SharedNext]_sharedVars PROVE ReportInv'
<1>0. RowsMove /\ ReleaseTyped
  BY StepMovesRows DEF SharedTypeInv
<1>1. CASE UNCHANGED releaseVars
  <2>1. /\ \A v \in Releaser : UNCHANGED <<pc[v], releaseRequest[v], verdict[v], write[v]>>
        /\ \A c \in ReleaseCommand : operation'[c] = operation[c]
        /\ released' = released
    BY <1>1 DEF releaseVars
  <2> QED
    BY <1>0, <2>1, ReleaseStaysTrue, OperationStaysTrue, ReportStaysTrue DEF ReportInv
<1>2. ASSUME NEW v \in Releaser, ReleaseStep(v) PROVE ReportInv'
  <2>1. CASE Release!LockReservation(v) \/ Release!LockPart(v)
    <3>1. /\ ReleaseHolds(v)'
          /\ \A u \in Releaser \ {v} : UNCHANGED <<pc[u], releaseRequest[u], verdict[u], write[u]>>
          /\ UNCHANGED <<operation, released>>
      BY <2>1, LockReservationKeepsReport, LockPartKeepsReport
         DEF ReportInv, Release!LockReservation, Release!LockPart
    <3> QED
      BY <1>0, <3>1, ReleaseStaysTrue, OperationStaysTrue, ReportStaysTrue DEF ReportInv
  <2>2. ASSUME \/ ~IsInTransaction(v)'
               \/ pc'[v] = "lockReservation" /\ DOMAIN verdict'[v] = {} /\ DOMAIN write'[v] = {},
               \A u \in Releaser \ {v} : UNCHANGED <<pc[u], releaseRequest[u], verdict[u], write[u]>>
        PROVE  \A u \in Releaser : ReleaseHolds(u)'
    <3>1. ReleaseHolds(v)'
      BY <2>2 DEF ReleaseHolds
    <3> QED
      BY <1>0, <2>2, <3>1, ReleaseStaysTrue DEF ReportInv
  <2>3. CASE \/ \E r \in ReleaseRequest : Release!Begin(v, r)
             \/ Release!InsertOperation(v) \/ Release!Recover(v) \/ Release!Abort(v)
    <3>1. /\ UNCHANGED <<operation, released>>
          /\ \A u \in Releaser \ {v} : UNCHANGED <<pc[u], releaseRequest[u], verdict[u], write[u]>>
      BY <1>0, <2>3, EndTyped DEF ReleaseTyped, Release!Begin, Release!InsertOperation, Release!Recover, Release!Abort,
         Release!Goto, Release!Finish
    <3>2. \/ ~IsInTransaction(v)'
          \/ pc'[v] = "lockReservation" /\ DOMAIN verdict'[v] = {} /\ DOMAIN write'[v] = {}
      BY <1>0, <2>3, EndTyped DEF ReleaseTyped, WorkIsKnown, IsInTransaction, Release!Begin,
         Release!InsertOperation, Release!Recover, Release!Abort, Release!Goto, Release!Finish
    <3> QED
      BY <1>0, <2>2, <3>1, <3>2, OperationStaysTrue, ReportStaysTrue DEF ReportInv
  <2>4. CASE Release!Commit(v)
    <3> PICK c : c = releaseRequest[v].id
      OBVIOUS
    <3>1. /\ pc[v] = "commit" /\ releaseRequest[v] \in ReleaseRequest /\ c \in ReleaseCommand
          /\ pc' = [pc EXCEPT ![v] = "publish"] /\ Release!EndTransaction(v)
          /\ operation' = [operation EXCEPT ![c] =
               [request |-> releaseRequest[v], verdict |-> verdict[v], at |-> occurredAt[v]]]
          /\ UNCHANGED <<releaseRequest, released>>
      BY <1>0, <2>4, ReleaseIsAsked DEF Release!Commit, Release!Goto, ReleaseTyped, WorkIsKnown
    <3>2. \A u \in Releaser : ReleaseHolds(u)'
      BY <1>0, <2>2, <3>1, EndTyped DEF ReleaseTyped, IsInTransaction
    <3>3. \A p \in DOMAIN verdict[v] :
            verdict[v][p] \in Leftover \/ IsSettled(releaseRequest[v].order, p)'
      <4> TAKE p \in DOMAIN verdict[v]
      <4>1. p \in Part /\ releaseRequest[v].order \in Order
        BY <1>0, <3>1, ReleaseIsAsked DEF ReleaseTyped, IsPartMap
      <4>2. CASE p \in DOMAIN write[v]
        <5>1. ReleaseHolds(v) /\ UNCHANGED origin
          BY <1>2 DEF ReportInv, ReleaseStep, reserveVars
        <5>2. reservation'[releaseRequest[v].order][p].status = "RELEASED"
          BY <2>4, <4>2, <5>1, CommitMovesRows
        <5> QED
          BY <3>1, <5>2 DEF IsSettled
      <4>3. CASE p \notin DOMAIN write[v]
        <5> PICK o : o = releaseRequest[v].order
          OBVIOUS
        <5>1. verdict[v][p] \in Leftover \/ IsSettled(o, p)
          BY <3>1, <4>3 DEF ReportInv, ReleaseHolds, IsInTransaction
        <5>2. IsSettled(o, p) => IsSettled(o, p)'
          BY <1>0, <4>1, SettledStaysSettled
        <5> QED
          BY <3>1, <5>1, <5>2 DEF IsSettled
      <4> QED
        BY <4>2, <4>3
    <3>4. OperationHolds(c)'
      <4>1. operation'[c].verdict = verdict[v] /\ operation'[c].request = releaseRequest[v]
        BY <1>0, <3>1 DEF ReleaseTyped
      <4> QED
        BY <3>1, <3>3, <4>1 DEF OperationHolds, IsSettled
    <3>5. \A b \in ReleaseCommand : OperationHolds(b)'
      <4> TAKE b \in ReleaseCommand
      <4>1. CASE b # c
        <5>1. operation'[b] = operation[b] /\ OperationHolds(b)
          BY <1>0, <3>1, <4>1 DEF ReleaseTyped, ReportInv
        <5> QED
          BY <1>0, <5>1, OperationStaysTrue
      <4> QED
        BY <3>4, <4>1
    <3> QED
      BY <1>0, <3>1, <3>2, <3>5, ReportStaysTrue DEF ReportInv
  <2>5. CASE Release!Publish(v)
    <3> DEFINE c == releaseRequest[v].id
    <3>1. /\ c \in ReleaseCommand /\ operation[c] # NULL
          /\ pc' = [pc EXCEPT ![v] = "idle"] /\ releaseRequest' = [releaseRequest EXCEPT ![v] = NULL]
          /\ released' = released \cup {Release!EnvelopeOf(c)}
          /\ UNCHANGED <<operation, verdict, write>>
      BY <1>0, <2>5, ReleaseIsAsked
         DEF Release!Publish, Release!Finish, Release!Goto, ReleaseTyped, WorkIsKnown
    <3> HIDE DEF c
    <3>2. \A u \in Releaser : ReleaseHolds(u)'
      BY <1>0, <2>2, <3>1 DEF ReleaseTyped, IsInTransaction
    <3>3. PICK e : e = Release!EnvelopeOf(c)
      OBVIOUS
    <3>4. ReportHolds(e)
      <4>1. /\ operation[c].request.order \in Order /\ DOMAIN operation[c].verdict \subseteq Part
            /\ OperationHolds(c)
        BY <1>0, <3>1, ReleaseIsAsked DEF ReportInv, ReleaseTyped, Release!IsOperationRow, Release!IsPartMap
      <4>2. e.order = operation[c].request.order /\ e.verdict = operation[c].verdict
        BY <3>3 DEF Release!EnvelopeOf
      <4> QED
        BY <3>1, <4>1, <4>2 DEF ReportHolds, OperationHolds
    <3> QED
      BY <1>0, <3>1, <3>2, <3>3, <3>4, OperationStaysTrue, ReportStaysTrue DEF ReportInv
  <2> QED
    BY <1>2, <2>1, <2>3, <2>4, <2>5 DEF ReleaseStep, Release!Step
<1> QED
  BY <1>1, <1>2, OperatorStepTyped, ReserveStepIs DEF SharedNext, sharedVars, SharedTypeInv

-----------------------------------------------------------------------------
(* Codes.                                                                  *)

LEMMA StepKeepsCodes ==
  ASSUME SharedTypeInv, CodesAreDistinct, [SharedNext]_sharedVars PROVE CodesAreDistinct'
<1>1. ASSUME UNCHANGED code PROVE CodesAreDistinct'
  BY <1>1 DEF CodesAreDistinct
<1>2. ASSUME NEW o \in Operator, InsertPart(o), ~IndexRefuses(command[o].code)
      PROVE  CodesAreDistinct'
  <2>1. /\ command[o].part \in Part /\ code \in [Part -> PartCode \cup {NULL}]
        /\ code' = [code EXCEPT ![command[o].part] = command[o].code]
        /\ \A p \in Part : code[p] # command[o].code
    BY <1>2, CommandIsKnown DEF InsertPart, Creates, IndexRefuses, SharedTypeInv, OperatorTyped
  <2> QED
    BY <2>1 DEF CodesAreDistinct
<1>3. ASSUME NEW o \in Operator, OperatorStep(o) PROVE CodesAreDistinct'
  BY <1>1, <1>2, <1>3 DEF OperatorStep, Ask, StartCommand, StartCreation, ReloadForCommand,
     UpdateForCommand, InsertPart, CommandEnds
<1> QED
  BY <1>1, <1>3 DEF SharedNext, ReserveStep, ReleaseStep, operatorVars, sharedVars

-----------------------------------------------------------------------------
(* The invariant, and what it says.                                        *)

LEMMA InitEstablishesOverlapInv == SharedInit => OverlapInv
<1> SUFFICES ASSUME SharedInit PROVE OverlapInv
  OBVIOUS
<1>1. SharedTypeInv
  BY InitTyped
<1>2. /\ reservation = [o \in Order |-> [p \in Part |->
                         [status |-> "ABSENT", quantity |-> 0, releasedBy |-> {}]]]
      /\ origin = [o \in Order |-> [p \in Part |-> [at |-> 0, code |-> NULL]]]
      /\ task = [w \in Worker |-> <<>>] /\ published = {}
  BY DEF SharedInit, PartInit, Init
<1>3. ReserveInv
  BY <1>2 DEF ReserveInv, OriginHolds
<1>4. ReportInv
  BY DEF SharedInit, Release!WorkersInit, ReportInv, ReleaseHolds, IsInTransaction, OperationHolds
<1>5. CodesAreDistinct
  BY CodeAssumption DEF SharedInit, PartInit, CodesAreDistinct
<1> QED
  BY <1>1, <1>3, <1>4, <1>5 DEF OverlapInv

THEOREM OverlapInvariant == SharedSpec => []OverlapInv
<1>1. OverlapInv /\ [SharedNext]_sharedVars => OverlapInv'
  BY StepTyped, StepKeepsReserveInv, StepKeepsReportInv, StepKeepsCodes DEF OverlapInv
<1> QED
  BY <1>1, InitEstablishesOverlapInv, PTL DEF SharedSpec

(* However reservations, commands and releases overlap and crash, every    *)
(* table, entity and message has its type; above all, no quantity of a     *)
(* part ever falls below zero (ensureAvailableStock, ensureReservedStock). *)
THEOREM SharedStockTypeCorrect == SharedSpec => []SharedTypeOK
<1>1. OverlapInv => SharedTypeOK
  BY SharedTypes DEF OverlapInv
<1> QED
  BY <1>1, OverlapInvariant, PTL

(* A code names one part for good, whatever requests overlap (create,      *)
(* idx_parts_code).                                                        *)
THEOREM CodesStayDistinct == SharedSpec => []CodesAreDistinct
<1>1. OverlapInv => CodesAreDistinct
  BY DEF OverlapInv
<1> QED
  BY <1>1, OverlapInvariant, PTL

(* However often and wherever a reserve command is handled, it has one     *)
(* answer, because the rows it is derived from never change that much      *)
(* (consumeReserve).                                                       *)
THEOREM ReserveAnswersAgree == SharedSpec => []SameAnswer
<1>1. OverlapInv => SameAnswer
  <2> SUFFICES ASSUME OverlapInv, NEW e \in published, NEW f \in published, e.id = f.id
               PROVE  e = f
    BY DEF SameAnswer
  <2>1. PICK q \in Request : e = AnswerFrom(q)
    BY DEF OverlapInv, ReserveInv, IsAnswered
  <2>2. PICK r \in Request : f = AnswerFrom(r)
    BY DEF OverlapInv, ReserveInv, IsAnswered
  <2>3. e.id = q.id /\ f.id = r.id
    BY <2>1, <2>2 DEF AnswerFrom
  <2>4. q = r
    BY <2>3, IdAssumption
  <2> QED
    BY <2>1, <2>2, <2>4
<1> QED
  BY <1>1, OverlapInvariant, PTL

(* Success is answered only on reservations that were made, and failure    *)
(* only on a FAILED row (consumeReserve).                                  *)
THEOREM ReserveAnswersAreBacked == SharedSpec => []AnswerIsBacked
<1>1. OverlapInv => AnswerIsBacked
  <2> SUFFICES ASSUME OverlapInv, NEW e \in published, NEW r \in Request, e.id = r.id
               PROVE  LET row(i) == reservation[r.order][r.items[i].part]
                      IN /\ \A i \in DOMAIN r.items : row(i).quantity = r.items[i].quantity
                         /\ e.name = IF \A i \in DOMAIN r.items :
                                          row(i).status \in {"RESERVED", "RELEASED"}
                                       THEN "stock.reserved" ELSE "stock.reservation.failed"
    BY DEF AnswerIsBacked
  <2>1. PICK q \in Request : e = AnswerFrom(q) /\ AnswerHolds(q)
    BY DEF OverlapInv, ReserveInv, IsAnswered
  <2>2. e.id = q.id /\ e.name = ResultName(Origins(q))
    BY <2>1 DEF AnswerFrom
  <2>3. q = r
    BY <2>2, IdAssumption
  <2>4. r.order \in Order /\ \A i \in DOMAIN r.items : r.items[i].part \in Part
    <3>1. r.order \in Order /\ r.items \in Seq([part : Part, quantity : Nat \ {0}])
      BY RequestAssumption DEF Valid
    <3> DEFINE S == [part : Part, quantity : Nat \ {0}]
    <3>2. \A x \in S : x.part \in Part
      OBVIOUS
    <3> HIDE DEF S
    <3> QED
      BY <3>1, <3>2, ElementIsTyped DEF S
  <2>5. \A i \in DOMAIN r.items :
          LET o == r.order
              p == r.items[i].part
          IN /\ OriginHolds(o, p) /\ reservation[o][p].status \in ReservationStatus
             /\ reservation[o][p].status # "ABSENT"
             /\ reservation[o][p].quantity = r.items[i].quantity
    BY <2>1, <2>3, <2>4
       DEF AnswerHolds, OverlapInv, ReserveInv, SharedTypeInv, TablesTyped, ReservationRow
  <2>6. \A i \in DOMAIN r.items :
          (Origins(r)[i].code # NULL)
            <=> reservation[r.order][r.items[i].part].status \notin {"RESERVED", "RELEASED"}
    BY <2>5 DEF Origins, OriginHolds, ReservationStatus
  <2>7. DOMAIN Origins(r) = DOMAIN r.items
    BY DEF Origins
  <2> QED
    BY <2>2, <2>3, <2>5, <2>6, <2>7 DEF ResultName
<1> QED
  BY <1>1, OverlapInvariant, PTL

(* A saga that has released its order knows of every unit that is still    *)
(* held for it (releaseOne), however reservations are made meanwhile.      *)
THEOREM LeftoversStayReported == SharedSpec => []LeftoversAreReported
<1>1. OverlapInv => LeftoversAreReported
  BY DEF OverlapInv, ReportInv, ReportHolds, IsSettled, Leftover, LeftoversAreReported
<1> QED
  BY <1>1, OverlapInvariant, PTL
-----------------------------------------------------------------------------
(* The invariant behind Balanced, by parts.  Of the parts on which a       *)
(* command of an operator has clashed with another request it says         *)
(* nothing.                                                                *)

NoClash ==
  /\ calm => OneAtATime /\ clashed = {}
  /\ \A o \in Operator : Clashes(o) => command[o].part \in clashed

Units(row) == row.available + row.reserved
Total(p) == InitialAvailable[p] + byHand[p].units

(* Whatever a save writes, and whatever it has loaded before, has the      *)
(* units that the part has; and the part stays active, or not.             *)
TaskBalances(w, i) ==
  LET t == task[w][i]
      p == request[w].items[i].part
  IN p \notin clashed =>
       /\ t.phase \in {"reload", "update"} =>
            t.part.active /\ stock[p].active /\ Units(t.part) = Total(p)
       /\ t.phase = "update" => t.loaded \in StockRow /\ Units(t.loaded) = Total(p)

ReleaseBalances(v) ==
  /\ \A p \in Part \ clashed : v \in ReleasesOn(p) => Units(snapshot[v].stock[p]) = Total(p)
  /\ \A p \in DOMAIN write[v] \ clashed :
       /\ v \in ReleasesOn(p) /\ code[p] # NULL
       /\ Units(write[v][p]) = Total(p) /\ write[v][p].active = stock[p].active

(* A command has the part as it is.                                        *)
NewRow(c) == [available |-> c.quantity, reserved |-> 0, active |-> TRUE]

CommandHolds(o) ==
  command[o] # NULL /\ command[o].part \notin clashed =>
    IF Creates(o) THEN code[command[o].part] = NULL /\ entity[o] = NewRow(command[o])
    ELSE /\ Allows(stock[command[o].part], command[o])
         /\ entity[o] = Moved(stock[command[o].part], command[o])
         /\ loaded[o] # NULL => loaded[o] = stock[command[o].part]

(* A part that is not there yet.                                           *)
IsBlank(p) ==
  code[p] = NULL => stock[p] = [available |-> 0, reserved |-> 0, active |-> FALSE]

BalanceInv ==
  /\ NoClash
  /\ Balanced
  /\ \A w \in Worker : \A i \in DOMAIN task[w] : TaskBalances(w, i)
  /\ \A v \in Releaser : ReleaseBalances(v)
  /\ \A o \in Operator : CommandHolds(o)
  /\ \A p \in Part \ clashed : IsBlank(p)

-----------------------------------------------------------------------------
(* Who else is at work on a part.                                          *)

HasCalls(p) == \E w \in Worker : CallsOn(w, p) # {}

IsAlone(o) ==
  LET p == command[o].part
  IN CommandsOn(p) = {o} /\ ReleasesOn(p) = {} /\ ~HasCalls(p)

LEMMA CommandIsAlone ==
  ASSUME NoClash, NEW o \in Operator, command[o] # NULL, command[o].part \notin clashed
  PROVE  IsAlone(o)
<1>1. ~Clashes(o)
  BY DEF NoClash
<1> QED
  BY <1>1 DEF Clashes, IsAlone, HasCalls

LEMMA NobodyCommands ==
  ASSUME NoClash, NEW p \in Part \ clashed, ReleasesOn(p) # {} \/ HasCalls(p)
  PROVE  CommandsOn(p) = {}
<1> SUFFICES ASSUME NEW o \in CommandsOn(p) PROVE FALSE
  OBVIOUS
<1>1. o \in Operator /\ command[o] # NULL /\ command[o].part = p
  BY DEF CommandsOn
<1> QED
  BY <1>1, CommandIsAlone DEF IsAlone

(* After a step, the one that is alone clashes with nobody.                *)
LEMMA CalmHasNoClash ==
  ASSUME ReserveTyped', OneAtATime', NEW o \in Operator PROVE ~Clashes(o)'
<1> SUFFICES ASSUME command'[o] # NULL PROVE ~Clashes(o)'
  BY DEF Clashes
<1> PICK p : p = command'[o].part
  OBVIOUS
<1>1. \A b \in Busy' : b = o
  BY DEF OneAtATime, Busy
<1>2. CommandsOn(p)' = {o}
  BY <1>1 DEF CommandsOn, Busy
<1>3. ReleasesOn(p)' = {}
  BY <1>1, ActorAssumption DEF ReleasesOn, Busy
<1>4. \A w \in Worker : CallsOn(w, p)' = {}
  <2> TAKE w \in Worker
  <2>1. request'[w] = NULL
    BY <1>1, ActorAssumption DEF Busy
  <2> QED
    BY <2>1 DEF ReserveTyped, CallsOn
<1> QED
  BY <1>2, <1>3, <1>4 DEF Clashes, CommandsOn, ReleasesOn, CallsOn, Item

LEMMA StepKeepsNoClash ==
  ASSUME SharedTypeInv', NoClash, [SharedNext]_sharedVars
  PROVE  NoClash' /\ clashed \subseteq clashed'
<1>1. CASE UNCHANGED sharedVars
  <2>1. UNCHANGED <<calm, clashed, request, task, command, pc, releaseRequest>>
    BY <1>1 DEF sharedVars, reserveVars, operatorVars, releaseVars
  <2>2. UNCHANGED OneAtATime /\ \A o \in Operator : Clashes(o)' <=> Clashes(o)
    BY <2>1 DEF OneAtATime, Busy, Clashes, CommandsOn, ReleasesOn, CallsOn, Item
  <2> QED
    BY <2>1, <2>2 DEF NoClash
<1>2. CASE SharedNext
  <2>1. /\ calm' = (calm /\ OneAtATime')
        /\ clashed' = clashed \cup {command'[o].part : o \in {u \in Operator : Clashes(u)'}}
    BY <1>2 DEF SharedNext
  <2>2. \A o \in Operator : Clashes(o)' => command'[o].part \in clashed'
    BY <2>1
  <2>3. ASSUME calm' PROVE OneAtATime' /\ clashed' = {}
    <3>1. OneAtATime' /\ clashed = {}
      BY <2>1, <2>3 DEF NoClash
    <3>2. \A o \in Operator : ~Clashes(o)'
      BY <3>1, CalmHasNoClash DEF SharedTypeInv
    <3> QED
      BY <2>1, <3>1, <3>2
  <2> QED
    BY <2>1, <2>2, <2>3 DEF NoClash
<1> QED
  BY <1>1, <1>2

-----------------------------------------------------------------------------
(* Rows.                                                                   *)

LEMMA SaveKeepsUnits ==
  ASSUME NEW row \in StockRow, NEW before \in StockRow, NEW after \in StockRow,
         Units(before) = Units(row), Units(after) = Units(row)
  PROVE  /\ Units(SaveColumns(row, before, after)) = Units(row)
         /\ after.active = row.active => SaveColumns(row, before, after).active = row.active
<1> DEFINE new == SaveColumns(row, before, after)
<1>1. DOMAIN row = {"available", "reserved", "active"}
  BY DEF StockRow
<1>2. /\ new.available = IF after.available = before.available THEN row.available ELSE after.available
      /\ new.reserved = IF after.reserved = before.reserved THEN row.reserved ELSE after.reserved
      /\ new.active = IF after.active = before.active THEN row.active ELSE after.active
  BY <1>1 DEF SaveColumns
<1>3. \A r \in {row, before, after} : r.available \in Int /\ r.reserved \in Int
  BY DEF StockRow
<1>4. /\ before.available + before.reserved = row.available + row.reserved
      /\ after.available + after.reserved = row.available + row.reserved
  BY DEF Units
<1> HIDE DEF new
<1>5. new.available + new.reserved = row.available + row.reserved
  <2>1. CASE after.available = before.available
    <3>1. after.reserved = before.reserved
      BY <1>3, <1>4, <2>1
    <3> QED
      BY <1>2, <2>1, <3>1
  <2>2. CASE after.available # before.available
    <3>1. after.reserved # before.reserved
      BY <1>3, <1>4, <2>2
    <3> QED
      BY <1>2, <1>4, <2>2, <3>1
  <2> QED
    BY <2>1, <2>2
<1> QED
  BY <1>2, <1>5 DEF new, Units

LEMMA ReservedMoves ==
  ASSUME NEW row \in CountedRow, NEW q \in Int
  PROVE  /\ Units(Reserved(row, q)) = Units(row)
         /\ Reserved(row, q).reserved = row.reserved + q /\ Reserved(row, q).active = row.active
<1>1. /\ row.available \in Int /\ row.reserved \in Int
      /\ Reserved(row, q).available = row.available - q
      /\ Reserved(row, q).reserved = row.reserved + q /\ Reserved(row, q).active = row.active
  BY DEF Reserved, CountedRow
<1> QED
  BY <1>1 DEF Units

LEMMA MovedMoves ==
  ASSUME NEW row \in CountedRow, NEW c \in Command
  PROVE  /\ Units(Moved(row, c)) = Units(row) + Meant(c).units
         /\ Moved(row, c).reserved = row.reserved + Meant(c).reserved
<1>1. c.quantity \in Nat /\ c.kind \in Kind /\ row.available \in Nat /\ row.reserved \in Nat
  BY CommandIsAsked DEF CountedRow
<1>2. /\ Meant(c).units = IF c.kind = "add" THEN c.quantity
                          ELSE IF c.kind \in {"remove", "commit"} THEN -c.quantity ELSE 0
      /\ Meant(c).reserved = IF c.kind = "reserve" THEN c.quantity
                             ELSE IF c.kind \in {"release", "commit"} THEN -c.quantity ELSE 0
  BY <1>1 DEF Meant, Kind
<1>3. /\ Moved(row, c).available =
           row.available + IF c.kind \in {"add", "release"} THEN c.quantity
                           ELSE IF c.kind \in {"remove", "reserve"} THEN -c.quantity ELSE 0
      /\ Moved(row, c).reserved =
           row.reserved + IF c.kind = "reserve" THEN c.quantity
                          ELSE IF c.kind \in {"release", "commit"} THEN -c.quantity ELSE 0
  BY <1>1 DEF Moved, Reserved, Kind, CountedRow
<1> QED
  BY <1>1, <1>2, <1>3 DEF Units, Kind

-----------------------------------------------------------------------------
(* What a step does to a part.  Who has read the part and may still write  *)
(* it is not disturbed, unless a command has clashed on it.                *)

Steady(p) == stock'[p].active = stock[p].active /\ UNCHANGED <<byHand[p], code[p]>>

KeepsOthers ==
  /\ clashed \subseteq clashed'
  /\ \A p \in Part \ clashed : HasCalls(p) \/ ReleasesOn(p) # {} => Steady(p)

LEMMA TaskStaysBalanced ==
  ASSUME SharedTypeInv, KeepsOthers, NEW w \in Worker, NEW i \in DOMAIN task[w],
         TaskBalances(w, i), task'[w][i] = task[w][i], request'[w] = request[w]
  PROVE  TaskBalances(w, i)'
<1> PICK p, t : p = request[w].items[i].part /\ t = task[w][i]
  OBVIOUS
<1>1. p \in Part /\ Item(w, i).part = p
  BY TaskIsKnown DEF SharedTypeInv
<1>2. CASE p \in clashed'
  BY <1>2 DEF TaskBalances
<1>3. CASE t.phase \notin {"reload", "update"}
  BY <1>3 DEF TaskBalances
<1>4. CASE p \notin clashed' /\ t.phase \in {"reload", "update"}
  <2>1. p \notin clashed /\ i \in CallsOn(w, p)
    BY <1>1, <1>4 DEF CallsOn, KeepsOthers
  <2>2. Steady(p)
    BY <1>1, <2>1 DEF KeepsOthers, HasCalls
  <2> QED
    BY <2>1, <2>2 DEF TaskBalances, Steady, Total
<1> QED
  BY <1>2, <1>3, <1>4

LEMMA ReleaseStaysBalanced ==
  ASSUME SharedTypeInv, KeepsOthers, NEW v \in Releaser, ReleaseBalances(v),
         UNCHANGED <<pc[v], releaseRequest[v], snapshot[v], write[v]>>
  PROVE  ReleaseBalances(v)'
<1>1. /\ DOMAIN write[v] \subseteq Part /\ DOMAIN write'[v] = DOMAIN write[v]
      /\ Part \ clashed' \subseteq Part \ clashed
  BY DEF SharedTypeInv, ReleaseTyped, IsPartMap, KeepsOthers
<1>2. \A p \in Part : (v \in ReleasesOn(p))' <=> v \in ReleasesOn(p)
  BY DEF ReleasesOn
<1>3. ASSUME NEW p \in Part \ clashed, v \in ReleasesOn(p)
      PROVE  /\ stock'[p].active = stock[p].active /\ code'[p] = code[p]
             /\ Total(p)' = Total(p)
  BY <1>3 DEF KeepsOthers, Steady, Total
<1>4. ASSUME NEW p \in Part \ clashed', (v \in ReleasesOn(p))'
      PROVE  Units(snapshot'[v].stock[p]) = Total(p)'
  <2>1. p \in Part \ clashed /\ v \in ReleasesOn(p)
    BY <1>1, <1>2, <1>4
  <2>2. Units(snapshot[v].stock[p]) = Total(p)
    BY <2>1 DEF ReleaseBalances
  <2> QED
    BY <1>3, <2>1, <2>2
<1>5. ASSUME NEW p \in DOMAIN write'[v] \ clashed'
      PROVE  /\ (v \in ReleasesOn(p))' /\ code'[p] # NULL
             /\ Units(write'[v][p]) = Total(p)' /\ write'[v][p].active = stock'[p].active
  <2>1. p \in Part \ clashed /\ p \in DOMAIN write[v] \ clashed
    BY <1>1, <1>5
  <2>2. /\ v \in ReleasesOn(p) /\ code[p] # NULL
        /\ Units(write[v][p]) = Total(p) /\ write[v][p].active = stock[p].active
    BY <2>1 DEF ReleaseBalances
  <2> QED
    BY <1>2, <1>3, <2>1, <2>2
<1>6. \A p \in Part : (Units(snapshot[v].stock[p]))' = Units(snapshot'[v].stock[p])
  BY DEF Units
<1> QED
  BY <1>4, <1>5 DEF ReleaseBalances, Units

(* Reserve and release steps move units between the columns of a part, and *)
(* keep its active flag; where a command is at work and has not clashed    *)
(* they move nothing.                                                      *)
Shifts(p) ==
  \/ stock'[p] = stock[p]
  \/ /\ Units(stock'[p]) = Units(stock[p]) /\ stock'[p].active = stock[p].active
     /\ code[p] # NULL /\ CommandsOn(p) = {}

StockMoves ==
  /\ UNCHANGED operatorVars /\ clashed \subseteq clashed'
  /\ \A p \in Part \ clashed : Shifts(p)

LEMMA StockStays ==
  ASSUME UNCHANGED <<stock, operatorVars>>, clashed \subseteq clashed' PROVE StockMoves
  BY DEF StockMoves, Shifts

LEMMA MovesKeepStock ==
  ASSUME SharedTypeInv, BalanceInv, StockMoves
  PROVE  /\ Balanced' /\ KeepsOthers
         /\ \A p \in Part \ clashed' : IsBlank(p)'
         /\ \A o \in Operator : CommandHolds(o)'
<1>1. /\ UNCHANGED <<code, command, entity, loaded, byHand>>
      /\ Part \ clashed' \subseteq Part \ clashed
  BY DEF StockMoves, operatorVars
<1>2. \A p \in Part \ clashed :
        /\ Units(stock'[p]) = Units(stock[p]) /\ stock'[p].active = stock[p].active
        /\ code[p] = NULL => stock'[p] = stock[p]
        /\ CommandsOn(p) # {} => stock'[p] = stock[p]
  BY DEF StockMoves, Shifts
<1>3. Balanced'
  BY <1>1, <1>2 DEF BalanceInv, Balanced, Units
<1>4. \A p \in Part \ clashed' : IsBlank(p)'
  BY <1>1, <1>2 DEF BalanceInv, IsBlank
<1>5. KeepsOthers
  BY <1>1, <1>2 DEF KeepsOthers, Steady, StockMoves
<1>6. \A o \in Operator : CommandHolds(o)'
  <2> TAKE o \in Operator
  <2>1. CASE command[o] = NULL \/ command[o].part \in clashed'
    BY <1>1, <2>1 DEF CommandHolds
  <2>2. CASE command[o] # NULL /\ command[o].part \notin clashed'
    <3>1. command[o].part \in Part
      BY <2>2, CommandIsKnown DEF SharedTypeInv
    <3>2. command[o].part \in Part \ clashed /\ o \in CommandsOn(command[o].part)
      BY <1>1, <2>2, <3>1 DEF CommandsOn
    <3>3. stock'[command[o].part] = stock[command[o].part]
      BY <1>2, <3>2
    <3> QED
      BY <1>1, <2>2, <3>2, <3>3 DEF BalanceInv, CommandHolds, Creates
  <2> QED
    BY <1>1, <2>1, <2>2
<1> QED
  BY <1>3, <1>4, <1>5, <1>6

-----------------------------------------------------------------------------
(* A step of an operator saves its part, or nothing.                       *)

(* What it does to a part on which it is alone.                            *)
SavesPart(p) ==
  /\ code'[p] # NULL
  /\ Units(stock'[p]) = Units(stock[p]) + (byHand'[p].units - byHand[p].units)
  /\ stock'[p].reserved = stock[p].reserved + (byHand'[p].reserved - byHand[p].reserved)

OnlyPart(p) == \A r \in Part \ {p} : UNCHANGED <<stock[r], byHand[r], code[r]>>

LEMMA SavedOnly ==
  ASSUME SharedTypeInv, NEW o \in Operator, command[o] # NULL, NEW row, Saved(o, row),
         UNCHANGED code \/ code' = [code EXCEPT ![command[o].part] = command[o].code]
  PROVE  command[o].part \in Part /\ OnlyPart(command[o].part)
<1> PICK p, x : p = command[o].part /\ x = Meant(command[o])
  OBVIOUS
<1>1. /\ p \in Part /\ DOMAIN stock = Part /\ DOMAIN byHand = Part /\ DOMAIN code = Part
  BY CommandIsKnown DEF SharedTypeInv, OperatorTyped, TablesTyped
<1>2. /\ stock' = [stock EXCEPT ![p] = row]
      /\ byHand' = [byHand EXCEPT ![p] =
           [units |-> @.units + x.units, reserved |-> @.reserved + x.reserved]]
  BY DEF Saved
<1>3. \A r \in Part \ {p} : stock'[r] = stock[r] /\ byHand'[r] = byHand[r] /\ code'[r] = code[r]
  BY <1>1, <1>2
<1> QED
  BY <1>1, <1>3 DEF OnlyPart

LEMMA SaveMoves ==
  ASSUME SharedTypeInv, NEW o \in Operator, command[o] # NULL,
         NEW row \in CountedRow, Saved(o, row),
         LET p == command[o].part
         IN /\ code'[p] # NULL
            /\ Units(row) = Units(stock[p]) + Meant(command[o]).units
            /\ row.reserved = stock[p].reserved + Meant(command[o]).reserved
  PROVE  SavesPart(command[o].part)
<1> DEFINE p == command[o].part
           a == Meant(command[o]).units
           b == Meant(command[o]).reserved
           f == byHand
<1>1. /\ p \in Part /\ command[o].quantity \in Nat /\ f \in [Part -> [units : Int, reserved : Int]]
      /\ stock \in [Part -> CountedRow]
  BY CommandIsKnown DEF SharedTypeInv, OperatorTyped, TablesTyped
<1>2. a \in Int /\ b \in Int
  BY <1>1 DEF Meant
<1>3. /\ stock' = [stock EXCEPT ![p] = row]
      /\ byHand' = [f EXCEPT ![p] = [units |-> @.units + a, reserved |-> @.reserved + b]]
  BY DEF Saved
<1>4. /\ code'[p] # NULL
      /\ Units(row) = Units(stock[p]) + a /\ row.reserved = stock[p].reserved + b
  OBVIOUS
<1> HIDE DEF p, a, b
<1>5. /\ stock'[p] = row /\ byHand'[p].units = f[p].units + a /\ byHand'[p].reserved = f[p].reserved + b
      /\ f[p].units \in Int /\ f[p].reserved \in Int
  BY <1>1, <1>3
<1>6. a = byHand'[p].units - f[p].units /\ b = byHand'[p].reserved - f[p].reserved
  BY <1>2, <1>5
<1>7. SavesPart(p)
  BY <1>4, <1>5, <1>6 DEF SavesPart
<1> QED
  BY <1>7 DEF p

LEMMA UpdateSavesPart ==
  ASSUME SharedTypeInv, NEW o \in Operator, CommandHolds(o), UpdateForCommand(o),
         command[o].part \notin clashed, \A p \in Part \ clashed : IsBlank(p)
  PROVE  SavesPart(command[o].part)
<1> DEFINE c == command[o]
           old == stock[c.part]
           row == SaveColumns(old, loaded[o], entity[o])
<1>1. /\ loaded[o] # NULL /\ Saved(o, row) /\ UNCHANGED code
      /\ c # NULL /\ ~Creates(o)
  BY DEF UpdateForCommand, SharedTypeInv, OperatorTyped, CommandIsCounted
<1>2. c \in Command /\ c.part \in Part /\ old \in CountedRow /\ entity[o] \in CountedRow
  BY <1>1, CommandIsKnown, CreationIsAsked DEF SharedTypeInv, OperatorTyped, TablesTyped, Creates
<1>3. Allows(old, c) /\ entity[o] = Moved(old, c) /\ loaded[o] = old
  BY <1>1 DEF CommandHolds
<1>4. row = entity[o]
  BY <1>2, <1>3 DEF SaveColumns, CountedRow
<1>5. Units(row) = Units(old) + Meant(c).units /\ row.reserved = old.reserved + Meant(c).reserved
  BY <1>2, <1>3, <1>4, MovedMoves
<1>6. code[c.part] # NULL
  BY <1>2, <1>3 DEF Allows, IsBlank
<1> QED
  BY <1>1, <1>2, <1>4, <1>5, <1>6, SaveMoves

LEMMA InsertSavesPart ==
  ASSUME SharedTypeInv, NEW o \in Operator, CommandHolds(o), Creates(o), Saved(o, entity[o]),
         code' = [code EXCEPT ![command[o].part] = command[o].code],
         command[o].part \notin clashed, \A p \in Part \ clashed : IsBlank(p)
  PROVE  SavesPart(command[o].part)
<1> DEFINE c == command[o]
           old == stock[c.part]
<1>1. c # NULL /\ code[c.part] = NULL /\ entity[o] = NewRow(c) /\ c.kind = "create"
  BY DEF CommandHolds, Creates
<1>2. /\ c.part \in Part /\ c.quantity \in Nat /\ entity[o] \in CountedRow /\ c.code # NULL
      /\ code \in [Part -> PartCode \cup {NULL}]
  BY <1>1, CommandIsKnown, NoCommandAssumption DEF SharedTypeInv, OperatorTyped
<1>3. old.available = 0 /\ old.reserved = 0
  BY <1>1, <1>2 DEF IsBlank
<1>4. Meant(c).units = c.quantity /\ Meant(c).reserved = 0
  BY <1>1 DEF Meant
<1>5. Units(entity[o]) = Units(old) + Meant(c).units /\ entity[o].reserved = old.reserved + Meant(c).reserved
  BY <1>1, <1>2, <1>3, <1>4 DEF Units, NewRow
<1>6. code'[c.part] # NULL
  BY <1>2
<1> QED
  BY <1>1, <1>2, <1>5, <1>6, SaveMoves

OperatorSaves(o) ==
  \/ UNCHANGED <<stock, byHand, code>>
  \/ /\ command[o] # NULL /\ command[o].part \in Part /\ OnlyPart(command[o].part)
     /\ command[o].part \notin clashed => SavesPart(command[o].part) /\ IsAlone(o)

(* The commands of others, and one that is over.                           *)
LEMMA OthersHold ==
  ASSUME SharedTypeInv, BalanceInv, clashed \subseteq clashed', NEW o \in Operator, OperatorSaves(o),
         NEW u \in Operator \ {o}, UNCHANGED <<command[u], entity[u], loaded[u]>>
  PROVE  CommandHolds(u)'
<1> SUFFICES ASSUME command[u] # NULL, command[u].part \notin clashed'
             PROVE  CommandHolds(u)'
  BY DEF CommandHolds
<1> PICK p : p = command[u].part
  OBVIOUS
<1>1. p \in Part /\ p \notin clashed /\ CommandHolds(u)
  BY CommandIsKnown DEF SharedTypeInv, BalanceInv
<1>2. stock'[p] = stock[p] /\ code'[p] = code[p]
  <2>1. CASE UNCHANGED <<stock, byHand, code>>
    BY <2>1
  <2>2. CASE ~UNCHANGED <<stock, byHand, code>>
    <3>1. /\ command[o] # NULL /\ OnlyPart(command[o].part)
          /\ command[o].part \notin clashed => IsAlone(o)
      BY <2>2 DEF OperatorSaves
    <3>2. p # command[o].part
      BY <1>1, <3>1 DEF IsAlone, CommandsOn
    <3> QED
      BY <1>1, <3>1, <3>2 DEF OnlyPart
  <2> QED
    BY <2>1, <2>2
<1> QED
  BY <1>1, <1>2 DEF CommandHolds, Creates

LEMMA DoneHolds ==
  ASSUME SharedTypeInv, BalanceInv, clashed \subseteq clashed', NEW o \in Operator, OperatorSaves(o),
         Done(o)
  PROVE  \A u \in Operator : CommandHolds(u)'
<1>1. /\ command'[o] = NULL
      /\ \A u \in Operator \ {o} : UNCHANGED <<command[u], entity[u], loaded[u]>>
  BY DEF Done, SharedTypeInv, OperatorTyped
<1> QED
  BY <1>1, OthersHold DEF CommandHolds

LEMMA OperatorStepMoves ==
  ASSUME SharedTypeInv, BalanceInv, clashed \subseteq clashed', NEW o \in Operator, OperatorStep(o)
  PROVE  OperatorSaves(o) /\ \A u \in Operator : CommandHolds(u)'
<1>0. /\ OperatorTyped /\ TablesTyped /\ CommandHolds(o) /\ NoClash
      /\ \A p \in Part \ clashed : IsBlank(p)
  BY DEF BalanceInv, SharedTypeInv
<1>1. CASE Ask(o)
  <2>1. PICK c : /\ command' = [command EXCEPT ![o] = c]
                 /\ \/ /\ c \in Command /\ Allows(stock[c.part], c)
                       /\ entity' = [entity EXCEPT ![o] = Moved(stock[c.part], c)]
                    \/ /\ c \in Creation /\ code[c.part] = NULL
                       /\ entity' = [entity EXCEPT ![o] = NewRow(c)]
                 /\ UNCHANGED <<stock, code, loaded, byHand>> /\ command[o] = NULL
    BY <1>1 DEF Ask, StartCommand, StartCreation, NewRow, vars, tables
  <2>2. /\ command'[o] = c
        /\ \A u \in Operator \ {o} : UNCHANGED <<command[u], entity[u], loaded[u]>>
    BY <1>0, <2>1 DEF OperatorTyped
  <2>3. loaded'[o] = NULL
    BY <1>0, <2>1 DEF OperatorTyped, CommandIsCounted
  <2>4. CommandHolds(o)'
    <3>1. CASE c \in Command
      <4>1. ~Creates(o)' /\ c.kind # "create"
        BY <2>2, <3>1, CommandIsAsked DEF Creates, Kind
      <4>2. Allows(stock'[c.part], c) /\ entity'[o] = Moved(stock'[c.part], c)
        BY <1>0, <2>1, <3>1, <4>1, CreationIsAsked DEF OperatorTyped
      <4> QED
        BY <2>2, <2>3, <4>1, <4>2 DEF CommandHolds
    <3>2. CASE c \in Creation
      <4>1. Creates(o)' /\ c.kind = "create"
        BY <2>2, <3>2, CreationIsAsked DEF Creates
      <4>2. code'[c.part] = NULL /\ entity'[o] = NewRow(c)
        BY <1>0, <2>1, <3>2, <4>1, CommandIsAsked DEF OperatorTyped, Kind
      <4> QED
        BY <2>2, <4>1, <4>2 DEF CommandHolds
    <3> QED
      BY <2>1, <3>1, <3>2
  <2>5. OperatorSaves(o)
    BY <2>1 DEF OperatorSaves
  <2> QED
    BY <2>2, <2>4, <2>5, OthersHold
<1>2. CASE ReloadForCommand(o)
  <2>1. /\ command[o] # NULL /\ ~Creates(o) /\ loaded' = [loaded EXCEPT ![o] = stock[command[o].part]]
        /\ UNCHANGED <<stock, code, command, entity, byHand>>
    BY <1>2 DEF ReloadForCommand, vars, tables
  <2>2. /\ loaded'[o] = stock[command[o].part] /\ ~Creates(o)'
        /\ \A u \in Operator \ {o} : UNCHANGED <<command[u], entity[u], loaded[u]>>
    BY <1>0, <2>1 DEF OperatorTyped, Creates
  <2>3. CommandHolds(o)'
    BY <1>0, <2>1, <2>2 DEF CommandHolds
  <2>4. OperatorSaves(o)
    BY <2>1 DEF OperatorSaves
  <2> QED
    BY <2>2, <2>3, <2>4, OthersHold
<1>3. CASE UpdateForCommand(o)
  <2>1. /\ command[o] # NULL /\ Done(o) /\ UNCHANGED code
        /\ Saved(o, SaveColumns(stock[command[o].part], loaded[o], entity[o]))
    BY <1>0, <1>3 DEF UpdateForCommand, OperatorTyped, CommandIsCounted
  <2>2. command[o].part \in Part /\ OnlyPart(command[o].part)
    BY <2>1, SavedOnly
  <2>3. OperatorSaves(o)
    BY <1>0, <1>3, <2>1, <2>2, UpdateSavesPart, CommandIsAlone DEF OperatorSaves
  <2> QED
    BY <2>1, <2>3, DoneHolds
<1>4. CASE InsertPart(o)
  <2>1. Done(o) /\ Creates(o) /\ command[o] # NULL
    BY <1>4 DEF InsertPart, Creates
  <2>2. CASE UNCHANGED <<stock, byHand, code>>
    BY <2>1, <2>2, DoneHolds DEF OperatorSaves
  <2>3. CASE /\ Saved(o, entity[o])
             /\ code' = [code EXCEPT ![command[o].part] = command[o].code]
    <3>1. command[o].part \in Part /\ OnlyPart(command[o].part)
      BY <2>1, <2>3, SavedOnly
    <3>2. OperatorSaves(o)
      BY <1>0, <2>1, <2>3, <3>1, InsertSavesPart, CommandIsAlone DEF OperatorSaves
    <3> QED
      BY <2>1, <3>2, DoneHolds
  <2> QED
    BY <1>4, <2>2, <2>3 DEF InsertPart
<1>5. CASE CommandEnds(o)
  <2>1. Done(o) /\ OperatorSaves(o)
    BY <1>5 DEF CommandEnds, vars, tables, OperatorSaves
  <2> QED
    BY <2>1, DoneHolds
<1> QED
  BY <1>1, <1>2, <1>3, <1>4, <1>5 DEF OperatorStep

-----------------------------------------------------------------------------
(* The reserve deliveries.                                                 *)
LEMMA TaskStepBalances ==
  ASSUME SharedTypeInv, BalanceInv, clashed \subseteq clashed', NEW w \in Worker,
         NEW i \in DOMAIN task[w], TaskStep(w, i), UNCHANGED operatorVars
  PROVE  StockMoves /\ TaskBalances(w, i)'
<1> PICK p, q : p = Item(w, i).part /\ q = Item(w, i).quantity
  OBVIOUS
<1>0. ReserveTyped
  BY DEF SharedTypeInv
<1>1. /\ ReserveTyped /\ p \in Part /\ q \in Nat \ {0} /\ task[w][i] \in Task
      /\ Item(w, i) = request[w].items[i] /\ request[w] # NULL
      /\ stock \in [Part -> CountedRow] /\ stock[p] \in CountedRow
  BY TaskIsKnown DEF SharedTypeInv, TablesTyped
<1>2. TaskBalances(w, i) /\ (p \notin clashed => Units(stock[p]) = Total(p))
  BY <1>1 DEF BalanceInv, Balanced, Units, Total
<1>3. UNCHANGED <<byHand, request>>
  BY DEF operatorVars, TaskStep, FindReservation, FindPart, ReloadPart, UpdatePart, InsertReservation,
     Break
<1>4. ASSUME NEW t, Set(w, i, t), t.phase \notin {"reload", "update"}
      PROVE  TaskBalances(w, i)'
  BY <1>1, <1>4, OneTask DEF TaskBalances
<1>5. ASSUME NEW phase \in {"findPart", "insert", "done", "threw"}, Advance(w, i, phase)
      PROVE  TaskBalances(w, i)'
  BY <1>4, <1>5 DEF Advance, Fresh
<1>6. CASE UpdatePart(w, i)
  <2> DEFINE t == task[w][i]
             row == SaveColumns(stock[p], t.loaded, t.part)
  <2>1. stock' = [stock EXCEPT ![p] = row] /\ t.phase = "update" /\ Advance(w, i, "insert")
    BY <1>6 DEF UpdatePart, At
  <2>a. TaskBalances(w, i)'
    BY <1>5, <2>1
  <2> HIDE DEF row, t
  <2>b. \A r \in Part : stock'[r] = IF r = p THEN row ELSE stock[r]
    BY <1>1, <2>1
  <2>c. CASE p \in clashed
    BY <2>a, <2>b, <2>c DEF StockMoves, Shifts
  <2> SUFFICES ASSUME p \notin clashed PROVE StockMoves
    BY <2>a, <2>c
  <2> USE DEF row, t
  <2>2. /\ t.part \in CountedRow /\ t.loaded \in StockRow /\ t.part.active /\ stock[p].active
        /\ Units(t.part) = Total(p) /\ Units(t.loaded) = Total(p)
    BY <1>1, <1>2, <2>1 DEF TaskBalances, ReserveTyped, TaskIsCounted
  <2>3. t.part.active = stock[p].active
    BY <1>1, <2>2 DEF CountedRow
  <2>4. Units(row) = Units(stock[p]) /\ row.active = stock[p].active
    <3>1. stock[p] \in StockRow /\ t.part \in StockRow
      BY <1>1, <2>2, CountedIsRow
    <3>2. Units(t.loaded) = Units(stock[p]) /\ Units(t.part) = Units(stock[p])
      BY <1>2, <2>2
    <3> HIDE DEF t
    <3> QED
      BY <2>2, <2>3, <3>1, <3>2, SaveKeepsUnits
  <2>5. code[p] # NULL
    BY <1>1, <2>2 DEF BalanceInv, IsBlank
  <2>6. CommandsOn(p) = {}
    <3>1. i \in CallsOn(w, p)
      BY <2>1 DEF CallsOn
    <3> QED
      BY <1>1, <3>1, NobodyCommands DEF BalanceInv, HasCalls
  <2> HIDE DEF row, t
  <2> QED
    BY <2>4, <2>5, <2>6, <2>b DEF StockMoves, Shifts
<1>7. CASE ~UpdatePart(w, i)
  <2>1. UNCHANGED stock
    BY <1>7 DEF TaskStep, FindReservation, FindPart, ReloadPart, InsertReservation, Break, tables
  <2>2. StockMoves
    BY <2>1, StockStays
  <2>3. CASE FindReservation(w, i)
    <3>1. Returned(w, i).phase = "done"
      BY <1>1 DEF Returned, Task
    <3>2. \/ Set(w, i, Returned(w, i))
          \/ Advance(w, i, "findPart") \/ Advance(w, i, "threw")
      BY <2>3 DEF FindReservation
    <3>3. TaskBalances(w, i)'
      BY <1>4, <1>5, <3>1, <3>2
    <3> QED
      BY <2>1, <2>2, <3>3
  <2>4. CASE FindPart(w, i)
    <3>1. CASE Refusal(p, q) = NULL
      <4> PICK t : t = [task[w][i] EXCEPT !.phase = "reload", !.part = Reserved(stock[p], q)]
        OBVIOUS
      <4>1. Set(w, i, t)
        BY <2>4, <3>1 DEF FindPart
      <4>2. t.phase = "reload" /\ t.part = Reserved(stock[p], q)
        BY <1>1 DEF Task
      <4>3. stock[p].active
        BY <3>1, NullAssumption DEF Refusal
      <4>4. t.part.active /\ Units(t.part) = Units(stock[p])
        <5>1. stock[p] \in CountedRow /\ q \in Int
          BY <1>1
        <5>2. /\ Units(Reserved(stock[p], q)) = Units(stock[p])
              /\ Reserved(stock[p], q).active = stock[p].active
          BY <5>1, ReservedMoves
        <5> QED
          BY <4>2, <4>3, <5>2
      <4>5. task'[w][i] = t
        BY <1>0, <4>1, OneTask
      <4>6. p \notin clashed => Units(t.part) = Total(p)
        BY <1>2, <4>4
      <4>7. TaskBalances(w, i)'
        BY <1>1, <1>3, <2>1, <4>2, <4>3, <4>4, <4>5, <4>6 DEF TaskBalances, Total
      <4> QED
        BY <2>2, <4>7
    <3>2. CASE Refusal(p, q) # NULL
      <4> PICK t : t = [task[w][i] EXCEPT !.phase = "insert", !.code = Refusal(p, q)]
        OBVIOUS
      <4>1. Set(w, i, t)
        BY <2>4, <3>2 DEF FindPart
      <4>2. t.phase = "insert"
        BY <1>1 DEF Task
      <4>3. TaskBalances(w, i)'
        BY <1>4, <4>1, <4>2
      <4> QED
        BY <2>1, <2>2, <4>3
    <3> QED
      BY <3>1, <3>2
  <2>5. CASE ReloadPart(w, i)
    <3> PICK t : t = [task[w][i] EXCEPT !.phase = "update", !.loaded = stock[p]]
      OBVIOUS
    <3>1. Set(w, i, t) /\ task[w][i].phase = "reload"
      BY <2>5 DEF ReloadPart, At
    <3>2. t.phase = "update" /\ t.loaded = stock[p] /\ t.part = task[w][i].part
      BY <1>1 DEF Task
    <3>3. task'[w][i] = t
      BY <1>0, <3>1, OneTask
    <3>4. p \notin clashed => t.loaded \in StockRow /\ Units(t.loaded) = Total(p)
      BY <1>1, <1>2, <3>2, CountedIsRow DEF Units
    <3>5. p \notin clashed => t.part.active /\ stock[p].active /\ Units(t.part) = Total(p)
      BY <1>1, <1>2, <3>1, <3>2 DEF TaskBalances, Item, Units
    <3>6. TaskBalances(w, i)'
      BY <1>1, <1>3, <2>1, <3>2, <3>3, <3>4, <3>5 DEF TaskBalances, Total, Item
    <3> QED
      BY <2>1, <2>2, <3>6
  <2>6. CASE InsertReservation(w, i)
    <3>1. CASE RowOf(w, i).status = "ABSENT"
      <4> PICK t : t = [task[w][i] EXCEPT !.phase = "done", !.at = attempts]
        OBVIOUS
      <4>1. Set(w, i, t) /\ t.phase = "done"
        BY <1>1, <2>6, <3>1 DEF InsertReservation, Task
      <4>2. TaskBalances(w, i)'
        BY <1>4, <4>1
      <4> QED
        BY <2>1, <2>2, <4>2
    <3>2. CASE RowOf(w, i).status # "ABSENT"
      BY <1>5, <2>1, <2>2, <2>6, <3>2 DEF InsertReservation
    <3> QED
      BY <3>1, <3>2
  <2>7. CASE Break(w, i)
    BY <1>5, <2>1, <2>2, <2>7 DEF Break
  <2> QED
    BY <1>7, <2>3, <2>4, <2>5, <2>6, <2>7 DEF TaskStep
<1> QED
  BY <1>6, <1>7

LEMMA RequestStepBalances ==
  ASSUME SharedTypeInv, NEW w \in Worker, RequestStep(w)
  PROVE  /\ UNCHANGED stock
         /\ \A i \in DOMAIN task'[w] : TaskBalances(w, i)'
         /\ \A u \in Worker \ {w} : task'[u] = task[u] /\ request'[u] = request[u]
<1>1. DOMAIN task = Worker /\ DOMAIN request = Worker
  BY DEF SharedTypeInv, ReserveTyped
<1>2. CASE \E r \in Request : Begin(w, r)
  <2>1. /\ \A i \in DOMAIN task'[w] : task'[w][i].phase = "find"
        /\ \A u \in Worker \ {w} : task'[u] = task[u] /\ request'[u] = request[u]
        /\ UNCHANGED stock
    BY <1>1, <1>2 DEF Begin, Fresh, tables
  <2> QED
    BY <2>1 DEF TaskBalances
<1>3. CASE Answer(w) \/ Abort(w)
  BY <1>1, <1>3 DEF Answer, Abort, Finish, tables
<1> QED
  BY <1>2, <1>3 DEF RequestStep

(* The releases.                                                           *)
LEMMA OthersInFlight ==
  ASSUME ReleaseTyped, NEW v \in Releaser, ReleaseStep(v), NEW u \in Releaser \ {v}
  PROVE  UNCHANGED <<pc[u], releaseRequest[u], snapshot[u], held[u], verdict[u], write[u]>>
<1>0. /\ pc \in [Releaser -> Release!Phase]
      /\ releaseRequest \in [Releaser -> ReleaseRequest \cup {NULL}]
      /\ DOMAIN snapshot = Releaser /\ DOMAIN held = Releaser
      /\ DOMAIN verdict = Releaser /\ DOMAIN write = Releaser
  BY DEF ReleaseTyped
<1>1. CASE \/ \E r \in ReleaseRequest : Release!Begin(v, r)
           \/ Release!Recover(v) \/ Release!Publish(v)
  BY <1>0, <1>1 DEF Release!Begin, Release!Recover, Release!Publish, Release!Goto, Release!Finish
<1>2. CASE Release!InsertOperation(v) \/ Release!Commit(v) \/ Release!Abort(v)
  BY <1>0, <1>2 DEF Release!InsertOperation, Release!Commit, Release!Abort, Release!Goto, Release!Finish,
     Release!EndTransaction, Release!Lock
<1>3. CASE Release!LockReservation(v) \/ Release!LockPart(v)
  BY <1>0, <1>3 DEF Release!LockReservation, Release!LockPart, Release!Goto, Release!Judge,
     Release!EndTransaction, Release!Lock
<1> QED
  BY <1>1, <1>2, <1>3 DEF ReleaseStep, Release!Step

(* What a release does to the tables, and to what it keeps until it does.  *)
IsOver(v) == pc[v] \notin {"insert"} /\ ~IsInTransaction(v) /\ DOMAIN write[v] = {}

LEMMA ReleaseStepCases ==
  ASSUME TablesTyped, ReleaseTyped, NEW v \in Releaser, ReleaseStep(v)
  PROVE  \/ Release!Commit(v) /\ IsOver(v)'
         \/ UNCHANGED tables /\ IsOver(v)'
         \/ /\ UNCHANGED tables
            /\ pc[v] = "idle" /\ pc'[v] = "insert" /\ DOMAIN write'[v] = {}
            /\ snapshot'[v].stock = stock /\ snapshot'[v].reservation = reservation
         \/ /\ UNCHANGED tables
            /\ pc[v] = "insert" \/ IsInTransaction(v)
            /\ UNCHANGED <<snapshot[v], write[v], releaseRequest[v]>>
         \/ /\ Release!LockPart(v) /\ Release!Judge(v, "RELEASED") /\ UNCHANGED tables
            /\ stock[Release!Item(v)].reserved >= releaseRequest[v].items[Release!Item(v)]
            /\ UNCHANGED <<snapshot[v], releaseRequest[v]>>
            /\ write'[v] = Release!Extend(write[v], Release!Item(v),
                                          Release!Returned(v, Release!Item(v)))
<1>0. /\ ReleaseTyped' /\ DOMAIN pc = Releaser /\ DOMAIN snapshot = Releaser
      /\ DOMAIN write = Releaser
  BY ReleaseStepTyped DEF ReleaseTyped
<1>1. ASSUME pc'[v] \in {"idle", "recover", "publish"} PROVE IsOver(v)'
  BY <1>0, <1>1 DEF ReleaseTyped, WorkIsKnown, IsInTransaction, IsOver
<1>2. CASE \E r \in ReleaseRequest : Release!Begin(v, r)
  <2>1. DOMAIN write'[v] = {} /\ pc[v] = "idle" /\ UNCHANGED tables
    BY <1>2 DEF Release!Begin, Release!tables, tables, ReleaseTyped, WorkIsKnown, IsInTransaction
  <2>2. \/ pc'[v] = "insert" /\ snapshot'[v] = [stock |-> stock, reservation |-> reservation]
        \/ pc'[v] \in {"publish", "idle"}
    BY <1>0, <1>2 DEF Release!Begin, Release!Goto
  <2> QED
    BY <1>1, <2>1, <2>2
<1>3. CASE Release!InsertOperation(v)
  <2>1. UNCHANGED <<tables, releaseRequest>> /\ pc[v] = "insert"
    BY <1>3 DEF Release!InsertOperation, Release!tables, tables
  <2>2. pc'[v] = "recover" \/ UNCHANGED <<snapshot, write>>
    BY <1>0, <1>3 DEF Release!InsertOperation, Release!Goto
  <2> QED
    BY <1>1, <2>1, <2>2
<1>4. CASE Release!Recover(v) \/ Release!Publish(v) \/ Release!Abort(v)
  <2>1. pc'[v] \in {"publish", "idle"} /\ UNCHANGED tables
    BY <1>0, <1>4 DEF Release!Recover, Release!Publish, Release!Abort, Release!Finish, Release!Goto,
       Release!tables, tables
  <2> QED
    BY <1>1, <2>1
<1>5. CASE Release!LockReservation(v)
  BY <1>5 DEF Release!LockReservation, Release!tables, tables, IsInTransaction
<1>6. CASE Release!LockPart(v)
  <2>1. UNCHANGED <<tables, releaseRequest>> /\ IsInTransaction(v)
    BY <1>6 DEF Release!LockPart, Release!tables, tables, IsInTransaction
  <2>2. pc[v] = "lockPart" /\ releaseRequest[v] \in ReleaseRequest /\ Release!ToDo(v) # {}
    BY <1>6 DEF Release!LockPart, ReleaseTyped, WorkIsKnown
  <2> PICK p : p = Release!Item(v)
    OBVIOUS
  <2>3. p \in Part /\ releaseRequest[v].items[p] \in Nat /\ stock[p].reserved \in Nat
    BY <2>2, ReleaseItem DEF TablesTyped, CountedRow
  <2>4. \/ UNCHANGED <<snapshot, write>>
        \/ pc'[v] = "recover"
        \/ /\ stock[p].reserved >= releaseRequest[v].items[p]
           /\ Release!Judge(v, "RELEASED")
           /\ write' = [write EXCEPT ![v] = Release!Extend(@, p, Release!Returned(v, p))]
           /\ UNCHANGED snapshot
    BY <1>0, <1>6, <2>3 DEF Release!LockPart, Release!Goto
  <2> QED
    BY <1>0, <1>1, <1>6, <2>1, <2>4
<1>7. CASE Release!Commit(v)
  <2>1. pc'[v] = "publish"
    BY <1>0, <1>7 DEF Release!Commit, Release!Goto
  <2> QED
    BY <1>1, <1>7, <2>1
<1> QED
  BY <1>2, <1>3, <1>4, <1>5, <1>6, <1>7 DEF ReleaseStep, Release!Step

LEMMA ReturnedBalances ==
  ASSUME TablesTyped, NEW v \in Releaser, NEW p \in Part,
         snapshot[v].stock[p] \in StockRow, releaseRequest[v].items[p] \in Nat,
         stock[p].reserved >= releaseRequest[v].items[p],
         Units(snapshot[v].stock[p]) = Units(stock[p])
  PROVE  /\ Units(Release!Returned(v, p)) = Units(stock[p])
         /\ Release!Returned(v, p).active = stock[p].active
<1> PICK q, old : q = releaseRequest[v].items[p] /\ old = stock[p]
  OBVIOUS
<1> DEFINE entityRow == [old EXCEPT !.available = @ + q, !.reserved = @ - q]
<1>1. old \in CountedRow /\ q \in Nat
  BY DEF TablesTyped
<1>2. old.available + q \in Int /\ old.reserved - q \in Int
  BY <1>1 DEF CountedRow
<1>3. /\ entityRow.available = old.available + q /\ entityRow.reserved = old.reserved - q
      /\ entityRow.active = old.active /\ entityRow \in StockRow /\ old \in StockRow
  <2>1. old \in StockRow
    BY <1>1, CountedIsRow
  <2>2. entityRow \in StockRow
    BY <1>2, <2>1 DEF StockRow
  <2> QED
    BY <2>1, <2>2 DEF StockRow
<1>4. Units(entityRow) = Units(old)
  BY <1>1, <1>3 DEF Units, CountedRow
<1>5. Release!Returned(v, p) = SaveColumns(old, snapshot[v].stock[p], entityRow)
  BY DEF Release!Returned, Release!SaveColumns, SaveColumns
<1> HIDE DEF entityRow
<1> QED
  BY <1>3, <1>4, <1>5, SaveKeepsUnits

LEMMA ReleaseStepBalances ==
  ASSUME SharedTypeInv, BalanceInv, clashed \subseteq clashed', NEW v \in Releaser, ReleaseStep(v)
  PROVE  StockMoves /\ ReleaseBalances(v)'
<1>0. /\ ReleaseTyped /\ TablesTyped /\ UNCHANGED operatorVars /\ ReleaseBalances(v)
      /\ \A p \in Part \ clashed : Units(stock[p]) = Total(p)
  BY DEF SharedTypeInv, ReleaseStep, BalanceInv, Balanced, Units, Total
<1>1. /\ \A p \in Part : Total(p)' = Total(p)
      /\ Part \ clashed' \subseteq Part \ clashed
  BY <1>0 DEF operatorVars, Total
<1>2. ASSUME IsOver(v)' PROVE ReleaseBalances(v)'
  BY <1>2 DEF IsOver, ReleaseBalances, ReleasesOn, IsInTransaction
<1>3. ASSUME UNCHANGED tables PROVE UNCHANGED stock /\ StockMoves
  BY <1>0, <1>3, StockStays DEF tables
<1>4. DOMAIN write'[v] # {} => IsInTransaction(v)'
  BY <1>0, ReleaseStepTyped DEF ReleaseTyped, WorkIsKnown
<1>5. CASE Release!Commit(v) /\ IsOver(v)'
  <2>1. stock' = [p \in Part |-> IF p \in DOMAIN write[v] THEN write[v][p] ELSE stock[p]]
    BY <1>5 DEF Release!Commit
  <2>2. ASSUME NEW p \in Part \ clashed PROVE Shifts(p)
    <3>1. CASE p \notin DOMAIN write[v]
      BY <2>1, <3>1 DEF Shifts
    <3>2. CASE p \in DOMAIN write[v]
      <4>1. /\ v \in ReleasesOn(p) /\ code[p] # NULL /\ stock'[p] = write[v][p]
            /\ Units(write[v][p]) = Total(p) /\ write[v][p].active = stock[p].active
        BY <1>0, <2>1, <3>2 DEF ReleaseBalances
      <4>2. CommandsOn(p) = {}
        BY <4>1, NobodyCommands DEF BalanceInv
      <4>3. Units(stock'[p]) = Units(stock[p])
        BY <1>0, <4>1
      <4> QED
        BY <4>1, <4>2, <4>3 DEF Shifts
    <3> QED
      BY <3>1, <3>2
  <2> QED
    BY <1>0, <1>2, <1>5, <2>2 DEF StockMoves
<1>6. CASE UNCHANGED tables /\ IsOver(v)'
  BY <1>2, <1>3, <1>6
<1>7. CASE /\ UNCHANGED tables /\ pc'[v] = "insert" /\ DOMAIN write'[v] = {}
           /\ snapshot'[v].stock = stock
  BY <1>0, <1>1, <1>3, <1>7 DEF ReleaseBalances, Units
<1>8. CASE /\ UNCHANGED tables
           /\ pc[v] = "insert" \/ IsInTransaction(v)
           /\ UNCHANGED <<snapshot[v], write[v], releaseRequest[v]>>
  <2>1. DOMAIN write[v] \subseteq Part /\ UNCHANGED <<stock, code>>
    BY <1>0, <1>8 DEF ReleaseTyped, IsPartMap, tables, operatorVars
  <2>2. ASSUME NEW p \in Part \ clashed', (v \in ReleasesOn(p))'
        PROVE  Units(snapshot'[v].stock[p]) = Total(p)'
    <3>1. p \in Part \ clashed /\ v \in ReleasesOn(p)
      BY <1>1, <1>8, <2>2 DEF ReleasesOn, IsInTransaction
    <3> QED
      BY <1>0, <1>1, <1>8, <3>1 DEF ReleaseBalances
  <2>3. ASSUME NEW p \in DOMAIN write'[v] \ clashed'
        PROVE  /\ (v \in ReleasesOn(p))' /\ code'[p] # NULL
               /\ Units(write'[v][p]) = Total(p)' /\ write'[v][p].active = stock'[p].active
    <3>1. p \in DOMAIN write[v] \ clashed /\ p \in Part /\ IsInTransaction(v)'
      BY <1>1, <1>4, <1>8, <2>1, <2>3
    <3>2. /\ v \in ReleasesOn(p) /\ code[p] # NULL
          /\ Units(write[v][p]) = Total(p) /\ write[v][p].active = stock[p].active
      BY <1>0, <3>1 DEF ReleaseBalances
    <3>3. (v \in ReleasesOn(p))'
      BY <1>8, <3>1, <3>2 DEF ReleasesOn, IsInTransaction
    <3> QED
      BY <1>1, <1>8, <2>1, <3>1, <3>2, <3>3
  <2> QED
    BY <1>3, <1>8, <2>2, <2>3 DEF ReleaseBalances, Units
<1>9. CASE /\ Release!LockPart(v) /\ UNCHANGED tables
           /\ stock[Release!Item(v)].reserved >= releaseRequest[v].items[Release!Item(v)]
           /\ UNCHANGED <<snapshot[v], releaseRequest[v]>>
           /\ write'[v] = Release!Extend(write[v], Release!Item(v),
                                         Release!Returned(v, Release!Item(v)))
  <2>1. /\ pc[v] = "lockPart" /\ Release!ToDo(v) # {} /\ releaseRequest[v] \in ReleaseRequest
        /\ snapshot[v] # NULL
    BY <1>0, <1>9 DEF Release!LockPart, ReleaseTyped, WorkIsKnown, IsInTransaction
  <2> PICK p : p = Release!Item(v)
    OBVIOUS
  <2> PICK row : row = Release!Returned(v, p)
    OBVIOUS
  <2>2. /\ p \in Part /\ releaseRequest[v].items[p] \in Nat \ {0} /\ p \in DOMAIN releaseRequest[v].items
        /\ stock[p].reserved \in Nat /\ stock[p].reserved >= releaseRequest[v].items[p]
    BY <1>0, <1>9, <2>1, ReleaseItem DEF TablesTyped, CountedRow
  <2>3. snapshot[v].stock[p] \in StockRow
    BY <1>0, <2>1, <2>2 DEF ReleaseTyped
  <2>4. /\ DOMAIN write'[v] = DOMAIN write[v] \cup {p} /\ write'[v][p] = row
        /\ \A r \in DOMAIN write[v] \ {p} : write'[v][r] = write[v][r]
    BY <1>9 DEF Release!Extend
  <2>5. IsInTransaction(v)' /\ \A r : (v \in ReleasesOn(r))' <=> v \in ReleasesOn(r)
    BY <1>4, <1>9, <2>1, <2>4 DEF ReleasesOn, IsInTransaction
  <2>6. DOMAIN write[v] \subseteq Part /\ UNCHANGED <<stock, code>>
    BY <1>0, <1>9 DEF ReleaseTyped, IsPartMap, tables, operatorVars
  <2>7. ASSUME NEW r \in Part \ clashed', (v \in ReleasesOn(r))'
        PROVE  Units(snapshot'[v].stock[r]) = Total(r)'
    BY <1>0, <1>1, <1>9, <2>5, <2>7 DEF ReleaseBalances
  <2>8. ASSUME p \notin clashed
        PROVE  /\ v \in ReleasesOn(p) /\ code[p] # NULL
               /\ Units(row) = Total(p) /\ row.active = stock[p].active
    <3>1. v \in ReleasesOn(p)
      BY <2>1, <2>2 DEF ReleasesOn
    <3>2. Units(snapshot[v].stock[p]) = Units(stock[p])
      BY <1>0, <2>2, <2>8, <3>1 DEF ReleaseBalances
    <3>3. Units(row) = Total(p) /\ row.active = stock[p].active
      BY <1>0, <2>2, <2>3, <2>8, <3>2, ReturnedBalances
    <3>4. code[p] # NULL
      BY <2>2, <2>8 DEF BalanceInv, IsBlank
    <3> QED
      BY <3>1, <3>3, <3>4
  <2>9. ASSUME NEW r \in DOMAIN write'[v] \ clashed'
        PROVE  /\ (v \in ReleasesOn(r))' /\ code'[r] # NULL
               /\ Units(write'[v][r]) = Total(r)' /\ write'[v][r].active = stock'[r].active
    <3>1. r \in Part /\ r \notin clashed
      BY <1>1, <2>2, <2>4, <2>6, <2>9
    <3>2. CASE r = p
      BY <1>1, <2>4, <2>5, <2>6, <2>8, <3>1, <3>2
    <3>3. CASE r # p
      <4>1. r \in DOMAIN write[v] \ clashed /\ write'[v][r] = write[v][r]
        BY <2>4, <2>9, <3>1, <3>3
      <4>2. /\ v \in ReleasesOn(r) /\ code[r] # NULL
            /\ Units(write[v][r]) = Total(r) /\ write[v][r].active = stock[r].active
        BY <1>0, <4>1 DEF ReleaseBalances
      <4> QED
        BY <1>1, <2>5, <2>6, <3>1, <4>1, <4>2
    <3> QED
      BY <3>2, <3>3
  <2> QED
    BY <1>3, <1>9, <2>7, <2>9 DEF ReleaseBalances, Units
<1> QED
  BY <1>0, <1>5, <1>6, <1>7, <1>8, <1>9, ReleaseStepCases

(* A transaction has a command that has no result yet.                     *)
OwnsCommand(v) ==
  IsInTransaction(v) => LET c == releaseRequest[v].id
                        IN <<"operation", c>> \in held[v] /\ operation[c] = NULL

LEMMA TransactionCases ==
  ASSUME ReleaseTyped, NEW v \in Releaser, ReleaseStep(v), IsInTransaction(v)'
  PROVE  /\ UNCHANGED <<operation, releaseRequest[v]>>
         /\ \/ IsInTransaction(v) /\ held[v] \subseteq held'[v]
            \/ /\ operation[releaseRequest[v].id] = NULL
               /\ <<"operation", releaseRequest[v].id>> \in held'[v]
               /\ \A u \in Releaser \ {v} : <<"operation", releaseRequest[v].id>> \notin held[u]
<1>0. DOMAIN pc = Releaser /\ DOMAIN held = Releaser
  BY DEF ReleaseTyped
<1>1. ASSUME pc'[v] \in {"idle", "insert", "recover", "publish"} PROVE FALSE
  BY <1>1 DEF IsInTransaction
<1>2. CASE \/ \E r \in ReleaseRequest : Release!Begin(v, r)
           \/ Release!Recover(v) \/ Release!Commit(v) \/ Release!Publish(v) \/ Release!Abort(v)
  BY <1>0, <1>1, <1>2 DEF Release!Begin, Release!Recover, Release!Commit, Release!Publish, Release!Abort,
     Release!Goto, Release!Finish
<1>3. CASE Release!InsertOperation(v)
  <2>1. pc[v] = "insert" /\ UNCHANGED <<operation, releaseRequest>>
    BY <1>3 DEF Release!InsertOperation
  <2>2. operation[releaseRequest[v].id] = NULL /\ Release!Lock(v)
    BY <1>0, <1>1, <1>3 DEF Release!InsertOperation, Release!Goto
  <2>3. Release!Waits(v) /\ Release!Wanted(v) = <<"operation", releaseRequest[v].id>>
    BY <2>1 DEF Release!Waits, Release!Wanted
  <2>4. <<"operation", releaseRequest[v].id>> \in held'[v]
    BY <1>0, <2>2, <2>3 DEF Release!Lock
  <2>5. \A u \in Releaser \ {v} : <<"operation", releaseRequest[v].id>> \notin held[u]
    BY <2>2, <2>3 DEF Release!Lock, Release!WaitsFor
  <2> QED
    BY <2>1, <2>2, <2>4, <2>5
<1>4. CASE Release!LockReservation(v)
  BY <1>0, <1>4 DEF Release!LockReservation, Release!Lock, IsInTransaction
<1>5. CASE Release!LockPart(v)
  <2>1. UNCHANGED <<operation, releaseRequest>> /\ IsInTransaction(v)
    BY <1>5 DEF Release!LockPart, IsInTransaction
  <2>2. Release!Lock(v)
    BY <1>0, <1>1, <1>5 DEF Release!LockPart, Release!Goto
  <2> QED
    BY <1>0, <2>1, <2>2 DEF Release!Lock
<1> QED
  BY <1>2, <1>3, <1>4, <1>5 DEF ReleaseStep, Release!Step

-----------------------------------------------------------------------------
(* Every step.                                                             *)

LEMMA ReserveStepKeepsBalance ==
  ASSUME SharedTypeInv, BalanceInv, clashed \subseteq clashed', NEW w \in Worker, ReserveStep(w)
  PROVE  /\ Balanced'
         /\ \A u \in Worker : \A i \in DOMAIN task'[u] : TaskBalances(u, i)'
         /\ \A v \in Releaser : ReleaseBalances(v)'
         /\ \A o \in Operator : CommandHolds(o)'
         /\ \A p \in Part \ clashed' : IsBlank(p)'
<1>0. UNCHANGED <<operatorVars, releaseVars>> /\ ReserveTyped
  BY ReserveStepIs DEF SharedTypeInv
<1>1. /\ StockMoves
      /\ \A u \in Worker : \A i \in DOMAIN task'[u] : TaskBalances(u, i)'
  <2>1. CASE RequestStep(w)
    <3>1. /\ UNCHANGED stock
          /\ \A i \in DOMAIN task'[w] : TaskBalances(w, i)'
          /\ \A u \in Worker \ {w} : task'[u] = task[u] /\ request'[u] = request[u]
      BY <2>1, RequestStepBalances
    <3>2. StockMoves /\ KeepsOthers
      BY <1>0, <3>1, StockStays, MovesKeepStock
    <3> QED
      BY <3>1, <3>2, TaskStaysBalanced DEF BalanceInv
  <2>2. ASSUME NEW i \in DOMAIN task[w], TaskStep(w, i)
        PROVE  StockMoves /\ \A u \in Worker : \A j \in DOMAIN task'[u] : TaskBalances(u, j)'
    <3>1. StockMoves /\ TaskBalances(w, i)' /\ KeepsOthers
      BY <1>0, <2>2, TaskStepBalances, MovesKeepStock
    <3>2. PICK t : Set(w, i, t)
      BY <2>2 DEF TaskStep, FindReservation, FindPart, ReloadPart, UpdatePart, InsertReservation, Break,
         Advance
    <3>3. UNCHANGED request
      BY <2>2 DEF TaskStep, FindReservation, FindPart, ReloadPart, UpdatePart, InsertReservation, Break
    <3>4. /\ \A u \in Worker : DOMAIN task'[u] = DOMAIN task[u]
          /\ \A u \in Worker : \A j \in DOMAIN task[u] :
               <<u, j>> # <<w, i>> => task'[u][j] = task[u][j]
      BY <1>0, <3>2, OneTask
    <3>5. \A u \in Worker : \A j \in DOMAIN task'[u] : TaskBalances(u, j)'
      BY <3>1, <3>3, <3>4, TaskStaysBalanced DEF BalanceInv
    <3> QED
      BY <3>1, <3>5
  <2> QED
    BY <2>1, <2>2, ReserveStepIs
<1>2. /\ Balanced' /\ KeepsOthers /\ \A p \in Part \ clashed' : IsBlank(p)'
      /\ \A o \in Operator : CommandHolds(o)'
  BY <1>1, MovesKeepStock
<1>3. \A v \in Releaser : ReleaseBalances(v)'
  BY <1>0, <1>2, ReleaseStaysBalanced DEF BalanceInv, releaseVars
<1> QED
  BY <1>1, <1>2, <1>3

LEMMA OperatorStepKeepsBalance ==
  ASSUME SharedTypeInv, BalanceInv, clashed \subseteq clashed', NEW o \in Operator, OperatorStep(o)
  PROVE  /\ Balanced'
         /\ \A u \in Worker : \A i \in DOMAIN task'[u] : TaskBalances(u, i)'
         /\ \A v \in Releaser : ReleaseBalances(v)'
         /\ \A u \in Operator : CommandHolds(u)'
         /\ \A p \in Part \ clashed' : IsBlank(p)'
<1>0. /\ UNCHANGED <<reserveVars, releaseVars>> /\ OperatorTyped' /\ TablesTyped'
      /\ OperatorTyped /\ TablesTyped
  BY OperatorStepTyped DEF SharedTypeInv
<1>1. OperatorSaves(o) /\ \A u \in Operator : CommandHolds(u)'
  BY OperatorStepMoves
<1>2. /\ KeepsOthers /\ Balanced' /\ \A p \in Part \ clashed' : IsBlank(p)'
  <2>1. CASE UNCHANGED <<stock, byHand, code>>
    BY <2>1 DEF KeepsOthers, Steady, BalanceInv, Balanced, IsBlank
  <2>2. CASE /\ command[o] # NULL /\ command[o].part \in Part /\ OnlyPart(command[o].part)
             /\ command[o].part \notin clashed => SavesPart(command[o].part) /\ IsAlone(o)
    <3> PICK p : p = command[o].part
      OBVIOUS
    <3>1. /\ p \in Part /\ \A r \in Part \ {p} : UNCHANGED <<stock[r], byHand[r], code[r]>>
          /\ p \notin clashed => SavesPart(p) /\ ReleasesOn(p) = {} /\ ~HasCalls(p)
      BY <2>2 DEF OnlyPart, IsAlone
    <3>2. KeepsOthers
      BY <3>1 DEF KeepsOthers, Steady
    <3>3. \A r \in Part \ clashed' : IsBlank(r)'
      BY <3>1 DEF BalanceInv, IsBlank, SavesPart
    <3>4. ASSUME p \notin clashed
          PROVE  stock'[p].available + stock'[p].reserved = InitialAvailable[p] + byHand'[p].units
      <4>1. /\ InitialAvailable[p] \in Int /\ byHand[p].units \in Int /\ byHand'[p].units \in Int
            /\ stock[p].available + stock[p].reserved = InitialAvailable[p] + byHand[p].units
            /\ stock'[p].available + stock'[p].reserved
                 = stock[p].available + stock[p].reserved + (byHand'[p].units - byHand[p].units)
        BY <1>0, <3>1, <3>4, InitialAssumption DEF BalanceInv, Balanced, SavesPart, Units, OperatorTyped
      <4> QED
        BY <4>1
    <3>5. Balanced'
      BY <3>1, <3>4 DEF BalanceInv, Balanced
    <3> QED
      BY <3>2, <3>3, <3>5
  <2> QED
    BY <1>1, <2>1, <2>2 DEF OperatorSaves
<1>3. \A u \in Worker : \A i \in DOMAIN task'[u] : TaskBalances(u, i)'
  BY <1>0, <1>2, TaskStaysBalanced DEF BalanceInv, reserveVars
<1>4. \A v \in Releaser : ReleaseBalances(v)'
  BY <1>0, <1>2, ReleaseStaysBalanced DEF BalanceInv, releaseVars
<1> QED
  BY <1>1, <1>2, <1>3, <1>4

LEMMA ReleaseStepKeepsBalance ==
  ASSUME SharedTypeInv, BalanceInv, clashed \subseteq clashed', NEW v \in Releaser, ReleaseStep(v)
  PROVE  /\ Balanced'
         /\ \A u \in Worker : \A i \in DOMAIN task'[u] : TaskBalances(u, i)'
         /\ \A u \in Releaser : ReleaseBalances(u)'
         /\ \A o \in Operator : CommandHolds(o)'
         /\ \A p \in Part \ clashed' : IsBlank(p)'
<1>0. UNCHANGED reserveVars /\ ReleaseTyped
  BY DEF ReleaseStep, SharedTypeInv
<1>1. StockMoves /\ ReleaseBalances(v)'
  BY ReleaseStepBalances
<1>2. /\ Balanced' /\ KeepsOthers /\ \A p \in Part \ clashed' : IsBlank(p)'
      /\ \A o \in Operator : CommandHolds(o)'
  BY <1>1, MovesKeepStock
<1>3. \A u \in Releaser : ReleaseBalances(u)'
  BY <1>0, <1>1, <1>2, OthersInFlight, ReleaseStaysBalanced DEF BalanceInv
<1>4. \A w \in Worker : \A i \in DOMAIN task'[w] : TaskBalances(w, i)'
  BY <1>0, <1>2, TaskStaysBalanced DEF BalanceInv, reserveVars
<1> QED
  BY <1>2, <1>3, <1>4

LEMMA StepKeepsBalanceInv ==
  ASSUME SharedTypeInv, SharedTypeInv', BalanceInv, [SharedNext]_sharedVars
  PROVE  BalanceInv'
<1>1. NoClash' /\ clashed \subseteq clashed'
  BY StepKeepsNoClash DEF BalanceInv
<1>2. CASE UNCHANGED sharedVars
  <2>1. UNCHANGED <<stock, operatorVars, request, task, pc, releaseRequest, snapshot, write>>
    BY <1>2 DEF sharedVars, tables, reserveVars, releaseVars
  <2>2. /\ KeepsOthers /\ Balanced' /\ \A p \in Part \ clashed' : IsBlank(p)'
        /\ \A o \in Operator : CommandHolds(o)'
    BY <1>1, <2>1, StockStays, MovesKeepStock
  <2>3. \A w \in Worker : \A i \in DOMAIN task'[w] : TaskBalances(w, i)'
    BY <2>1, <2>2, TaskStaysBalanced DEF BalanceInv
  <2>4. \A v \in Releaser : ReleaseBalances(v)'
    BY <2>1, <2>2, ReleaseStaysBalanced DEF BalanceInv
  <2> QED
    BY <1>1, <2>2, <2>3, <2>4 DEF BalanceInv
<1>3. CASE SharedNext
  BY <1>1, <1>3, ReserveStepKeepsBalance, OperatorStepKeepsBalance, ReleaseStepKeepsBalance
     DEF SharedNext, BalanceInv
<1> QED
  BY <1>2, <1>3

LEMMA InitEstablishesBalanceInv == SharedInit => BalanceInv
<1> SUFFICES ASSUME SharedInit PROVE BalanceInv
  OBVIOUS
<1>1. /\ \A w \in Worker : request[w] = NULL /\ task[w] = <<>>
      /\ \A o \in Operator : command[o] = NULL
      /\ \A v \in Releaser : pc[v] = "idle" /\ write[v] = <<>>
      /\ calm = TRUE /\ clashed = {} /\ byHand = [p \in Part |-> [units |-> 0, reserved |-> 0]]
      /\ code = InitialCode
  BY DEF SharedInit, PartInit, Init, Release!WorkersInit
<1>2. PICK active \in InitialActive :
        stock = [p \in Part |-> [available |-> InitialAvailable[p], reserved |-> 0,
                                 active |-> active[p]]]
  BY DEF SharedInit, PartInit, Init
<1>3. NoClash
  BY <1>1 DEF NoClash, OneAtATime, Busy, Clashes
<1>4. Balanced
  BY <1>1, <1>2, InitialAssumption DEF Balanced
<1>5. \A p \in Part : IsBlank(p)
  <2> TAKE p \in Part
  <2>1. active[p] \in BOOLEAN
    BY <1>2, InitialAssumption
  <2> QED
    BY <1>1, <1>2, <2>1, CodeAssumption DEF IsBlank
<1>6. \A v \in Releaser : ReleaseBalances(v)
  BY <1>1 DEF ReleaseBalances, ReleasesOn
<1> QED
  BY <1>1, <1>3, <1>4, <1>5, <1>6 DEF BalanceInv, CommandHolds

(* Whatever overlaps, the parts on which no command has clashed stay       *)
(* balanced, and so does all that is going to be written to them.          *)
THEOREM BalanceInvariant == SharedSpec => []BalanceInv
<1>1. SharedTypeInv /\ SharedTypeInv' /\ BalanceInv /\ [SharedNext]_sharedVars => BalanceInv'
  BY StepKeepsBalanceInv
<1>2. OverlapInv => SharedTypeInv
  BY DEF OverlapInv
<1> QED
  BY <1>1, <1>2, InitEstablishesBalanceInv, OverlapInvariant, PTL DEF SharedSpec

(* The two quantities of a part always add up to what it had and what      *)
(* operators added and took: however the saves of reserveStock overwrite   *)
(* one another and those of a release, no unit is created or lost, unless  *)
(* a command was at work on that very part at the same time.               *)
THEOREM UnitsStayBalanced == SharedSpec => []Balanced
<1>1. BalanceInv => Balanced
  BY DEF BalanceInv
<1> QED
  BY <1>1, BalanceInvariant, PTL

-----------------------------------------------------------------------------
(* The units that RESERVED rows stand for, while no two requests overlap.  *)

Promised(p) == ReservedQuantity(p) + byHand[p].reserved

(* What a part must set aside for the rows that are there, and the one     *)
(* that the call is going to insert.                                       *)
Bound(w, i) ==
  LET row == reservation[request[w].order][request[w].items[i].part]
  IN Promised(request[w].items[i].part)
       + IF row.status = "ABSENT" THEN request[w].items[i].quantity ELSE 0

TaskCounts(w, i) ==
  LET t == task[w][i]
      p == request[w].items[i].part
  IN /\ t.phase \in {"reload", "update"} => t.part.reserved >= Bound(w, i)
     /\ t.phase = "update" /\ t.loaded.reserved = t.part.reserved =>
          stock[p].reserved >= Bound(w, i)
     /\ t.phase = "insert" /\ t.code = NULL => stock[p].reserved >= Bound(w, i)

HasRow(v, p) ==
  LET row == reservation[releaseRequest[v].order][p]
  IN row.status = "RESERVED" /\ row.quantity = releaseRequest[v].items[p]

ReleaseCounts(v) ==
  /\ pc[v] = "insert" \/ IsInTransaction(v) => snapshot[v].stock = stock
  /\ pc[v] = "lockPart" => HasRow(v, Release!Item(v))
  /\ \A p \in DOMAIN write[v] :
       HasRow(v, p) /\ write[v][p].reserved = stock[p].reserved - releaseRequest[v].items[p]

Counts ==
  /\ \A p \in Part : Promised(p) <= stock[p].reserved
  /\ \A w \in Worker : \A i \in DOMAIN task[w] : TaskCounts(w, i)
  /\ \A v \in Releaser : ReleaseCounts(v)

CountedInv == calm => Counts

(* One row of a part changes, and its sum with it.                         *)
HeldBy(row) == IF row.status = "RESERVED" THEN row.quantity ELSE 0

LEMMA OneRowCounts ==
  ASSUME TablesTyped, TablesTyped', NEW p \in Part, NEW o \in Order,
         \A x \in Order \ {o} : reservation'[x][p] = reservation[x][p]
  PROVE  /\ ReservedQuantity(p) \in Int /\ ReservedQuantity(p)' \in Int
         /\ ReservedQuantity(p)' =
              ReservedQuantity(p) + HeldBy(reservation'[o][p]) - HeldBy(reservation[o][p])
<1> DEFINE f == [x \in Order |-> reservation[x][p].quantity]
           S == {x \in Order : reservation[x][p].status = "RESERVED"}
           rest == S \ {o}
<1>1. /\ reservation[o][p].quantity \in Nat /\ reservation'[o][p].quantity \in Nat
      /\ \A x \in Order : f[x] \in Int /\ f'[x] \in Int
      /\ \A x \in rest : f[x] = f'[x]
      /\ f[o] = reservation[o][p].quantity /\ f'[o] = reservation'[o][p].quantity
  BY DEF TablesTyped, ReservationRow
<1>2. /\ rest' = rest /\ S \subseteq Order /\ S' \subseteq Order /\ rest \subseteq Order
      /\ reservation[o][p].status = "RESERVED" <=> o \in S
      /\ reservation'[o][p].status = "RESERVED" <=> o \in S'
      /\ o \notin S => S = rest
      /\ o \notin S' => S' = rest
      /\ S' \ {o} = rest
  OBVIOUS
<1>3. IsFiniteSet(S) /\ IsFiniteSet(S') /\ IsFiniteSet(rest)
  BY <1>2, OrderAssumption, FS_Subset
<1>4. /\ ReservedQuantity(p) = SumFunctionOnSet(f, S)
      /\ ReservedQuantity(p)' = SumFunctionOnSet(f', S')
  BY DEF ReservedQuantity, QuantityIn
<1>5. /\ HeldBy(reservation[o][p]) = IF o \in S THEN f[o] ELSE 0
      /\ HeldBy(reservation'[o][p]) = IF o \in S' THEN f'[o] ELSE 0
      /\ rest = S \ {o}
  BY <1>1, <1>2 DEF HeldBy
<1> HIDE DEF rest, f, S
<1>6. SumFunctionOnSet(f', rest) = SumFunctionOnSet(f, rest)
  BY <1>1, <1>3, SameValuesSameSum
<1>7. SumFunctionOnSet(f, S) = SumFunctionOnSet(f, rest) + IF o \in S THEN f[o] ELSE 0
  <2>1. SumFunctionOnSet(f, rest) \in Int
    BY <1>1, <1>2, <1>3, SumIsInteger
  <2>2. CASE o \in S
    BY <1>1, <1>2, <1>3, <1>5, <2>1, <2>2, SumTakesAny
  <2>3. CASE o \notin S
    BY <1>2, <2>1, <2>3
  <2> QED
    BY <2>2, <2>3
<1>8. SumFunctionOnSet(f', S') = SumFunctionOnSet(f, rest) + IF o \in S' THEN f'[o] ELSE 0
  <2>1. SumFunctionOnSet(f, rest) \in Int
    BY <1>1, <1>2, <1>3, SumIsInteger
  <2>2. CASE o \in S'
    BY <1>1, <1>2, <1>3, <1>6, <2>1, <2>2, SumTakesAny
  <2>3. CASE o \notin S'
    BY <1>2, <1>6, <2>1, <2>3
  <2> QED
    BY <2>2, <2>3
<1>9. SumFunctionOnSet(f, rest) \in Int
  BY <1>1, <1>2, <1>3, SumIsInteger
<1> QED
  BY <1>1, <1>4, <1>5, <1>7, <1>8, <1>9

LEMMA RowsKept ==
  ASSUME NEW p \in Part, \A x \in Order : reservation'[x][p] = reservation[x][p]
  PROVE  ReservedQuantity(p)' = ReservedQuantity(p)
<1> DEFINE f == [x \in Order |-> reservation[x][p].quantity]
           S == {x \in Order : reservation[x][p].status = "RESERVED"}
<1>1. f' = f /\ S' = S
  OBVIOUS
<1>2. ReservedQuantity(p) = SumFunctionOnSet(f, S) /\ ReservedQuantity(p)' = SumFunctionOnSet(f', S')
  BY DEF ReservedQuantity, QuantityIn
<1> HIDE DEF f, S
<1> QED
  BY <1>1, <1>2

LEMMA PromisedIsInteger ==
  ASSUME SharedTypeInv, NEW p \in Part
  PROVE  Promised(p) \in Int /\ ReservedQuantity(p) \in Int
<1> DEFINE f == [x \in Order |-> reservation[x][p].quantity]
           S == {x \in Order : reservation[x][p].status = "RESERVED"}
<1>1. IsFiniteSet(S) /\ \A o \in S : f[o] \in Int
  BY OrderAssumption, FS_Subset DEF SharedTypeInv, TablesTyped, ReservationRow
<1>2. ReservedQuantity(p) = SumFunctionOnSet(f, S)
  BY DEF ReservedQuantity, QuantityIn
<1> HIDE DEF f, S
<1>3. ReservedQuantity(p) \in Int
  BY <1>1, <1>2, SumIsInteger
<1> QED
  BY <1>3 DEF Promised, SharedTypeInv, OperatorTyped

LEMMA BoundIsInteger ==
  ASSUME SharedTypeInv, NEW w \in Worker, NEW i \in DOMAIN task[w]
  PROVE  /\ Bound(w, i) \in Int /\ request[w].items[i].part \in Part
         /\ Promised(request[w].items[i].part) \in Int
         /\ Promised(request[w].items[i].part) <= Bound(w, i)
<1>1. request[w].items[i].part \in Part /\ request[w].items[i].quantity \in Nat
  BY TaskIsKnown DEF SharedTypeInv
<1>2. Promised(request[w].items[i].part) \in Int
  BY <1>1, PromisedIsInteger
<1> QED
  <2> PICK a, q : a = Promised(request[w].items[i].part) /\ q = request[w].items[i].quantity
    OBVIOUS
  <2>1. Bound(w, i) = a + q \/ Bound(w, i) = a + 0
    BY DEF Bound
  <2>2. a \in Int /\ q \in Nat
    BY <1>1, <1>2
  <2>3. a + q \in Int /\ a <= a + q /\ a + 0 \in Int /\ a <= a + 0
    BY <2>2
  <2>4. Bound(w, i) \in Int /\ a <= Bound(w, i)
    BY <2>1, <2>3
  <2> QED
    BY <1>1, <1>2, <2>4

-----------------------------------------------------------------------------
(* Who is alone while nothing overlaps.                                    *)

LEMMA DeliveryIsAlone ==
  ASSUME SharedTypeInv, BalanceInv, calm, NEW w \in Worker, request[w] # NULL
  PROVE  /\ \A u \in Worker \ {w} : DOMAIN task[u] = {}
         /\ \A v \in Releaser : pc[v] = "idle" /\ DOMAIN write[v] = {}
<1>1. OneAtATime
  BY DEF BalanceInv, NoClash
<1>2. \A u \in Worker \ {w} : request[u] = NULL
  BY <1>1 DEF OneAtATime, Busy
<1>3. \A v \in Releaser : pc[v] = "idle"
  BY <1>1, ActorAssumption DEF OneAtATime, Busy
<1> QED
  BY <1>2, <1>3 DEF SharedTypeInv, ReserveTyped, ReleaseTyped, WorkIsKnown, IsInTransaction

LEMMA ReleaseIsAlone ==
  ASSUME SharedTypeInv, BalanceInv, calm, NEW v \in Releaser, pc[v] # "idle"
  PROVE  /\ \A w \in Worker : DOMAIN task[w] = {}
         /\ \A u \in Releaser \ {v} : pc[u] = "idle" /\ DOMAIN write[u] = {}
<1>1. OneAtATime
  BY DEF BalanceInv, NoClash
<1>2. \A w \in Worker : request[w] = NULL
  BY <1>1, ActorAssumption DEF OneAtATime, Busy
<1>3. \A u \in Releaser \ {v} : pc[u] = "idle"
  BY <1>1 DEF OneAtATime, Busy
<1> QED
  BY <1>2, <1>3 DEF SharedTypeInv, ReserveTyped, ReleaseTyped, WorkIsKnown, IsInTransaction

LEMMA IdleCounts ==
  ASSUME NEW v \in Releaser, pc[v] = "idle", DOMAIN write[v] = {}, UNCHANGED <<pc, write>>
  PROVE  ReleaseCounts(v)'
  BY DEF ReleaseCounts, IsInTransaction

LEMMA TaskStaysCounted ==
  ASSUME SharedTypeInv, NEW w \in Worker, NEW i \in DOMAIN task[w], TaskCounts(w, i),
         task'[w][i] = task[w][i], request'[w] = request[w],
         Bound(w, i)' \in Int, Bound(w, i)' <= Bound(w, i),
         LET p == request[w].items[i].part
         IN stock'[p].reserved = stock[p].reserved \/ stock'[p].reserved >= Bound(w, i)'
  PROVE  TaskCounts(w, i)'
<1> PICK p, a, b : p = request[w].items[i].part /\ a = Bound(w, i) /\ b = Bound(w, i)'
  OBVIOUS
<1>1. a \in Int /\ b \in Int /\ b <= a /\ stock[p].reserved \in Nat
  BY BoundIsInteger DEF SharedTypeInv, TablesTyped, CountedRow
<1>2. task[w][i].phase \in {"reload", "update"} => task[w][i].part.reserved \in Nat
  BY DEF SharedTypeInv, ReserveTyped, TaskIsCounted, CountedRow
<1>3. /\ task[w][i].phase \in {"reload", "update"} => task[w][i].part.reserved >= b
      /\ stock[p].reserved >= a => stock'[p].reserved >= b
  <2>1. /\ task[w][i].phase \in {"reload", "update"} => task[w][i].part.reserved >= a
        /\ stock'[p].reserved = stock[p].reserved \/ stock'[p].reserved >= b
    BY DEF TaskCounts
  <2>2. \A n \in Nat : n >= a => n >= b
    BY <1>1
  <2> QED
    BY <1>1, <1>2, <2>1, <2>2
<1> QED
  BY <1>3 DEF TaskCounts

-----------------------------------------------------------------------------
(* A step of a reserve delivery.                                           *)

LEMMA UpdateCounts ==
  ASSUME SharedTypeInv, BalanceInv, ItemsAgree, Counts, NEW w \in Worker, NEW i \in DOMAIN task[w],
         UpdatePart(w, i), UNCHANGED operatorVars
  PROVE  /\ \A p \in Part : Promised(p)' <= stock'[p].reserved
         /\ \A j \in DOMAIN task[w] : TaskCounts(w, j)'
<1>n. PICK p, t, row : /\ p = request[w].items[i].part /\ t = task[w][i]
                     /\ row = SaveColumns(stock[p], t.loaded, t.part)
  OBVIOUS
<1>0. ReserveTyped
  BY DEF SharedTypeInv
<1>1. /\ ReserveTyped /\ p \in Part /\ stock \in [Part -> CountedRow] /\ t \in Task
      /\ Item(w, i) = request[w].items[i] /\ request[w] \in Request
      /\ DOMAIN task[w] = DOMAIN request[w].items
  BY <1>n, TaskIsKnown DEF SharedTypeInv, TablesTyped
<1>2. /\ t.phase = "update" /\ stock' = [stock EXCEPT ![p] = row] /\ Advance(w, i, "insert")
      /\ UNCHANGED <<reservation, request>>
  BY <1>n, <1>1 DEF UpdatePart, At
<1>3. \A r \in Part : Promised(r)' = Promised(r)
  BY <1>2 DEF Promised, ReservedQuantity, QuantityIn, operatorVars
<1>4. \A j \in DOMAIN task[w] : Bound(w, j)' = Bound(w, j)
  <2> TAKE j \in DOMAIN task[w]
  <2>1. PICK r : r = request[w].items[j].part
    OBVIOUS
  <2>2. Promised(r)' = Promised(r)
    BY <1>3, <2>1, BoundIsInteger
  <2> QED
    BY <1>2, <2>1, <2>2 DEF Bound
<1>5. \A j \in DOMAIN task[w] : request[w].items[j].part = p => Bound(w, j) = Bound(w, i)
  <2> TAKE j \in DOMAIN task[w]
  <2> SUFFICES ASSUME request[w].items[j].part = p PROVE Bound(w, j) = Bound(w, i)
    OBVIOUS
  <2>1. request[w].items[j].quantity = request[w].items[i].quantity
    BY <1>n, <1>1 DEF ItemsAgree
  <2> QED
    BY <1>n, <2>1 DEF Bound
<1>6. row.reserved >= Bound(w, i)
  <2>1. row.reserved = IF t.part.reserved = t.loaded.reserved THEN stock[p].reserved ELSE t.part.reserved
    BY <1>n, <1>1 DEF SaveColumns, CountedRow
  <2> QED
    BY <1>n, <1>2, <2>1 DEF Counts, TaskCounts
<1>7. \A r \in Part : stock'[r] = IF r = p THEN row ELSE stock[r]
  BY <1>1, <1>2
<1>8. row.reserved \in Int
  <2>1. row \in CountedRow
    <3>1. stock[p] \in CountedRow /\ t.part \in CountedRow
      BY <1>n, <1>0, <1>1, <1>2 DEF ReserveTyped, TaskIsCounted
    <3> QED
      BY <1>n, <3>1, SavedIsCounted
  <2> QED
    <3>1. \A r \in CountedRow : r.reserved \in Int
      BY DEF CountedRow
    <3> QED
      BY <2>1, <3>1
<1>9. \A r \in Part : Promised(r)' <= stock'[r].reserved
  <2>1. Promised(p) \in Int /\ Bound(w, i) \in Int /\ Promised(p) <= Bound(w, i)
    BY <1>n, <1>1, BoundIsInteger
  <2>2. Promised(p) <= row.reserved
    <3> PICK a, b, n : a = Promised(p) /\ b = Bound(w, i) /\ n = row.reserved
      OBVIOUS
    <3>1. a \in Int /\ b \in Int /\ a <= b
      BY <2>1
    <3>2. n \in Int /\ n >= b
      BY <1>6, <1>8
    <3>3. a <= n
      BY <3>1, <3>2
    <3> QED
      BY <3>3
  <2> QED
    BY <1>3, <1>7, <2>2 DEF Counts
<1>10. \A j \in DOMAIN task[w] : TaskCounts(w, j)'
  <2> TAKE j \in DOMAIN task[w]
  <2> PICK r, b : r = request[w].items[j].part /\ b = Bound(w, j)
    OBVIOUS
  <2>1. r \in Part /\ b \in Int /\ TaskCounts(w, j) /\ Bound(w, j)' = b
    BY <1>4, BoundIsInteger DEF Counts
  <2>2. stock'[r].reserved = stock[r].reserved \/ stock'[r].reserved >= b
    <3>1. CASE r = p
      <4>1. stock'[r] = row /\ b = Bound(w, i)
        BY <1>5, <1>7, <2>1, <3>1
      <4> QED
        BY <1>6, <4>1
    <3>2. CASE r # p
      BY <1>7, <2>1, <3>2
    <3> QED
      BY <3>1, <3>2
  <2>3. CASE j # i
    <3>0. request'[w] = request[w]
      BY <1>2
    <3>1. task'[w][j] = task[w][j]
      <4> PICK u : u = Fresh("insert")
        OBVIOUS
      <4>1. Set(w, i, u)
        BY <1>n, <1>2 DEF Advance
      <4> QED
        BY <1>0, <2>3, <4>1, OneTask
    <3>2. b <= Bound(w, j)
      BY <2>1
    <3> QED
      BY <2>1, <2>2, <3>0, <3>1, <3>2, TaskStaysCounted
  <2>4. CASE j = i
    <3>1. task'[w][i].phase = "insert"
      <4> PICK u : u = Fresh("insert")
        OBVIOUS
      <4>1. Set(w, i, u)
        BY <1>n, <1>2 DEF Advance
      <4>2. u.phase = "insert"
        BY DEF Fresh
      <4>3. task'[w][i] = u
        BY <1>0, <4>1, OneTask
      <4> QED
        BY <4>2, <4>3
    <3>2. stock'[p].reserved >= Bound(w, i)'
      BY <1>1, <1>4, <1>6, <1>7
    <3> QED
      BY <1>n, <1>2, <2>4, <3>1, <3>2 DEF TaskCounts
  <2> QED
    BY <2>3, <2>4
<1> QED
  BY <1>9, <1>10

LEMMA InsertCounts ==
  ASSUME SharedTypeInv, SharedTypeInv', BalanceInv, ItemsAgree, Counts, NEW w \in Worker,
         NEW i \in DOMAIN task[w], InsertReservation(w, i), RowOf(w, i).status = "ABSENT",
         UNCHANGED operatorVars
  PROVE  /\ \A p \in Part : Promised(p)' <= stock'[p].reserved
         /\ \A j \in DOMAIN task[w] : TaskCounts(w, j)'
<1>n. PICK o, p, q, c, row :
      /\ o = request[w].order /\ p = request[w].items[i].part
      /\ q = request[w].items[i].quantity /\ c = task[w][i].code /\ row = NewReservation(q, c)
  OBVIOUS
<1>0. ReserveTyped
  BY DEF SharedTypeInv
<1>1. /\ ReserveTyped /\ TablesTyped /\ TablesTyped' /\ o \in Order /\ p \in Part /\ q \in Nat
      /\ Item(w, i) = request[w].items[i] /\ request[w] \in Request
      /\ DOMAIN task[w] = DOMAIN request[w].items
      /\ reservation \in [Order -> [Part -> ReservationRow(ReleaseCommand)]]
      /\ task[w][i] \in Task
  BY <1>n, TaskIsKnown DEF SharedTypeInv, TablesTyped
<1>a. q \in Nat
  BY <1>1
<1>2. /\ reservation' = [reservation EXCEPT ![o][p] = row] /\ reservation[o][p].status = "ABSENT"
      /\ UNCHANGED <<stock, request>> /\ task[w][i].phase = "insert"
      /\ Set(w, i, [task[w][i] EXCEPT !.phase = "done", !.at = attempts])
  BY <1>n, <1>1 DEF InsertReservation, RowOf, At
<1>3. /\ row.status = (IF c = NULL THEN "RESERVED" ELSE "FAILED") /\ row.quantity = q
  BY <1>n DEF NewReservation
<1>4. /\ reservation'[o][p] = row
      /\ \A x \in Order, r \in Part : <<x, r>> # <<o, p>> => reservation'[x][r] = reservation[x][r]
  BY <1>1, <1>2
<1>5. /\ ReservedQuantity(p) \in Int
      /\ ReservedQuantity(p)' = ReservedQuantity(p) + IF c = NULL THEN q ELSE 0
  <2>1. /\ ReservedQuantity(p) \in Int /\ ReservedQuantity(p)' \in Int
        /\ ReservedQuantity(p)' =
             ReservedQuantity(p) + HeldBy(reservation'[o][p]) - HeldBy(reservation[o][p])
    BY <1>1, <1>4, OneRowCounts
  <2>2. HeldBy(reservation[o][p]) = 0 /\ HeldBy(reservation'[o][p]) = IF c = NULL THEN q ELSE 0
    BY <1>2, <1>3, <1>4 DEF HeldBy
  <2> QED
    <3> PICK a : a = ReservedQuantity(p)
      OBVIOUS
    <3> PICK d : d = IF c = NULL THEN q ELSE 0
      OBVIOUS
    <3>1. a \in Int /\ d \in Int
      BY <1>a, <2>1
    <3>2. a + d - 0 = a + d
      BY <3>1
    <3> QED
      BY <2>1, <2>2, <3>2
<1>6. \A r \in Part \ {p} : ReservedQuantity(r)' = ReservedQuantity(r)
  BY <1>4, RowsKept
<1>7. /\ Promised(p)' = Promised(p) + IF c = NULL THEN q ELSE 0
      /\ \A r \in Part \ {p} : Promised(r)' = Promised(r)
  <2> PICK a, d, h : /\ a = ReservedQuantity(p)
                     /\ d = IF c = NULL THEN q ELSE 0
                     /\ h = byHand[p].reserved
    OBVIOUS
  <2>1. /\ a \in Int /\ d \in Int /\ ReservedQuantity(p)' = a + d
        /\ h \in Int /\ UNCHANGED byHand
    <3>1. h \in Int /\ UNCHANGED byHand
      BY <1>1 DEF operatorVars, SharedTypeInv, OperatorTyped
    <3>2. a \in Int /\ d \in Int /\ ReservedQuantity(p)' = a + d
      BY <1>a, <1>5
    <3> QED
      BY <3>1, <3>2
  <2>2. (a + d) + h = (a + h) + d
    BY <2>1
  <2>3. Promised(p) = a + h /\ Promised(p)' = (a + d) + h
    BY <2>1 DEF Promised
  <2>4. \A r \in Part \ {p} : Promised(r)' = Promised(r)
    BY <1>6, <2>1 DEF Promised
  <2> QED
    BY <2>2, <2>3, <2>4
<1>8. Promised(p) \in Int /\ Bound(w, i) = Promised(p) + q
  BY <1>n, <1>1, <1>2, PromisedIsInteger DEF Bound
<1>9. \A r \in Part : Promised(r)' <= stock'[r].reserved
  <2>1. c = NULL => Promised(p) + q <= stock[p].reserved
    BY <1>n, <1>2, <1>8 DEF Counts, TaskCounts
  <2>2. Promised(p) <= stock[p].reserved
    BY <1>1 DEF Counts
  <2>3. Promised(p)' <= stock'[p].reserved
    <3>1. stock'[p] = stock[p]
      BY <1>2
    <3>2. CASE c = NULL
      <4>1. Promised(p)' = Promised(p) + q
        BY <1>7, <3>2
      <4> QED
        BY <2>1, <3>1, <3>2, <4>1
    <3>3. CASE c # NULL
      <4>1. Promised(p)' = Promised(p) + 0
        BY <1>7, <3>3
      <4>2. Promised(p) + 0 = Promised(p)
        BY <1>8
      <4> QED
        BY <2>2, <3>1, <4>1, <4>2
    <3> QED
      BY <3>2, <3>3
  <2> QED
    BY <1>2, <1>7, <2>3 DEF Counts
<1>10. \A j \in DOMAIN task[w] : Bound(w, j)' \in Int /\ Bound(w, j)' <= Bound(w, j)
  <2> TAKE j \in DOMAIN task[w]
  <2>0. PICK r : r = request[w].items[j].part
    OBVIOUS
  <2>1. r \in Part /\ Bound(w, j) \in Int /\ Promised(r) \in Int
    BY <2>0, BoundIsInteger
  <2>2. CASE r = p
    <3>1. request[w].items[j].quantity = q
      <4>1. \A a, b \in DOMAIN request[w].items :
              request[w].items[a].part = request[w].items[b].part =>
                request[w].items[a].quantity = request[w].items[b].quantity
        BY <1>1 DEF ItemsAgree
      <4> QED
        BY <1>n, <2>0, <1>1, <2>2, <4>1
    <3>2. Bound(w, j) = Promised(p) + q
      BY <1>n, <2>0, <1>2, <2>2, <3>1 DEF Bound
    <3>3. Bound(w, j)' = Promised(p)'
      <4>1. reservation'[o][p].status # "ABSENT"
        BY <1>3, <1>4
      <4>2. Promised(p)' + 0 = Promised(p)'
        BY <1>a, <1>7, <1>8
      <4> QED
        BY <1>n, <2>0, <1>2, <2>2, <4>1, <4>2 DEF Bound
    <3> QED
      <4>0. PICK a, d, b, b1 : /\ a = Promised(p)
                               /\ d = IF c = NULL THEN q ELSE 0
                               /\ b = Bound(w, j)
                               /\ b1 = Bound(w, j)'
        OBVIOUS
      <4>1. a \in Int /\ d \in Int /\ d <= q /\ q \in Nat
        BY <1>a, <1>8, <4>0
      <4>3. b1 = a + d
        BY <1>7, <3>3, <4>0
      <4>4. b = a + q
        BY <3>2, <4>0
      <4>5. b1 \in Int /\ b \in Int /\ b1 <= b
        BY <4>1, <4>3, <4>4
      <4> QED
        BY <4>0, <4>5
  <2>3. CASE r # p
    <3>1. reservation'[o][r] = reservation[o][r] /\ Promised(r)' = Promised(r)
      BY <1>1, <1>4, <1>7, <2>1, <2>3
    <3>2. Bound(w, j)' = Bound(w, j)
      <4>1. r = request[w].items[j].part /\ o = request[w].order
        BY <1>n, <2>0
      <4>2. /\ Bound(w, j) = Promised(r) + IF reservation[o][r].status = "ABSENT"
                                           THEN request[w].items[j].quantity ELSE 0
            /\ Bound(w, j)' = Promised(r)' + IF reservation'[o][r].status = "ABSENT"
                                             THEN request[w].items[j].quantity ELSE 0
        BY <1>2, <4>1 DEF Bound
      <4> QED
        BY <3>1, <4>2
    <3> QED
      BY <2>1, <3>2
  <2> QED
    BY <2>2, <2>3
<1>11. \A j \in DOMAIN task[w] : TaskCounts(w, j)'
  <2> TAKE j \in DOMAIN task[w]
  <2>1. CASE j # i
    <3>1. task'[w][j] = task[w][j]
      <4> PICK t : t = [task[w][i] EXCEPT !.phase = "done", !.at = attempts]
        OBVIOUS
      <4>1. Set(w, i, t)
        BY <1>2
      <4> QED
        BY <1>0, <2>1, <4>1, OneTask
    <3>2. TaskCounts(w, j) /\ Bound(w, j)' \in Int /\ Bound(w, j)' <= Bound(w, j)
      BY <1>10 DEF Counts
    <3>3. request'[w] = request[w] /\ \A r : stock'[r] = stock[r]
      BY <1>2
    <3> QED
      BY <3>1, <3>2, <3>3, TaskStaysCounted
  <2>2. CASE j = i
    <3> PICK t : t = [task[w][i] EXCEPT !.phase = "done", !.at = attempts]
      OBVIOUS
    <3>1. t.phase = "done"
      BY <1>1 DEF Task
    <3>2. Set(w, i, t)
      BY <1>2
    <3>3. task'[w][i] = t
      BY <1>0, <3>2, OneTask
    <3> QED
      BY <2>2, <3>1, <3>3 DEF TaskCounts
  <2> QED
    BY <2>1, <2>2
<1> QED
  BY <1>9, <1>11

LEMMA BoundStays ==
  ASSUME SharedTypeInv, UNCHANGED <<tables, operatorVars, request>>
  PROVE  /\ \A p \in Part : Promised(p)' = Promised(p)
         /\ \A w \in Worker : \A i \in DOMAIN task[w] :
              Bound(w, i)' = Bound(w, i) /\ Bound(w, i) \in Int
<1>1. \A p \in Part : Promised(p)' = Promised(p)
  BY DEF Promised, ReservedQuantity, QuantityIn, operatorVars, tables
<1>2. ASSUME NEW w \in Worker, NEW i \in DOMAIN task[w]
      PROVE  Bound(w, i)' = Bound(w, i) /\ Bound(w, i) \in Int
  <2> PICK p : p = request[w].items[i].part
    OBVIOUS
  <2>1. p \in Part /\ Bound(w, i) \in Int
    BY BoundIsInteger
  <2>2. Promised(p)' = Promised(p)
    BY <1>1, <2>1
  <2> QED
    BY <2>1, <2>2 DEF Bound, tables
<1> QED
  BY <1>1, <1>2

LEMMA ReadCounts ==
  ASSUME SharedTypeInv, BalanceInv, Counts, NEW w \in Worker, NEW i \in DOMAIN task[w],
         TaskStep(w, i), UNCHANGED <<tables, operatorVars>>, ~UpdatePart(w, i)
  PROVE  TaskCounts(w, i)'
<1>n. PICK p, q, b : p = Item(w, i).part /\ q = Item(w, i).quantity /\ b = Bound(w, i)
  OBVIOUS
<1>0. ReserveTyped
  BY DEF SharedTypeInv
<1>1. /\ ReserveTyped /\ p \in Part /\ q \in Nat \ {0} /\ task[w][i] \in Task
      /\ Item(w, i) = request[w].items[i] /\ stock[p] \in CountedRow /\ TaskCounts(w, i)
  BY <1>n, TaskIsKnown DEF SharedTypeInv, TablesTyped, Counts
<1>2. UNCHANGED <<request, stock>>
  BY DEF TaskStep, FindReservation, FindPart, ReloadPart, UpdatePart, InsertReservation, Break, tables
<1>3. b \in Int /\ Bound(w, i)' = b
  BY <1>n, <1>2, BoundStays
<1>4. b <= stock[p].reserved + q
  <2>1. Promised(p) \in Int /\ Promised(p) <= stock[p].reserved /\ stock[p].reserved \in Nat
    BY <1>1, PromisedIsInteger DEF Counts, CountedRow
  <2> PICK a : a = Promised(p)
    OBVIOUS
  <2>2. b = a + q \/ b = a + 0
    BY <1>n, <1>1 DEF Bound
  <2> PICK s : s = stock[p].reserved
    OBVIOUS
  <2>3. a \in Int /\ s \in Int /\ a <= s /\ q \in Nat
    <3>1. q \in Nat
      BY <1>1
    <3> QED
      BY <2>1, <3>1
  <2>4. b <= s + q
    BY <2>2, <2>3
  <2> QED
    BY <2>4
<1>5. ASSUME NEW t, Set(w, i, t), t.phase \notin {"reload", "update", "insert"}
      PROVE  TaskCounts(w, i)'
  <2>1. task'[w][i] = t
    BY <1>0, <1>5, OneTask
  <2> QED
    BY <1>5, <2>1 DEF TaskCounts
<1>6. ASSUME NEW phase \in {"findPart", "done", "threw"}, Advance(w, i, phase)
      PROVE  TaskCounts(w, i)'
  BY <1>5, <1>6 DEF Advance, Fresh
<1>7. CASE FindReservation(w, i)
  <2>1. Returned(w, i).phase = "done"
    BY <1>1 DEF Returned, Task
  <2>2. \/ Set(w, i, Returned(w, i))
        \/ Advance(w, i, "findPart") \/ Advance(w, i, "threw")
    BY <1>7 DEF FindReservation
  <2> QED
    BY <1>5, <1>6, <2>1, <2>2
<1>8. CASE FindPart(w, i)
  <2>1. CASE Refusal(p, q) = NULL
    <3> PICK t : t = [task[w][i] EXCEPT !.phase = "reload", !.part = Reserved(stock[p], q)]
      OBVIOUS
    <3>1. Set(w, i, t)
      BY <1>n, <1>8, <2>1 DEF FindPart
    <3>2. t.phase = "reload" /\ t.part = Reserved(stock[p], q)
      BY <1>1 DEF Task
    <3>3. t.part.reserved = stock[p].reserved + q
      <4>1. stock[p] \in CountedRow /\ q \in Int
        BY <1>1
      <4>2. Reserved(stock[p], q).reserved = stock[p].reserved + q
        BY <4>1, ReservedMoves
      <4> QED
        BY <3>2, <4>2
    <3>4. task'[w][i] = t
      BY <1>0, <3>1, OneTask
    <3>5. t.part.reserved >= Bound(w, i)'
      BY <1>3, <1>4, <3>3
    <3> QED
      BY <3>2, <3>4, <3>5 DEF TaskCounts
  <2>2. CASE Refusal(p, q) # NULL
    <3> PICK t : t = [task[w][i] EXCEPT !.phase = "insert", !.code = Refusal(p, q)]
      OBVIOUS
    <3>1. Set(w, i, t)
      BY <1>n, <1>8, <2>2 DEF FindPart
    <3>2. t.phase = "insert" /\ t.code # NULL
      BY <1>1, <2>2 DEF Task
    <3>3. task'[w][i] = t
      BY <1>0, <3>1, OneTask
    <3> QED
      BY <3>2, <3>3 DEF TaskCounts
  <2> QED
    BY <2>1, <2>2
<1>9. CASE ReloadPart(w, i)
  <2> PICK t : t = [task[w][i] EXCEPT !.phase = "update", !.loaded = stock[p]]
    OBVIOUS
  <2>1. Set(w, i, t) /\ task[w][i].phase = "reload"
    BY <1>n, <1>9 DEF ReloadPart, At
  <2>2. t.phase = "update" /\ t.loaded = stock[p] /\ t.part = task[w][i].part
    BY <1>1 DEF Task
  <2>3. task'[w][i] = t
    BY <1>0, <2>1, OneTask
  <2>4. t.part.reserved >= b
    BY <1>n, <2>1, <2>2 , <1>1 DEF TaskCounts
  <2>5. request'[w].items[i].part = p /\ stock'[p] = stock[p]
    BY <1>n, <1>1, <1>2
  <2> QED
    BY <1>3, <2>2, <2>3, <2>4, <2>5 DEF TaskCounts
<1>10. CASE InsertReservation(w, i)
  <2>1. CASE RowOf(w, i).status = "ABSENT"
    <3> PICK t : t = [task[w][i] EXCEPT !.phase = "done", !.at = attempts]
      OBVIOUS
    <3>1. Set(w, i, t) /\ t.phase = "done"
      BY <1>1, <1>10, <2>1 DEF InsertReservation, Task
    <3> QED
      BY <1>5, <3>1
  <2>2. CASE RowOf(w, i).status # "ABSENT"
    BY <1>6, <1>10, <2>2 DEF InsertReservation
  <2> QED
    BY <2>1, <2>2
<1>11. CASE Break(w, i)
  BY <1>6, <1>11 DEF Break
<1> QED
  BY <1>7, <1>8, <1>9, <1>10, <1>11 DEF TaskStep

LEMMA TaskStepCounts ==
  ASSUME SharedTypeInv, SharedTypeInv', BalanceInv, ItemsAgree, Counts, NEW w \in Worker,
         NEW i \in DOMAIN task[w], TaskStep(w, i), UNCHANGED operatorVars
  PROVE  /\ \A p \in Part : Promised(p)' <= stock'[p].reserved
         /\ \A j \in DOMAIN task[w] : TaskCounts(w, j)'
<1>1. CASE UpdatePart(w, i)
  BY <1>1, UpdateCounts
<1>2. CASE InsertReservation(w, i) /\ RowOf(w, i).status = "ABSENT"
  BY <1>2, InsertCounts
<1>3. CASE ~UpdatePart(w, i) /\ ~(InsertReservation(w, i) /\ RowOf(w, i).status = "ABSENT")
  <2>1. UNCHANGED <<tables, request>>
    BY <1>3 DEF TaskStep, FindReservation, FindPart, ReloadPart, InsertReservation, Break, tables
  <2>2. \A p \in Part : Promised(p)' = Promised(p)
    BY <2>1, BoundStays
  <2>3. \A j \in DOMAIN task[w] : Bound(w, j)' = Bound(w, j) /\ Bound(w, j) \in Int
    BY <2>1, BoundStays
  <2>4. TaskCounts(w, i)'
    BY <1>3, <2>1, ReadCounts
  <2>5. PICK t : Set(w, i, t)
    BY DEF TaskStep, FindReservation, FindPart, ReloadPart, UpdatePart, InsertReservation, Break,
       Advance
  <2>6. \A j \in DOMAIN task[w] \ {i} : TaskCounts(w, j)'
    <3> TAKE j \in DOMAIN task[w] \ {i}
    <3>1. task'[w][j] = task[w][j] /\ TaskCounts(w, j)
      BY <2>5, OneTask DEF SharedTypeInv, Counts
    <3> PICK b : b = Bound(w, j)
      OBVIOUS
    <3>2. b \in Int /\ Bound(w, j)' = b /\ b <= b
      BY <2>3
    <3> QED
      BY <2>1, <3>1, <3>2, TaskStaysCounted DEF tables
  <2>7. \A p \in Part : Promised(p)' <= stock'[p].reserved
    BY <2>1, <2>2 DEF Counts, tables
  <2> QED
    BY <2>4, <2>6, <2>7
<1> QED
  BY <1>1, <1>2, <1>3

LEMMA ReserveStepCounts ==
  ASSUME SharedTypeInv, SharedTypeInv', BalanceInv, BalanceInv', ItemsAgree, Counts, calm, calm',
         NEW w \in Worker, ReserveStep(w)
  PROVE  Counts'
<1>0. UNCHANGED <<operatorVars, releaseVars>> /\ ReserveTyped
  BY ReserveStepIs DEF SharedTypeInv
<1>1. \A u \in Worker \ {w} : task'[u] = task[u]
  <2>1. CASE RequestStep(w)
    BY <2>1, RequestStepBalances
  <2>2. ASSUME NEW i \in DOMAIN task[w], TaskStep(w, i)
        PROVE  \A u \in Worker \ {w} : task'[u] = task[u]
    <3>1. PICK t : Set(w, i, t)
      BY <2>2 DEF TaskStep, FindReservation, FindPart, ReloadPart, UpdatePart, InsertReservation, Break,
         Advance
    <3> QED
      BY <1>0, <3>1, OneTask
  <2> QED
    BY <2>1, <2>2, ReserveStepIs
<1>2. request[w] # NULL \/ request'[w] # NULL
  <2>1. CASE \E r \in Request : Begin(w, r)
    BY <1>0, <2>1, NullAssumption DEF Begin, ReserveTyped
  <2>2. CASE Answer(w) \/ Abort(w)
    BY <2>2 DEF Answer, Abort
  <2>3. CASE \E i \in DOMAIN task[w] : TaskStep(w, i)
    BY <1>0, <2>3, TaskIsKnown
  <2> QED
    BY <2>1, <2>2, <2>3, ReserveStepIs DEF RequestStep
<1>3. /\ \A u \in Worker \ {w} : DOMAIN task'[u] = {}
      /\ \A v \in Releaser : pc[v] = "idle" /\ DOMAIN write[v] = {}
  <2>1. CASE request[w] # NULL
    BY <1>1, <2>1, DeliveryIsAlone
  <2>2. CASE request'[w] # NULL
    <3>1. /\ \A u \in Worker \ {w} : DOMAIN task'[u] = {}
          /\ \A v \in Releaser : pc'[v] = "idle" /\ DOMAIN write'[v] = {}
      <4>1. OneAtATime'
        BY DEF BalanceInv, NoClash
      <4>2. \A u \in Worker \ {w} : request'[u] = NULL
        BY <2>2, <4>1 DEF OneAtATime, Busy
      <4>3. \A v \in Releaser : pc'[v] = "idle"
        BY <2>2, <4>1, ActorAssumption DEF OneAtATime, Busy
      <4>4. \A u \in Worker \ {w} : DOMAIN task'[u] = {}
        BY <4>2 DEF SharedTypeInv, ReserveTyped
      <4>5. \A v \in Releaser : DOMAIN write'[v] = {}
        BY <4>3 DEF SharedTypeInv, ReleaseTyped, WorkIsKnown, IsInTransaction
      <4> QED
        BY <4>3, <4>4, <4>5
    <3> QED
      BY <1>0, <3>1 DEF releaseVars
  <2> QED
    BY <1>2, <2>1, <2>2
<1>4. /\ \A p \in Part : Promised(p)' <= stock'[p].reserved
      /\ \A i \in DOMAIN task'[w] : TaskCounts(w, i)'
  <2>1. CASE RequestStep(w)
    <3>1. UNCHANGED <<tables, byHand>>
      BY <1>0, <2>1 DEF RequestStep, Begin, Answer, Abort, operatorVars
    <3>2. \A p \in Part : Promised(p)' <= stock'[p].reserved
      BY <3>1 DEF Counts, Promised, ReservedQuantity, QuantityIn, tables
    <3>3. \A i \in DOMAIN task'[w] : task'[w][i].phase = "find"
      <4>1. CASE \E r \in Request : Begin(w, r)
        BY <1>0, <4>1 DEF Begin, Fresh, ReserveTyped
      <4>2. CASE Answer(w) \/ Abort(w)
        BY <1>0, <4>2 DEF Answer, Abort, Finish, ReserveTyped
      <4> QED
        BY <2>1, <4>1, <4>2 DEF RequestStep
    <3> QED
      BY <3>2, <3>3 DEF TaskCounts
  <2>2. ASSUME NEW i \in DOMAIN task[w], TaskStep(w, i)
        PROVE  /\ \A p \in Part : Promised(p)' <= stock'[p].reserved
               /\ \A j \in DOMAIN task'[w] : TaskCounts(w, j)'
    <3>1. PICK t : Set(w, i, t)
      BY <2>2 DEF TaskStep, FindReservation, FindPart, ReloadPart, UpdatePart, InsertReservation, Break,
         Advance
    <3>2. DOMAIN task'[w] = DOMAIN task[w]
      BY <1>0, <3>1, OneTask
    <3> QED
      BY <1>0, <2>2, <3>2, TaskStepCounts
  <2> QED
    BY <2>1, <2>2, ReserveStepIs
<1>5. \A v \in Releaser : ReleaseCounts(v)'
  BY <1>0, <1>3, IdleCounts DEF releaseVars
<1> QED
  BY <1>1, <1>3, <1>4, <1>5 DEF Counts

-----------------------------------------------------------------------------
(* A step of a release.                                                    *)

LEMMA SameReleaseCounts ==
  ASSUME NEW v \in Releaser, ReleaseCounts(v), UNCHANGED tables,
         UNCHANGED <<pc[v], releaseRequest[v], snapshot[v], verdict[v], write[v]>>
  PROVE  ReleaseCounts(v)'
<1>1. UNCHANGED <<stock, reservation, Release!Item(v), IsInTransaction(v)>>
  BY DEF tables, Release!Item, Release!ToDo, IsInTransaction
<1>2. \A p : HasRow(v, p)' <=> HasRow(v, p)
  BY <1>1 DEF HasRow
<1> QED
  BY <1>1, <1>2 DEF ReleaseCounts

LEMMA FoundHasRow ==
  ASSUME SharedTypeInv, NEW v \in Releaser, ReleaseStep(v), pc'[v] = "lockPart"
  PROVE  HasRow(v, Release!Item(v))'
<1>0. ReleaseTyped /\ TablesTyped /\ DOMAIN pc = Releaser
  BY DEF SharedTypeInv, ReleaseTyped
<1>1. Release!LockReservation(v)
  <2>1. ~Release!LockPart(v)
    BY <1>0 DEF Release!LockPart, Release!Judge, Release!Goto
  <2>2. ~(\E r \in ReleaseRequest : Release!Begin(v, r))
    <3> SUFFICES ASSUME NEW r \in ReleaseRequest, Release!Begin(v, r) PROVE FALSE
      OBVIOUS
    <3> QED
      BY <1>0 DEF Release!Begin, Release!Goto
  <2>3. ~Release!InsertOperation(v) /\ ~Release!Recover(v) /\ ~Release!Commit(v)
    BY <1>0 DEF Release!InsertOperation, Release!Recover, Release!Commit, Release!Goto, Release!Finish
  <2>4. ~Release!Publish(v) /\ ~Release!Abort(v)
    BY <1>0 DEF Release!Publish, Release!Abort, Release!Goto, Release!Finish
  <2> QED
    BY <2>1, <2>2, <2>3, <2>4 DEF ReleaseStep, Release!Step
<1>2. /\ releaseRequest[v] \in ReleaseRequest /\ Release!ToDo(v) # {}
      /\ UNCHANGED <<stock, reservation, releaseRequest>>
  BY <1>0, <1>1 DEF Release!LockReservation, Release!tables, ReleaseTyped, WorkIsKnown
<1> PICK p, o : p = Release!Item(v) /\ o = releaseRequest[v].order
  OBVIOUS
<1> PICK q, x : /\ q = releaseRequest[v].items[p]
                /\ x = Release!ReservationVerdict(reservation[o][p], q, releaseRequest[v].id)
  OBVIOUS
<1>3. p \in Part /\ o \in Order /\ reservation[o][p].status \in ReservationStatus
  BY <1>0, <1>2, ReleaseItem, ReleaseIsAsked DEF TablesTyped, ReservationRow
<1>4. x = NULL /\ UNCHANGED verdict
  <2>1. IF x = NULL THEN Release!Goto(v, "lockPart") /\ UNCHANGED verdict ELSE Release!Judge(v, x)
    BY <1>1 DEF Release!LockReservation
  <2>2. ~Release!Judge(v, x)
    BY <1>0 DEF Release!Judge, Release!Goto
  <2> QED
    BY <2>1, <2>2
<1>5. reservation[o][p].status = "RESERVED" /\ reservation[o][p].quantity = q
  BY <1>3, <1>4, NoReleaseAssumption
     DEF Release!ReservationVerdict, Release!Verdict, ReservationStatus
<1>6. Release!Item(v)' = p
  BY <1>2, <1>4 DEF Release!Item, Release!ToDo
<1> QED
  BY <1>2, <1>5, <1>6 DEF HasRow

LEMMA ReturnedCounts ==
  ASSUME TablesTyped, NEW v \in Releaser, NEW p \in Part, snapshot[v].stock = stock,
         releaseRequest[v].items[p] \in Nat
  PROVE  Release!Returned(v, p).reserved = stock[p].reserved - releaseRequest[v].items[p]
<1> PICK q, old : q = releaseRequest[v].items[p] /\ old = stock[p]
  OBVIOUS
<1> DEFINE entityRow == [old EXCEPT !.available = @ + q, !.reserved = @ - q]
<1>1. old \in CountedRow /\ q \in Nat
  BY DEF TablesTyped
<1>2. entityRow.reserved = old.reserved - q
  BY <1>1 DEF CountedRow
<1>3. Release!Returned(v, p) = SaveColumns(old, old, entityRow)
  BY DEF Release!Returned, Release!SaveColumns, SaveColumns
<1> HIDE DEF entityRow
<1> QED
  BY <1>1, <1>2, <1>3 DEF SaveColumns, CountedRow

LEMMA CommitCounts ==
  ASSUME SharedTypeInv, SharedTypeInv', Counts, NEW v \in Releaser, Release!Commit(v),
         UNCHANGED operatorVars
  PROVE  \A p \in Part : Promised(p)' <= stock'[p].reserved
<1>0. /\ TablesTyped /\ TablesTyped' /\ ReleaseTyped /\ ReleaseCounts(v)
      /\ byHand \in [Part -> [units : Int, reserved : Int]] /\ UNCHANGED byHand
  BY DEF SharedTypeInv, Counts, OperatorTyped, operatorVars
<1> TAKE p \in Part
<1> PICK o, c : o = releaseRequest[v].order /\ c = releaseRequest[v].id
  OBVIOUS
<1>1. /\ o \in Order /\ DOMAIN write[v] \subseteq Part
      /\ reservation \in [Order -> [Part -> ReservationRow(ReleaseCommand)]]
      /\ stock'[p] = IF p \in DOMAIN write[v] THEN write[v][p] ELSE stock[p]
      /\ reservation' = [reservation EXCEPT ![o] =
           [r \in Part |-> IF r \in DOMAIN write[v]
                             THEN [@[r] EXCEPT !.status = "RELEASED", !.releasedBy = {c}]
                             ELSE @[r]]]
  <2>1. o \in Order
    <3>1. pc[v] = "commit"
      BY DEF Release!Commit
    <3>2. releaseRequest[v] \in ReleaseRequest
      BY <1>0, <3>1 DEF ReleaseTyped, WorkIsKnown
    <3> QED
      BY <3>2, ReleaseIsAsked
  <2>2. DOMAIN write[v] \subseteq Part
    BY <1>0 DEF ReleaseTyped, IsPartMap
  <2>3. reservation \in [Order -> [Part -> ReservationRow(ReleaseCommand)]]
    BY <1>0 DEF TablesTyped
  <2>4. stock'[p] = IF p \in DOMAIN write[v] THEN write[v][p] ELSE stock[p]
    BY DEF Release!Commit
  <2>5. reservation' = [reservation EXCEPT ![o] =
          [r \in Part |-> IF r \in DOMAIN write[v]
                            THEN [@[r] EXCEPT !.status = "RELEASED", !.releasedBy = {c}]
                            ELSE @[r]]]
    BY DEF Release!Commit
  <2> QED
    BY <2>1, <2>2, <2>3, <2>4, <2>5
<1>2. /\ \A x \in Order \ {o} : reservation'[x][p] = reservation[x][p]
      /\ p \notin DOMAIN write[v] => reservation'[o][p] = reservation[o][p]
      /\ p \in DOMAIN write[v] => reservation'[o][p].status = "RELEASED"
  <2>1. reservation[o][p] \in ReservationRow(ReleaseCommand)
    BY <1>1
  <2> QED
    BY <1>1, <2>1 DEF ReservationRow
<1>3. Promised(p) <= stock[p].reserved /\ Promised(p) \in Int /\ ReservedQuantity(p) \in Int
  BY PromisedIsInteger DEF Counts
<1>4. CASE p \notin DOMAIN write[v]
  <2>1. ReservedQuantity(p)' = ReservedQuantity(p)
    BY <1>2, <1>4, RowsKept
  <2> QED
    BY <1>0, <1>1, <1>3, <1>4, <2>1 DEF Promised
<1>5. CASE p \in DOMAIN write[v]
  <2> PICK q : q = releaseRequest[v].items[p]
    OBVIOUS
  <2>1. /\ reservation[o][p].status = "RESERVED" /\ reservation[o][p].quantity = q
        /\ stock'[p].reserved = stock[p].reserved - q
    BY <1>0, <1>1, <1>5 DEF ReleaseCounts, HasRow
  <2>2. HeldBy(reservation[o][p]) = q /\ HeldBy(reservation'[o][p]) = 0
    BY <1>2, <1>5, <2>1 DEF HeldBy
  <2>3. ReservedQuantity(p)' = ReservedQuantity(p) + 0 - q
    <3>1. ReservedQuantity(p)' =
            ReservedQuantity(p) + HeldBy(reservation'[o][p]) - HeldBy(reservation[o][p])
      BY <1>0, <1>1, <1>2, OneRowCounts
    <3> QED
      BY <2>2, <3>1
  <2>4. q \in Int /\ stock[p].reserved \in Int
    <3>1. reservation[o][p] \in ReservationRow(ReleaseCommand)
      BY <1>1
    <3>2. stock[p] \in CountedRow
      BY <1>0 DEF TablesTyped
    <3> QED
      BY <2>1, <3>1, <3>2 DEF ReservationRow, CountedRow
  <2>5. Promised(p)' = Promised(p) - q
    BY <1>0, <1>3, <2>3, <2>4 DEF Promised
  <2> QED
    BY <1>3, <2>1, <2>4, <2>5
<1> QED
  BY <1>4, <1>5

LEMMA ReleaseStepKeepsCounts ==
  ASSUME SharedTypeInv, Counts, NEW v \in Releaser, ReleaseStep(v)
  PROVE  ~Release!Commit(v) => UNCHANGED tables /\ ReleaseCounts(v)'
<1>0. /\ ReleaseTyped /\ TablesTyped /\ ReleaseCounts(v) /\ DOMAIN pc = Releaser
  BY DEF SharedTypeInv, Counts, ReleaseTyped
<1>1. pc'[v] = "lockPart" => HasRow(v, Release!Item(v))'
  BY FoundHasRow
<1>2. ASSUME UNCHANGED tables, IsOver(v)' PROVE UNCHANGED tables /\ ReleaseCounts(v)'
  BY <1>2 DEF IsOver, ReleaseCounts, IsInTransaction
<1>3. ASSUME UNCHANGED tables, pc'[v] = "insert", DOMAIN write'[v] = {}, snapshot'[v].stock = stock
      PROVE  UNCHANGED tables /\ ReleaseCounts(v)'
  BY <1>3 DEF ReleaseCounts, tables
<1>4. ASSUME UNCHANGED tables, pc[v] = "insert" \/ IsInTransaction(v),
             UNCHANGED <<snapshot[v], write[v], releaseRequest[v]>>
      PROVE  UNCHANGED tables /\ ReleaseCounts(v)'
  <2>1. UNCHANGED <<stock, reservation>> /\ snapshot[v].stock = stock
    BY <1>0, <1>4 DEF tables, ReleaseCounts
  <2>2. \A p \in DOMAIN write[v] :
          HasRow(v, p)' /\ write[v][p].reserved = stock[p].reserved - releaseRequest[v].items[p]
    BY <1>0, <1>4, <2>1 DEF ReleaseCounts, HasRow
  <2> QED
    BY <1>1, <1>4, <2>1, <2>2 DEF ReleaseCounts
<1>5. ASSUME Release!LockPart(v), UNCHANGED tables,
             UNCHANGED <<snapshot[v], releaseRequest[v]>>,
             write'[v] = Release!Extend(write[v], Release!Item(v),
                                        Release!Returned(v, Release!Item(v)))
      PROVE  UNCHANGED tables /\ ReleaseCounts(v)'
  <2> PICK p : p = Release!Item(v)
    OBVIOUS
  <2>1. /\ pc[v] = "lockPart" /\ IsInTransaction(v) /\ UNCHANGED <<stock, reservation>>
        /\ releaseRequest[v] \in ReleaseRequest /\ Release!ToDo(v) # {}
    BY <1>0, <1>5 DEF Release!LockPart, tables, IsInTransaction, ReleaseTyped, WorkIsKnown
  <2>2. p \in Part /\ releaseRequest[v].items[p] \in Nat
    BY <2>1, ReleaseItem
  <2>3. HasRow(v, p) /\ snapshot[v].stock = stock
    BY <1>0, <2>1 DEF ReleaseCounts
  <2>4. Release!Returned(v, p).reserved = stock[p].reserved - releaseRequest[v].items[p]
    BY <1>0, <2>2, <2>3, ReturnedCounts
  <2>5. /\ DOMAIN write'[v] = DOMAIN write[v] \cup {p}
        /\ write'[v][p] = Release!Returned(v, p)
        /\ \A r \in DOMAIN write[v] \ {p} : write'[v][r] = write[v][r]
    BY <1>5 DEF Release!Extend
  <2>6. \A r \in DOMAIN write'[v] :
          /\ HasRow(v, r)
          /\ write'[v][r].reserved = stock[r].reserved - releaseRequest[v].items[r]
    <3> HIDE DEF IsInTransaction
    <3> QED
      BY <1>0, <2>3, <2>4, <2>5 DEF ReleaseCounts
  <2>7. \A r \in DOMAIN write'[v] :
          /\ HasRow(v, r)'
          /\ write'[v][r].reserved = stock'[r].reserved - releaseRequest'[v].items[r]
    BY <1>5, <2>1, <2>6 DEF HasRow
  <2> QED
    BY <1>1, <1>5, <2>1, <2>3, <2>7 DEF ReleaseCounts
<1> QED
  BY <1>0, <1>2, <1>3, <1>4, <1>5, ReleaseStepCases

LEMMA ReleaseStepCounts ==
  ASSUME SharedTypeInv, SharedTypeInv', BalanceInv, Counts, calm, NEW v \in Releaser, ReleaseStep(v)
  PROVE  Counts'
<1>0. UNCHANGED <<reserveVars, operatorVars>> /\ ReleaseTyped /\ TablesTyped
  BY DEF ReleaseStep, SharedTypeInv
<1>1. CASE Release!Commit(v)
  <2>1. pc[v] # "idle"
    BY <1>1 DEF Release!Commit
  <2>2. /\ \A w \in Worker : DOMAIN task[w] = {}
        /\ \A u \in Releaser \ {v} : pc[u] = "idle" /\ DOMAIN write[u] = {}
    BY <2>1, ReleaseIsAlone
  <2>3. \A u \in Releaser \ {v} : ReleaseCounts(u)'
    BY <1>0, <2>2, OthersInFlight DEF ReleaseCounts, IsInTransaction
  <2>4. ReleaseCounts(v)'
    <3>1. pc'[v] = "publish"
      BY <1>0, <1>1 DEF Release!Commit, Release!Goto, ReleaseTyped
    <3>2. DOMAIN write'[v] = {}
      BY <3>1 DEF SharedTypeInv, ReleaseTyped, WorkIsKnown, IsInTransaction
    <3> QED
      BY <3>1, <3>2 DEF ReleaseCounts, IsInTransaction
  <2>5. \A w \in Worker : \A i \in DOMAIN task'[w] : TaskCounts(w, i)'
    BY <1>0, <2>2 DEF reserveVars
  <2> QED
    BY <1>0, <1>1, <2>3, <2>4, <2>5, CommitCounts DEF Counts
<1>2. CASE ~Release!Commit(v)
  <2>1. UNCHANGED tables /\ ReleaseCounts(v)'
    BY <1>2, ReleaseStepKeepsCounts
  <2>2. \A u \in Releaser \ {v} : ReleaseCounts(u)'
    BY <1>0, <2>1, OthersInFlight, SameReleaseCounts DEF Counts
  <2>3. UNCHANGED <<request, task, stock>>
    BY <1>0, <2>1 DEF reserveVars, tables
  <2>4. \A w \in Worker : \A i \in DOMAIN task'[w] : TaskCounts(w, i)'
    <3> SUFFICES ASSUME NEW w \in Worker, NEW i \in DOMAIN task[w] PROVE TaskCounts(w, i)'
      BY <2>3
    <3> PICK b : b = Bound(w, i)
      OBVIOUS
    <3>1. b \in Int /\ Bound(w, i)' = b /\ b <= b
      BY <1>0, <2>1, <2>3, BoundStays
    <3> QED
      BY <2>3, <3>1, TaskStaysCounted DEF Counts
  <2>5. \A p \in Part : Promised(p)' <= stock'[p].reserved
    BY <1>0, <2>1, <2>3, BoundStays DEF Counts
  <2> QED
    BY <2>1, <2>2, <2>4, <2>5 DEF Counts
<1> QED
  BY <1>1, <1>2

-----------------------------------------------------------------------------
(* A step of an operator, who is alone.                                    *)

LEMMA OperatorStepCounts ==
  ASSUME SharedTypeInv, SharedTypeInv', BalanceInv, BalanceInv', Counts, calm, calm',
         NEW o \in Operator, OperatorStep(o)
  PROVE  Counts'
<1>0. /\ UNCHANGED <<reservation, reserveVars, releaseVars>> /\ ReserveTyped /\ ReleaseTyped
      /\ OperatorTyped
  BY OperatorStepTyped DEF SharedTypeInv
<1>1. \A p \in Part : UNCHANGED <<stock[p], byHand[p], code[p]>> \/ SavesPart(p)
  <2>1. OperatorSaves(o) /\ clashed = {}
    BY OperatorStepMoves DEF BalanceInv, NoClash
  <2> QED
    BY <2>1 DEF OperatorSaves, OnlyPart
<1>2. (\A w \in Worker : request[w] = NULL) /\ \A v \in Releaser : pc[v] = "idle"
  <2>1. CASE Ask(o)
    <3>1. PICK c : c # NULL /\ command' = [command EXCEPT ![o] = c]
      BY <2>1, CommandIsAsked, CreationIsAsked DEF Ask, StartCommand, StartCreation
    <3>2. command'[o] # NULL /\ UNCHANGED <<request, pc>>
      BY <1>0, <3>1 DEF OperatorTyped, reserveVars, releaseVars
    <3>3. OneAtATime'
      BY DEF BalanceInv, NoClash
    <3> QED
      BY <3>2, <3>3, ActorAssumption DEF OneAtATime, Busy
  <2>2. CASE ~Ask(o)
    <3>1. command[o] # NULL
      BY <1>0, <2>2 DEF OperatorStep, ReloadForCommand, UpdateForCommand, InsertPart, CommandEnds,
         Creates, OperatorTyped, CommandIsCounted
    <3>2. OneAtATime
      BY DEF BalanceInv, NoClash
    <3> QED
      BY <3>1, <3>2, ActorAssumption DEF OneAtATime, Busy
  <2> QED
    BY <2>1, <2>2
<1>3. /\ \A w \in Worker : DOMAIN task[w] = {}
      /\ \A v \in Releaser : pc[v] = "idle" /\ DOMAIN write[v] = {}
  <2>1. \A w \in Worker : task[w] = <<>>
    BY <1>0, <1>2 DEF ReserveTyped
  <2>2. \A v \in Releaser : DOMAIN write[v] = {}
    BY <1>0, <1>2 DEF ReleaseTyped, WorkIsKnown, IsInTransaction
  <2> QED
    BY <1>2, <2>1, <2>2
<1>4. /\ \A w \in Worker : \A i \in DOMAIN task'[w] : TaskCounts(w, i)'
      /\ \A v \in Releaser : ReleaseCounts(v)'
  BY <1>0, <1>3, IdleCounts DEF reserveVars, releaseVars
<1>5. \A p \in Part : ReservedQuantity(p)' = ReservedQuantity(p) /\ ReservedQuantity(p) \in Int
  BY <1>0, RowsKept, PromisedIsInteger
<1>6. \A p \in Part : Promised(p)' <= stock'[p].reserved
  <2> TAKE p \in Part
  <2>1. Promised(p) <= stock[p].reserved
    BY DEF Counts
  <2>2. CASE UNCHANGED <<stock[p], byHand[p]>>
    BY <1>5, <2>1, <2>2 DEF Promised
  <2>3. CASE SavesPart(p)
    <3> PICK a, b, c, d : /\ a = byHand[p].reserved /\ b = byHand'[p].reserved
                          /\ c = stock[p].reserved /\ d = stock'[p].reserved
      OBVIOUS
    <3>1. a \in Int /\ b \in Int /\ c \in Int /\ d = c + (b - a)
      <4>1. byHand[p] \in [units : Int, reserved : Int] /\ byHand'[p] \in [units : Int, reserved : Int]
        BY DEF SharedTypeInv, OperatorTyped
      <4>2. stock[p] \in CountedRow
        BY DEF SharedTypeInv, TablesTyped
      <4> QED
        BY <2>3, <4>1, <4>2 DEF SavesPart, CountedRow
    <3>2. /\ Promised(p) = ReservedQuantity(p) + a /\ Promised(p)' = ReservedQuantity(p) + b
          /\ ReservedQuantity(p) \in Int
      BY <1>5 DEF Promised
    <3> QED
      BY <2>1, <3>1, <3>2
  <2> QED
    BY <1>1, <2>2, <2>3
<1> QED
  BY <1>4, <1>6 DEF Counts

-----------------------------------------------------------------------------
(* Every step.                                                             *)

LEMMA StepKeepsCountedInv ==
  ASSUME ItemsAgree, SharedTypeInv, SharedTypeInv', BalanceInv, BalanceInv', CountedInv,
         [SharedNext]_sharedVars
  PROVE  CountedInv'
<1> SUFFICES ASSUME calm' PROVE Counts'
  BY DEF CountedInv
<1>1. CASE UNCHANGED sharedVars
  <2>1. /\ UNCHANGED <<tables, operatorVars, request, task, pc, releaseRequest, snapshot, verdict, write>>
        /\ UNCHANGED <<stock, calm>>
    BY <1>1 DEF sharedVars, tables, reserveVars, releaseVars
  <2>2. Counts
    BY <2>1 DEF CountedInv
  <2>3. \A v \in Releaser : ReleaseCounts(v)'
    BY <2>1, <2>2, SameReleaseCounts DEF Counts
  <2>4. \A w \in Worker : \A i \in DOMAIN task'[w] : TaskCounts(w, i)'
    <3> SUFFICES ASSUME NEW w \in Worker, NEW i \in DOMAIN task[w] PROVE TaskCounts(w, i)'
      BY <2>1
    <3> PICK b : b = Bound(w, i)
      OBVIOUS
    <3>1. b \in Int /\ Bound(w, i)' = b /\ b <= b
      BY <2>1, BoundStays
    <3> QED
      BY <2>1, <2>2, <3>1, TaskStaysCounted DEF Counts
  <2>5. \A p \in Part : Promised(p)' <= stock'[p].reserved
    BY <2>1, <2>2, BoundStays DEF Counts
  <2> QED
    BY <2>3, <2>4, <2>5 DEF Counts
<1>2. CASE SharedNext
  <2>1. calm /\ Counts
    BY <1>2 DEF SharedNext, CountedInv
  <2> QED
    BY <1>2, <2>1, ReserveStepCounts, OperatorStepCounts, ReleaseStepCounts DEF SharedNext
<1> QED
  BY <1>1, <1>2

LEMMA InitEstablishesCountedInv == SharedInit => CountedInv
<1> SUFFICES ASSUME SharedInit PROVE Counts
  BY DEF CountedInv
<1>1. /\ \A w \in Worker : task[w] = <<>>
      /\ \A v \in Releaser : pc[v] = "idle" /\ write[v] = <<>>
      /\ byHand = [p \in Part |-> [units |-> 0, reserved |-> 0]]
      /\ reservation = [o \in Order |-> [p \in Part |->
                          [status |-> "ABSENT", quantity |-> 0, releasedBy |-> {}]]]
      /\ \A p \in Part : stock[p].reserved = 0
  BY DEF SharedInit, PartInit, Init, Release!WorkersInit
<1>2. \A p \in Part : ReservedQuantity(p) = 0
  <2> TAKE p \in Part
  <2> DEFINE f == [o \in Order |-> reservation[o][p].quantity]
             S == {o \in Order : reservation[o][p].status = "RESERVED"}
  <2>1. S = {}
    BY <1>1
  <2>2. ReservedQuantity(p) = SumFunctionOnSet(f, S)
    BY DEF ReservedQuantity, QuantityIn
  <2> HIDE DEF f, S
  <2> QED
    BY <2>1, <2>2, SumOfNone
<1>3. \A p \in Part : Promised(p) <= stock[p].reserved
  BY <1>1, <1>2 DEF Promised
<1> QED
  BY <1>1, <1>3 DEF Counts, ReleaseCounts, IsInTransaction

(* While no two requests overlap, and if the items of a message agree,     *)
(* every row, task and transaction is counted in what its part sets aside. *)
THEOREM CountedInvariant == ItemsAgree => (SharedSpec => []CountedInv)
<1> SUFFICES ASSUME ItemsAgree PROVE SharedSpec => []CountedInv
  OBVIOUS
<1>1. SharedTypeInv /\ SharedTypeInv' /\ BalanceInv /\ BalanceInv' /\ CountedInv
        /\ [SharedNext]_sharedVars => CountedInv'
  BY StepKeepsCountedInv
<1>2. OverlapInv => SharedTypeInv
  BY DEF OverlapInv
<1> QED
  BY <1>1, <1>2, InitEstablishesCountedInv, BalanceInvariant, OverlapInvariant, PTL DEF SharedSpec

(* As long as no two requests overlap, the RESERVED rows of a part and     *)
(* what operators reserved are units that the part has set aside: the part *)
(* is saved before its reservation is inserted (reserveStock), and both    *)
(* go back in one transaction (executeTransaction), whatever crashes.      *)
THEOREM OrdersStayCounted == ItemsAgree => (SharedSpec => []OrdersAreCounted)
<1> SUFFICES ASSUME ItemsAgree PROVE SharedSpec => []OrdersAreCounted
  OBVIOUS
<1>1. CountedInv => OrdersAreCounted
  BY DEF CountedInv, Counts, Promised, OrdersAreCounted
<1>2. SharedSpec => []CountedInv
  BY CountedInvariant
<1> QED
  BY <1>1, <1>2, PTL

-----------------------------------------------------------------------------
(* The row locks, however requests overlap: what a transaction has read    *)
(* under a lock stays as it was until the transaction ends.                *)

KeyLock(v, p) == <<"reservation", <<releaseRequest[v].order, p>>>>
PartLock(p) == <<"part", p>>

Matches(v, p) ==
  /\ reservation[releaseRequest[v].order][p].status = "RESERVED"
  /\ reservation[releaseRequest[v].order][p].quantity = releaseRequest[v].items[p]

LocksAreExclusive == \A u, v \in Releaser : u # v => held[u] \cap held[v] = {}

(* Where a transaction is, and what it has locked by then.                 *)
TransactionHolds(v) ==
  /\ OwnsCommand(v)
  /\ ~IsInTransaction(v) => held[v] = {}
  /\ pc[v] = "lockPart" => KeyLock(v, Release!Item(v)) \in held[v] /\ Matches(v, Release!Item(v))
  /\ pc[v] = "commit" => Release!ToDo(v) = {}

(* A verdict is true of the rows that it rests on, and they are locked.    *)
IsBacked(v, p) ==
  IF verdict[v][p] = "RELEASED"
    THEN /\ p \in DOMAIN write[v] /\ PartLock(p) \in held[v]
         /\ Matches(v, p) /\ stock[p].reserved >= releaseRequest[v].items[p]
    ELSE /\ p \notin DOMAIN write[v]
         /\ \/ ~Matches(v, p)
            \/ PartLock(p) \in held[v] /\ stock[p].reserved < releaseRequest[v].items[p]

VerdictsHold(v) ==
  /\ DOMAIN write[v] \subseteq DOMAIN verdict[v]
  /\ DOMAIN verdict[v] # {} => DOMAIN verdict[v] \subseteq DOMAIN releaseRequest[v].items
  /\ \A p \in DOMAIN verdict[v] : KeyLock(v, p) \in held[v] /\ IsBacked(v, p)

(* A reservation is released by a command, or by none.                     *)
ReleaserIsKnown ==
  \A o \in Order, p \in Part :
    reservation[o][p].releasedBy # {} => reservation[o][p].status = "RELEASED"

(* What has been published is what is stored.                              *)
ReleasedIsStored ==
  \A e \in released :
    /\ e.command \in ReleaseCommand /\ operation[e.command] # NULL
    /\ e = Release!EnvelopeOf(e.command)

(* What is reserved, moved or locked is a part that is there; one that is  *)
(* being created is not, and is created once.                              *)
TaskHasPart(w, i) ==
  \/ task[w][i].phase \in {"reload", "update"}
  \/ task[w][i].phase = "insert" /\ task[w][i].code = NULL
  => code[request[w].items[i].part] # NULL

CommandHasPart(o) ==
  command[o] # NULL =>
    /\ Creates(o) <=> code[command[o].part] = NULL
    /\ \A u \in Operator : Creates(o) /\ Creates(u) /\ command[o].part = command[u].part => o = u

PartsExist ==
  /\ \A p \in Part : code[p] = NULL => ~stock[p].active
  /\ \A w \in Worker : \A i \in DOMAIN task[w] : TaskHasPart(w, i)
  /\ \A o \in Order, p \in Part : reservation[o][p].status = "RESERVED" => code[p] # NULL
  /\ \A o \in Operator : CommandHasPart(o)
  /\ \A v \in Releaser, p \in Part : PartLock(p) \in held[v] => code[p] # NULL

(* The whole, inductive together with SharedTypeInv.                       *)
LockInv ==
  /\ LocksAreExclusive
  /\ \A v \in Releaser : TransactionHolds(v) /\ VerdictsHold(v)
  /\ ReleaserIsKnown
  /\ ReleasedIsStored
  /\ PartsExist
  /\ ReleasesArePhysical

-----------------------------------------------------------------------------
(* The rows that a transaction has locked.                                 *)

LockedStays(u) ==
  /\ \A p \in Part : KeyLock(u, p) \in held[u] =>
       reservation'[releaseRequest[u].order][p] = reservation[releaseRequest[u].order][p]
  /\ \A p \in Part : PartLock(p) \in held[u] => stock'[p] = stock[p]
  /\ IsInTransaction(u) => operation'[releaseRequest[u].id] = operation[releaseRequest[u].id]

Untouched(u) ==
  UNCHANGED <<pc[u], releaseRequest[u], held[u], verdict[u], write[u]>>

(* While they stay, so does what the transaction knows.                    *)
LEMMA KnownStays ==
  ASSUME SharedTypeInv, NEW u \in Releaser, TransactionHolds(u), VerdictsHold(u),
         LockedStays(u), Untouched(u)
  PROVE  TransactionHolds(u)' /\ VerdictsHold(u)'
<1>0. ReleaseTyped
  BY DEF SharedTypeInv
<1>1. UNCHANGED <<IsInTransaction(u), Release!ToDo(u)>>
  BY DEF Untouched, IsInTransaction, Release!ToDo
<1>2. UNCHANGED Release!Item(u)
  BY <1>1 DEF Release!Item
<1>3. ASSUME NEW p \in Part, KeyLock(u, p) \in held[u]
      PROVE  UNCHANGED <<KeyLock(u, p), Matches(u, p)>>
  <2>1. UNCHANGED releaseRequest[u]
    BY DEF Untouched
  <2>2. reservation'[releaseRequest[u].order][p] = reservation[releaseRequest[u].order][p]
    BY <1>3 DEF LockedStays
  <2> QED
    BY <2>1, <2>2 DEF KeyLock, Matches
<1>4. TransactionHolds(u)'
  <2>1. OwnsCommand(u)'
    BY <1>1 DEF TransactionHolds, OwnsCommand, LockedStays, Untouched
  <2>2. pc[u] = "lockPart" => Release!Item(u) \in Part
    BY <1>0, ReleaseItem DEF ReleaseTyped, WorkIsKnown
  <2> PICK i : i = Release!Item(u)
    OBVIOUS
  <2>3. pc[u] = "lockPart" => KeyLock(u, i)' \in held[u]' /\ Matches(u, i)'
    BY <1>3, <2>2 DEF TransactionHolds, Untouched
  <2>4. Release!Item(u)' = i
    BY <1>2
  <2> QED
    BY <1>1, <2>1, <2>3, <2>4 DEF TransactionHolds, Untouched, KeyLock, Matches
<1>5. VerdictsHold(u)'
  <2>1. /\ DOMAIN write'[u] \subseteq DOMAIN verdict'[u]
        /\ DOMAIN verdict'[u] # {} => DOMAIN verdict'[u] \subseteq DOMAIN releaseRequest'[u].items
    BY DEF VerdictsHold, Untouched
  <2>2. ASSUME NEW p \in DOMAIN verdict[u]
        PROVE  KeyLock(u, p)' \in held[u]' /\ IsBacked(u, p)'
    <3>1. p \in Part
      BY <1>0 DEF ReleaseTyped, IsPartMap
    <3>2. KeyLock(u, p) \in held[u] /\ IsBacked(u, p)
      BY <2>2 DEF VerdictsHold
    <3>3. KeyLock(u, p)' = KeyLock(u, p) /\ Matches(u, p)' = Matches(u, p)
      BY <1>3, <3>1, <3>2
    <3>4. PartLock(p) \in held[u] => stock'[p] = stock[p]
      BY <3>1 DEF LockedStays
    <3>5. IsBacked(u, p)'
      BY <3>2, <3>3, <3>4 DEF IsBacked, Untouched, PartLock
    <3> QED
      BY <3>2, <3>3, <3>5 DEF Untouched
  <2>3. DOMAIN verdict'[u] = DOMAIN verdict[u]
    BY DEF Untouched
  <2> QED
    BY <2>1, <2>2, <2>3 DEF VerdictsHold, IsBacked, KeyLock, Matches
<1> QED
  BY <1>4, <1>5

(* Who has locked nothing of a step's rows is not disturbed by it.         *)
LEMMA OthersKnow ==
  ASSUME SharedTypeInv, LockInv, NEW U \in SUBSET Releaser,
         \A u \in U : LockedStays(u) /\ Untouched(u)
  PROVE  \A u \in U : TransactionHolds(u)' /\ VerdictsHold(u)'
  BY KnownStays DEF LockInv

(* Nobody writes a row that a transaction has locked: a reserve delivery.  *)
LEMMA UpdateTouches ==
  ASSUME SharedTypeInv, NEW w \in Worker, NEW i \in DOMAIN task[w], UpdatePart(w, i)
  PROVE  /\ Item(w, i).part \in Part /\ UNCHANGED reservation
         /\ \A r \in Part : r # Item(w, i).part => stock'[r] = stock[r]
<1> PICK p, row : p = Item(w, i).part /\ row = SaveColumns(stock[p], task[w][i].loaded, task[w][i].part)
  OBVIOUS
<1>1. p \in Part /\ stock' = [stock EXCEPT ![p] = row] /\ UNCHANGED reservation
  BY TaskIsKnown DEF SharedTypeInv, UpdatePart
<1>2. stock \in [Part -> CountedRow]
  BY DEF SharedTypeInv, TablesTyped
<1> QED
  BY <1>1, <1>2

LEMMA InsertTouches ==
  ASSUME SharedTypeInv, NEW w \in Worker, NEW i \in DOMAIN task[w], InsertReservation(w, i)
  PROVE  /\ UNCHANGED stock
         /\ \A o \in Order, p \in Part : \/ reservation'[o][p] = reservation[o][p]
              \/ /\ o = request[w].order /\ p = Item(w, i).part
                 /\ reservation[o][p].status = "ABSENT" /\ task[w][i].phase = "insert"
                 /\ reservation'[o][p] = NewReservation(Item(w, i).quantity, task[w][i].code)
<1> PICK a, b, row : /\ a = request[w].order /\ b = Item(w, i).part
                     /\ row = NewReservation(Item(w, i).quantity, task[w][i].code)
  OBVIOUS
<1>1. a \in Order /\ b \in Part /\ reservation \in [Order -> [Part -> ReservationRow(ReleaseCommand)]]
  BY TaskIsKnown DEF SharedTypeInv, TablesTyped
<1>2. UNCHANGED stock /\ task[w][i].phase = "insert"
  BY DEF InsertReservation, At
<1>3. \/ UNCHANGED reservation
      \/ reservation[a][b].status = "ABSENT" /\ reservation' = [reservation EXCEPT ![a][b] = row]
  BY DEF InsertReservation, RowOf
<1>4. CASE UNCHANGED reservation
  BY <1>2, <1>4
<1>5. CASE reservation[a][b].status = "ABSENT" /\ reservation' = [reservation EXCEPT ![a][b] = row]
  <2>1. \A o \in Order, p \in Part :
          reservation'[o][p] = IF o = a /\ p = b THEN row ELSE reservation[o][p]
    BY <1>1, <1>5
  <2> QED
    BY <1>2, <1>5, <2>1
<1> QED
  BY <1>3, <1>4, <1>5

LEMMA ReserveStepLeavesLocked ==
  ASSUME SharedTypeInv, NEW w \in Worker, ReserveStep(w), NEW u \in Releaser
  PROVE  LockedStays(u) /\ Untouched(u)
<1>1. UNCHANGED releaseVars
  BY DEF ReserveStep
<1>2. Untouched(u) /\ UNCHANGED operation
  BY <1>1 DEF releaseVars, Untouched
<1> SUFFICES LockedStays(u)
  BY <1>2
<1>3. ASSUME UNCHANGED tables PROVE LockedStays(u)
  BY <1>2, <1>3 DEF LockedStays, tables
<1>4. CASE RequestStep(w)
  <2>1. UNCHANGED <<stock, reservation>>
    BY <1>4 DEF RequestStep, Begin, Answer, Abort, tables
  <2> QED
    BY <1>3, <2>1 DEF tables
<1>5. ASSUME NEW i \in DOMAIN task[w], TaskStep(w, i) PROVE LockedStays(u)
  <2>1. CASE FindReservation(w, i) \/ FindPart(w, i) \/ ReloadPart(w, i) \/ Break(w, i)
    BY <1>3, <2>1 DEF FindReservation, FindPart, ReloadPart, Break
  <2>2. CASE PartIsFree(Item(w, i).part) /\ UpdatePart(w, i)
    <3>1. PartLock(Item(w, i).part) \notin held[u]
      BY <2>2 DEF PartIsFree, IsFree, PartLock
    <3> QED
      BY <1>2, <2>2, <3>1, UpdateTouches DEF LockedStays
  <2>3. CASE KeyIsFree(request[w].order, Item(w, i).part) /\ InsertReservation(w, i)
    <3> PICK a, b : a = request[w].order /\ b = Item(w, i).part
      OBVIOUS
    <3>1. <<"reservation", <<a, b>>>> \notin held[u]
      BY <2>3 DEF KeyIsFree, IsFree
    <3>2. ASSUME NEW p \in Part, KeyLock(u, p) \in held[u]
          PROVE  reservation'[releaseRequest[u].order][p] = reservation[releaseRequest[u].order][p]
      <4> PICK o : o = releaseRequest[u].order
        OBVIOUS
      <4>1. o \in Order
        <5>1. held[u] \subseteq Release!RowName
          BY DEF SharedTypeInv, ReleaseTyped
        <5> QED
          BY <3>2, <5>1 DEF KeyLock, Release!RowName
      <4>2. o # a \/ p # b
        BY <3>1, <3>2 DEF KeyLock
      <4> QED
        BY <2>3, <4>1, <4>2, InsertTouches
    <3>3. UNCHANGED stock
      BY <2>3, InsertTouches
    <3> QED
      BY <1>2, <3>2, <3>3 DEF LockedStays
  <2> QED
    BY <1>5, <2>1, <2>2, <2>3 DEF TaskStep
<1> QED
  BY <1>2, <1>4, <1>5, ReserveStepIs

(* An operator: the part that a creation inserts is not there yet.         *)
LEMMA SavedTouches ==
  ASSUME SharedTypeInv, NEW o \in Operator, NEW row, command[o] # NULL, Saved(o, row)
  PROVE  /\ command[o].part \in Part /\ stock'[command[o].part] = row
         /\ \A p \in Part : p # command[o].part => stock'[p] = stock[p]
<1> PICK p : p = command[o].part
  OBVIOUS
<1>1. p \in Part /\ stock \in [Part -> CountedRow] /\ stock' = [stock EXCEPT ![p] = row]
  BY CommandIsKnown DEF SharedTypeInv, TablesTyped, Saved
<1> QED
  BY <1>1

LEMMA OperatorStepLeavesLocked ==
  ASSUME SharedTypeInv, PartsExist, NEW o \in Operator, OperatorStep(o), NEW u \in Releaser
  PROVE  LockedStays(u) /\ Untouched(u)
<1>1. UNCHANGED releaseVars /\ UNCHANGED reservation
  BY OperatorStepTyped DEF SharedTypeInv
<1>2. Untouched(u) /\ UNCHANGED operation
  BY <1>1 DEF releaseVars, Untouched
<1> SUFFICES LockedStays(u)
  BY <1>2
<1>3. ASSUME \A p \in Part : PartLock(p) \in held[u] => stock'[p] = stock[p] PROVE LockedStays(u)
  BY <1>1, <1>2, <1>3 DEF LockedStays
<1>4. CASE Ask(o) \/ ReloadForCommand(o) \/ CommandEnds(o)
  <2>1. UNCHANGED stock
    BY <1>4 DEF Ask, StartCommand, StartCreation, ReloadForCommand, CommandEnds, vars, tables
  <2> QED
    BY <1>3, <2>1
<1>5. CASE (command[o] # NULL => PartIsFree(command[o].part)) /\ UpdateForCommand(o)
  <2>1. command[o] # NULL
    BY <1>5 DEF UpdateForCommand, SharedTypeInv, OperatorTyped, CommandIsCounted
  <2>2. PartLock(command[o].part) \notin held[u]
    BY <1>5, <2>1 DEF PartIsFree, IsFree, PartLock
  <2> QED
    <3>1. PICK row : Saved(o, row)
      BY <1>5 DEF UpdateForCommand
    <3> QED
      BY <1>3, <2>1, <2>2, <3>1, SavedTouches
<1>6. CASE InsertPart(o)
  <2>1. command[o] # NULL /\ code[command[o].part] = NULL
    BY <1>6 DEF InsertPart, Creates, PartsExist, CommandHasPart
  <2>2. PartLock(command[o].part) \notin held[u]
    BY <2>1, CommandIsKnown DEF PartsExist, SharedTypeInv
  <2> QED
    <3>1. CASE UNCHANGED stock
      BY <1>3, <3>1
    <3>2. ASSUME NEW row, Saved(o, row) PROVE LockedStays(u)
      BY <1>3, <2>1, <2>2, <3>2, SavedTouches
    <3> QED
      BY <1>6, <3>1, <3>2 DEF InsertPart
<1> QED
  BY <1>2, <1>4, <1>5, <1>6 DEF OperatorStep

-----------------------------------------------------------------------------
(* The commit decides its command by the rows as they are then: r is its   *)
(* message, and W the parts whose units it gives back.                     *)
Decides(v, r, W) ==
  /\ r \in ReleaseRequest /\ r.id \in ReleaseCommand /\ r.order \in Order
  /\ DOMAIN r.items \subseteq Part /\ W \subseteq DOMAIN r.items
  /\ operation[r.id] = NULL /\ <<"operation", r.id>> \in held[v]
  /\ DOMAIN verdict[v] = DOMAIN r.items
  /\ \A p \in DOMAIN r.items : verdict[v][p] = "RELEASED" <=> p \in W
  /\ \A p \in DOMAIN r.items : IsDue(r, p) <=> p \in W
  /\ \A p \in W : KeyLock(v, p) \in held[v] /\ PartLock(p) \in held[v]

Writes(v, r, W) ==
  /\ operation' = [operation EXCEPT ![r.id] =
       [request |-> r, verdict |-> verdict[v], at |-> occurredAt[v]]]
  /\ \A p \in Part : p \notin W => stock'[p] = stock[p]
  /\ \A o \in Order, p \in Part : reservation'[o][p] =
       IF o = r.order /\ p \in W
         THEN [reservation[o][p] EXCEPT !.status = "RELEASED", !.releasedBy = {r.id}]
         ELSE reservation[o][p]

LEMMA CommitDecides ==
  ASSUME SharedTypeInv, LockInv, NEW v \in Releaser, Release!Commit(v),
         NEW r, r = releaseRequest[v], NEW W, W = DOMAIN write[v]
  PROVE  Decides(v, r, W) /\ Writes(v, r, W)
<1>0. /\ ReleaseTyped /\ TablesTyped /\ pc[v] = "commit"
      /\ TransactionHolds(v) /\ VerdictsHold(v)
  BY DEF SharedTypeInv, LockInv, Release!Commit
<1>1. /\ r \in ReleaseRequest /\ r.id \in ReleaseCommand /\ r.order \in Order
      /\ DOMAIN r.items \subseteq Part /\ DOMAIN r.items # {}
      /\ \A p \in DOMAIN r.items : r.items[p] \in Nat
  BY <1>0, ReleaseIsAsked DEF ReleaseTyped, WorkIsKnown
<1>2. operation[r.id] = NULL /\ <<"operation", r.id>> \in held[v] /\ Release!ToDo(v) = {}
  BY <1>0 DEF TransactionHolds, OwnsCommand, IsInTransaction
<1>3. DOMAIN verdict[v] = DOMAIN r.items
  BY <1>0, <1>1, <1>2 DEF VerdictsHold, Release!ToDo
<1>4. \A p \in DOMAIN r.items : KeyLock(v, p) \in held[v] /\ IsBacked(v, p)
  BY <1>0, <1>3 DEF VerdictsHold
<1>5. \A p \in DOMAIN r.items : verdict[v][p] = "RELEASED" <=> p \in W
  BY <1>4 DEF IsBacked
<1>6. \A p \in DOMAIN r.items : IsDue(r, p) <=> p \in W
  <2> TAKE p \in DOMAIN r.items
  <2>1. stock[p].reserved \in Nat /\ r.items[p] \in Nat
    BY <1>0, <1>1 DEF TablesTyped, CountedRow
  <2>2. IsBacked(v, p) /\ (verdict[v][p] = "RELEASED" <=> p \in W)
    BY <1>4, <1>5
  <2>3. CASE p \in W
    <3>1. Matches(v, p) /\ stock[p].reserved >= r.items[p]
      BY <2>2, <2>3 DEF IsBacked
    <3>2. /\ reservation[r.order][p].status = "RESERVED"
          /\ reservation[r.order][p].quantity = r.items[p]
      BY <3>1 DEF Matches
    <3> QED
      BY <2>3, <3>1, <3>2 DEF IsDue
  <2>4. CASE p \notin W
    <3>1. ~Matches(v, p) \/ stock[p].reserved < r.items[p]
      BY <2>2, <2>4 DEF IsBacked
    <3> QED
      BY <2>1, <2>4, <3>1 DEF Matches, IsDue
  <2> QED
    BY <2>3, <2>4
<1>7. W \subseteq DOMAIN r.items /\ \A p \in W : KeyLock(v, p) \in held[v] /\ PartLock(p) \in held[v]
  <2>1. W \subseteq DOMAIN r.items
    BY <1>0, <1>3 DEF VerdictsHold
  <2> QED
    BY <1>4, <2>1 DEF IsBacked
<1>8. operation' = [operation EXCEPT ![r.id] =
        [request |-> r, verdict |-> verdict[v], at |-> occurredAt[v]]]
  BY DEF Release!Commit
<1>9. \A p \in Part : p \notin W => stock'[p] = stock[p]
  BY DEF Release!Commit
<1>10. \A o \in Order, p \in Part : reservation'[o][p] =
         IF o = r.order /\ p \in W
           THEN [reservation[o][p] EXCEPT !.status = "RELEASED", !.releasedBy = {r.id}]
           ELSE reservation[o][p]
  <2>1. reservation' = [reservation EXCEPT ![r.order] =
          [p \in Part |-> IF p \in W
                            THEN [@[p] EXCEPT !.status = "RELEASED", !.releasedBy = {r.id}]
                            ELSE @[p]]]
    BY DEF Release!Commit
  <2>2. reservation \in [Order -> [Part -> ReservationRow(ReleaseCommand)]]
    BY <1>0 DEF TablesTyped
  <2>3. PICK t : t = [p \in Part |->
          IF p \in W THEN [reservation[r.order][p] EXCEPT !.status = "RELEASED",
                                                         !.releasedBy = {r.id}]
                     ELSE reservation[r.order][p]]
    OBVIOUS
  <2>4. reservation' = [reservation EXCEPT ![r.order] = t]
    BY <2>1, <2>3
  <2>5. \A o \in Order : reservation'[o] = IF o = r.order THEN t ELSE reservation[o]
    BY <1>1, <2>2, <2>4
  <2>6. \A p \in Part : t[p] =
          IF p \in W THEN [reservation[r.order][p] EXCEPT !.status = "RELEASED",
                                                         !.releasedBy = {r.id}]
                     ELSE reservation[r.order][p]
    BY <2>3
  <2>7. SUFFICES ASSUME NEW o \in Order, NEW p \in Part
                 PROVE  reservation'[o][p] =
         IF o = r.order /\ p \in W
           THEN [reservation[o][p] EXCEPT !.status = "RELEASED", !.releasedBy = {r.id}]
           ELSE reservation[o][p]
    OBVIOUS
  <2>8. CASE o = r.order
    BY <2>5, <2>6, <2>8
  <2>9. CASE o # r.order
    BY <2>5, <2>9
  <2> QED
    BY <2>8, <2>9
<1>a. Decides(v, r, W)
  BY <1>1, <1>2, <1>3, <1>5, <1>6, <1>7 DEF Decides
<1>b. Writes(v, r, W)
  BY <1>8, <1>9, <1>10 DEF Writes
<1> QED
  BY <1>a, <1>b

(* Only the commit changes a row or a command.                             *)
LEMMA ReleaseKeepsRows ==
  ASSUME NEW v \in Releaser, ReleaseStep(v), ~Release!Commit(v)
  PROVE  UNCHANGED <<stock, reservation, operation>>
<1>1. CASE Release!InsertOperation(v) \/ Release!Recover(v) \/ Release!Publish(v)
  BY <1>1 DEF Release!InsertOperation, Release!Recover, Release!Publish, Release!tables
<1>2. CASE Release!LockReservation(v) \/ Release!LockPart(v)
  BY <1>2 DEF Release!LockReservation, Release!LockPart, Release!tables
<1>3. CASE Release!Abort(v) \/ \E r \in ReleaseRequest : Release!Begin(v, r)
  BY <1>3 DEF Release!Abort, Release!Begin, Release!tables
<1> QED
  BY <1>1, <1>2, <1>3 DEF ReleaseStep, Release!Step

(* Another transaction: it commits rows that it has locked itself.         *)
LEMMA ReleaseStepLeavesLocked ==
  ASSUME SharedTypeInv, LockInv, NEW v \in Releaser, ReleaseStep(v), NEW u \in Releaser, u # v
  PROVE  LockedStays(u) /\ Untouched(u)
<1>1. Untouched(u)
  BY OthersInFlight DEF SharedTypeInv, Untouched
<1> SUFFICES LockedStays(u)
  BY <1>1
<1>2. CASE ~Release!Commit(v)
  BY <1>2, ReleaseKeepsRows DEF LockedStays
<1>3. CASE Release!Commit(v)
  <2> PICK r, W, s : r = releaseRequest[v] /\ W = DOMAIN write[v] /\ s = releaseRequest[u]
    OBVIOUS
  <2>1. /\ r.order \in Order /\ r.id \in ReleaseCommand /\ <<"operation", r.id>> \in held[v]
        /\ \A p \in W : KeyLock(v, p) \in held[v] /\ PartLock(p) \in held[v]
        /\ \A p \in Part : p \notin W => stock'[p] = stock[p]
        /\ \A o \in Order, p \in Part : o # r.order \/ p \notin W =>
             reservation'[o][p] = reservation[o][p]
        /\ \A c \in ReleaseCommand : c # r.id => operation'[c] = operation[c]
    <3>1. DOMAIN operation = ReleaseCommand
      BY DEF SharedTypeInv, ReleaseTyped
    <3>2. Decides(v, r, W) /\ Writes(v, r, W)
      BY <1>3, CommitDecides
    <3> QED
      BY <3>1, <3>2 DEF Decides, Writes
  <2>2. held[u] \cap held[v] = {} /\ held[u] \subseteq Release!RowName
    BY DEF LockInv, LocksAreExclusive, SharedTypeInv, ReleaseTyped
  <2>3. ASSUME NEW p \in Part, KeyLock(u, p) \in held[u]
        PROVE  reservation'[s.order][p] = reservation[s.order][p]
    <3>1. s.order \in Order
      BY <2>2, <2>3 DEF KeyLock, Release!RowName
    <3>2. s.order # r.order \/ p \notin W
      BY <2>1, <2>2, <2>3 DEF KeyLock
    <3> QED
      BY <2>1, <3>1, <3>2
  <2>4. ASSUME NEW p \in Part, PartLock(p) \in held[u] PROVE stock'[p] = stock[p]
    BY <2>1, <2>2, <2>4
  <2>5. ASSUME IsInTransaction(u) PROVE operation'[s.id] = operation[s.id]
    <3>1. <<"operation", s.id>> \in held[u]
      BY <2>5 DEF LockInv, TransactionHolds, OwnsCommand
    <3>2. s.id # r.id /\ s.id \in ReleaseCommand
      BY <2>1, <2>2, <3>1 DEF Release!RowName
    <3> QED
      BY <2>1, <3>2
  <2> QED
    BY <2>3, <2>4, <2>5 DEF LockedStays
<1> QED
  BY <1>2, <1>3

-----------------------------------------------------------------------------
(* What a release locks itself.                                            *)

LEMMA HeldMoves ==
  ASSUME ReleaseTyped, NEW v \in Releaser, ReleaseStep(v)
  PROVE  \/ ~IsInTransaction(v)' /\ held'[v] = {}
         \/ ~IsInTransaction(v) /\ ~IsInTransaction(v)' /\ held'[v] = held[v]
         \/ /\ pc[v] \in {"insert", "lockReservation", "lockPart"} /\ IsInTransaction(v)'
            /\ held'[v] = held[v] \cup {Release!Wanted(v)}
            /\ \A u \in Releaser : u # v => Release!Wanted(v) \notin held[u]
<1>0. DOMAIN pc = Releaser /\ DOMAIN held = Releaser
  BY DEF ReleaseTyped
<1>1. ASSUME Release!EndTransaction(v), pc'[v] \in {"idle", "recover", "publish"}
      PROVE  ~IsInTransaction(v)' /\ held'[v] = {}
  BY <1>0, <1>1 DEF Release!EndTransaction, IsInTransaction
<1>2. ASSUME Release!Lock(v), pc[v] \in {"insert", "lockReservation", "lockPart"}
      PROVE  /\ held'[v] = held[v] \cup {Release!Wanted(v)}
             /\ \A u \in Releaser : u # v => Release!Wanted(v) \notin held[u]
  BY <1>0, <1>2 DEF Release!Lock, Release!WaitsFor, Release!Waits
<1>3. CASE \E r \in ReleaseRequest : Release!Begin(v, r)
  <2>1. UNCHANGED held /\ pc[v] = "idle" /\ pc'[v] \in {"idle", "insert", "publish"}
    BY <1>0, <1>3 DEF Release!Begin, Release!Goto
  <2> QED
    BY <2>1 DEF IsInTransaction
<1>4. CASE Release!InsertOperation(v)
  <2>1. pc[v] = "insert"
    BY <1>4 DEF Release!InsertOperation
  <2>2. \/ Release!Lock(v) /\ pc'[v] = "lockReservation"
        \/ Release!EndTransaction(v) /\ pc'[v] = "recover"
    BY <1>0, <1>4 DEF Release!InsertOperation, Release!Goto
  <2> QED
    BY <1>1, <1>2, <2>1, <2>2 DEF IsInTransaction
<1>5. CASE Release!Recover(v) \/ Release!Publish(v)
  <2>1. UNCHANGED held /\ pc[v] \in {"recover", "publish"} /\ pc'[v] \in {"idle", "publish"}
    BY <1>0, <1>5 DEF Release!Recover, Release!Publish, Release!Goto, Release!Finish
  <2> QED
    BY <2>1 DEF IsInTransaction
<1>6. CASE Release!LockReservation(v)
  <2>1. Release!Lock(v) /\ pc[v] = "lockReservation"
    BY <1>6 DEF Release!LockReservation
  <2>2. pc'[v] \in {"lockReservation", "lockPart", "commit"}
    BY <1>0, <1>6 DEF Release!LockReservation, Release!Judge, Release!Goto
  <2> QED
    BY <1>2, <2>1, <2>2 DEF IsInTransaction
<1>7. CASE Release!LockPart(v)
  <2>1. pc[v] = "lockPart"
    BY <1>7 DEF Release!LockPart
  <2>2. \/ Release!Lock(v) /\ pc'[v] \in {"lockReservation", "commit"}
        \/ Release!EndTransaction(v) /\ pc'[v] = "recover"
    BY <1>0, <1>7 DEF Release!LockPart, Release!Judge, Release!Goto
  <2> QED
    BY <1>1, <1>2, <2>1, <2>2 DEF IsInTransaction
<1>8. CASE Release!Commit(v) \/ Release!Abort(v)
  <2>1. Release!EndTransaction(v) /\ pc'[v] \in {"idle", "publish"}
    BY <1>0, <1>8 DEF Release!Commit, Release!Abort, Release!Goto, Release!Finish
  <2> QED
    BY <1>1, <2>1
<1> QED
  BY <1>3, <1>4, <1>5, <1>6, <1>7, <1>8 DEF ReleaseStep, Release!Step

LEMMA LocksStayExclusive ==
  ASSUME SharedTypeInv, LockInv, NEW v \in Releaser, ReleaseStep(v)
  PROVE  LocksAreExclusive'
<1> SUFFICES ASSUME NEW t \in Releaser, NEW u \in Releaser, t # u
             PROVE  held'[t] \cap held'[u] = {}
  BY DEF LocksAreExclusive
<1>0. ReleaseTyped
  BY DEF SharedTypeInv
<1>1. held[t] \cap held[u] = {}
  BY DEF LockInv, LocksAreExclusive
<1>2. \A s \in Releaser : s # v => held'[s] = held[s]
  BY <1>0, OthersInFlight
<1>3. \/ held'[v] = {} \/ held'[v] = held[v]
      \/ /\ held'[v] = held[v] \cup {Release!Wanted(v)}
         /\ \A s \in Releaser : s # v => Release!Wanted(v) \notin held[s]
  BY <1>0, HeldMoves
<1>4. CASE t = v
  BY <1>1, <1>2, <1>3, <1>4
<1>5. CASE u = v
  BY <1>1, <1>2, <1>3, <1>5
<1>6. CASE t # v /\ u # v
  BY <1>1, <1>2, <1>6
<1> QED
  BY <1>4, <1>5, <1>6

LEMMA VerdictOfRow ==
  ASSUME NEW row \in ReservationRow(ReleaseCommand), NEW quantity, NEW c
  PROVE  LET x == Release!ReservationVerdict(row, quantity, c)
         IN /\ x = NULL <=> row.status = "RESERVED" /\ row.quantity = quantity
            /\ x = NULL \/ x \in Release!Verdict
            /\ x = "RELEASED" => row.releasedBy = {c}
BY NoReleaseAssumption
   DEF Release!ReservationVerdict, ReservationRow, ReservationStatus, Release!Verdict

(* A verdict is not touched by the next ones of its transaction.           *)
LEMMA VerdictStays ==
  ASSUME NEW v \in Releaser, NEW p, KeyLock(v, p) \in held[v], IsBacked(v, p),
         UNCHANGED <<stock, reservation, releaseRequest[v], verdict[v][p]>>,
         held[v] \subseteq held'[v],
         p \in DOMAIN write'[v] <=> p \in DOMAIN write[v]
  PROVE  KeyLock(v, p)' \in held'[v] /\ IsBacked(v, p)'
<1>1. UNCHANGED <<KeyLock(v, p), PartLock(p), Matches(v, p)>>
  BY DEF KeyLock, PartLock, Matches
<1> QED
  BY <1>1 DEF IsBacked

LEMMA LockReservationKnows ==
  ASSUME SharedTypeInv, LockInv, NEW v \in Releaser, Release!LockReservation(v)
  PROVE  VerdictsHold(v)' /\ (pc'[v] = "lockPart" => KeyLock(v, Release!Item(v))' \in held'[v]
                                                     /\ Matches(v, Release!Item(v))')
         /\ (pc'[v] = "commit" => Release!ToDo(v)' = {})
<1>0. ReleaseTyped /\ TablesTyped /\ TransactionHolds(v) /\ VerdictsHold(v) /\ ReleasesArePhysical
  BY DEF SharedTypeInv, LockInv
<1>1. /\ pc[v] = "lockReservation" /\ releaseRequest[v] \in ReleaseRequest
      /\ Release!Lock(v) /\ Release!ToDo(v) # {}
      /\ UNCHANGED <<stock, reservation, operation, releaseRequest, write>>
  BY <1>0 DEF Release!LockReservation, Release!tables, ReleaseTyped, WorkIsKnown
<1> PICK p, o, q, c, row :
      /\ p = Release!Item(v) /\ o = releaseRequest[v].order /\ q = releaseRequest[v].items[p]
      /\ c = releaseRequest[v].id
      /\ row = reservation[o][p]
  OBVIOUS
<1>2. /\ p \in Part /\ p \in DOMAIN releaseRequest[v].items /\ p \notin DOMAIN verdict[v]
      /\ o \in Order /\ c \in ReleaseCommand /\ row \in ReservationRow(ReleaseCommand)
  BY <1>0, <1>1, ReleaseItem, ReleaseIsAsked DEF TablesTyped
<1> PICK x : x = Release!ReservationVerdict(row, q, c)
  OBVIOUS
<1>3. /\ x = NULL <=> Matches(v, p)
      /\ x = NULL \/ x \in Release!Verdict
      /\ x = "RELEASED" => row.releasedBy = {c}
  BY <1>2, VerdictOfRow DEF Matches
<1>4. x # "RELEASED"
  <2>1. operation[c] = NULL
    BY <1>0, <1>1 DEF TransactionHolds, OwnsCommand, IsInTransaction
  <2> QED
    BY <1>0, <1>2, <1>3, <2>1 DEF ReleasesArePhysical, Release!ReportIsPhysical
<1>5. IF x = NULL THEN pc' = [pc EXCEPT ![v] = "lockPart"] /\ verdict' = verdict
                  ELSE Release!Judge(v, x)
  BY DEF Release!LockReservation, Release!Goto
<1>6. held'[v] = held[v] \cup {KeyLock(v, p)}
  <2>1. Release!Wanted(v) = KeyLock(v, p)
    BY <1>1 DEF Release!Wanted, KeyLock
  <2> QED
    BY <1>0, <1>1, <2>1 DEF Release!Lock, ReleaseTyped
<1>7. /\ KeyLock(v, p)' = KeyLock(v, p) /\ Matches(v, p)' = Matches(v, p)
  BY <1>1 DEF KeyLock, Matches
<1>8. /\ DOMAIN write[v] \subseteq DOMAIN verdict[v] /\ write'[v] = write[v]
      /\ DOMAIN verdict[v] \subseteq DOMAIN releaseRequest[v].items
  BY <1>0, <1>1 DEF VerdictsHold
<1>9. ASSUME NEW r \in DOMAIN verdict[v], verdict'[v][r] = verdict[v][r]
      PROVE  KeyLock(v, r)' \in held'[v] /\ IsBacked(v, r)'
  <2>1. KeyLock(v, r) \in held[v] /\ IsBacked(v, r)
    BY <1>0 DEF VerdictsHold
  <2>2. held[v] \subseteq held'[v]
    BY <1>6
  <2> QED
    BY <1>1, <1>8, <1>9, <2>1, <2>2, VerdictStays
<1>10. CASE x = NULL
  <2>1. verdict'[v] = verdict[v] /\ pc'[v] = "lockPart"
    BY <1>0, <1>5, <1>10 DEF ReleaseTyped
  <2>2. Release!Item(v)' = p
    <3>1. Release!ToDo(v)' = Release!ToDo(v)
      BY <1>1, <2>1 DEF Release!ToDo
    <3> QED
      BY <3>1 DEF Release!Item
  <2>3. KeyLock(v, p)' \in held'[v] /\ Matches(v, p)'
    BY <1>3, <1>6, <1>7, <1>10
  <2>4. VerdictsHold(v)'
    BY <1>1, <1>8, <1>9, <2>1 DEF VerdictsHold
  <2> QED
    BY <2>1, <2>2, <2>3, <2>4 DEF KeyLock, Matches
<1>11. CASE x # NULL
  <2>1. x \in Release!Verdict /\ Release!Judge(v, x)
    BY <1>3, <1>5, <1>11
  <2>2. /\ DOMAIN verdict'[v] = DOMAIN verdict[v] \cup {p} /\ verdict'[v][p] = x
        /\ \A r \in DOMAIN verdict[v] : verdict'[v][r] = verdict[v][r]
        /\ pc'[v] # "lockPart"
    BY <1>0, <1>1, <2>1, ItemJudged
  <2>3. pc'[v] = "commit" => Release!ToDo(v)' = {}
    <3>1. pc'[v] = "commit" => Release!ToDo(v) = {p}
      BY <1>0, <2>1 DEF Release!Judge, Release!Goto, ReleaseTyped
    <3> QED
      BY <1>1, <2>2, <3>1 DEF Release!ToDo
  <2>4. KeyLock(v, p)' \in held'[v] /\ IsBacked(v, p)'
    <3>1. ~Matches(v, p)' /\ p \notin DOMAIN write'[v]
      BY <1>2, <1>3, <1>7, <1>8, <1>11
    <3> QED
      BY <1>4, <1>6, <1>7, <2>2, <3>1 DEF IsBacked
  <2>5. VerdictsHold(v)'
    <3>1. DOMAIN verdict'[v] \subseteq DOMAIN releaseRequest'[v].items
          /\ DOMAIN write'[v] \subseteq DOMAIN verdict'[v]
      BY <1>1, <1>2, <1>8, <2>2
    <3>2. \A r \in DOMAIN verdict'[v] : KeyLock(v, r)' \in held'[v] /\ IsBacked(v, r)'
      BY <1>9, <2>2, <2>4
    <3> QED
      BY <3>1, <3>2 DEF VerdictsHold
  <2> QED
    BY <2>2, <2>3, <2>5
<1> QED
  BY <1>10, <1>11

LEMMA LockPartKnows ==
  ASSUME SharedTypeInv, LockInv, NEW v \in Releaser, Release!LockPart(v), pc'[v] # "recover"
  PROVE  /\ VerdictsHold(v)' /\ pc'[v] # "lockPart"
         /\ pc'[v] = "commit" => Release!ToDo(v)' = {}
<1>0. ReleaseTyped /\ TablesTyped /\ TransactionHolds(v) /\ VerdictsHold(v)
  BY DEF SharedTypeInv, LockInv
<1>1. /\ pc[v] = "lockPart" /\ releaseRequest[v] \in ReleaseRequest /\ Release!ToDo(v) # {}
      /\ UNCHANGED <<stock, reservation, operation, releaseRequest>>
  BY <1>0 DEF Release!LockPart, Release!tables, ReleaseTyped, WorkIsKnown
<1> PICK p, q : p = Release!Item(v) /\ q = releaseRequest[v].items[p]
  OBVIOUS
<1>2. /\ p \in Part /\ p \in DOMAIN releaseRequest[v].items /\ p \notin DOMAIN verdict[v]
      /\ stock[p].reserved \in Nat /\ q \in Nat
  BY <1>0, <1>1, ReleaseItem DEF TablesTyped, CountedRow
<1>3. KeyLock(v, p) \in held[v] /\ Matches(v, p)
  BY <1>0, <1>1 DEF TransactionHolds
<1>4. PICK x, back :
        /\ x \in Release!Verdict /\ Release!Judge(v, x) /\ Release!Lock(v)
        /\ \/ x # "RELEASED" /\ stock[p].reserved < q /\ write' = write
           \/ /\ x = "RELEASED" /\ stock[p].reserved >= q
              /\ write' = [write EXCEPT ![v] = Release!Extend(@, p, back)]
  <2>1. pc' # [pc EXCEPT ![v] = "recover"]
    BY <1>0 DEF ReleaseTyped
  <2>2. CASE stock[p].reserved < q
    <3>1. Release!Judge(v, "PART_RESERVED_STOCK_INSUFFICIENT") /\ Release!Lock(v) /\ write' = write
      BY <2>2 DEF Release!LockPart
    <3> QED
      BY <2>2, <3>1 DEF Release!Verdict
  <2>3. CASE ~(stock[p].reserved < q)
    <3> PICK y : y = Release!Returned(v, p)
      OBVIOUS
    <3>1. /\ Release!Judge(v, "RELEASED") /\ Release!Lock(v)
          /\ write' = [write EXCEPT ![v] = Release!Extend(@, p, y)]
      BY <2>1, <2>3 DEF Release!LockPart, Release!Goto
    <3>2. "RELEASED" \in Release!Verdict /\ stock[p].reserved >= q
      BY <1>2, <2>3 DEF Release!Verdict
    <3> QED
      BY <3>1, <3>2
  <2> QED
    BY <2>2, <2>3
<1>5. held'[v] = held[v] \cup {PartLock(p)}
  <2>1. Release!Wanted(v) = PartLock(p)
    BY <1>1 DEF Release!Wanted, PartLock
  <2> QED
    BY <1>0, <1>4, <2>1 DEF Release!Lock, ReleaseTyped
<1>6. /\ DOMAIN verdict'[v] = DOMAIN verdict[v] \cup {p} /\ verdict'[v][p] = x
      /\ \A r \in DOMAIN verdict[v] : verdict'[v][r] = verdict[v][r]
      /\ pc'[v] # "lockPart"
  BY <1>0, <1>1, <1>4, ItemJudged
<1>7. /\ DOMAIN write[v] \subseteq DOMAIN verdict[v]
      /\ DOMAIN verdict[v] \subseteq DOMAIN releaseRequest[v].items
  BY <1>0 DEF VerdictsHold
<1>8. DOMAIN write'[v] = IF x = "RELEASED" THEN DOMAIN write[v] \cup {p} ELSE DOMAIN write[v]
  BY <1>0, <1>4 DEF Release!Extend, ReleaseTyped
<1>9. pc'[v] = "commit" => Release!ToDo(v)' = {}
  <2>1. pc'[v] = "commit" => Release!ToDo(v) = {p}
    BY <1>0, <1>4 DEF Release!Judge, Release!Goto, ReleaseTyped
  <2> QED
    BY <1>1, <1>6, <2>1 DEF Release!ToDo
<1>10. KeyLock(v, p)' \in held'[v] /\ IsBacked(v, p)'
  <2>1. /\ KeyLock(v, p)' = KeyLock(v, p) /\ Matches(v, p)' = Matches(v, p)
        /\ PartLock(p)' = PartLock(p)
    BY <1>1 DEF KeyLock, Matches, PartLock
  <2>2. KeyLock(v, p)' \in held'[v] /\ PartLock(p)' \in held'[v] /\ Matches(v, p)'
    BY <1>3, <1>5, <2>1
  <2>3. releaseRequest'[v].items[p] = q /\ stock'[p] = stock[p]
    BY <1>1
  <2>4. CASE x = "RELEASED"
    <3>1. p \in DOMAIN write'[v] /\ stock[p].reserved >= q
      BY <1>4, <1>8, <2>4
    <3> QED
      BY <1>6, <2>2, <2>3, <2>4, <3>1 DEF IsBacked
  <2>5. CASE x # "RELEASED"
    <3>1. p \notin DOMAIN write'[v] /\ stock[p].reserved < q
      BY <1>2, <1>4, <1>7, <1>8, <2>5
    <3> QED
      BY <1>6, <2>2, <2>3, <2>5, <3>1 DEF IsBacked
  <2> QED
    BY <2>4, <2>5
<1>11. ASSUME NEW r \in DOMAIN verdict[v]
       PROVE  KeyLock(v, r)' \in held'[v] /\ IsBacked(v, r)'
  <2>1. KeyLock(v, r) \in held[v] /\ IsBacked(v, r)
    BY <1>0 DEF VerdictsHold
  <2>2. held[v] \subseteq held'[v] /\ verdict'[v][r] = verdict[v][r]
    BY <1>5, <1>6
  <2>3. r \in DOMAIN write'[v] <=> r \in DOMAIN write[v]
    BY <1>2, <1>8
  <2> QED
    BY <1>1, <2>1, <2>2, <2>3, VerdictStays
<1>12. VerdictsHold(v)'
  <2>1. DOMAIN verdict'[v] \subseteq DOMAIN releaseRequest'[v].items
        /\ DOMAIN write'[v] \subseteq DOMAIN verdict'[v]
    BY <1>1, <1>2, <1>6, <1>7, <1>8
  <2>2. \A r \in DOMAIN verdict'[v] : KeyLock(v, r)' \in held'[v] /\ IsBacked(v, r)'
    BY <1>6, <1>10, <1>11
  <2> QED
    BY <2>1, <2>2 DEF VerdictsHold
<1> QED
  BY <1>6, <1>9, <1>12

(* Every step of a release keeps what it knows true.                       *)
LEMMA ReleaseStepKnows ==
  ASSUME SharedTypeInv, SharedTypeInv', LockInv, NEW v \in Releaser, ReleaseStep(v)
  PROVE  TransactionHolds(v)' /\ VerdictsHold(v)'
<1>0. ReleaseTyped /\ ReleaseTyped' /\ TransactionHolds(v)
  BY DEF SharedTypeInv, LockInv
<1>1. CASE ~IsInTransaction(v)'
  <2>1. DOMAIN verdict'[v] = {} /\ DOMAIN write'[v] = {}
    BY <1>0, <1>1 DEF ReleaseTyped, WorkIsKnown
  <2>2. VerdictsHold(v)'
    BY <2>1 DEF VerdictsHold
  <2>3. pc'[v] # "lockPart" /\ pc'[v] # "commit"
    BY <1>1 DEF IsInTransaction
  <2>4. held'[v] = {}
    BY <1>0, <1>1, HeldMoves DEF TransactionHolds
  <2> QED
    BY <1>1, <2>2, <2>3, <2>4 DEF TransactionHolds, OwnsCommand
<1>2. CASE IsInTransaction(v)'
  <2>1. OwnsCommand(v)'
    <3>1. /\ UNCHANGED <<operation, releaseRequest[v]>>
          /\ \/ IsInTransaction(v) /\ held[v] \subseteq held'[v]
             \/ /\ operation[releaseRequest[v].id] = NULL
                /\ <<"operation", releaseRequest[v].id>> \in held'[v]
      BY <1>0, <1>2, TransactionCases
    <3> QED
      BY <1>0, <3>1 DEF TransactionHolds, OwnsCommand
  <2> SUFFICES /\ VerdictsHold(v)'
               /\ pc'[v] = "lockPart" => KeyLock(v, Release!Item(v))' \in held'[v]
                                         /\ Matches(v, Release!Item(v))'
               /\ pc'[v] = "commit" => Release!ToDo(v)' = {}
    BY <1>2, <2>1 DEF TransactionHolds
  <2>2. CASE Release!LockReservation(v)
    BY <2>2, LockReservationKnows
  <2>3. CASE Release!LockPart(v)
    <3>1. pc'[v] # "recover"
      BY <1>2 DEF IsInTransaction
    <3> QED
      BY <2>3, <3>1, LockPartKnows
  <2>4. CASE Release!InsertOperation(v)
    <3>1. pc'[v] = "lockReservation" /\ UNCHANGED <<verdict, write>> /\ pc[v] = "insert"
      BY <1>0, <1>2, <2>4
         DEF Release!InsertOperation, Release!Goto, ReleaseTyped, IsInTransaction
    <3>2. DOMAIN verdict[v] = {} /\ DOMAIN write[v] = {}
      BY <1>0, <3>1 DEF ReleaseTyped, WorkIsKnown, IsInTransaction
    <3> QED
      BY <3>1, <3>2 DEF VerdictsHold
  <2>5. CASE \/ \E r \in ReleaseRequest : Release!Begin(v, r)
             \/ Release!Recover(v) \/ Release!Commit(v) \/ Release!Publish(v) \/ Release!Abort(v)
    <3>1. pc'[v] \in {"idle", "insert", "recover", "publish"}
      BY <1>0, <1>2, <2>5 DEF ReleaseTyped, Release!Begin, Release!Recover, Release!Commit,
         Release!Publish, Release!Abort, Release!Goto, Release!Finish, IsInTransaction
    <3> QED
      BY <1>2, <3>1 DEF IsInTransaction
  <2> QED
    BY <2>2, <2>3, <2>4, <2>5 DEF ReleaseStep, Release!Step
<1> QED
  BY <1>1, <1>2

-----------------------------------------------------------------------------
(* Reports: rows and commands agree on who released what.                  *)

(* A reservation that is inserted is where no command has released one.    *)
LEMMA ReserveStepKeepsReports ==
  ASSUME SharedTypeInv, LockInv, NEW w \in Worker, ReserveStep(w)
  PROVE  ReleaserIsKnown' /\ ReleasesArePhysical'
<1>1. ReleaserIsKnown /\ ReleasesArePhysical /\ ReserveTyped
  BY DEF LockInv, SharedTypeInv
<1>2. \A o \in Order, p \in Part : \/ reservation'[o][p] = reservation[o][p]
        \/ /\ reservation[o][p].status = "ABSENT" /\ reservation'[o][p].releasedBy = {}
  <2>1. CASE RequestStep(w)
    BY <2>1 DEF RequestStep, Begin, Answer, Abort, tables
  <2>2. ASSUME NEW i \in DOMAIN task[w], TaskStep(w, i), ~InsertReservation(w, i)
        PROVE  UNCHANGED reservation
    BY <2>2 DEF TaskStep, FindReservation, FindPart, ReloadPart, UpdatePart, Break, tables
  <2>3. ASSUME NEW i \in DOMAIN task[w], InsertReservation(w, i),
               NEW o \in Order, NEW p \in Part, reservation'[o][p] # reservation[o][p]
        PROVE  /\ reservation[o][p].status = "ABSENT" /\ reservation'[o][p].releasedBy = {}
    <3> PICK q, c : q = Item(w, i).quantity /\ c = task[w][i].code
      OBVIOUS
    <3>1. reservation[o][p].status = "ABSENT" /\ reservation'[o][p] = NewReservation(q, c)
      BY <2>3, InsertTouches
    <3>2. NewReservation(q, c).releasedBy = {}
      BY DEF NewReservation
    <3> QED
      BY <3>1, <3>2
  <2> QED
    BY <2>1, <2>2, <2>3, ReserveStepIs
<1>3. UNCHANGED operation
  BY DEF ReserveStep, releaseVars
<1>4. \A o \in Order, p \in Part :
        /\ reservation'[o][p].releasedBy = reservation[o][p].releasedBy
        /\ reservation'[o][p] = reservation[o][p] \/ reservation'[o][p].releasedBy = {}
  <2> TAKE o \in Order, p \in Part
  <2>1. reservation[o][p].status = "ABSENT" => reservation[o][p].releasedBy = {}
    BY <1>1 DEF ReleaserIsKnown
  <2>2. \/ reservation'[o][p] = reservation[o][p]
        \/ reservation[o][p].status = "ABSENT" /\ reservation'[o][p].releasedBy = {}
    BY <1>2
  <2> QED
    BY <2>1, <2>2
<1>5. ReleaserIsKnown'
  BY <1>1, <1>4 DEF ReleaserIsKnown
<1>6. ReleasesArePhysical'
  <2>1. \A o \in Order, p \in Part : reservation'[o][p].releasedBy = reservation[o][p].releasedBy
    BY <1>4
  <2>2. \A c \in ReleaseCommand, o \in Order, p \in Part :
          (reservation[o][p].releasedBy = {c}) <=>
            /\ operation[c] # NULL /\ operation[c].request.order = o
            /\ p \in DOMAIN operation[c].verdict /\ operation[c].verdict[p] = "RELEASED"
    BY <1>1 DEF ReleasesArePhysical, Release!ReportIsPhysical
  <2>3. \A c \in ReleaseCommand, o \in Order, p \in Part :
          (reservation'[o][p].releasedBy = {c}) <=>
            /\ operation'[c] # NULL /\ operation'[c].request.order = o
            /\ p \in DOMAIN operation'[c].verdict /\ operation'[c].verdict[p] = "RELEASED"
    BY <1>3, <2>1, <2>2
  <2> QED
    BY <2>3 DEF ReleasesArePhysical, Release!ReportIsPhysical
<1> QED
  BY <1>5, <1>6

LEMMA CommitKeepsReports ==
  ASSUME SharedTypeInv, SharedTypeInv', LockInv, NEW v \in Releaser, Release!Commit(v)
  PROVE  ReleaserIsKnown' /\ ReleasesArePhysical'
<1>1. ReleaserIsKnown /\ ReleasesArePhysical
  BY DEF LockInv
<1> PICK r, W, x : r = releaseRequest[v] /\ W = DOMAIN write[v] /\ x = verdict[v]
  OBVIOUS
<1>2. Decides(v, r, W) /\ Writes(v, r, W)
  BY CommitDecides
<1>3. /\ r.id \in ReleaseCommand /\ r.order \in Order /\ W \subseteq DOMAIN r.items
      /\ operation[r.id] = NULL /\ DOMAIN x = DOMAIN r.items /\ DOMAIN r.items \subseteq Part
      /\ \A p \in DOMAIN r.items : x[p] = "RELEASED" <=> p \in W
      /\ \A p \in W : reservation[r.order][p].status = "RESERVED"
  BY <1>2 DEF Decides, IsDue
<1>4. /\ operation'[r.id] = [request |-> r, verdict |-> x, at |-> occurredAt[v]]
      /\ \A c \in ReleaseCommand \ {r.id} : operation'[c] = operation[c]
  <2>1. DOMAIN operation = ReleaseCommand
    BY DEF SharedTypeInv, ReleaseTyped
  <2> QED
    BY <1>2, <1>3, <2>1 DEF Writes
<1>5. \A o \in Order, p \in Part : reservation'[o][p] =
         IF o = r.order /\ p \in W
           THEN [reservation[o][p] EXCEPT !.status = "RELEASED", !.releasedBy = {r.id}]
           ELSE reservation[o][p]
  BY <1>2 DEF Writes
<1>6. \A o \in Order, p \in Part :
        IF o = r.order /\ p \in W
          THEN reservation'[o][p].status = "RELEASED" /\ reservation'[o][p].releasedBy = {r.id}
          ELSE reservation'[o][p] = reservation[o][p]
  <2> TAKE o \in Order, p \in Part
  <2> PICK old, new : old = reservation[o][p] /\ new = reservation'[o][p]
    OBVIOUS
  <2>1. old \in ReservationRow(ReleaseCommand)
    BY DEF SharedTypeInv, TablesTyped
  <2>2. CASE o = r.order /\ p \in W
    <3>1. new = [old EXCEPT !.status = "RELEASED", !.releasedBy = {r.id}]
      BY <1>5, <2>2
    <3>2. new.status = "RELEASED" /\ new.releasedBy = {r.id}
      BY <2>1, <3>1 DEF ReservationRow
    <3> QED
      BY <2>2, <3>2
  <2>3. CASE ~(o = r.order /\ p \in W)
    BY <1>5, <2>3
  <2> QED
    BY <2>2, <2>3
<1>7. ReleaserIsKnown'
  BY <1>1, <1>6 DEF ReleaserIsKnown
<1>8. ASSUME NEW c \in ReleaseCommand, NEW o \in Order, NEW p \in Part
      PROVE  (reservation'[o][p].releasedBy = {c}) <=>
               /\ operation'[c] # NULL /\ operation'[c].request.order = o
               /\ p \in DOMAIN operation'[c].verdict
               /\ operation'[c].verdict[p] = "RELEASED"
  <2>1. (reservation[o][p].releasedBy = {c}) <=>
          /\ operation[c] # NULL /\ operation[c].request.order = o
          /\ p \in DOMAIN operation[c].verdict /\ operation[c].verdict[p] = "RELEASED"
    BY <1>1 DEF ReleasesArePhysical, Release!ReportIsPhysical
  <2>2. CASE c = r.id
    <3>1. /\ operation'[c].request = r /\ operation'[c].verdict = x
          /\ reservation[o][p].releasedBy # {c}
      BY <1>3, <1>4, <2>1, <2>2
    <3>2. operation'[c] # NULL
      <4>1. pc'[v] = "publish" /\ releaseRequest' = releaseRequest
        BY DEF Release!Commit, Release!Goto, SharedTypeInv, ReleaseTyped
      <4> QED
        BY <2>2, <4>1 DEF SharedTypeInv, ReleaseTyped, WorkIsKnown
    <3>3. (reservation'[o][p].releasedBy = {c}) <=> o = r.order /\ p \in W
      BY <1>6, <2>2, <3>1
    <3> QED
      BY <1>3, <3>1, <3>2, <3>3
  <2>3. CASE c # r.id
    <3>1. operation'[c] = operation[c]
      BY <1>4, <2>3
    <3>2. CASE o = r.order /\ p \in W
      <4>1. reservation[o][p].releasedBy = {} /\ reservation'[o][p].releasedBy = {r.id}
        BY <1>1, <1>3, <1>6, <3>2 DEF ReleaserIsKnown
      <4> QED
        BY <2>1, <2>3, <3>1, <4>1
    <3>3. CASE ~(o = r.order /\ p \in W)
      BY <1>6, <2>1, <3>1, <3>3
    <3> QED
      BY <3>2, <3>3
  <2> QED
    BY <2>2, <2>3
<1>9. ReleasesArePhysical'
  BY <1>8 DEF ReleasesArePhysical, Release!ReportIsPhysical
<1> QED
  BY <1>7, <1>9

LEMMA SameReports ==
  ASSUME ReleaserIsKnown, ReleasesArePhysical, UNCHANGED <<reservation, operation>>
  PROVE  ReleaserIsKnown' /\ ReleasesArePhysical'
BY DEF ReleaserIsKnown, ReleasesArePhysical, Release!ReportIsPhysical

LEMMA ReleaseStepKeepsReports ==
  ASSUME SharedTypeInv, SharedTypeInv', LockInv, NEW v \in Releaser, ReleaseStep(v)
  PROVE  ReleaserIsKnown' /\ ReleasesArePhysical'
<1>1. ReleaserIsKnown /\ ReleasesArePhysical
  BY DEF LockInv
<1>2. CASE ~Release!Commit(v)
  BY <1>1, <1>2, ReleaseKeepsRows, SameReports
<1>3. CASE Release!Commit(v)
  BY <1>3, CommitKeepsReports
<1> QED
  BY <1>2, <1>3

(* A command that has been decided stays as it is.                         *)
LEMMA DecidedStays ==
  ASSUME SharedTypeInv, LockInv, NEW v \in Releaser, ReleaseStep(v),
         NEW c \in ReleaseCommand, operation[c] # NULL
  PROVE  operation'[c] = operation[c]
<1>1. CASE ~Release!Commit(v)
  BY <1>1, ReleaseKeepsRows
<1>2. CASE Release!Commit(v)
  <2> PICK r, W : r = releaseRequest[v] /\ W = DOMAIN write[v]
    OBVIOUS
  <2>1. Decides(v, r, W) /\ Writes(v, r, W)
    BY <1>2, CommitDecides
  <2>2. c # r.id
    BY <2>1 DEF Decides
  <2>3. DOMAIN operation = ReleaseCommand
    BY DEF SharedTypeInv, ReleaseTyped
  <2> PICK row : row = [request |-> r, verdict |-> verdict[v], at |-> occurredAt[v]]
    OBVIOUS
  <2>4. operation' = [operation EXCEPT ![r.id] = row]
    BY <2>1 DEF Writes
  <2> QED
    BY <2>2, <2>3, <2>4
<1> QED
  BY <1>1, <1>2

LEMMA EnvelopeStays ==
  ASSUME NEW e, e.command \in ReleaseCommand, operation[e.command] # NULL,
         e = Release!EnvelopeOf(e.command), operation'[e.command] = operation[e.command]
  PROVE  operation'[e.command] # NULL /\ e = Release!EnvelopeOf(e.command)'
<1> PICK c : c = e.command
  OBVIOUS
<1>1. Release!EnvelopeOf(c)' = Release!EnvelopeOf(c)
  BY DEF Release!EnvelopeOf
<1> QED
  BY <1>1

LEMMA ReleaseStepKeepsStored ==
  ASSUME SharedTypeInv, LockInv, NEW v \in Releaser, ReleaseStep(v)
  PROVE  ReleasedIsStored'
<1> SUFFICES ASSUME NEW e \in released'
             PROVE  /\ e.command \in ReleaseCommand /\ operation'[e.command] # NULL
                    /\ e = Release!EnvelopeOf(e.command)'
  BY DEF ReleasedIsStored
<1>1. CASE e \in released
  <2>1. /\ e.command \in ReleaseCommand /\ operation[e.command] # NULL
        /\ e = Release!EnvelopeOf(e.command)
    BY <1>1 DEF LockInv, ReleasedIsStored
  <2> QED
    BY <2>1, DecidedStays, EnvelopeStays
<1>2. CASE e \notin released
  <2> PICK c : c = releaseRequest[v].id
    OBVIOUS
  <2>1. Release!Publish(v)
    BY <1>2 DEF ReleaseStep, Release!Step, Release!Begin, Release!InsertOperation, Release!Recover,
       Release!LockReservation, Release!LockPart, Release!Commit, Release!Abort
  <2>2. /\ released' = released \cup {Release!EnvelopeOf(c)} /\ UNCHANGED operation
        /\ pc[v] = "publish"
    BY <2>1 DEF Release!Publish
  <2>3. e = Release!EnvelopeOf(c)
    BY <1>2, <2>2
  <2>4. e.command = c
    BY <2>3 DEF Release!EnvelopeOf
  <2>5. c \in ReleaseCommand /\ operation[c] # NULL
    BY <2>2, ReleaseIsAsked DEF SharedTypeInv, ReleaseTyped, WorkIsKnown
  <2> QED
    BY <2>2, <2>3, <2>4, <2>5, EnvelopeStays
<1> QED
  BY <1>1, <1>2

LEMMA SameStored ==
  ASSUME ReleasedIsStored, UNCHANGED <<released, operation>>
  PROVE  ReleasedIsStored'
BY EnvelopeStays DEF ReleasedIsStored

-----------------------------------------------------------------------------
(* Parts that are there.                                                   *)

(* A call of reserveStock that goes on is for a part that it has found.    *)
LEMMA TaskStepHasPart ==
  ASSUME SharedTypeInv, PartsExist, NEW w \in Worker, NEW i \in DOMAIN task[w],
         TaskStep(w, i), UNCHANGED code
  PROVE  \A v \in Worker : \A j \in DOMAIN task'[v] : TaskHasPart(v, j)'
<1>0. ReserveTyped /\ TablesTyped /\ TaskHasPart(w, i)
  BY DEF SharedTypeInv, PartsExist
<1> PICK p, q, t : p = Item(w, i).part /\ q = Item(w, i).quantity /\ t = task[w][i]
  OBVIOUS
<1>1. /\ p \in Part /\ p = request[w].items[i].part /\ t \in Task
      /\ t.phase \in {"reload", "update"} => code[p] # NULL
      /\ t.phase = "insert" /\ t.code = NULL => code[p] # NULL
  BY <1>0, TaskIsKnown DEF Item, TaskHasPart
<1>2. request' = request
  BY DEF TaskStep, FindReservation, FindPart, ReloadPart, UpdatePart, InsertReservation, Break
<1>3. ASSUME NEW u, Set(w, i, u),
             u.phase \in {"reload", "update"} => code[p] # NULL,
             u.phase = "insert" /\ u.code = NULL => code[p] # NULL
      PROVE  \A v \in Worker : \A j \in DOMAIN task'[v] : TaskHasPart(v, j)'
  <2> SUFFICES ASSUME NEW v \in Worker, NEW j \in DOMAIN task'[v] PROVE TaskHasPart(v, j)'
    OBVIOUS
  <2>1. /\ DOMAIN task'[v] = DOMAIN task[v] /\ task'[w][i] = u
        /\ <<v, j>> # <<w, i>> => task'[v][j] = task[v][j]
    BY <1>0, <1>3, OneTask
  <2>2. CASE <<v, j>> = <<w, i>>
    BY <1>1, <1>2, <1>3, <2>1, <2>2 DEF TaskHasPart
  <2>3. CASE <<v, j>> # <<w, i>>
    BY <1>2, <2>1, <2>3 DEF PartsExist, TaskHasPart
  <2> QED
    BY <2>2, <2>3
<1>4. ASSUME NEW phase \in {"findPart", "done", "threw", "insert"}, Advance(w, i, phase),
             phase = "insert" => code[p] # NULL
      PROVE  \A v \in Worker : \A j \in DOMAIN task'[v] : TaskHasPart(v, j)'
  <2> PICK u : u = Fresh(phase)
    OBVIOUS
  <2>1. Set(w, i, u) /\ u.phase = phase
    BY <1>4 DEF Advance, Fresh
  <2> QED
    BY <1>3, <1>4, <2>1
<1>5. CASE FindReservation(w, i)
  <2>1. \/ Advance(w, i, "findPart") \/ Advance(w, i, "threw") \/ Set(w, i, Returned(w, i))
    BY <1>5 DEF FindReservation
  <2>2. Returned(w, i).phase = "done"
    BY <1>1 DEF Returned, Task
  <2> QED
    BY <1>3, <1>4, <2>1, <2>2
<1>6. CASE FindPart(w, i)
  <2> PICK x, row : x = Refusal(p, q) /\ row = Reserved(stock[p], q)
    OBVIOUS
  <2>1. IF x = NULL THEN Set(w, i, [t EXCEPT !.phase = "reload", !.part = row])
                    ELSE Set(w, i, [t EXCEPT !.phase = "insert", !.code = x])
    BY <1>6 DEF FindPart
  <2>2. x = NULL => code[p] # NULL
    <3>1. x = NULL => stock[p].active
      BY NullAssumption DEF Refusal
    <3> QED
      BY <1>1, <3>1 DEF PartsExist
  <2>3. CASE x = NULL
    <3> PICK u : u = [t EXCEPT !.phase = "reload", !.part = row]
      OBVIOUS
    <3>1. u.phase = "reload" /\ Set(w, i, u)
      BY <1>1, <2>1, <2>3 DEF Task
    <3> QED
      BY <1>3, <2>2, <2>3, <3>1
  <2>4. CASE x # NULL
    <3> PICK u : u = [t EXCEPT !.phase = "insert", !.code = x]
      OBVIOUS
    <3>1. u.phase = "insert" /\ u.code = x /\ Set(w, i, u)
      BY <1>1, <2>1, <2>4 DEF Task
    <3> QED
      BY <1>3, <2>4, <3>1
  <2> QED
    BY <2>3, <2>4
<1>7. CASE ReloadPart(w, i)
  <2> PICK u : u = [t EXCEPT !.phase = "update", !.loaded = stock[p]]
    OBVIOUS
  <2>1. u.phase = "update" /\ Set(w, i, u) /\ t.phase = "reload"
    BY <1>1, <1>7 DEF ReloadPart, At, Task
  <2> QED
    BY <1>1, <1>3, <2>1
<1>8. CASE UpdatePart(w, i)
  <2>1. t.phase = "update" /\ Advance(w, i, "insert")
    BY <1>8 DEF UpdatePart, At
  <2> QED
    BY <1>1, <1>4, <2>1
<1>9. CASE InsertReservation(w, i)
  <2> PICK u : u = [t EXCEPT !.phase = "done", !.at = attempts]
    OBVIOUS
  <2>1. u.phase = "done"
    BY <1>1 DEF Task
  <2>2. Set(w, i, u) \/ Advance(w, i, "threw")
    BY <1>9 DEF InsertReservation
  <2> QED
    BY <1>3, <1>4, <2>1, <2>2
<1>10. CASE Break(w, i)
  BY <1>4, <1>10 DEF Break
<1> QED
  BY <1>5, <1>6, <1>7, <1>8, <1>9, <1>10 DEF TaskStep

LEMMA ReserveStepKeepsParts ==
  ASSUME SharedTypeInv, PartsExist, NEW w \in Worker, ReserveStep(w)
  PROVE  PartsExist'
<1>0. UNCHANGED <<code, command, held>> /\ ReserveTyped /\ TablesTyped
  BY DEF ReserveStep, operatorVars, releaseVars, SharedTypeInv
<1>1. /\ \A o \in Operator : CommandHasPart(o)'
      /\ \A v \in Releaser, p \in Part : PartLock(p)' \in held'[v] => code'[p] # NULL
  BY <1>0 DEF PartsExist, CommandHasPart, Creates, PartLock
<1>2. CASE RequestStep(w)
  <2>1. UNCHANGED <<stock, reservation>>
    BY <1>2 DEF RequestStep, Begin, Answer, Abort, tables
  <2>2. ASSUME NEW v \in Worker, NEW j \in DOMAIN task'[v] PROVE TaskHasPart(v, j)'
    <3>1. \/ task'[v] = task[v] /\ request'[v] = request[v]
          \/ task'[v][j].phase = "find"
      <4>1. CASE \E r \in Request : Begin(w, r)
        BY <1>0, <2>2, <4>1 DEF ReserveTyped, Begin, Fresh
      <4>2. CASE Answer(w) \/ Abort(w)
        BY <1>0, <2>2, <4>2 DEF ReserveTyped, Answer, Abort, Finish
      <4> QED
        BY <1>2, <4>1, <4>2 DEF RequestStep
    <3> QED
      BY <1>0, <2>2, <3>1 DEF PartsExist, TaskHasPart
  <2> QED
    BY <1>0, <1>1, <2>1, <2>2 DEF PartsExist
<1>3. ASSUME NEW i \in DOMAIN task[w], TaskStep(w, i) PROVE PartsExist'
  <2>1. \A v \in Worker : \A j \in DOMAIN task'[v] : TaskHasPart(v, j)'
    BY <1>0, <1>3, TaskStepHasPart
  <2>2. \A p \in Part : code[p] = NULL => ~stock'[p].active
    <3>1. CASE UpdatePart(w, i)
      <4>1. Item(w, i).part \in Part /\ \A r \in Part : r # Item(w, i).part => stock'[r] = stock[r]
        BY <3>1, UpdateTouches
      <4>2. code[Item(w, i).part] # NULL
        BY <3>1 DEF UpdatePart, At, PartsExist, TaskHasPart, Item
      <4> QED
        BY <4>1, <4>2 DEF PartsExist
    <3>2. CASE ~UpdatePart(w, i)
      <4>1. UNCHANGED stock
        BY <1>3, <3>2 DEF TaskStep, FindReservation, FindPart, ReloadPart, InsertReservation, Break, tables
      <4> QED
        BY <4>1 DEF PartsExist
    <3> QED
      BY <3>1, <3>2
  <2>3. \A o \in Order, p \in Part : reservation'[o][p].status = "RESERVED" => code[p] # NULL
    <3>1. CASE InsertReservation(w, i)
      <4> SUFFICES ASSUME NEW o \in Order, NEW p \in Part,
                          reservation'[o][p].status = "RESERVED"
                   PROVE  code[p] # NULL
        OBVIOUS
      <4>1. CASE reservation'[o][p] = reservation[o][p]
        BY <4>1 DEF PartsExist
      <4>2. CASE reservation'[o][p] # reservation[o][p]
        <5> PICK q, c : q = Item(w, i).quantity /\ c = task[w][i].code
          OBVIOUS
        <5>1. /\ p = Item(w, i).part /\ task[w][i].phase = "insert"
              /\ reservation'[o][p] = NewReservation(q, c)
          BY <3>1, <4>2, InsertTouches
        <5>2. NewReservation(q, c).status = IF c = NULL THEN "RESERVED" ELSE "FAILED"
          BY DEF NewReservation
        <5>3. c = NULL
          BY <5>1, <5>2
        <5> QED
          BY <5>1, <5>3 DEF PartsExist, TaskHasPart, Item
      <4> QED
        BY <4>1, <4>2
    <3>2. CASE ~InsertReservation(w, i)
      <4>1. UNCHANGED reservation
        BY <1>3, <3>2 DEF TaskStep, FindReservation, FindPart, ReloadPart, UpdatePart, Break, tables
      <4> QED
        BY <4>1 DEF PartsExist
    <3> QED
      BY <3>1, <3>2
  <2> QED
    BY <1>0, <1>1, <2>1, <2>2, <2>3 DEF PartsExist
<1> QED
  BY <1>2, <1>3, ReserveStepIs

LEMMA ReleaseStepKeepsParts ==
  ASSUME SharedTypeInv, LockInv, NEW v \in Releaser, ReleaseStep(v)
  PROVE  PartsExist'
<1>0. UNCHANGED <<code, command, task, request>> /\ ReleaseTyped /\ PartsExist
  BY DEF ReleaseStep, operatorVars, reserveVars, SharedTypeInv, LockInv
<1>1. /\ \A o \in Operator : CommandHasPart(o)'
      /\ \A w \in Worker : \A i \in DOMAIN task'[w] : TaskHasPart(w, i)'
  BY <1>0 DEF PartsExist, CommandHasPart, Creates, TaskHasPart
<1>2. /\ \A p \in Part : code[p] = NULL => ~stock'[p].active
      /\ \A o \in Order, p \in Part : reservation'[o][p].status = "RESERVED" => code[p] # NULL
  <2>1. CASE ~Release!Commit(v)
    BY <1>0, <2>1, ReleaseKeepsRows DEF PartsExist
  <2>2. CASE Release!Commit(v)
    <3> PICK r, W : r = releaseRequest[v] /\ W = DOMAIN write[v]
      OBVIOUS
    <3>1. Decides(v, r, W) /\ Writes(v, r, W)
      BY <2>2, CommitDecides
    <3>2. /\ W \subseteq Part /\ \A p \in W : code[p] # NULL
          /\ \A p \in Part : p \notin W => stock'[p] = stock[p]
      BY <1>0, <3>1 DEF Decides, Writes, PartsExist
    <3>3. ASSUME NEW o \in Order, NEW p \in Part, p \notin W
          PROVE  reservation'[o][p] = reservation[o][p]
      BY <3>1, <3>3 DEF Writes
    <3> QED
      BY <1>0, <3>2, <3>3 DEF PartsExist
  <2> QED
    BY <2>1, <2>2
<1>3. ASSUME NEW u \in Releaser, NEW p \in Part, PartLock(p) \in held'[u] PROVE code[p] # NULL
  <2>1. CASE PartLock(p) \in held[u]
    BY <1>0, <2>1 DEF PartsExist
  <2>2. CASE PartLock(p) \notin held[u]
    <3>1. u = v
      BY <1>0, <1>3, <2>2, OthersInFlight
    <3>2. Release!Wanted(v) = PartLock(p) /\ pc[v] \in {"insert", "lockReservation", "lockPart"}
      BY <1>0, <1>3, <2>2, <3>1, HeldMoves
    <3>3. pc[v] = "lockPart" /\ Release!Item(v) = p
      BY <3>2 DEF Release!Wanted, PartLock
    <3>4. Matches(v, p)
      BY <3>3 DEF LockInv, TransactionHolds
    <3>5. releaseRequest[v].order \in Order
      BY <1>0, <3>3, ReleaseIsAsked DEF ReleaseTyped, WorkIsKnown
    <3> QED
      BY <1>0, <3>4, <3>5 DEF Matches, PartsExist
  <2> QED
    BY <2>1, <2>2
<1> QED
  BY <1>0, <1>1, <1>2, <1>3 DEF PartsExist, PartLock

(* An operator: a part is there from its creation on, and created once.    *)
LEMMA AskKeepsParts ==
  ASSUME SharedTypeInv, PartsExist, NEW o \in Operator, Ask(o), UNCHANGED releaseVars
  PROVE  PartsExist'
<1>0. /\ OperatorTyped /\ UNCHANGED <<stock, reservation, task, request, code>>
      /\ command[o] = NULL
  BY DEF SharedTypeInv, Ask, StartCommand, StartCreation, vars, tables
<1>1. /\ \A p \in Part : code[p] = NULL => ~stock'[p].active
      /\ \A w \in Worker : \A i \in DOMAIN task'[w] : TaskHasPart(w, i)'
      /\ \A p \in Order, q \in Part : reservation'[p][q].status = "RESERVED" => code[q] # NULL
  BY <1>0 DEF PartsExist, TaskHasPart
<1>2. ASSUME NEW c, c # NULL, command' = [command EXCEPT ![o] = c],
             c.kind = "create" <=> code[c.part] = NULL,
             c.kind = "create" => \A q \in Operator : command[q] # NULL => command[q].part # c.part
      PROVE  \A u \in Operator : CommandHasPart(u)'
  <2>1. command'[o] = c /\ \A u \in Operator : u # o => command'[u] = command[u]
    BY <1>0, <1>2 DEF OperatorTyped
  <2>2. \A u \in Operator : Creates(u)' <=> IF u = o THEN c.kind = "create" ELSE Creates(u)
    BY <1>2, <2>1 DEF Creates
  <2>3. ASSUME NEW u \in Operator, command'[u] # NULL
        PROVE  Creates(u)' <=> code[command'[u].part] = NULL
    BY <1>2, <2>1, <2>2, <2>3 DEF PartsExist, CommandHasPart
  <2>4. ASSUME NEW t \in Operator, NEW u \in Operator, Creates(t)', Creates(u)', t # u
        PROVE  command'[t].part # command'[u].part
    <3>1. CASE t = o
      BY <1>2, <2>1, <2>2, <2>4, <3>1 DEF Creates
    <3>2. CASE u = o
      BY <1>2, <2>1, <2>2, <2>4, <3>2 DEF Creates
    <3>3. CASE t # o /\ u # o
      BY <2>1, <2>2, <2>4, <3>3 DEF PartsExist, CommandHasPart, Creates
    <3> QED
      BY <3>1, <3>2, <3>3
  <2>5. ASSUME NEW u \in Operator PROVE CommandHasPart(u)'
    BY <1>0, <2>3, <2>4 DEF CommandHasPart
  <2> QED
    BY <2>5
<1>3. ASSUME \E c \in Command : StartCommand(o, c) PROVE \A u \in Operator : CommandHasPart(u)'
  <2> PICK c \in Command : StartCommand(o, c)
    BY <1>3
  <2>1. c.kind # "create" /\ c # NULL /\ c.part \in Part
    BY CommandIsAsked DEF Kind
  <2>2. command' = [command EXCEPT ![o] = c] /\ stock[c.part].active
    BY DEF StartCommand, Allows
  <2>3. code[c.part] # NULL
    BY <2>1, <2>2 DEF PartsExist
  <2> QED
    BY <1>2, <2>1, <2>2, <2>3
<1>4. ASSUME \E c \in Creation : StartCreation(o, c) PROVE \A u \in Operator : CommandHasPart(u)'
  <2> PICK c \in Creation : StartCreation(o, c)
    BY <1>4
  <2>1. c.kind = "create" /\ c # NULL
    BY CreationIsAsked
  <2>2. /\ command' = [command EXCEPT ![o] = c] /\ code[c.part] = NULL
        /\ \A q \in Operator : command[q] # NULL => command[q].part # c.part
    BY DEF StartCreation
  <2>3. c.kind = "create" <=> code[c.part] = NULL
    BY <2>1, <2>2
  <2> QED
    BY <1>2, <2>1, <2>2, <2>3
<1>5. \A v \in Releaser, p \in Part : PartLock(p) \in held[v] => code[p] # NULL
  BY DEF PartsExist
<1>6. UNCHANGED held
  BY DEF releaseVars
<1> QED
  BY <1>0, <1>1, <1>3, <1>4, <1>5, <1>6 DEF Ask, PartsExist, PartLock

LEMMA DoneKeepsCommands ==
  ASSUME OperatorTyped, PartsExist, NEW o \in Operator, Done(o),
         \A u \in Operator \ {o} : command[u] # NULL =>
           (code'[command[u].part] = NULL <=> code[command[u].part] = NULL)
  PROVE  \A u \in Operator : CommandHasPart(u)'
<1>1. command'[o] = NULL /\ \A u \in Operator : u # o => command'[u] = command[u]
  BY DEF Done, OperatorTyped
<1>2. \A u \in Operator : Creates(u)' <=> u # o /\ Creates(u)
  BY <1>1 DEF Creates
<1>3. ASSUME NEW u \in Operator, command'[u] # NULL
      PROVE  Creates(u)' <=> code'[command'[u].part] = NULL
  <2>1. u # o /\ command'[u] = command[u] /\ command[u] # NULL
    BY <1>1, <1>3
  <2>2. Creates(u) <=> code[command[u].part] = NULL
    BY <2>1 DEF PartsExist, CommandHasPart
  <2>3. code'[command[u].part] = NULL <=> code[command[u].part] = NULL
    BY <2>1
  <2> QED
    BY <1>2, <2>1, <2>2, <2>3
<1>4. ASSUME NEW t \in Operator, NEW u \in Operator, Creates(t)', Creates(u)',
             command'[t].part = command'[u].part
      PROVE  t = u
  <2>1. /\ Creates(t) /\ Creates(u) /\ command'[t] = command[t] /\ command'[u] = command[u]
        /\ command[t] # NULL
    BY <1>1, <1>2, <1>4 DEF Creates
  <2> QED
    BY <1>4, <2>1 DEF PartsExist, CommandHasPart
<1>5. ASSUME NEW u \in Operator PROVE CommandHasPart(u)'
  BY <1>3, <1>4 DEF CommandHasPart
<1> QED
  BY <1>5

LEMMA OperatorStepKeepsParts ==
  ASSUME SharedTypeInv, PartsExist, NEW o \in Operator, OperatorStep(o)
  PROVE  PartsExist'
<1>0. /\ OperatorTyped /\ TablesTyped /\ UNCHANGED <<reservation, task, request, held>>
      /\ UNCHANGED releaseVars
  BY OperatorStepTyped DEF SharedTypeInv, reserveVars, releaseVars
<1>1. ASSUME \A p \in Part : code[p] # NULL => code'[p] # NULL,
             \A p \in Part : code'[p] = NULL => stock'[p] = stock[p],
             \A u \in Operator : CommandHasPart(u)'
      PROVE  PartsExist'
  <2>1. \A p \in Part : code'[p] = NULL => ~stock'[p].active
    BY <1>1 DEF PartsExist
  <2>2. ASSUME NEW w \in Worker, NEW i \in DOMAIN task[w] PROVE TaskHasPart(w, i)'
    <3>1. request[w].items[i].part \in Part
      BY <2>2, TaskIsKnown DEF SharedTypeInv, Item
    <3> QED
      BY <1>0, <1>1, <2>2, <3>1 DEF PartsExist, TaskHasPart
  <2>3. \A p \in Order, q \in Part : reservation'[p][q].status = "RESERVED" => code'[q] # NULL
    BY <1>0, <1>1 DEF PartsExist
  <2>4. \A v \in Releaser, p \in Part : PartLock(p)' \in held'[v] => code'[p] # NULL
    BY <1>0, <1>1 DEF PartsExist, PartLock
  <2> QED
    BY <1>0, <1>1, <2>1, <2>2, <2>3, <2>4 DEF PartsExist
<1>2. CASE Ask(o)
  BY <1>0, <1>2, AskKeepsParts
<1>3. CASE ReloadForCommand(o)
  <2>1. UNCHANGED <<stock, code, command>>
    BY <1>3 DEF ReloadForCommand, vars, tables
  <2>2. \A u \in Operator : CommandHasPart(u)'
    BY <2>1 DEF PartsExist, CommandHasPart, Creates
  <2> QED
    BY <1>1, <2>1, <2>2
<1>4. CASE CommandEnds(o)
  <2>1. UNCHANGED <<stock, code>> /\ Done(o)
    BY <1>4 DEF CommandEnds, vars, tables
  <2> QED
    BY <1>0, <1>1, <2>1, DoneKeepsCommands
<1>5. CASE UpdateForCommand(o)
  <2>1. UNCHANGED code /\ Done(o) /\ command[o] # NULL /\ ~Creates(o)
    BY <1>0, <1>5 DEF UpdateForCommand, OperatorTyped, CommandIsCounted
  <2>2. \A u \in Operator : CommandHasPart(u)'
    BY <1>0, <2>1, DoneKeepsCommands
  <2>3. code[command[o].part] # NULL
    BY <2>1 DEF PartsExist, CommandHasPart
  <2>4. \A p \in Part : p # command[o].part => stock'[p] = stock[p]
    <3>1. PICK row : Saved(o, row)
      BY <1>5 DEF UpdateForCommand
    <3> QED
      BY <2>1, <3>1, SavedTouches
  <2>5. \A p \in Part : code'[p] = NULL => stock'[p] = stock[p]
    BY <2>1, <2>3, <2>4
  <2> QED
    BY <1>1, <2>1, <2>2, <2>5
<1>6. CASE InsertPart(o)
  <2>1. Done(o) /\ Creates(o) /\ command[o] # NULL
    BY <1>6 DEF InsertPart, Creates
  <2>2. CASE UNCHANGED <<stock, code>>
    BY <1>0, <1>1, <2>1, <2>2, DoneKeepsCommands
  <2>3. CASE /\ Saved(o, entity[o])
             /\ code' = [code EXCEPT ![command[o].part] = command[o].code]
    <3> PICK p, x : p = command[o].part /\ x = command[o].code
      OBVIOUS
    <3>1. p \in Part /\ x # NULL /\ code \in [Part -> PartCode \cup {NULL}]
      BY <1>0, <2>1, CommandIsKnown, NoCommandAssumption DEF OperatorTyped
    <3>2. code'[p] = x /\ \A r \in Part : r # p => code'[r] = code[r]
      BY <2>3, <3>1
    <3>3. \A r \in Part : r # p => stock'[r] = stock[r]
      <4> PICK row : row = entity[o]
        OBVIOUS
      <4>1. Saved(o, row)
        BY <2>3
      <4> QED
        BY <2>1, <4>1, SavedTouches
    <3>4. ASSUME NEW u \in Operator \ {o}, command[u] # NULL
          PROVE  code'[command[u].part] = NULL <=> code[command[u].part] = NULL
      <4> PICK r : r = command[u].part
        OBVIOUS
      <4>1. r \in Part /\ (Creates(u) <=> code[r] = NULL)
        BY <1>0, <3>4, CommandIsKnown DEF PartsExist, CommandHasPart
      <4>2. Creates(u) => r # p
        BY <2>1, <3>4 DEF PartsExist, CommandHasPart
      <4> QED
        BY <3>1, <3>2, <4>1, <4>2
    <3>5. \A u \in Operator : CommandHasPart(u)'
      BY <1>0, <2>1, <3>4, DoneKeepsCommands
    <3> QED
      BY <1>1, <3>1, <3>2, <3>3, <3>5
  <2>4. (UNCHANGED <<stock, code>>) \/ /\ Saved(o, entity[o])
                                       /\ code' = [code EXCEPT ![command[o].part] = command[o].code]
    BY <1>6 DEF InsertPart
  <2> QED
    BY <2>2, <2>3, <2>4
<1> QED
  BY <1>2, <1>3, <1>4, <1>5, <1>6 DEF OperatorStep

-----------------------------------------------------------------------------
(* Every step keeps the locks and what they stand for.                     *)

LEMMA StepKeepsLocks ==
  ASSUME SharedTypeInv, SharedTypeInv', LockInv, [SharedNext]_sharedVars
  PROVE  LockInv'
<1> SUFFICES /\ LocksAreExclusive' /\ \A v \in Releaser : TransactionHolds(v)' /\ VerdictsHold(v)'
             /\ ReleaserIsKnown' /\ ReleasedIsStored' /\ PartsExist' /\ ReleasesArePhysical'
  BY DEF LockInv
<1>0. /\ LocksAreExclusive /\ ReleaserIsKnown /\ ReleasedIsStored /\ PartsExist
      /\ ReleasesArePhysical
  BY DEF LockInv
<1>1. CASE UNCHANGED sharedVars
  <2>1. \A u \in Releaser : LockedStays(u) /\ Untouched(u)
    BY <1>1 DEF sharedVars, tables, releaseVars, LockedStays, Untouched
  <2>2. \A u \in Releaser : TransactionHolds(u)' /\ VerdictsHold(u)'
    BY <2>1, KnownStays DEF LockInv
  <2>3. PartsExist'
    BY <1>0, <1>1 DEF sharedVars, tables, operatorVars, reserveVars, releaseVars,
       PartsExist, TaskHasPart, CommandHasPart, Creates, PartLock
  <2>4. UNCHANGED <<reservation, operation, released, held>>
    BY <1>1 DEF sharedVars, tables, releaseVars
  <2>5. LocksAreExclusive'
    BY <1>0, <2>4 DEF LocksAreExclusive
  <2> QED
    BY <1>0, <2>2, <2>3, <2>4, <2>5, SameReports, SameStored
<1>2. ASSUME NEW w \in Worker, ReserveStep(w)
      PROVE  /\ LocksAreExclusive' /\ \A v \in Releaser : TransactionHolds(v)' /\ VerdictsHold(v)'
             /\ ReleaserIsKnown' /\ ReleasedIsStored' /\ PartsExist' /\ ReleasesArePhysical'
  <2>1. \A u \in Releaser : TransactionHolds(u)' /\ VerdictsHold(u)'
    BY <1>2, ReserveStepLeavesLocked, KnownStays DEF LockInv
  <2>2. UNCHANGED <<operation, released, held>>
    BY <1>2 DEF ReserveStep, releaseVars
  <2>3. LocksAreExclusive'
    BY <1>0, <2>2 DEF LocksAreExclusive
  <2> QED
    BY <1>0, <1>2, <2>1, <2>2, <2>3, ReserveStepKeepsReports, ReserveStepKeepsParts, SameStored
<1>3. ASSUME NEW o \in Operator, OperatorStep(o)
      PROVE  /\ LocksAreExclusive' /\ \A v \in Releaser : TransactionHolds(v)' /\ VerdictsHold(v)'
             /\ ReleaserIsKnown' /\ ReleasedIsStored' /\ PartsExist' /\ ReleasesArePhysical'
  <2>1. \A u \in Releaser : TransactionHolds(u)' /\ VerdictsHold(u)'
    BY <1>0, <1>3, OperatorStepLeavesLocked, KnownStays DEF LockInv
  <2>2. UNCHANGED <<reservation, operation, released, held>>
    BY <1>3, OperatorStepTyped DEF SharedTypeInv, releaseVars
  <2>3. LocksAreExclusive'
    BY <1>0, <2>2 DEF LocksAreExclusive
  <2> QED
    BY <1>0, <1>3, <2>1, <2>2, <2>3, OperatorStepKeepsParts, SameReports, SameStored
<1>4. ASSUME NEW v \in Releaser, ReleaseStep(v)
      PROVE  /\ LocksAreExclusive' /\ \A u \in Releaser : TransactionHolds(u)' /\ VerdictsHold(u)'
             /\ ReleaserIsKnown' /\ ReleasedIsStored' /\ PartsExist' /\ ReleasesArePhysical'
  <2>1. \A u \in Releaser : u # v => TransactionHolds(u)' /\ VerdictsHold(u)'
    BY <1>4, ReleaseStepLeavesLocked, KnownStays DEF LockInv
  <2>2. TransactionHolds(v)' /\ VerdictsHold(v)'
    BY <1>4, ReleaseStepKnows
  <2>3. LocksAreExclusive'
    BY <1>4, LocksStayExclusive
  <2> QED
    BY <1>4, <2>1, <2>2, <2>3, ReleaseStepKeepsReports, ReleaseStepKeepsStored,
       ReleaseStepKeepsParts
<1> QED
  BY <1>1, <1>2, <1>3, <1>4 DEF SharedNext

LEMMA InitEstablishesLockInv == SharedInit => LockInv
<1> SUFFICES ASSUME SharedInit PROVE LockInv
  OBVIOUS
<1>1. /\ reservation = [o \in Order |-> [p \in Part |->
                         [status |-> "ABSENT", quantity |-> 0, releasedBy |-> {}]]]
      /\ task = [w \in Worker |-> <<>>] /\ code = InitialCode
      /\ command = [o \in Operator |-> NULL]
  BY DEF SharedInit, PartInit, Init
<1>2. /\ operation = [c \in ReleaseCommand |-> NULL] /\ pc = [v \in Releaser |-> "idle"]
      /\ held = [v \in Releaser |-> {}] /\ released = {}
      /\ verdict = [v \in Releaser |-> <<>>] /\ write = [v \in Releaser |-> <<>>]
  BY DEF SharedInit, Release!WorkersInit
<1>3. PICK active \in InitialActive :
        stock = [p \in Part |-> [available |-> InitialAvailable[p], reserved |-> 0,
                                 active |-> active[p]]]
  BY DEF SharedInit, PartInit, Init
<1>4. PartsExist
  <2>1. \A p \in Part : code[p] = NULL => ~stock[p].active
    BY <1>1, <1>3, CodeAssumption
  <2>2. \A o \in Operator : CommandHasPart(o)
    BY <1>1 DEF CommandHasPart
  <2> QED
    BY <1>1, <1>2, <2>1, <2>2 DEF PartsExist
<1>5. LocksAreExclusive /\ ReleaserIsKnown /\ ReleasedIsStored
  BY <1>1, <1>2 DEF LocksAreExclusive, ReleaserIsKnown, ReleasedIsStored
<1>6. \A v \in Releaser : TransactionHolds(v) /\ VerdictsHold(v)
  BY <1>2 DEF TransactionHolds, OwnsCommand, IsInTransaction, VerdictsHold
<1>7. ReleasesArePhysical
  BY <1>1, <1>2 DEF ReleasesArePhysical, Release!ReportIsPhysical
<1> QED
  BY <1>4, <1>5, <1>6, <1>7 DEF LockInv

(* A release knows what its row locks protect, however reserve deliveries  *)
(* and the operators' requests overlap it: each verdict it has taken is    *)
(* still true when it commits (releaseOne, FOR UPDATE).                    *)
THEOREM LockInvariant == SharedSpec => []LockInv
<1>1. SharedTypeInv /\ SharedTypeInv' /\ LockInv /\ [SharedNext]_sharedVars => LockInv'
  BY StepKeepsLocks
<1>2. OverlapInv => SharedTypeInv
  BY DEF OverlapInv
<1> QED
  BY <1>1, <1>2, InitEstablishesLockInv, OverlapInvariant, PTL DEF SharedSpec

(* What a release command reports as released is what it released,         *)
(* whatever reserved, moved or created while its transaction ran: the rows *)
(* it looked at stay locked until it commits (releaseOne, FOR UPDATE).     *)
THEOREM ReleasesStayPhysical == SharedSpec => []ReleasesArePhysical
<1>1. LockInv => ReleasesArePhysical
  BY DEF LockInv
<1> QED
  BY <1>1, LockInvariant, PTL

(* However often a release is delivered, and whatever overlaps, every      *)
(* envelope published for it is the one that its command row still gives   *)
(* (consumeRelease publishes from the row).                                *)
THEOREM ReleaseAnswersAgree == SharedSpec => []Release!SameEnvelope
<1>1. LockInv => Release!SameEnvelope
  <2>1. SUFFICES ASSUME ReleasedIsStored PROVE Release!SameEnvelope
    BY DEF LockInv
  <2> QED
    BY <2>1 DEF ReleasedIsStored, Release!SameEnvelope
<1> QED
  BY <1>1, LockInvariant, PTL

-----------------------------------------------------------------------------
(* A deactivated part: who has read it as active, and who will not.        *)

(* What a release is going to write leaves the active flag as it is.       *)
FlagsKept == \A v \in Releaser : \A p \in DOMAIN write[v] : write[v][p].active = stock[p].active

LEMMA WrittenIsLocked ==
  ASSUME SharedTypeInv, LockInv, NEW v \in Releaser, NEW p \in DOMAIN write[v]
  PROVE  p \in Part /\ PartLock(p) \in held[v]
<1>1. p \in DOMAIN verdict[v] /\ IsBacked(v, p)
  BY DEF LockInv, VerdictsHold
<1> QED
  BY <1>1 DEF IsBacked, SharedTypeInv, ReleaseTyped, IsPartMap

LEMMA FlagsStay ==
  ASSUME SharedTypeInv, LockInv, FlagsKept, NEW u \in Releaser, LockedStays(u), Untouched(u)
  PROVE  \A p \in DOMAIN write'[u] : write'[u][p].active = stock'[p].active
<1> SUFFICES ASSUME NEW p \in DOMAIN write[u] PROVE write'[u][p].active = stock'[p].active
  BY DEF Untouched
<1>1. stock'[p] = stock[p]
  BY WrittenIsLocked DEF LockedStays
<1> QED
  BY <1>1 DEF FlagsKept, Untouched

LEMMA ReturnedKeepsFlag ==
  ASSUME TablesTyped, NEW v \in Releaser, NEW p \in Part
  PROVE  Release!Returned(v, p).active = stock[p].active
<1> PICK old, before, q : /\ old = stock[p] /\ before = snapshot[v].stock[p]
                          /\ q = releaseRequest[v].items[p]
  OBVIOUS
<1> DEFINE after == [old EXCEPT !.available = @ + q, !.reserved = @ - q]
<1>1. old \in CountedRow
  BY DEF TablesTyped
<1>2. "active" \in DOMAIN old /\ after.active = old.active
  BY <1>1 DEF CountedRow
<1>3. Release!Returned(v, p) = SaveColumns(old, before, after)
  BY DEF Release!Returned, Release!SaveColumns, SaveColumns
<1> HIDE DEF after
<1> QED
  BY <1>2, <1>3 DEF SaveColumns

LEMMA ReleaseStepKeepsFlags ==
  ASSUME SharedTypeInv, FlagsKept, NEW v \in Releaser, ReleaseStep(v)
  PROVE  \A p \in DOMAIN write'[v] : write'[v][p].active = stock'[p].active
<1>0. TablesTyped /\ ReleaseTyped
  BY DEF SharedTypeInv
<1>1. CASE IsOver(v)' \/ DOMAIN write'[v] = {}
  BY <1>1 DEF IsOver
<1>2. CASE UNCHANGED tables /\ UNCHANGED write[v]
  BY <1>2 DEF FlagsKept, tables
<1>3. CASE /\ Release!LockPart(v) /\ UNCHANGED tables
           /\ write'[v] = Release!Extend(write[v], Release!Item(v),
                                         Release!Returned(v, Release!Item(v)))
  <2> PICK i, row : i = Release!Item(v) /\ row = Release!Returned(v, i)
    OBVIOUS
  <2>1. i \in Part
    BY <1>0, <1>3, ReleaseItem DEF Release!LockPart, ReleaseTyped, WorkIsKnown
  <2>2. row.active = stock[i].active
    BY <1>0, <2>1, ReturnedKeepsFlag
  <2>3. /\ DOMAIN write'[v] = DOMAIN write[v] \cup {i} /\ write'[v][i] = row
        /\ \A p \in DOMAIN write[v] \ {i} : write'[v][p] = write[v][p]
        /\ UNCHANGED stock
    BY <1>3 DEF Release!Extend, tables
  <2> QED
    BY <2>2, <2>3 DEF FlagsKept
<1> QED
  BY <1>0, <1>1, <1>2, <1>3, ReleaseStepCases

LEMMA StepKeepsFlags ==
  ASSUME SharedTypeInv, LockInv, FlagsKept, [SharedNext]_sharedVars PROVE FlagsKept'
<1>1. CASE UNCHANGED sharedVars
  BY <1>1 DEF FlagsKept, sharedVars, tables, releaseVars
<1>2. ASSUME NEW w \in Worker, ReserveStep(w) PROVE FlagsKept'
  BY <1>2, ReserveStepLeavesLocked, FlagsStay DEF FlagsKept
<1>3. ASSUME NEW o \in Operator, OperatorStep(o) PROVE FlagsKept'
  BY <1>3, OperatorStepLeavesLocked, FlagsStay DEF FlagsKept, LockInv
<1>4. ASSUME NEW v \in Releaser, ReleaseStep(v) PROVE FlagsKept'
  <2> SUFFICES ASSUME NEW u \in Releaser
               PROVE  \A p \in DOMAIN write'[u] : write'[u][p].active = stock'[p].active
    BY DEF FlagsKept
  <2>1. CASE u = v
    BY <1>4, <2>1, ReleaseStepKeepsFlags
  <2>2. CASE u # v
    BY <1>4, <2>2, ReleaseStepLeavesLocked, FlagsStay
  <2> QED
    BY <2>1, <2>2
<1> QED
  BY <1>1, <1>2, <1>3, <1>4 DEF SharedNext

(* A reserve delivery finds no deactivated part; it saves one only that it *)
(* has read before.                                                        *)
LEMMA TaskStepFindsActive ==
  ASSUME SharedTypeInv, LockInv, NEW w \in Worker, NEW i \in DOMAIN task[w], TaskStep(w, i),
         NEW p \in Part, IsDeactivated(p)
  PROVE  /\ \A u \in Worker : CallsOn(u, p)' \subseteq CallsOn(u, p)
         /\ CallsOn(w, p) = {} => stock'[p] = stock[p]
<1>0. ReserveTyped /\ task[w][i] \in Task
  BY TaskIsKnown DEF SharedTypeInv
<1>1. UNCHANGED request
  BY DEF TaskStep, FindReservation, FindPart, ReloadPart, UpdatePart, InsertReservation, Break
<1>2. ASSUME NEW t, Set(w, i, t),
             t.phase \in {"reload", "update"} /\ Item(w, i).part = p => i \in CallsOn(w, p)
      PROVE  \A u \in Worker : CallsOn(u, p)' \subseteq CallsOn(u, p)
  <2> SUFFICES ASSUME NEW u \in Worker, NEW j \in CallsOn(u, p)' PROVE j \in CallsOn(u, p)
    OBVIOUS
  <2>1. /\ DOMAIN task'[u] = DOMAIN task[u] /\ task'[w][i] = t
        /\ j \in DOMAIN task[u] /\ <<u, j>> # <<w, i>> => task'[u][j] = task[u][j]
    BY <1>0, <1>2, OneTask DEF CallsOn
  <2>2. Item(u, j)' = Item(u, j)
    BY <1>1 DEF Item
  <2>3. CASE <<u, j>> = <<w, i>>
    BY <1>2, <2>1, <2>2, <2>3 DEF CallsOn
  <2>4. CASE <<u, j>> # <<w, i>>
    BY <2>1, <2>2, <2>4 DEF CallsOn
  <2> QED
    BY <2>3, <2>4
<1>3. ASSUME NEW phase \in {"findPart", "insert", "threw"}, Advance(w, i, phase)
      PROVE  \A u \in Worker : CallsOn(u, p)' \subseteq CallsOn(u, p)
  BY <1>2, <1>3 DEF Advance, Fresh
<1>4. CASE FindReservation(w, i)
  <2>1. Returned(w, i).phase = "done"
    BY <1>0 DEF Returned, Task
  <2>2. UNCHANGED stock
    BY <1>4 DEF FindReservation, tables
  <2>3. \/ Set(w, i, Returned(w, i))
        \/ Advance(w, i, "findPart") \/ Advance(w, i, "threw")
    BY <1>4 DEF FindReservation
  <2>4. CASE Set(w, i, Returned(w, i))
    BY <1>2, <2>1, <2>2, <2>4
  <2>5. CASE Advance(w, i, "findPart") \/ Advance(w, i, "threw")
    BY <1>3, <2>2, <2>5
  <2> QED
    BY <2>3, <2>4, <2>5
<1>5. CASE FindPart(w, i)
  <2> PICK r, q : r = Item(w, i).part /\ q = Item(w, i).quantity
    OBVIOUS
  <2>0. UNCHANGED stock
    BY <1>5 DEF FindPart, tables
  <2>1. CASE Refusal(r, q) = NULL
    <3> PICK t : t = [task[w][i] EXCEPT !.phase = "reload", !.part = Reserved(stock[r], q)]
      OBVIOUS
    <3>1. Set(w, i, t)
      BY <1>5, <2>1 DEF FindPart
    <3>2. stock[r].active
      BY <2>1, NullAssumption DEF Refusal
    <3>3. r # p
      BY <3>2 DEF IsDeactivated
    <3> QED
      BY <1>2, <2>0, <3>1, <3>3
  <2>2. CASE Refusal(r, q) # NULL
    <3> PICK t : t = [task[w][i] EXCEPT !.phase = "insert", !.code = Refusal(r, q)]
      OBVIOUS
    <3>1. Set(w, i, t) /\ t.phase = "insert"
      BY <1>0, <1>5, <2>2 DEF FindPart, Task
    <3> QED
      BY <1>2, <2>0, <3>1
  <2> QED
    BY <2>1, <2>2
<1>6. CASE ReloadPart(w, i)
  <2> PICK t : t = [task[w][i] EXCEPT !.phase = "update", !.loaded = stock[Item(w, i).part]]
    OBVIOUS
  <2>1. Set(w, i, t) /\ task[w][i].phase = "reload" /\ UNCHANGED stock
    BY <1>6 DEF ReloadPart, At, tables
  <2>2. Item(w, i).part = p => i \in CallsOn(w, p)
    BY <2>1 DEF CallsOn
  <2> QED
    BY <1>2, <2>1, <2>2
<1>7. CASE UpdatePart(w, i)
  <2>1. Advance(w, i, "insert") /\ task[w][i].phase = "update"
    BY <1>7 DEF UpdatePart, At
  <2>2. Item(w, i).part = p => i \in CallsOn(w, p)
    BY <2>1 DEF CallsOn
  <2>3. Item(w, i).part # p => stock'[p] = stock[p]
    BY <1>7, UpdateTouches
  <2> QED
    BY <1>3, <2>1, <2>2, <2>3
<1>8. CASE InsertReservation(w, i)
  <2>1. UNCHANGED stock
    BY <1>8 DEF InsertReservation
  <2>2. CASE RowOf(w, i).status = "ABSENT"
    <3> PICK t : t = [task[w][i] EXCEPT !.phase = "done", !.at = attempts]
      OBVIOUS
    <3>1. Set(w, i, t) /\ t.phase = "done"
      BY <1>0, <1>8, <2>2 DEF InsertReservation, Task
    <3> QED
      BY <1>2, <2>1, <3>1
  <2>3. CASE RowOf(w, i).status # "ABSENT"
    BY <1>3, <1>8, <2>1, <2>3 DEF InsertReservation
  <2> QED
    BY <2>2, <2>3
<1>9. CASE Break(w, i)
  BY <1>3, <1>9 DEF Break, tables
<1> QED
  BY <1>4, <1>5, <1>6, <1>7, <1>8, <1>9 DEF TaskStep

LEMMA ReserveStepFindsActive ==
  ASSUME SharedTypeInv, LockInv, NEW w \in Worker, ReserveStep(w),
         NEW p \in Part, IsDeactivated(p)
  PROVE  /\ CommandsOn(p)' = CommandsOn(p) /\ UNCHANGED operation
         /\ \A u \in Worker : CallsOn(u, p)' \subseteq CallsOn(u, p)
         /\ CallsOn(w, p) = {} => stock'[p] = stock[p]
<1>1. CommandsOn(p)' = CommandsOn(p) /\ UNCHANGED operation
  BY DEF ReserveStep, operatorVars, releaseVars, CommandsOn
<1>2. CASE RequestStep(w)
  <2>1. DOMAIN task = Worker /\ DOMAIN request = Worker
    BY DEF SharedTypeInv, ReserveTyped
  <2>2. /\ UNCHANGED stock
        /\ \A u \in Worker \ {w} : task'[u] = task[u] /\ request'[u] = request[u]
    BY <1>2, RequestStepBalances
  <2>3. \A i \in DOMAIN task'[w] : task'[w][i].phase = "find"
    <3>1. CASE \E r \in Request : Begin(w, r)
      BY <2>1, <3>1 DEF Begin, Fresh
    <3>2. CASE Answer(w) \/ Abort(w)
      BY <2>1, <3>2 DEF Answer, Abort, Finish
    <3> QED
      BY <1>2, <3>1, <3>2 DEF RequestStep
  <2>4. \A u \in Worker : CallsOn(u, p)' \subseteq CallsOn(u, p)
    <3> SUFFICES ASSUME NEW u \in Worker, u # w PROVE CallsOn(u, p)' \subseteq CallsOn(u, p)
      BY <2>3 DEF CallsOn
    <3> QED
      BY <2>2 DEF CallsOn, Item
  <2> QED
    BY <1>1, <2>2, <2>4
<1>3. CASE \E i \in DOMAIN task[w] : TaskStep(w, i)
  BY <1>1, <1>3, TaskStepFindsActive
<1> QED
  BY <1>2, <1>3, ReserveStepIs

(* Nor does a command, and a creation is of a part that is not there.      *)
LEMMA OperatorStepFindsActive ==
  ASSUME SharedTypeInv, NEW o \in Operator, OperatorStep(o), NEW p \in Part, IsDeactivated(p)
  PROVE  /\ CommandsOn(p)' \subseteq CommandsOn(p) /\ UNCHANGED operation
         /\ \A u \in Worker : CallsOn(u, p)' = CallsOn(u, p)
         /\ CommandsOn(p) = {} => stock'[p] = stock[p]
<1>0. /\ UNCHANGED operation /\ OperatorTyped
      /\ \A u \in Worker : CallsOn(u, p)' = CallsOn(u, p)
  BY OperatorStepTyped DEF SharedTypeInv, releaseVars, reserveVars, CallsOn, Item
<1>1. ASSUME \A u \in Operator : command'[u] \in {command[u], NULL}
      PROVE  CommandsOn(p)' \subseteq CommandsOn(p)
  BY <1>1 DEF CommandsOn
<1>2. CASE Ask(o)
  <2>1. PICK c : /\ command' = [command EXCEPT ![o] = c] /\ UNCHANGED stock
                 /\ \/ c \in Command /\ Allows(stock[c.part], c)
                    \/ c \in Creation /\ code[c.part] = NULL
    BY <1>2 DEF Ask, StartCommand, StartCreation, vars, tables
  <2>2. c.part # p
    BY <2>1 DEF Allows, IsDeactivated
  <2> QED
    BY <1>0, <2>1, <2>2 DEF CommandsOn, OperatorTyped
<1>3. CASE ReloadForCommand(o)
  BY <1>0, <1>1, <1>3 DEF ReloadForCommand, vars, tables
<1>4. ASSUME Done(o) PROVE CommandsOn(p)' \subseteq CommandsOn(p)
  BY <1>0, <1>1, <1>4 DEF Done, OperatorTyped
<1>5. ASSUME NEW row, command[o] # NULL, Saved(o, row), CommandsOn(p) = {}
      PROVE  stock'[p] = stock[p]
  BY <1>5, SavedTouches DEF CommandsOn
<1>6. CASE UpdateForCommand(o)
  <2>1. PICK row : command[o] # NULL /\ Saved(o, row) /\ Done(o)
    BY <1>0, <1>6 DEF UpdateForCommand, OperatorTyped, CommandIsCounted
  <2> QED
    BY <1>0, <1>4, <1>5, <2>1
<1>7. CASE InsertPart(o)
  <2>1. command[o] # NULL /\ Done(o) /\ (UNCHANGED stock \/ Saved(o, entity[o]))
    BY <1>7 DEF InsertPart, Creates
  <2> QED
    BY <1>0, <1>4, <1>5, <2>1
<1>8. CASE CommandEnds(o)
  BY <1>0, <1>4, <1>8 DEF CommandEnds, vars, tables
<1> QED
  BY <1>2, <1>3, <1>6, <1>7, <1>8 DEF OperatorStep

(* A release gives back to any part, and leaves its flag.                  *)
LEMMA ReleaseStepKeepsDeactivated ==
  ASSUME SharedTypeInv, LockInv, FlagsKept, NEW v \in Releaser, ReleaseStep(v),
         NEW p \in Part, IsDeactivated(p)
  PROVE  /\ CommandsOn(p)' = CommandsOn(p)
         /\ \A u \in Worker : CallsOn(u, p)' = CallsOn(u, p)
         /\ stock'[p] = stock[p] \/ operation' # operation
         /\ ~stock'[p].active
<1>1. /\ CommandsOn(p)' = CommandsOn(p)
      /\ \A u \in Worker : CallsOn(u, p)' = CallsOn(u, p)
  BY DEF ReleaseStep, reserveVars, operatorVars, CommandsOn, CallsOn, Item
<1>2. CASE ~Release!Commit(v)
  BY <1>1, <1>2, ReleaseKeepsRows DEF IsDeactivated
<1>3. CASE Release!Commit(v)
  <2>1. stock'[p] = IF p \in DOMAIN write[v] THEN write[v][p] ELSE stock[p]
    BY <1>3 DEF Release!Commit
  <2>2. ~stock'[p].active
    BY <2>1 DEF FlagsKept, IsDeactivated
  <2>3. operation' # operation
    <3> PICK r, W : r = releaseRequest[v] /\ W = DOMAIN write[v]
      OBVIOUS
    <3>1. operation[r.id] = NULL
      BY <1>3, CommitDecides DEF Decides
    <3>2. operation'[r.id] # NULL
      <4>1. ReleaseTyped' /\ pc'[v] = "publish" /\ releaseRequest'[v] = releaseRequest[v]
        BY <1>3, CommitTyped DEF SharedTypeInv, Release!Commit, Release!Goto, ReleaseTyped
      <4> QED
        BY <4>1 DEF ReleaseTyped, WorkIsKnown
    <3> QED
      BY <3>1, <3>2
  <2> QED
    BY <1>1, <2>2, <2>3
<1> QED
  BY <1>2, <1>3

StaysFrozen(p) ==
  /\ CommandsOn(p)' \subseteq CommandsOn(p)
  /\ \A w \in Worker : CallsOn(w, p)' \subseteq CallsOn(w, p)
  /\ IsFrozen(p) => stock'[p] = stock[p] \/ operation' # operation
  /\ operation' # operation \/ IsFrozen(p) => ~stock'[p].active

LEMMA StepKeepsFrozen ==
  ASSUME SharedTypeInv, LockInv, FlagsKept, SharedNext, NEW p \in Part, IsDeactivated(p)
  PROVE  StaysFrozen(p)
<1>1. ASSUME NEW w \in Worker, ReserveStep(w) PROVE StaysFrozen(p)
  BY <1>1, ReserveStepFindsActive DEF StaysFrozen, IsFrozen, IsDeactivated
<1>2. ASSUME NEW o \in Operator, OperatorStep(o) PROVE StaysFrozen(p)
  BY <1>2, OperatorStepFindsActive DEF StaysFrozen, IsFrozen, IsDeactivated
<1>3. ASSUME NEW v \in Releaser, ReleaseStep(v) PROVE StaysFrozen(p)
  BY <1>3, ReleaseStepKeepsDeactivated DEF StaysFrozen, IsFrozen
<1> QED
  BY <1>1, <1>2, <1>3 DEF SharedNext

(* Whatever overlaps, no call of reserveStock and no command takes up a    *)
(* deactivated part (findById); once those that had read it as active have *)
(* ended, only a release changes it, and no release ever makes it active.  *)
THEOREM DeactivatedStaysFrozen == SharedSpec => DeactivatedIsFrozen
<1>1. SharedTypeInv /\ LockInv /\ FlagsKept /\ [SharedNext]_sharedVars => FlagsKept'
  BY StepKeepsFlags
<1>2. SharedInit => FlagsKept
  BY DEF SharedInit, Release!WorkersInit, FlagsKept
<1>3. SharedTypeInv /\ LockInv /\ FlagsKept /\ [SharedNext]_sharedVars =>
        [\A p \in Part : IsDeactivated(p) =>
           /\ CommandsOn(p)' \subseteq CommandsOn(p)
           /\ \A w \in Worker : CallsOn(w, p)' \subseteq CallsOn(w, p)
           /\ IsFrozen(p) => stock'[p] = stock[p] \/ operation' # operation
           /\ operation' # operation \/ IsFrozen(p) => ~stock'[p].active]_sharedVars
  BY StepKeepsFrozen DEF StaysFrozen
<1>4. OverlapInv => SharedTypeInv
  BY DEF OverlapInv
<1> QED
  BY <1>1, <1>2, <1>3, <1>4, LockInvariant, OverlapInvariant, PTL DEF SharedSpec, DeactivatedIsFrozen

-----------------------------------------------------------------------------
(* What a command comes to.                                                *)

ByRows(c, r, due) ==
  /\ DOMAIN operation'[c].verdict = DOMAIN r.items
  /\ {p \in DOMAIN r.items : operation'[c].verdict[p] = "RELEASED"} = due
  /\ \A o \in Order, p \in Part : reservation'[o][p] =
       IF o = r.order /\ p \in due
         THEN [reservation[o][p] EXCEPT !.status = "RELEASED", !.releasedBy = {c}]
         ELSE reservation[o][p]

LEMMA CommitIsByRows ==
  ASSUME SharedTypeInv, LockInv, NEW v \in Releaser, Release!Commit(v),
         NEW c \in ReleaseCommand, IsDecidedNow(c)
  PROVE  IsDecidedByRows(c)
<1> PICK r, W, x : r = releaseRequest[v] /\ W = DOMAIN write[v] /\ x = verdict[v]
  OBVIOUS
<1>1. Decides(v, r, W) /\ Writes(v, r, W)
  BY CommitDecides
<1>2. /\ DOMAIN x = DOMAIN r.items /\ W \subseteq DOMAIN r.items
      /\ \A p \in DOMAIN r.items : x[p] = "RELEASED" <=> p \in W
      /\ \A p \in DOMAIN r.items : IsDue(r, p) <=> p \in W
  BY <1>1 DEF Decides
<1>3. c = r.id /\ operation'[c].request = r /\ operation'[c].verdict = x
  <2> PICK row : row = [request |-> r, verdict |-> x, at |-> occurredAt[v]]
    OBVIOUS
  <2>1. DOMAIN operation = ReleaseCommand /\ operation' = [operation EXCEPT ![r.id] = row]
    BY <1>1 DEF Writes, SharedTypeInv, ReleaseTyped
  <2>2. operation'[c] # operation[c]
    BY DEF IsDecidedNow
  <2>3. c = r.id /\ operation'[c] = row
    BY <2>1, <2>2
  <2> QED
    BY <2>3
<1>4. {p \in DOMAIN r.items : IsDue(r, p)} = W
  BY <1>2
<1>5. {p \in DOMAIN r.items : x[p] = "RELEASED"} = W
  BY <1>2
<1>6. \A o \in Order, p \in Part : reservation'[o][p] =
        IF o = r.order /\ p \in W
          THEN [reservation[o][p] EXCEPT !.status = "RELEASED", !.releasedBy = {c}]
          ELSE reservation[o][p]
  BY <1>1, <1>3, Zenon DEF Writes
<1>7. ByRows(c, r, W)
  <2>1. DOMAIN operation'[c].verdict = DOMAIN r.items
    BY <1>2, <1>3
  <2>2. {p \in DOMAIN r.items : operation'[c].verdict[p] = "RELEASED"} = W
    BY <1>3, <1>5
  <2> QED
    BY <1>6, <2>1, <2>2, Zenon DEF ByRows
<1> PICK s : s = operation'[c].request
  OBVIOUS
<1>8. IsDecidedByRows(c) <=> ByRows(c, s, {p \in DOMAIN s.items : IsDue(s, p)})
  BY DEF IsDecidedByRows, ByRows
<1> QED
  BY <1>3, <1>4, <1>7, <1>8

(* Every command is decided in one transaction that takes effect at once:  *)
(* by the rows as they are when it commits, it releases what can be        *)
(* released then, reports just that, and touches no other reservation,     *)
(* whatever ran between its statements (executeTransaction, releaseOne).   *)
THEOREM CommandsAreDecidedAtCommit == SharedSpec => DecidedAtCommit
<1>1. SharedTypeInv /\ LockInv /\ [SharedNext]_sharedVars =>
        [\A c \in ReleaseCommand : IsDecidedNow(c) => IsDecidedByRows(c)]_sharedVars
  <2> SUFFICES ASSUME SharedTypeInv, LockInv, SharedNext,
                      NEW c \in ReleaseCommand, IsDecidedNow(c)
               PROVE  IsDecidedByRows(c)
    OBVIOUS
  <2>1. operation' # operation
    BY DEF IsDecidedNow
  <2>2. ~(\E w \in Worker : ReserveStep(w)) /\ ~(\E o \in Operator : OperatorStep(o))
    BY <2>1 DEF ReserveStep, OperatorStep, releaseVars
  <2>3. PICK v \in Releaser : ReleaseStep(v)
    BY <2>2 DEF SharedNext
  <2>4. Release!Commit(v)
    BY <2>1, <2>3, ReleaseKeepsRows
  <2> QED
    BY <2>4, CommitIsByRows
<1>2. OverlapInv => SharedTypeInv
  BY DEF OverlapInv
<1> QED
  BY <1>1, <1>2, LockInvariant, OverlapInvariant, PTL DEF SharedSpec, DecidedAtCommit

-----------------------------------------------------------------------------
(* The order of the locks.                                                 *)

(* A transaction has locked its command, the rows of the parts it has      *)
(* judged, and the reservation of the part it is at; and it judges the     *)
(* parts from the first to the last.                                       *)
LocksAreItsOwn(v) ==
  IsInTransaction(v) =>
    \A name \in held[v] :
      \/ name = <<"operation", releaseRequest[v].id>>
      \/ \E p \in DOMAIN verdict[v] : name = KeyLock(v, p) \/ name = PartLock(p)
      \/ pc[v] = "lockPart" /\ name = KeyLock(v, Release!Item(v))

JudgesInOrder(v) ==
  pc[v] \in {"lockReservation", "lockPart"} => \A p \in DOMAIN verdict[v] : p < Release!Item(v)

LockOrder == \A v \in Releaser : LocksAreItsOwn(v) /\ JudgesInOrder(v)

LEMMA FirstItem ==
  ASSUME NEW v \in Releaser, releaseRequest[v] \in ReleaseRequest, Release!ToDo(v) # {}
  PROVE  /\ Release!Item(v) \in Release!ToDo(v)
         /\ \A q \in Release!ToDo(v) : Release!Item(v) <= q
         /\ Release!ToDo(v) \subseteq Part
<1>1. Release!ToDo(v) \in SUBSET Part /\ IsFiniteSet(Release!ToDo(v)) /\ Release!ToDo(v) \subseteq Int
  BY ReleaseIsAsked, PartAssumption, FS_Subset DEF Release!ToDo
<1>2. \E p \in Release!ToDo(v) : \A q \in Release!ToDo(v) : p <= q
  BY <1>1, LeastOfFinite
<1> QED
  BY <1>1, <1>2 DEF Release!Item

(* A transaction goes on with the part it is at, or with the next one.     *)
LEMMA ItemMoves ==
  ASSUME ReleaseTyped, NEW v \in Releaser, ReleaseStep(v), IsInTransaction(v)', pc[v] # "insert",
         NEW p, p = Release!Item(v)
  PROVE  /\ pc[v] \in {"lockReservation", "lockPart"} /\ Release!ToDo(v) # {}
         /\ releaseRequest[v] \in ReleaseRequest
         /\ \/ /\ pc[v] = "lockReservation" /\ pc'[v] = "lockPart" /\ verdict'[v] = verdict[v]
            \/ /\ pc'[v] # "lockPart" /\ DOMAIN verdict'[v] = DOMAIN verdict[v] \cup {p}
<1>1. ASSUME pc'[v] \in {"idle", "insert", "recover", "publish"} PROVE FALSE
  BY <1>1 DEF IsInTransaction
<1>2. DOMAIN pc = Releaser /\ DOMAIN verdict = Releaser
  BY DEF ReleaseTyped
<1>3. Release!LockReservation(v) \/ Release!LockPart(v)
  BY <1>1, <1>2 DEF ReleaseStep, Release!Step, Release!Begin, Release!InsertOperation, Release!Recover,
     Release!Commit, Release!Publish, Release!Abort, Release!Goto, Release!Finish
<1>4. /\ pc[v] \in {"lockReservation", "lockPart"} /\ Release!ToDo(v) # {}
      /\ releaseRequest[v] \in ReleaseRequest /\ UNCHANGED releaseRequest
  BY <1>3 DEF Release!LockReservation, Release!LockPart, ReleaseTyped, WorkIsKnown
<1>5. ASSUME NEW x, Release!Judge(v, x)
      PROVE  pc'[v] # "lockPart" /\ DOMAIN verdict'[v] = DOMAIN verdict[v] \cup {p}
  BY <1>2, <1>5 DEF Release!Judge, Release!Goto, Release!Extend
<1>6. CASE Release!LockReservation(v)
  <2>1. pc[v] = "lockReservation"
    BY <1>6 DEF Release!LockReservation
  <2>2. \/ pc' = [pc EXCEPT ![v] = "lockPart"] /\ verdict' = verdict
        \/ \E x : Release!Judge(v, x)
    BY <1>6 DEF Release!LockReservation, Release!Goto
  <2> QED
    BY <1>2, <1>4, <1>5, <2>1, <2>2
<1>7. CASE Release!LockPart(v)
  <2>1. (\E x : Release!Judge(v, x)) \/ pc' = [pc EXCEPT ![v] = "recover"]
    BY <1>7 DEF Release!LockPart, Release!Goto
  <2> QED
    BY <1>1, <1>2, <1>4, <1>5, <2>1
<1> QED
  BY <1>3, <1>6, <1>7

LEMMA ReleaseStepKeepsOrder ==
  ASSUME SharedTypeInv, SharedTypeInv', LockInv, NEW v \in Releaser, ReleaseStep(v),
         LocksAreItsOwn(v), JudgesInOrder(v)
  PROVE  LocksAreItsOwn(v)' /\ JudgesInOrder(v)'
<1>0. ReleaseTyped /\ ReleaseTyped' /\ TransactionHolds(v)
  BY DEF SharedTypeInv, LockInv
<1> SUFFICES ASSUME IsInTransaction(v)' PROVE LocksAreItsOwn(v)' /\ JudgesInOrder(v)'
  BY DEF LocksAreItsOwn, JudgesInOrder, IsInTransaction
<1>1. /\ held'[v] = held[v] \cup {Release!Wanted(v)} /\ UNCHANGED releaseRequest[v]
      /\ pc[v] \in {"insert", "lockReservation", "lockPart"}
  BY <1>0, HeldMoves, TransactionCases
<1>2. \A p : KeyLock(v, p)' = KeyLock(v, p) /\ PartLock(p)' = PartLock(p)
  BY <1>1 DEF KeyLock, PartLock
<1>3. CASE pc[v] = "insert"
  <2>1. held[v] = {} /\ Release!Wanted(v) = <<"operation", releaseRequest[v].id>>
    BY <1>0, <1>3 DEF TransactionHolds, IsInTransaction, Release!Wanted
  <2>2. Release!InsertOperation(v)
    BY <1>0, <1>3 DEF ReleaseStep, Release!Step, Release!Begin, Release!Recover,
       Release!LockReservation, Release!LockPart, Release!Commit, Release!Publish, Release!Abort,
       Release!Goto, Release!Finish, IsInTransaction, ReleaseTyped
  <2>3. UNCHANGED verdict
    BY <1>0, <2>2 DEF Release!InsertOperation, Release!Goto, IsInTransaction, ReleaseTyped
  <2>4. DOMAIN verdict'[v] = {}
    BY <1>0, <1>3, <2>3 DEF ReleaseTyped, WorkIsKnown, IsInTransaction
  <2> QED
    BY <1>1, <2>1, <2>4 DEF LocksAreItsOwn, JudgesInOrder
<1>4. CASE pc[v] # "insert"
  <2> PICK p : p = Release!Item(v)
    OBVIOUS
  <2>1. /\ pc[v] \in {"lockReservation", "lockPart"} /\ Release!ToDo(v) # {}
        /\ releaseRequest[v] \in ReleaseRequest
        /\ \/ /\ pc[v] = "lockReservation" /\ pc'[v] = "lockPart" /\ verdict'[v] = verdict[v]
           \/ /\ pc'[v] # "lockPart" /\ DOMAIN verdict'[v] = DOMAIN verdict[v] \cup {p}
    BY <1>0, <1>4, ItemMoves
  <2>2. Release!Wanted(v) = IF pc[v] = "lockReservation" THEN KeyLock(v, p) ELSE PartLock(p)
    BY <2>1 DEF Release!Wanted, KeyLock, PartLock
  <2>3. \A name \in held[v] :
          \/ name = <<"operation", releaseRequest[v].id>>
          \/ \E q \in DOMAIN verdict[v] : name = KeyLock(v, q) \/ name = PartLock(q)
          \/ pc[v] = "lockPart" /\ name = KeyLock(v, p)
    BY <2>1 DEF LocksAreItsOwn, IsInTransaction
  <2>4. CASE pc[v] = "lockReservation" /\ pc'[v] = "lockPart" /\ verdict'[v] = verdict[v]
    <3>1. Release!Item(v)' = p
      BY <1>1, <2>4 DEF Release!Item, Release!ToDo
    <3>2. LocksAreItsOwn(v)'
      BY <1>1, <1>2, <2>2, <2>3, <2>4, <3>1 DEF LocksAreItsOwn
    <3>3. JudgesInOrder(v)'
      BY <2>4, <3>1 DEF JudgesInOrder
    <3> QED
      BY <3>2, <3>3
  <2>5. CASE pc'[v] # "lockPart" /\ DOMAIN verdict'[v] = DOMAIN verdict[v] \cup {p}
    <3>1. LocksAreItsOwn(v)'
      <4>1. \A name \in held'[v] :
              \/ name = <<"operation", releaseRequest[v].id>>
              \/ \E q \in DOMAIN verdict'[v] : name = KeyLock(v, q) \/ name = PartLock(q)
        BY <1>1, <2>2, <2>3, <2>5
      <4> QED
        BY <1>1, <1>2, <4>1 DEF LocksAreItsOwn
    <3>2. ASSUME pc'[v] = "lockReservation" PROVE \A q \in DOMAIN verdict'[v] : q < Release!Item(v)'
      <4> PICK n : n = Release!Item(v)'
        OBVIOUS
      <4>1. /\ p \in Release!ToDo(v) /\ \A q \in Release!ToDo(v) : p <= q
            /\ Release!ToDo(v) \subseteq Part
        BY <2>1, FirstItem
      <4>2. Release!ToDo(v)' = Release!ToDo(v) \ {p}
        BY <1>1, <2>5 DEF Release!ToDo
      <4>3. Release!ToDo(v)' # {}
        BY <1>0, <3>2 DEF ReleaseTyped, WorkIsKnown
      <4>4. n \in Release!ToDo(v)'
        <5> PICK S : S = Release!ToDo(v)'
          OBVIOUS
        <5>1. S \subseteq Part /\ S # {} /\ IsFiniteSet(S) /\ S \subseteq Int
          BY <4>1, <4>2, <4>3, PartAssumption, FS_Subset
        <5>2. \E a \in S : \A b \in S : a <= b
          BY <5>1, LeastOfFinite
        <5>3. n = CHOOSE a \in S : \A b \in S : a <= b
          BY DEF Release!Item
        <5> QED
          BY <5>2, <5>3
      <4>5. p < n /\ n \in Int /\ p \in Int
        <5>1. n \in Release!ToDo(v) /\ n # p
          BY <4>2, <4>4
        <5>2. n \in Int /\ p \in Int /\ p <= n
          BY <4>1, <5>1, PartAssumption
        <5> QED
          BY <5>1, <5>2
      <4>6. \A q \in DOMAIN verdict[v] : q < p /\ q \in Int
        BY <1>0, <2>1, PartAssumption DEF JudgesInOrder, ReleaseTyped, IsPartMap
      <4>7. \A q \in DOMAIN verdict'[v] : q = p \/ (q < p /\ q \in Int)
        BY <2>5, <4>6
      <4> QED
        BY <4>5, <4>7
    <3> QED
      BY <2>5, <3>1, <3>2 DEF JudgesInOrder
  <2> QED
    BY <2>1, <2>4, <2>5
<1> QED
  BY <1>3, <1>4

LEMMA OrderStays ==
  ASSUME NEW u \in Releaser, LocksAreItsOwn(u), JudgesInOrder(u), Untouched(u)
  PROVE  LocksAreItsOwn(u)' /\ JudgesInOrder(u)'
<1>1. UNCHANGED Release!Item(u)
  BY DEF Untouched, Release!Item, Release!ToDo
<1>2. \A p : KeyLock(u, p)' = KeyLock(u, p) /\ PartLock(p)' = PartLock(p)
  BY DEF Untouched, KeyLock, PartLock
<1> QED
  BY <1>1, <1>2 DEF Untouched, LocksAreItsOwn, JudgesInOrder, IsInTransaction

LEMMA StepKeepsLockOrder ==
  ASSUME SharedTypeInv, SharedTypeInv', LockInv, LockOrder, [SharedNext]_sharedVars
  PROVE  LockOrder'
<1>1. ASSUME UNCHANGED releaseVars PROVE LockOrder'
  <2>1. \A u \in Releaser : Untouched(u)
    BY <1>1 DEF releaseVars, Untouched
  <2> QED
    BY <2>1, OrderStays DEF LockOrder
<1>2. ASSUME NEW v \in Releaser, ReleaseStep(v) PROVE LockOrder'
  <2>1. LocksAreItsOwn(v)' /\ JudgesInOrder(v)'
    BY <1>2, ReleaseStepKeepsOrder DEF LockOrder
  <2>2. \A u \in Releaser : u # v => Untouched(u)
    BY <1>2, OthersInFlight DEF SharedTypeInv, Untouched
  <2> QED
    BY <2>1, <2>2, OrderStays DEF LockOrder
<1>3. UNCHANGED releaseVars \/ \E v \in Releaser : ReleaseStep(v)
  BY DEF SharedNext, ReserveStep, OperatorStep, sharedVars
<1> QED
  BY <1>1, <1>2, <1>3

(* Whoever is waited for is at a later item, or further on at the same.    *)
LEMMA WaitersComeFirst ==
  ASSUME SharedTypeInv, LockInv, LockOrder, NEW t \in Releaser, NEW u \in Releaser,
         Release!WaitsFor(t, u), Release!Waits(u)
  PROVE  /\ pc[u] \in {"lockReservation", "lockPart"} /\ Release!Item(u) \in Part
         /\ pc[t] \in {"lockReservation", "lockPart"} =>
              \/ Release!Item(t) < Release!Item(u)
              \/ /\ Release!Item(t) = Release!Item(u)
                 /\ pc[t] = "lockReservation" /\ pc[u] = "lockPart"
<1>0. /\ ReleaseTyped /\ TransactionHolds(u) /\ LocksAreItsOwn(u) /\ JudgesInOrder(u)
      /\ Release!Wanted(t) \in held[u]
  BY DEF SharedTypeInv, LockInv, LockOrder, Release!WaitsFor
<1>1. IsInTransaction(u) /\ pc[u] \in {"lockReservation", "lockPart"}
  BY <1>0 DEF TransactionHolds, Release!Waits, IsInTransaction
<1> PICK p, q : p = Release!Item(t) /\ q = Release!Item(u)
  OBVIOUS
<1>2. q \in Part
  BY <1>0, <1>1, ReleaseItem DEF ReleaseTyped, WorkIsKnown
<1>3. ASSUME pc[t] \in {"lockReservation", "lockPart"}
      PROVE  p < q \/ (p = q /\ pc[t] = "lockReservation" /\ pc[u] = "lockPart")
  <2>1. Release!Wanted(t) = IF pc[t] = "lockReservation" THEN KeyLock(t, p) ELSE PartLock(p)
    BY <1>3 DEF Release!Wanted, KeyLock, PartLock
  <2>2. \/ Release!Wanted(t) = <<"operation", releaseRequest[u].id>>
        \/ \E r \in DOMAIN verdict[u] :
             Release!Wanted(t) = KeyLock(u, r) \/ Release!Wanted(t) = PartLock(r)
        \/ pc[u] = "lockPart" /\ Release!Wanted(t) = KeyLock(u, q)
    BY <1>0, <1>1 DEF LocksAreItsOwn
  <2>3. CASE Release!Wanted(t) = <<"operation", releaseRequest[u].id>>
    BY <2>1, <2>3 DEF KeyLock, PartLock
  <2>4. ASSUME NEW r \in DOMAIN verdict[u],
               Release!Wanted(t) = KeyLock(u, r) \/ Release!Wanted(t) = PartLock(r)
        PROVE  p < q
    <3>1. p = r
      BY <2>1, <2>4 DEF KeyLock, PartLock
    <3> QED
      BY <1>0, <1>1, <3>1 DEF JudgesInOrder
  <2>5. CASE pc[u] = "lockPart" /\ Release!Wanted(t) = KeyLock(u, q)
    <3>1. pc[t] = "lockReservation" /\ p = q
      BY <1>3, <2>1, <2>5 DEF KeyLock, PartLock
    <3> QED
      BY <2>5, <3>1
  <2> QED
    BY <2>2, <2>3, <2>4, <2>5
<1> QED
  BY <1>1, <1>2, <1>3

LEMMA LastPart ==
  ASSUME NEW T \in SUBSET Part, T # {}
  PROVE  \E p \in T : \A q \in T : q <= p
<1> PICK S : S = {-p : p \in T}
  OBVIOUS
<1>1. IsFiniteSet(T) /\ T \subseteq Int
  BY PartAssumption, FS_Subset
<1>2. S \subseteq Int /\ S # {} /\ IsFiniteSet(S)
  <2>1. PICK F : F = [p \in T |-> -p]
    OBVIOUS
  <2>2. F \in [T -> S] /\ \A s \in S : \E p \in T : F[p] = s
    BY <2>1
  <2>3. F \in Surjection(T, S)
    BY <2>2 DEF Surjection
  <2>4. IsFiniteSet(S)
    BY <1>1, <2>3, FS_Surjection
  <2> QED
    BY <1>1, <2>4
<1>3. PICK s \in S : \A r \in S : s <= r
  BY <1>2, LeastOfFinite
<1>4. PICK p \in T : s = -p
  BY <1>3
<1>5. \A q \in T : q <= p
  BY <1>1, <1>3, <1>4
<1> QED
  BY <1>5

(* So a circle of waiting transactions has none that comes last.           *)
LEMMA NoCircle == SharedTypeInv /\ LockInv /\ LockOrder => Release!NoDeadlock
<1> SUFFICES ASSUME SharedTypeInv, LockInv, LockOrder, NEW ring \in (SUBSET Releaser) \ {{}},
                    \A t \in ring : \E u \in ring : Release!WaitsFor(t, u)
             PROVE  FALSE
  BY DEF Release!NoDeadlock
<1> PICK inner : inner = {u \in ring : pc[u] \in {"lockReservation", "lockPart"}}
  OBVIOUS
<1> PICK items : items = {Release!Item(u) : u \in inner}
  OBVIOUS
<1>1. ring \subseteq Releaser /\ ring # {} /\ inner \subseteq ring
      /\ \A t \in ring : Release!Waits(t)
  BY DEF Release!WaitsFor
<1>2. \A t \in ring : \E u \in inner : Release!WaitsFor(t, u) /\ Release!Waits(u)
  BY <1>1, WaitersComeFirst
<1>3. inner # {} /\ \A u \in inner : Release!Item(u) \in Part
  <2>1. \A u \in inner : releaseRequest[u] \in ReleaseRequest /\ Release!ToDo(u) # {}
    BY <1>1 DEF SharedTypeInv, ReleaseTyped, WorkIsKnown
  <2> QED
    BY <1>1, <1>2, <2>1, ReleaseItem
<1>4. PICK p \in items : \A q \in items : q <= p
  <2>1. items \in SUBSET Part /\ items # {}
    BY <1>3
  <2> QED
    BY <2>1, LastPart
<1>5. PICK t \in inner : Release!Item(t) = p
  BY <1>4
<1>6. PICK u \in inner : Release!WaitsFor(t, u) /\ Release!Waits(u)
  BY <1>1, <1>2
<1>7. PICK w \in inner : Release!WaitsFor(u, w) /\ Release!Waits(w)
  BY <1>1, <1>2
<1> PICK q, r : q = Release!Item(u) /\ r = Release!Item(w)
  OBVIOUS
<1>8. q <= p /\ r <= p /\ p \in Int /\ q \in Int /\ r \in Int
  BY <1>3, <1>4, <1>5, PartAssumption
<1>9. p < q \/ (p = q /\ pc[u] = "lockPart")
  BY <1>1, <1>5, <1>6, WaitersComeFirst
<1>10. q < r \/ (q = r /\ pc[u] = "lockReservation")
  BY <1>1, <1>7, WaitersComeFirst
<1> QED
  BY <1>8, <1>9, <1>10

(* A release locks the rows of its items in the order of their part ids,   *)
(* and nothing besides (releaseReservations).                              *)
THEOREM LocksAreOrdered == SharedSpec => []LockOrder
<1>1. SharedInit => LockOrder
  BY DEF SharedInit, Release!WorkersInit, LockOrder, LocksAreItsOwn, JudgesInOrder, IsInTransaction
<1>2. SharedTypeInv /\ SharedTypeInv' /\ LockInv /\ LockOrder /\ [SharedNext]_sharedVars => LockOrder'
  BY StepKeepsLockOrder
<1>3. OverlapInv => SharedTypeInv
  BY DEF OverlapInv
<1> QED
  BY <1>1, <1>2, <1>3, LockInvariant, OverlapInvariant, PTL DEF SharedSpec

(* No circle of releases wait for one another's rows, whatever rows the    *)
(* others insert and write in the meantime: items are locked in the order  *)
(* of their part ids (releaseReservations).                                *)
THEOREM SharedReleasesDoNotDeadlock == SharedSpec => []Release!NoDeadlock
<1>1. OverlapInv => SharedTypeInv
  BY DEF OverlapInv
<1> QED
  BY <1>1, NoCircle, LocksAreOrdered, LockInvariant, OverlapInvariant, PTL

-----------------------------------------------------------------------------
(* The life of a reservation: it is inserted, and perhaps released.        *)

IsInserted(o, p) ==
  /\ reservation[o][p].status = "ABSENT"
  /\ reservation'[o][p].status \in {"RESERVED", "FAILED"} /\ reservation'[o][p].releasedBy = {}

IsReleased(o, p) ==
  /\ reservation[o][p].status = "RESERVED"
  /\ \E c \in ReleaseCommand :
       /\ IsDecidedNow(c)
       /\ reservation'[o][p] =
            [reservation[o][p] EXCEPT !.status = "RELEASED", !.releasedBy = {c}]

RowsLive ==
  \A o \in Order, p \in Part :
    reservation'[o][p] = reservation[o][p] \/ IsInserted(o, p) \/ IsReleased(o, p)

LEMMA ReserveStepInserts ==
  ASSUME SharedTypeInv, NEW w \in Worker, ReserveStep(w) PROVE RowsLive
<1>1. CASE RequestStep(w)
  BY <1>1 DEF RequestStep, Begin, Answer, Abort, tables, RowsLive
<1>2. ASSUME NEW i \in DOMAIN task[w], TaskStep(w, i), ~InsertReservation(w, i) PROVE RowsLive
  <2>1. UNCHANGED reservation
    BY <1>2 DEF TaskStep, FindReservation, FindPart, ReloadPart, UpdatePart, Break, tables
  <2> QED
    BY <2>1 DEF RowsLive
<1>3. ASSUME NEW i \in DOMAIN task[w], InsertReservation(w, i) PROVE RowsLive
  <2> PICK q, c : q = Item(w, i).quantity /\ c = task[w][i].code
    OBVIOUS
  <2>1. NewReservation(q, c).status \in {"RESERVED", "FAILED"} /\ NewReservation(q, c).releasedBy = {}
    BY DEF NewReservation
  <2>2. ASSUME NEW o \in Order, NEW p \in Part, reservation'[o][p] # reservation[o][p]
        PROVE  IsInserted(o, p)
    <3>1. reservation[o][p].status = "ABSENT" /\ reservation'[o][p] = NewReservation(q, c)
      BY <1>3, <2>2, InsertTouches
    <3> QED
      BY <2>1, <3>1 DEF IsInserted
  <2> QED
    BY <2>2 DEF RowsLive
<1> QED
  BY <1>1, <1>2, <1>3, ReserveStepIs

LEMMA CommitReleases ==
  ASSUME SharedTypeInv, SharedTypeInv', LockInv, NEW v \in Releaser, Release!Commit(v)
  PROVE  RowsLive
<1> PICK r, W : r = releaseRequest[v] /\ W = DOMAIN write[v]
  OBVIOUS
<1>1. Decides(v, r, W) /\ Writes(v, r, W)
  BY CommitDecides
<1>2. r.id \in ReleaseCommand /\ IsDecidedNow(r.id)
  <2>1. r.id \in ReleaseCommand /\ operation[r.id] = NULL
    BY <1>1 DEF Decides
  <2>2. pc'[v] = "publish" /\ releaseRequest' = releaseRequest
    BY DEF Release!Commit, Release!Goto, SharedTypeInv, ReleaseTyped
  <2>3. operation'[r.id] # NULL
    BY <2>2 DEF SharedTypeInv, ReleaseTyped, WorkIsKnown
  <2> QED
    BY <2>1, <2>3 DEF IsDecidedNow
<1>3. ASSUME NEW o \in Order, NEW p \in Part
      PROVE  reservation'[o][p] = reservation[o][p] \/ IsReleased(o, p)
  <2>1. CASE o = r.order /\ p \in W
    <3>1. reservation[o][p].status = "RESERVED"
      BY <1>1, <2>1 DEF Decides, IsDue
    <3>2. reservation'[o][p] =
            [reservation[o][p] EXCEPT !.status = "RELEASED", !.releasedBy = {r.id}]
      BY <1>1, <2>1 DEF Writes
    <3> QED
      BY <1>2, <3>1, <3>2, Zenon DEF IsReleased
  <2>2. CASE ~(o = r.order /\ p \in W)
    BY <1>1, <2>2 DEF Writes
  <2> QED
    BY <2>1, <2>2
<1> QED
  BY <1>3 DEF RowsLive

(* A reservation is made once, RESERVED or FAILED, and can then only be    *)
(* released, from RESERVED, keeping its quantity, by the command that is   *)
(* decided in that step: no retry and no other request ever changes it     *)
(* again (createReserved, createFailed, releaseOne, the unique key).       *)
THEOREM ReservationsAreMadeOnce == SharedSpec => [][RowsLive]_sharedVars
<1>1. SharedTypeInv /\ SharedTypeInv' /\ LockInv /\ [SharedNext]_sharedVars
        => [RowsLive]_sharedVars
  <2> SUFFICES ASSUME SharedTypeInv, SharedTypeInv', LockInv, SharedNext PROVE RowsLive
    OBVIOUS
  <2>1. ASSUME UNCHANGED reservation PROVE RowsLive
    BY <2>1 DEF RowsLive
  <2>2. ASSUME NEW o \in Operator, OperatorStep(o) PROVE RowsLive
    BY <2>1, <2>2, OperatorStepTyped DEF SharedTypeInv
  <2>3. ASSUME NEW v \in Releaser, ReleaseStep(v) PROVE RowsLive
    BY <2>1, <2>3, CommitReleases, ReleaseKeepsRows
  <2> QED
    BY <2>2, <2>3, ReserveStepInserts DEF SharedNext
<1>2. OverlapInv => SharedTypeInv
  BY DEF OverlapInv
<1> QED
  BY <1>1, <1>2, LockInvariant, OverlapInvariant, PTL DEF SharedSpec

=============================================================================
