----------------------------- MODULE PartStock -----------------------------
(***************************************************************************)
(* The stock of the parts under everything that reads, changes and saves a *)
(* part without a lock: the reservations of orders (StockReservation) and  *)
(* the commands of operators (PartService, called by PartController).  A   *)
(* save writes the columns in which the part in memory differs from the    *)
(* row it loads again, so what overlaps may be overwritten.  SharedStock   *)
(* puts these steps together with those of the releases.                   *)
(***************************************************************************)
EXTENDS StockReservation

CONSTANTS
  Operator,      (* HTTP requests that may be in flight at once            *)
  Command,       (* what operators ask: [kind, part, quantity]             *)
  Creation,      (* parts they ask to create: [kind, part, quantity, code] *)
  PartCode,      (* valid codes, in upper case                             *)
  InitialCode,   (* the codes of the parts that exist at first, or NULL    *)
  MaxCommands    (* bound on the commands                                  *)

Kind == {"add", "remove", "reserve", "release", "commit", "update", "delete"}

ASSUME CommandAssumption == Command \subseteq [kind : Kind, part : Part, quantity : Nat \ {0}]

(* What CreatePartDto lets through, of the columns kept here.              *)
IsCreation(c) == c \in [kind : {"create"}, part : Part, quantity : Nat, code : PartCode]

ASSUME CreationAssumption == \A c \in Creation : IsCreation(c)
ASSUME CodeAssumption ==
  /\ InitialCode \in [Part -> PartCode \cup {NULL}]
  /\ \A p \in Part : InitialCode[p] = NULL =>
       InitialAvailable[p] = 0 /\ \A active \in InitialActive : ~active[p]
  /\ \A p, q \in Part : InitialCode[p] # NULL /\ InitialCode[p] = InitialCode[q] => p = q
ASSUME MaxCommandsAssumption == MaxCommands \in Nat
ASSUME NoCommandAssumption == NULL \notin Command \cup Creation \cup PartCode

VARIABLES
  code,        (* the code column; NULL where there is no row yet, which   *)
               (* the finders do not tell from an inactive part            *)
  command,     (* what each operator asks, or NULL                         *)
  entity,      (* its Part in memory                                       *)
  loaded,      (* the row its save has loaded again, or NULL               *)
  commands,    (* commands so far                                          *)
  byHand       (* history: what the saved commands added to a part and     *)
               (* what they reserved of it, together                       *)

operatorVars == <<code, command, entity, loaded, commands, byHand>>
partVars == <<vars, operatorVars>>

PartTypeOK ==
  /\ TypeOK
  /\ code \in [Part -> PartCode \cup {NULL}]
  /\ command \in [Operator -> Command \cup Creation \cup {NULL}]
  /\ entity \in [Operator -> StockRow \cup {NULL}]
  /\ loaded \in [Operator -> StockRow \cup {NULL}]
  /\ \A o \in Operator : (command[o] = NULL) = (entity[o] = NULL)
  /\ commands \in Nat
  /\ byHand \in [Part -> [units : Int, reserved : Int]]

PartInit ==
  /\ Init
  /\ code = InitialCode
  /\ command = [o \in Operator |-> NULL]
  /\ entity = [o \in Operator |-> NULL]
  /\ loaded = [o \in Operator |-> NULL]
  /\ commands = 0
  /\ byHand = [p \in Part |-> [units |-> 0, reserved |-> 0]]

-----------------------------------------------------------------------------
(* Seeded faults of Allows: the reserved quantity is not compared; a       *)
(* deactivated part is found.                                              *)
AllowsUnreserved(row, c) ==
  row.active /\ (c.kind \in {"remove", "reserve"} => row.available >= c.quantity)

AllowsInactive(row, c) ==
  /\ c.kind \in {"remove", "reserve"} => row.available >= c.quantity
  /\ c.kind \in {"release", "commit"} => row.reserved >= c.quantity

(* findById finds active parts; the entity throws without the units.       *)
Allows(row, c) ==
  /\ row.active
  /\ c.kind \in {"remove", "reserve"} => row.available >= c.quantity
  /\ c.kind \in {"release", "commit"} => row.reserved >= c.quantity

(* Seeded fault of Moved: a commit gives the units back.                   *)
MovedBack(row, c) ==
  CASE c.kind = "add"     -> [row EXCEPT !.available = @ + c.quantity]
    [] c.kind = "remove"  -> [row EXCEPT !.available = @ - c.quantity]
    [] c.kind = "reserve" -> Reserved(row, c.quantity)
    [] c.kind \in {"release", "commit"} -> Reserved(row, -c.quantity)
    [] c.kind = "update"  -> row
    [] c.kind = "delete"  -> [row EXCEPT !.active = FALSE]

(* The methods of Part.  update changes none of these columns, and saves   *)
(* them with the others.                                                   *)
Moved(row, c) ==
  CASE c.kind = "add"     -> [row EXCEPT !.available = @ + c.quantity]
    [] c.kind = "remove"  -> [row EXCEPT !.available = @ - c.quantity]
    [] c.kind = "reserve" -> Reserved(row, c.quantity)
    [] c.kind = "release" -> Reserved(row, -c.quantity)
    [] c.kind = "commit"  -> [row EXCEPT !.reserved = @ - c.quantity]
    [] c.kind = "update"  -> row
    [] c.kind = "delete"  -> [row EXCEPT !.active = FALSE]

Done(o) == /\ command' = [command EXCEPT ![o] = NULL]
           /\ entity' = [entity EXCEPT ![o] = NULL]
           /\ loaded' = [loaded EXCEPT ![o] = NULL]

(* A command reads its part and changes it in memory; one that throws      *)
(* changes nothing.                                                        *)
StartCommand(o, c) ==
  /\ command[o] = NULL /\ commands < MaxCommands
  /\ Allows(stock[c.part], c)
  /\ command' = [command EXCEPT ![o] = c]
  /\ entity' = [entity EXCEPT ![o] = Moved(stock[c.part], c)]
  /\ commands' = commands + 1
  /\ UNCHANGED <<vars, code, loaded, byHand>>

(* findByCode: an active part has the code.                                *)
IsTaken(c) == \E p \in Part : code[p] = c /\ stock[p].active

(* A creation that finds the code free, under the id of a new part.        *)
StartCreation(o, c) ==
  /\ command[o] = NULL /\ commands < MaxCommands
  /\ code[c.part] = NULL
  /\ \A q \in Operator : command[q] # NULL => command[q].part # c.part
  /\ ~IsTaken(c.code)
  /\ command' = [command EXCEPT ![o] = c]
  /\ entity' = [entity EXCEPT ![o] = [available |-> c.quantity, reserved |-> 0, active |-> TRUE]]
  /\ commands' = commands + 1
  /\ UNCHANGED <<vars, code, loaded, byHand>>

Creates(o) == command[o] # NULL /\ command[o].kind = "create"

(* PartRepository.save, as in StockReservation.                            *)
ReloadForCommand(o) ==
  /\ command[o] # NULL /\ ~Creates(o) /\ loaded[o] = NULL
  /\ loaded' = [loaded EXCEPT ![o] = stock[command[o].part]]
  /\ UNCHANGED <<vars, code, command, entity, commands, byHand>>

(* What a command is meant to do to the units of a part, and to how many   *)
(* of them are reserved for no order.                                      *)
Meant(c) ==
  LET sum(plus, minus) == IF c.kind \in plus THEN c.quantity
                          ELSE IF c.kind \in minus THEN -c.quantity ELSE 0
  IN [units |-> sum({"add", "create"}, {"remove", "commit"}),
      reserved |-> sum({"reserve"}, {"release", "commit"})]

(* What the request has saved of its part.                                 *)
Saved(o, row) ==
  LET c == command[o]
  IN /\ stock' = [stock EXCEPT ![c.part] = row]
     /\ byHand' = [byHand EXCEPT ![c.part] =
          [units |-> @.units + Meant(c).units, reserved |-> @.reserved + Meant(c).reserved]]

UpdateForCommand(o) ==
  /\ loaded[o] # NULL
  /\ Saved(o, SaveColumns(stock[command[o].part], loaded[o], entity[o]))
  /\ Done(o)
  /\ UNCHANGED <<reservation, origin, attempts, request, task, published, code, commands>>

(* Seeded fault of IndexRefuses: the index is left to findByCode.          *)
RefusesActive(c) == IsTaken(c)

(* The unique index on the code: a part has it, active or not.             *)
IndexRefuses(c) == \E p \in Part : code[p] = c

(* PartRepository.save of a new part.                                      *)
InsertPart(o) ==
  /\ Creates(o)
  /\ IF IndexRefuses(command[o].code) THEN UNCHANGED <<stock, byHand, code>>
     ELSE /\ Saved(o, entity[o])
          /\ code' = [code EXCEPT ![command[o].part] = command[o].code]
  /\ Done(o)
  /\ UNCHANGED <<reservation, origin, attempts, request, task, published, commands>>

(* The request ends without its save: the database fails, or the replica.  *)
CommandEnds(o) ==
  /\ command[o] # NULL
  /\ Done(o)
  /\ UNCHANGED <<vars, code, commands, byHand>>

Ask(o) == \/ \E c \in Command : StartCommand(o, c)
          \/ \E c \in Creation : StartCreation(o, c)
=============================================================================
