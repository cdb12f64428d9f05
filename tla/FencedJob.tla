----------------------------- MODULE FencedJob -----------------------------
(***************************************************************************)
(* What the consumed-message ledger promises about one message, with no    *)
(* row, lease or clock in sight: the right to process the message is a     *)
(* fencing token.  Tokens replace one another until one of them completes  *)
(* the message; nothing moves after that.                                  *)
(***************************************************************************)
CONSTANTS
  Token,  (* claim tokens                                                  *)
  None    (* no token                                                      *)

VARIABLES
  holder, (* the token that may complete the message now, or None          *)
  winner  (* the token that completed it, or None                          *)

vars == <<holder, winner>>

Init == holder = None /\ winner = None

(* A claim replaces whatever was held: the older token is fenced off.      *)
Acquire == /\ winner = None
           /\ holder' \in Token
           /\ UNCHANGED winner

Abandon == /\ holder # None
           /\ holder' = None
           /\ UNCHANGED winner

Complete == /\ holder # None
            /\ winner' = holder
            /\ holder' = None

Next == Acquire \/ Abandon \/ Complete

Spec == Init /\ [][Next]_vars
=============================================================================
