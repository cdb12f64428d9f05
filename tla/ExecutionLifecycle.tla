------------------------- MODULE ExecutionLifecycle -------------------------
(***************************************************************************)
(* What the execution aggregate promises about one execution: it moves     *)
(* forward through its stages, the instant it enters a stage is recorded   *)
(* then and never altered, and FINISHED and FAILED are the end.            *)
(***************************************************************************)
EXTENDS Naturals

CONSTANTS
  Execution,
  Failure,   (* what an execution may fail with                            *)
  NULL

VARIABLES
  status,    (* per execution; NULL while there is none                    *)
  entered,   (* when it entered each stage, or NULL                        *)
  failure    (* what it failed with, or NULL                               *)

vars == <<status, entered, failure>>

Stage == {"IN_DIAGNOSIS", "IN_REPAIR", "FINISHED", "FAILED"}

Onward == { <<"QUEUED", "IN_DIAGNOSIS">>, <<"IN_DIAGNOSIS", "IN_REPAIR">>,
            <<"IN_DIAGNOSIS", "FINISHED">>, <<"IN_REPAIR", "FINISHED">>,
            <<"QUEUED", "FAILED">>, <<"IN_DIAGNOSIS", "FAILED">>, <<"IN_REPAIR", "FAILED">> }

Init == /\ status  \in [Execution -> {NULL, "QUEUED"}]
        /\ entered = [e \in Execution |-> [s \in Stage |-> NULL]]
        /\ failure = [e \in Execution |-> NULL]

Open(e) == /\ status[e] = NULL
           /\ status' = [status EXCEPT ![e] = "QUEUED"]
           /\ UNCHANGED <<entered, failure>>

Enter(e, s) ==
  /\ <<status[e], s>> \in Onward
  /\ entered[e][s] = NULL
  /\ status' = [status EXCEPT ![e] = s]
  /\ entered'[e][s] \in Nat
  /\ entered' = [entered EXCEPT ![e][s] = entered'[e][s]]
  /\ \/ s = "FAILED" /\ \E f \in Failure : failure' = [failure EXCEPT ![e] = f]
     \/ s # "FAILED" /\ UNCHANGED failure

Next == \E e \in Execution : Open(e) \/ \E s \in Stage : Enter(e, s)

Spec == Init /\ [][Next]_vars
=============================================================================
