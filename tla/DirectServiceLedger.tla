-------------------------- MODULE DirectServiceLedger --------------------------
(***************************************************************************)
(* DirectService implements OperationLedger: forget the sessions, the      *)
(* queue, the tasks and the native client, and keep for each operation     *)
(* only how far it got.                                                    *)
(***************************************************************************)
EXTENDS DirectService

Progress(o) ==
    IF state[o] = "unknown" THEN "unknown"
    ELSE IF state[o] \in Terminal THEN "settled"
    ELSE IF state[o] \in {"accepted", "queued"} THEN "pending"
    ELSE "dispatched"

Ledger == INSTANCE OperationLedger
              WITH phase <- [o \in Ops |-> Progress(o)], revoked <- ~available

(* Every behaviour of the service is one of the ledger a caller may rely   *)
(* on (DirectLedger, admit_*, _execute_*, mark_generation_lost).           *)
ServiceRefinement == Ledger!Spec
================================================================================
