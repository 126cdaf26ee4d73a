---------------------------- MODULE OperationLedger ----------------------------
(***************************************************************************)
(* What a caller of the direct protocol may rely on, with no sessions,     *)
(* queue, tasks or native client: an operation id is admitted once, within *)
(* a capacity that nothing frees; admitted work is dispatched at most once *)
(* and never after it settled; a settled operation stays settled; and when *)
(* the generation is revoked nothing more is admitted or dispatched, work  *)
(* that never was dispatched is answered with all that is left, in one     *)
(* step, and only dispatched work may still settle by itself.              *)
(* DirectService implements it (ServiceRefinement in DirectServiceLedger). *)
(***************************************************************************)
EXTENDS Integers, FiniteSets

CONSTANTS
    Ops,            \* operation identities
    MaxOperations   \* how many of them one generation admits

VARIABLES phase, revoked

Phases == {"unknown", "pending", "dispatched", "settled"}

TypeOK == phase \in [Ops -> Phases] /\ revoked \in BOOLEAN

Init == phase = [o \in Ops |-> "unknown"] /\ revoked = FALSE

Admitted == {o \in Ops : phase[o] # "unknown"}

(* Some work settles on admission; a cancellation may settle, with itself, *)
(* one operation that was never dispatched.                                *)
Admit(o) ==
    /\ ~revoked
    /\ phase[o] = "unknown"
    /\ Cardinality(Admitted) < MaxOperations
    /\ \/ \E p \in {"pending", "settled"} : phase' = [phase EXCEPT ![o] = p]
       \/ \E t \in Ops : /\ phase[t] = "pending"
                         /\ phase' = [phase EXCEPT ![o] = "settled", ![t] = "settled"]
    /\ UNCHANGED revoked

Dispatch(o) ==
    /\ ~revoked
    /\ phase[o] = "pending"
    /\ phase' = [phase EXCEPT ![o] = "dispatched"]
    /\ UNCHANGED revoked

Settle(o) ==
    /\ phase[o] = "dispatched"
    /\ phase' = [phase EXCEPT ![o] = "settled"]
    /\ UNCHANGED revoked

(* A dispatch that fails at once revokes the generation in the same step.  *)
Revoke ==
    /\ ~revoked
    /\ revoked' = TRUE
    /\ \/ UNCHANGED phase
       \/ \E o \in Ops : phase[o] = "pending" /\ phase' = [phase EXCEPT ![o] = "dispatched"]

AnswerAll ==
    /\ revoked
    /\ phase' = [o \in Ops |-> IF phase[o] = "unknown" THEN "unknown" ELSE "settled"]
    /\ UNCHANGED revoked

Next == Revoke \/ AnswerAll \/ \E o \in Ops : Admit(o) \/ Dispatch(o) \/ Settle(o)

Spec == Init /\ [][Next]_<<phase, revoked>>
================================================================================
