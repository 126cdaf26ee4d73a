---------------------------- MODULE MCDirectService ----------------------------
(* Instances of DirectService for TLC.  Operation ids and session ids are  *)
(* interchangeable, which the safety runs use as symmetry.  The liveness   *)
(* runs cannot: they take numbers as ids and let callers use them in       *)
(* order, which removes only renamings of the same behaviour.              *)
EXTENDS DirectServiceLedger, TLC

Symmetry == Permutations(Ops) \cup Permutations(Sessions)

IdsInOrder ==
    /\ \A a, b \in Ops : a < b /\ ledger[b] # NoRequest => ledger[a] # NoRequest
    /\ \A a, b \in Sessions :
            a < b /\ sessState[b] # "absent" => sessState[a] # "absent"

(* A creation is answered in the step that admits it, so for liveness      *)
(* nothing is lost if creations come before other work.                    *)
CreationsFirst ==
    \A a, b \in Ops : a < b /\ ledger[b].kind = "create" => ledger[a].kind = "create"
================================================================================
