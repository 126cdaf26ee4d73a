-------------------------- MODULE NativeTurnContract --------------------------
(***************************************************************************)
(* NativeTurn implements NativeContract, what DirectService assumes of the *)
(* native client.                                                          *)
(***************************************************************************)
EXTENDS NativeTurn

CollectorOf(place) ==
    CASE place = "unused" -> "none"
      [] place \in Working -> "running"
      [] OTHER -> place

CleanupOf(place) == IF place \in {"tools", "transport"} THEN "running" ELSE place

(* A turn that joins its effect counts as owning it until it is resumed.   *)
OwnsEffect == Running # {} \/ \E s \in {context, Scheduled} \cap Signallers :
                                signal[s] = "joining"

Contract == INSTANCE NativeContract WITH
    alive <- open /\ cleanup = "idle",
    collector <- [t \in Turns |-> CollectorOf(phase[t])],
    cancelRequested <- requested,
    effect <- IF OwnsEffect THEN {context} ELSE {},
    cleanup <- CleanupOf(cleanup)

(* The task of run_turn, its callbacks, its cancellations and the cleanup  *)
(* do to a turn only what DirectService assumes of them.                   *)
TurnRefinement == Contract!NativeSpec
================================================================================
