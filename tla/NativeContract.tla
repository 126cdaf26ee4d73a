---------------------------- MODULE NativeContract ----------------------------
(***************************************************************************)
(* What DirectService assumes of the native client behind                  *)
(* NativeSessionClient: how a turn started by run_turn may end, what may   *)
(* still be running when it does, and what a cancellation, a lost child    *)
(* and the owned cleanup do to it.  No protocol, callbacks or timers:      *)
(* NativeTurn has those, and implements this module.                       *)
(***************************************************************************)
CONSTANT Turns   \* the prompts that may be given to run_turn

VARIABLES
    alive,           \* native_client.is_alive
    collector,       \* the native turn of each prompt
    interrupted,     \* collectors with a CancelledError to deliver
    cancelRequested, \* turns whose _Turn.cancel_requested is set
    effect,          \* turns that own an unsettled workspace effect
    cleanup          \* NativeClient._cleanup and its result

clientVars == <<alive, collector, interrupted, cancelRequested, effect, cleanup>>

LiveTurn == {"running", "stopping"}
TurnOutcomes == {"completed", "failed", "cancelled", "overflow"}
TurnErrors == {"unsettled", "error", "aborted"}

NativeTypeOK ==
    /\ alive \in BOOLEAN
    /\ collector \in [Turns -> {"none"} \cup LiveTurn \cup TurnOutcomes \cup TurnErrors]
    /\ interrupted \subseteq Turns
    /\ cancelRequested \subseteq Turns
    /\ effect \subseteq Turns
    /\ cleanup \in {"idle", "running", "settled", "failed"}

NativeInit ==
    /\ alive = TRUE
    /\ collector = [t \in Turns |-> "none"]
    /\ interrupted = {}
    /\ cancelRequested = {}
    /\ effect = {}
    /\ cleanup = "idle"

LiveTurns == {t \in Turns : collector[t] \in LiveTurn}

(* NativeClient.stop creates its cleanup task once, and with it asks the   *)
(* active turn to cancel.                                                  *)
CleanupStarted == IF cleanup = "idle" THEN "running" ELSE cleanup

StopRequested == IF cleanup = "idle" THEN cancelRequested \cup LiveTurns ELSE cancelRequested

--------------------------------------------------------------------------------
(* What the owner of the client does                                       *)

(* run_turn refuses a dead transport and a second active turn before it    *)
(* sends anything; otherwise the turn is live.                             *)
RunTurn(t) ==
    /\ collector' = [collector EXCEPT
                        ![t] = IF alive /\ LiveTurns = {} THEN "running" ELSE "error"]
    /\ UNCHANGED <<alive, interrupted, cancelRequested, effect, cleanup>>

(* The task running run_turn is cancelled.                                 *)
InterruptTurns ==
    /\ interrupted' = LiveTurns
    /\ UNCHANGED <<alive, collector, cancelRequested, effect, cleanup>>

(* NativeClient.stop, by its owner or after cancel_session gave up.        *)
StopClient ==
    /\ alive' = FALSE
    /\ cleanup' = CleanupStarted
    /\ cancelRequested' = StopRequested
    /\ UNCHANGED <<collector, interrupted, effect>>

--------------------------------------------------------------------------------
(* What the client does by itself                                          *)

(* A tool invocation admitted by _callback owns an effect until it ends.   *)
BeginEffect(t) ==
    /\ collector[t] = "running"
    /\ t \notin cancelRequested \cup effect
    /\ alive
    /\ effect' = effect \cup {t}
    /\ UNCHANGED <<alive, collector, interrupted, cancelRequested, cleanup>>

EndEffect(t) ==
    /\ t \in effect
    /\ effect' = effect \ {t}
    /\ UNCHANGED <<alive, collector, interrupted, cancelRequested, cleanup>>

(* A turn is asked to cancel: by cancel_session, by its own timeout, after *)
(* an overflow, or because it ended with a cancellation reason.            *)
CancelTurn(t) ==
    /\ collector[t] \in LiveTurn
    /\ cancelRequested' = cancelRequested \cup {t}
    /\ UNCHANGED <<alive, collector, interrupted, effect, cleanup>>

(* run_turn returns a terminal only once its effects are settled, even if  *)
(* the transport is lost after the answer to its last request; a turn      *)
(* asked to cancel can only return as cancelled.                           *)
SettleTurn(t, outcome) ==
    /\ collector[t] = "running"
    /\ t \notin interrupted \cup effect
    /\ t \in cancelRequested => outcome \in {"cancelled", "overflow"}
    /\ collector' = [collector EXCEPT ![t] = outcome]
    /\ UNCHANGED <<alive, interrupted, cancelRequested, effect, cleanup>>

(* A protocol error, a lost transport or a cancellation of the collector:  *)
(* run_turn aborts the transport and joins stop() before it raises.        *)
StopTurn(t) ==
    /\ collector[t] = "running"
    /\ collector' = [collector EXCEPT ![t] = "stopping"]
    /\ interrupted' = interrupted \ {t}
    /\ alive' = FALSE
    /\ cleanup' = CleanupStarted
    /\ cancelRequested' = StopRequested
    /\ UNCHANGED effect

(* A turn that is cancelling its own work joins the effect through any     *)
(* cancellation of the collector and goes on as if there had been none.    *)
AbsorbTurn(t) ==
    /\ collector[t] = "running"
    /\ t \in interrupted \cap effect \cap cancelRequested
    /\ interrupted' = interrupted \ {t}
    /\ UNCHANGED <<alive, collector, cancelRequested, effect, cleanup>>

(* A cancellation that arrived inside stop() is raised again, unless the   *)
(* cleanup failed: then the failure is raised in its place.                *)
RaiseTurn(t) ==
    /\ collector[t] = "stopping"
    /\ cleanup \in {"settled", "failed"}
    /\ collector' = [collector EXCEPT
                        ![t] = IF cleanup = "failed" THEN "error"
                               ELSE IF t \in interrupted THEN "aborted" ELSE "unsettled"]
    /\ interrupted' = interrupted \ {t}
    /\ UNCHANGED <<alive, cancelRequested, effect, cleanup>>

(* _stop_owned joins every owned effect; if that fails nothing is proved   *)
(* about them.                                                             *)
EndCleanup ==
    /\ cleanup = "running"
    /\ \/ effect = {} /\ cleanup' = "settled"
       \/ cleanup' = "failed"
    /\ UNCHANGED <<alive, collector, interrupted, cancelRequested, effect>>

(* The child closes its output or breaks the protocol: continuity ends.    *)
LoseChild ==
    /\ alive
    /\ alive' = FALSE
    /\ UNCHANGED <<collector, interrupted, cancelRequested, effect, cleanup>>

--------------------------------------------------------------------------------
TurnStep(t) ==
    \/ BeginEffect(t) \/ EndEffect(t) \/ CancelTurn(t)
    \/ StopTurn(t) \/ AbsorbTurn(t) \/ RaiseTurn(t)
    \/ \E outcome \in TurnOutcomes : SettleTurn(t, outcome)

NativeNext ==
    \/ \E t \in Turns : TurnStep(t) \/ (collector[t] = "none" /\ RunTurn(t))
    \/ InterruptTurns \/ StopClient \/ EndCleanup \/ LoseChild

NativeSpec == NativeInit /\ [][NativeNext]_clientVars
================================================================================
