----------------------------- MODULE DirectService -----------------------------
(***************************************************************************)
(* DirectService (direct_service.py): sessions, the operation ledger, the  *)
(* serialized prompt queue, cancellation, retirement, deadlines, and the   *)
(* loss of a continuity generation, for one generation.                    *)
(*                                                                         *)
(* The service runs on one asyncio event loop, so a step here is what a    *)
(* task does between two points where it really suspends.  The bodies      *)
(* under _state_lock never suspend, hence the lock is never contended and  *)
(* acquiring it never yields; prompt_lock is held across a whole native    *)
(* turn and is modelled by fifo, its holder first.                         *)
(*                                                                         *)
(* Every operation has at most one task in execution_tasks: pc[o].  The    *)
(* native client is seen through NativeSessionClient, as NativeContract    *)
(* describes it: collector[o] is the task running run_turn, effect the     *)
(* turns that own an unsettled tool effect, cleanup the single task behind *)
(* NativeClient.stop.                                                      *)
(*                                                                         *)
(* An operator named Name_Slip is a mutated form of Name: a mistake the    *)
(* code could plausibly have made, which a property must notice.           *)
(***************************************************************************)
EXTENDS DirectState, Sequences

VARIABLES
    ledger,          \* generation.ledger: the request admitted under each id
    state,           \* OperationRecord.state, "unknown" before admission
    sessState,       \* DirectSession.state, "absent" before creation
    active,          \* DirectSession.active_operation_id
    submitted,       \* sessions whose instructions are InstructionsSubmitted
    allocated,       \* sessions the native client holds
    reservations,    \* generation.prompt_reservations
    released,        \* generation.released_reservations
    fifo,            \* prompt_lock: its holder, then its waiters in order
    pc,              \* where each execution task, Loss and Main suspend
    cancelled,       \* execution tasks with a CancelledError to deliver
    available,       \* _available; FALSE is also generation.quarantined
    owner,           \* _shutdown_owner
    verdict,         \* what the owner defers for its own record
    shutdownDone,    \* _shutdown_done
    alive, collector, interrupted, cancelRequested, effect, cleanup

INSTANCE NativeContract WITH Turns <- Ops

ledgerVars == <<ledger, state>>
sessionVars == <<sessState, active, submitted, allocated>>
queueVars == <<reservations, released, fifo>>
taskVars == <<pc, cancelled>>
nativeVars == <<alive, collector, interrupted, cancelRequested, effect, cleanup>>
closingVars == <<available, owner, verdict, shutdownDone>>
vars == <<ledgerVars, sessionVars, queueVars, taskVars, closingVars, nativeVars>>

Tasks == Ops \cup {Loss, Main}

Suspended == {"scheduled", "waiting", "running", "sending", "stopping",
              "grace", "retiring", "closing", "cleaning", "joining"}

TypeOK ==
    /\ ledger \in [Ops -> Requests \cup {NoRequest}]
    /\ state \in [Ops -> OperationStates \cup {"unknown"}]
    /\ sessState \in [Sessions -> SessionStates \cup {"absent"}]
    /\ active \in [Sessions -> Ops \cup {NoOp}]
    /\ submitted \subseteq Sessions
    /\ allocated \subseteq Sessions
    /\ reservations \in Int
    /\ released \subseteq Ops
    /\ fifo \in Seq(Ops)
    /\ pc \in [Tasks -> Suspended \cup {"idle", "done"}]
    /\ cancelled \subseteq Ops
    /\ available \in BOOLEAN
    /\ owner \in Tasks \cup {NoOp}
    /\ verdict \in Terminal
    /\ shutdownDone \in BOOLEAN
    /\ NativeTypeOK

Init ==
    /\ ledger = [o \in Ops |-> NoRequest]
    /\ state = [o \in Ops |-> "unknown"]
    /\ sessState = [s \in Sessions |-> "absent"]
    /\ active = [s \in Sessions |-> NoOp]
    /\ submitted = {}
    /\ allocated = {}
    /\ reservations = 0
    /\ released = {}
    /\ fifo = << >>
    /\ pc = [t \in Tasks |-> "idle"]
    /\ cancelled = {}
    /\ available = TRUE
    /\ owner = NoOp
    /\ verdict = "in_doubt"
    /\ shutdownDone = FALSE
    /\ NativeInit

Kind(o) == ledger[o].kind
IsPrompt(o) == Kind(o) = "prompt"
Sess(o) == ledger[o].sess
Settled(o) == state[o] \in Terminal

(* The prompt whose native turn operation o runs or cancels.               *)
Turn(o) == IF Kind(o) = "cancel" THEN ledger[o].target ELSE o

--------------------------------------------------------------------------------
(* Shared pieces of the handlers                                           *)

(* _check_pin and _require_current_generation before an admission.         *)
MayAdmit == available /\ alive

(* _release_prompt_reservation: at most once for each operation.           *)
Release_EveryTime(o) ==
    released' = released \cup {o} /\ reservations' = reservations - 1

Release(o) ==
    /\ released' = released \cup {o}
    /\ reservations' = IF o \in released THEN reservations ELSE reservations - 1

(* The part of mark_generation_lost that runs before it first suspends:    *)
(* admission is revoked, sessions that are not retired are lost, and every *)
(* other execution task and every collector is cancelled.  place is pc, or *)
(* pc after an abort in the same step.                                     *)
TakeOver(c, place) ==
    /\ available' = FALSE
    /\ owner' = c
    /\ sessState' = [s \in Sessions |-> IF sessState[s] \in {"absent", "retired"}
                                        THEN sessState[s] ELSE "lost"]
    /\ cancelled' = {o \in Ops \ {c} : pc[o] \in Suspended}
    /\ interrupted' = LiveTurns
    /\ pc' = [place EXCEPT ![c] = "closing"]

(* A task that meets a loss already under way waits for _shutdown_done.    *)
Join(c) ==
    /\ pc' = [pc EXCEPT ![c] = "joining"]
    /\ cancelled' = cancelled \ {c}
    /\ UNCHANGED <<available, owner, interrupted>>

(* _quarantine_uncertain up to its first suspension.  outcome is the       *)
(* terminal state deferred for the caller's own record.                    *)
Quarantine(c, outcome) ==
    IF available
    THEN TakeOver(c, pc) /\ verdict' = outcome
    ELSE Join(c) /\ UNCHANGED <<sessState, verdict>>

(* The finally clause of _execute_prompt in a quarantined generation.      *)
LeaveLost(o) ==
    /\ active' = [active EXCEPT ![Sess(o)] = IF @ = o THEN NoOp ELSE @]
    /\ sessState' = [sessState EXCEPT ![Sess(o)] = "lost"]
    /\ Release(o)

(* NativeTransport.abort: continuity ends once, and the observer of        *)
(* __main__.py schedules the loss task unless the bridge is shutting down. *)
LossAfterAbort ==
    IF alive /\ pc[Loss] = "idle" /\ pc[Main] = "idle" THEN "scheduled" ELSE pc[Loss]

(* A step of the native client by itself: all that the service notices is  *)
(* that continuity ended.                                                  *)
NativeMoves ==
    /\ pc' = [pc EXCEPT ![Loss] = IF alive' THEN @ ELSE LossAfterAbort]
    /\ UNCHANGED <<ledgerVars, sessionVars, queueVars, cancelled, closingVars>>

(* NativeClient.cancel_session marks a live turn and goes on to join it;   *)
(* without one it returns at once and its caller waits for the outcome.    *)
SendFrom(o, t) ==
    /\ pc' = [pc EXCEPT ![o] = IF t \in LiveTurns THEN "sending" ELSE "grace"]
    /\ cancelRequested' = cancelRequested \cup ({t} \cap LiveTurns)

--------------------------------------------------------------------------------
(* Admission                                                               *)

(* The bounds of admit_create and of admit_prompt.                         *)
SessionFits == Cardinality({x \in Sessions : sessState[x] # "absent"}) < MaxSessions

QueueFits == reservations > 0 => reservations - 1 < MaxQueuedPrompts

(* _validate_prompt_lifetime: the stable instructions go with the first    *)
(* settled prompt of a session and with no later one.                      *)
LifetimeAllows_AnyPhase(s, p) == TRUE

LifetimeAllows(s, p) == (p = "initial") <=> (s \notin submitted)

(* A session that owns unsettled work accepts no other.                    *)
SessionIdle_Unchecked(s) == TRUE

SessionIdle(s) == active[s] = NoOp

(* admit_create: the session exists from here on, even when the native     *)
(* allocation is rejected.                                                 *)
AdmitCreate(o, s) ==
    /\ MayAdmit
    /\ LedgerAdmits(ledger, o)
    /\ sessState[s] = "absent"
    /\ SessionFits
    /\ ledger' = [ledger EXCEPT ![o] = CreateRequest(s)]
    /\ \/ /\ allocated' = allocated \cup {s}
          /\ sessState' = [sessState EXCEPT ![s] = "ready"]
          /\ state' = [state EXCEPT ![o] = "completed"]
       \/ /\ allocated' = allocated
          /\ sessState' = [sessState EXCEPT ![s] = "non_reusable"]
          /\ state' = [state EXCEPT ![o] = "failed"]
    /\ UNCHANGED <<active, submitted, queueVars, taskVars, closingVars, nativeVars>>

(* admit_prompt: bounded, one unsettled operation per session; the task it *)
(* schedules reaches prompt_lock in admission order.                       *)
AdmitPrompt(o, s, p) ==
    /\ MayAdmit
    /\ SessionIdle(s)
    /\ sessState[s] = "ready"
    /\ LifetimeAllows(s, p)
    /\ QueueFits
    /\ LedgerAdmits(ledger, o)
    /\ ledger' = [ledger EXCEPT ![o] = PromptRequest(s, p)]
    /\ state' = [state EXCEPT ![o] = IF reservations > 0 THEN "queued" ELSE "accepted"]
    /\ reservations' = reservations + 1
    /\ active' = [active EXCEPT ![s] = o]
    /\ sessState' = [sessState EXCEPT ![s] = "busy"]
    /\ pc' = [pc EXCEPT ![o] = "waiting"]
    /\ fifo' = Append(fifo, o)
    /\ UNCHANGED <<submitted, allocated, released, cancelled, closingVars, nativeVars>>

(* admit_cancel: work that was not dispatched settles here and frees its   *)
(* session, settled work is only reported, dispatched work is cancelled by *)
(* a task of its own.                                                      *)
CancelQueued(o, t) ==
    /\ state[t] \in {"accepted", "queued"}
    /\ state' = [state EXCEPT ![t] = "cancelled", ![o] = "completed"]
    /\ active' = [active EXCEPT ![Sess(t)] = NoOp]
    /\ sessState' = [sessState EXCEPT ![Sess(t)] = "ready"]
    /\ Release(t)
    /\ UNCHANGED pc

CancelSettled(o, t) ==
    /\ Settled(t)
    /\ state' = [state EXCEPT ![o] = "completed"]
    /\ UNCHANGED <<active, sessState, released, reservations, pc>>

CancelDispatched_AnyTarget(o, t) ==
    /\ state' = [state EXCEPT ![t] = "cancelling", ![o] = "accepted"]
    /\ pc' = [pc EXCEPT ![o] = "scheduled"]
    /\ UNCHANGED <<active, sessState, released, reservations>>

CancelDispatched(o, t) ==
    /\ state[t] \in {"running", "cancelling"}
    /\ state' = [state EXCEPT ![t] = "cancelling", ![o] = "accepted"]
    /\ pc' = [pc EXCEPT ![o] = "scheduled"]
    /\ UNCHANGED <<active, sessState, released, reservations>>

AdmitCancel(o, t) ==
    /\ MayAdmit
    /\ IsPrompt(t)
    /\ LedgerAdmits(ledger, o)
    /\ ledger' = [ledger EXCEPT ![o] = CancelRequest(Sess(t), t)]
    /\ CancelQueued(o, t) \/ CancelSettled(o, t) \/ CancelDispatched(o, t)
    /\ UNCHANGED <<submitted, allocated, fifo, cancelled, closingVars, nativeVars>>

(* admit_retire: any session without active work that is not yet retired.  *)
AdmitRetire(o, s) ==
    /\ MayAdmit
    /\ sessState[s] \notin {"absent", "retired"}
    /\ SessionIdle(s)
    /\ LedgerAdmits(ledger, o)
    /\ ledger' = [ledger EXCEPT ![o] = RetireRequest(s)]
    /\ state' = [state EXCEPT ![o] = "accepted"]
    /\ sessState' = [sessState EXCEPT ![s] = "retiring"]
    /\ active' = [active EXCEPT ![s] = o]
    /\ pc' = [pc EXCEPT ![o] = "scheduled"]
    /\ UNCHANGED <<submitted, allocated, queueVars, cancelled, closingVars, nativeVars>>

--------------------------------------------------------------------------------
(* _execute_prompt                                                         *)

(* Its turn at prompt_lock: only the task at the front holds the lock.     *)
HoldsLock_AnyWaiter(o) == pc[o] = "waiting" /\ o \notin cancelled

HoldsLock(o) ==
    /\ pc[o] = "waiting"
    /\ o \notin cancelled
    /\ fifo # << >>
    /\ Head(fifo) = o

(* The record was cancelled while it queued: the worker drains.            *)
DrainCancelled(o) ==
    /\ HoldsLock(o)
    /\ Settled(o)
    /\ active' = [active EXCEPT ![Sess(o)] = IF @ = o THEN NoOp ELSE @]
    /\ Release(o)
    /\ fifo' = Tail(fifo)
    /\ pc' = [pc EXCEPT ![o] = "done"]
    /\ UNCHANGED <<ledgerVars, sessState, submitted, allocated, cancelled,
                   closingVars, nativeVars>>

(* The record is running from the moment run_turn is called.               *)
DispatchPrompt(o) ==
    /\ HoldsLock(o)
    /\ ~Settled(o)
    /\ available
    /\ state' = [state EXCEPT ![o] = "running"]
    /\ RunTurn(o)
    /\ pc' = [pc EXCEPT ![o] = "running"]
    /\ UNCHANGED <<ledger, sessionVars, queueVars, cancelled, closingVars>>

(* _settle_terminal: what a native terminal is published as, and whether   *)
(* the session may take another prompt.                                    *)
Published_Verbatim(outcome) == outcome

Published(outcome) ==
    CASE outcome = "completed" -> "completed"
      [] outcome = "cancelled" -> "cancelled"
      [] OTHER -> "failed"

Reusable(outcome) == outcome = "completed"

(* A completion of a prompt that is being cancelled is not believed.       *)
StopMismatch_Never(o) == FALSE

StopMismatch(o) == collector[o] = "completed" /\ state[o] = "cancelling"

(* _settle_terminal and the finally clause after it: they do not suspend.  *)
SettlePrompt(o) ==
    /\ pc[o] = "running"
    /\ o \notin cancelled
    /\ available
    /\ collector[o] \in TurnOutcomes
    /\ ~StopMismatch(o)
    /\ state' = SetTerminal(state, o, Published(collector[o]))
    /\ sessState' = [sessState EXCEPT ![Sess(o)] = IF Reusable(collector[o])
                                                   THEN "ready" ELSE "non_reusable"]
    /\ submitted' = IF collector[o] = "completed" THEN submitted \cup {Sess(o)} ELSE submitted
    /\ active' = [active EXCEPT ![Sess(o)] = NoOp]
    /\ Release(o)
    /\ fifo' = Tail(fifo)
    /\ pc' = [pc EXCEPT ![o] = "done"]
    /\ UNCHANGED <<ledger, allocated, cancelled, closingVars, nativeVars>>

(* A completion that does not match the cancellation, or whose result does *)
(* not match the session (_normalize_result raises).  The session is       *)
(* released before the generation is quarantined.                          *)
MismatchedTerminal(o) ==
    /\ pc[o] = "running"
    /\ o \notin cancelled
    /\ available
    /\ collector[o] = "completed"
    /\ active' = [active EXCEPT ![Sess(o)] = NoOp]
    /\ Quarantine(o, "in_doubt")
    /\ UNCHANGED <<ledgerVars, submitted, allocated, queueVars, shutdownDone, alive,
                   collector, cancelRequested, effect, cleanup>>

(* The turn raised NativeUnsettledError or any other exception.            *)
TurnRaised(o) ==
    /\ pc[o] = "running"
    /\ o \notin cancelled
    /\ collector[o] \in {"unsettled", "error"}
    /\ Quarantine(o, "in_doubt")
    /\ UNCHANGED <<ledgerVars, active, submitted, allocated, queueVars, shutdownDone,
                   alive, collector, cancelRequested, effect, cleanup>>

(* The execution deadline fires, even when the result is already there but *)
(* the task has not resumed: _settle_deadline starts to send a cancel.     *)
DeadlineExpires(o) ==
    /\ pc[o] = "running"
    /\ o \notin cancelled
    /\ state' = [state EXCEPT ![o] = "cancelling"]
    /\ SendFrom(o, o)
    /\ UNCHANGED <<ledger, sessionVars, queueVars, cancelled, closingVars, alive,
                   collector, interrupted, effect, cleanup>>

(* The turn settled as cancelled within the grace period (an overflow also *)
(* settles as NativeCancelled): timed_out, and the session is not reused.  *)
SettleDeadline(o) ==
    /\ IsPrompt(o)
    /\ pc[o] = "grace"
    /\ o \notin cancelled
    /\ collector[o] \in {"cancelled", "overflow"}
    /\ state' = SetTerminal(state, o, "timed_out")
    /\ sessState' = [sessState EXCEPT ![Sess(o)] = IF available THEN "non_reusable"
                                                                ELSE "lost"]
    /\ active' = [active EXCEPT ![Sess(o)] = IF @ = o THEN NoOp ELSE @]
    /\ Release(o)
    /\ fifo' = Tail(fifo)
    /\ pc' = [pc EXCEPT ![o] = "done"]
    /\ UNCHANGED <<ledger, submitted, allocated, cancelled, closingVars, nativeVars>>

(* The grace period ended (the turn may still finish before this task      *)
(* resumes), the turn raised, or it settled as something else.             *)
DeadlineUncertain(o) ==
    /\ IsPrompt(o)
    /\ pc[o] = "grace"
    /\ o \notin cancelled
    /\ Quarantine(o, "in_doubt")
    /\ UNCHANGED <<ledgerVars, active, submitted, allocated, queueVars, shutdownDone,
                   alive, collector, cancelRequested, effect, cleanup>>

--------------------------------------------------------------------------------
(* NativeClient.cancel_session, awaited by a deadline or a cancel task     *)

Sending(o) == pc[o] = "sending" /\ o \notin cancelled

(* It joins the effects and then the turn.                                 *)
SendReturns(o) ==
    /\ Sending(o)
    /\ Turn(o) \notin effect
    /\ collector[Turn(o)] \notin LiveTurn
    /\ pc' = [pc EXCEPT ![o] = "grace"]
    /\ UNCHANGED <<ledgerVars, sessionVars, queueVars, cancelled, closingVars, nativeVars>>

(* The turn outlives the request timeout, or ends just as it expires: the  *)
(* client aborts the transport and stops everything it owns before it      *)
(* raises.                                                                 *)
SendStops(o) ==
    /\ Sending(o)
    /\ Turn(o) \notin effect
    /\ pc' = [pc EXCEPT ![o] = "stopping", ![Loss] = LossAfterAbort]
    /\ StopClient
    /\ UNCHANGED <<ledgerVars, sessionVars, queueVars, cancelled, closingVars>>

(* stop() joins the cleanup whatever cancels it meanwhile.  Its failure    *)
(* replaces a pending CancelledError, which is then lost.                  *)
StopRaised(o) ==
    /\ pc[o] = "stopping"
    /\ \/ cleanup = "failed"
       \/ cleanup = "settled" /\ o \notin cancelled

(* The cancel cannot be sent, _send_cancel_bounded runs into its bound, or *)
(* stop() raised.                                                          *)
PromptSendFails(o) ==
    /\ IsPrompt(o)
    /\ Sending(o) \/ StopRaised(o)
    /\ Quarantine(o, "in_doubt")
    /\ UNCHANGED <<ledgerVars, active, submitted, allocated, queueVars, shutdownDone,
                   alive, collector, cancelRequested, effect, cleanup>>

--------------------------------------------------------------------------------
(* _execute_cancel                                                         *)

StartCancel(o) ==
    /\ Kind(o) = "cancel"
    /\ pc[o] = "scheduled"
    /\ o \notin cancelled
    /\ state' = [state EXCEPT ![o] = "running"]
    /\ SendFrom(o, Turn(o))
    /\ UNCHANGED <<ledger, sessionVars, queueVars, cancelled, closingVars, alive,
                   collector, interrupted, effect, cleanup>>

(* The target settled within the grace period: report what it became.      *)
CancelObserves(o) ==
    /\ Kind(o) = "cancel"
    /\ pc[o] = "grace"
    /\ o \notin cancelled
    /\ Settled(Turn(o))
    /\ state' = SetTerminal(state, o, "completed")
    /\ pc' = [pc EXCEPT ![o] = "done"]
    /\ UNCHANGED <<ledger, sessionVars, queueVars, cancelled, closingVars, nativeVars>>

(* The grace period ended, even when the target settles before this task   *)
(* resumes, or the send failed: the generation is quarantined.             *)
CancelOutcome(o) == IF pc[o] = "grace" THEN "completed" ELSE "failed"

CancelUncertain(o) ==
    /\ Kind(o) = "cancel"
    /\ \/ pc[o] = "grace" /\ o \notin cancelled
       \/ Sending(o)
       \/ StopRaised(o)
    /\ IF available
       THEN TakeOver(o, pc) /\ verdict' = CancelOutcome(o)
       ELSE /\ Join(o)
            /\ sessState' = [sessState EXCEPT ![Sess(o)] = "non_reusable"]
            /\ UNCHANGED verdict
    /\ UNCHANGED <<ledgerVars, active, submitted, allocated, queueVars, shutdownDone,
                   alive, collector, cancelRequested, effect, cleanup>>

--------------------------------------------------------------------------------
(* _execute_retire                                                         *)

StartRetire(o) ==
    /\ Kind(o) = "retire"
    /\ pc[o] = "scheduled"
    /\ o \notin cancelled
    /\ state' = [state EXCEPT ![o] = "running"]
    /\ IF Sess(o) \in allocated
       THEN /\ pc' = [pc EXCEPT ![o] = "retiring"]
            /\ UNCHANGED <<sessState, cancelled, available, owner, verdict, interrupted>>
       ELSE Quarantine(o, "in_doubt")
    /\ UNCHANGED <<ledger, active, submitted, allocated, queueVars, shutdownDone,
                   alive, collector, cancelRequested, effect, cleanup>>

RetireSettles(o) ==
    /\ pc[o] = "retiring"
    /\ o \notin cancelled
    /\ available
    /\ sessState' = [sessState EXCEPT ![Sess(o)] = "retired"]
    /\ active' = [active EXCEPT ![Sess(o)] = NoOp]
    /\ state' = SetTerminal(state, o, "completed")
    /\ pc' = [pc EXCEPT ![o] = "done"]
    /\ UNCHANGED <<ledger, submitted, allocated, queueVars, cancelled, closingVars,
                   nativeVars>>

(* conversation/destroy timed out or was not acknowledged: the transport   *)
(* is aborted and the generation quarantined in one step.                  *)
RetireFails(o) ==
    /\ pc[o] = "retiring"
    /\ o \notin cancelled
    /\ available
    /\ alive' = FALSE
    /\ TakeOver(o, [pc EXCEPT ![Loss] = LossAfterAbort])
    /\ verdict' = "in_doubt"
    /\ UNCHANGED <<ledgerVars, active, submitted, allocated, queueVars, shutdownDone,
                   collector, cancelRequested, effect, cleanup>>

--------------------------------------------------------------------------------
(* Delivery of the cancellations the shutdown owner requested              *)

(* Where a task raises the CancelledError it was sent: not while it joins  *)
(* an effect in WorkspaceTools._settle, and in stop() only once the cleanup*)
(* has settled.                                                            *)
Interruptible(o) ==
    CASE pc[o] = "sending" -> Turn(o) \notin effect
      [] pc[o] = "stopping" -> cleanup = "settled"
      [] OTHER -> TRUE

(* A prompt task that was suspended runs its finally clause; so does one   *)
(* that awaits a collector which ends as cancelled.  A task that had not   *)
(* taken its first step never enters its try, so nothing is freed.         *)
PromptCancelled(o) ==
    /\ IsPrompt(o)
    /\ \/ o \in cancelled /\ Interruptible(o)
       \/ pc[o] = "grace" /\ collector[o] = "aborted"
    /\ \/ LeaveLost(o)
       \/ /\ pc[o] = "waiting"
          /\ UNCHANGED <<active, sessState, released, reservations>>
    /\ pc' = [pc EXCEPT ![o] = "done"]
    /\ cancelled' = cancelled \ {o}
    /\ UNCHANGED <<ledgerVars, submitted, allocated, fifo, closingVars, nativeVars>>

CancelCancelled(o) ==
    /\ Kind(o) = "cancel"
    /\ o \in cancelled
    /\ Interruptible(o)
    /\ pc' = [pc EXCEPT ![o] = "done"]
    /\ cancelled' = cancelled \ {o}
    /\ UNCHANGED <<ledgerVars, sessionVars, queueVars, closingVars, nativeVars>>

(* Cancelling conversation/destroy aborts the transport; the session keeps *)
(* its active operation only when the task never started.                  *)
RetireCancelled(o) ==
    /\ Kind(o) = "retire"
    /\ o \in cancelled
    /\ IF pc[o] = "retiring"
       THEN /\ active' = [active EXCEPT ![Sess(o)] = IF @ = o THEN NoOp ELSE @]
            /\ alive' = FALSE
            /\ pc' = [pc EXCEPT ![o] = "done", ![Loss] = LossAfterAbort]
       ELSE /\ pc' = [pc EXCEPT ![o] = "done"]
            /\ UNCHANGED <<active, alive>>
    /\ cancelled' = cancelled \ {o}
    /\ UNCHANGED <<ledgerVars, sessState, submitted, allocated, queueVars, closingVars,
                   collector, interrupted, cancelRequested, effect, cleanup>>

(* WorkspaceTools._settle waits for a submitted effect through any number  *)
(* of cancellations and does not raise them again: a task that is joining  *)
(* an effect inside cancel_session goes on as if it had not been cancelled.*)
CancellationAbsorbed(o) ==
    /\ o \in cancelled
    /\ pc[o] = "sending"
    /\ Turn(o) \in effect
    /\ cancelled' = cancelled \ {o}
    /\ UNCHANGED <<ledgerVars, sessionVars, queueVars, pc, closingVars, nativeVars>>

--------------------------------------------------------------------------------
(* mark_generation_lost and _quarantine_uncertain after they suspend       *)

(* The loss task and the bridge's own shutdown call mark_generation_lost;  *)
(* the bridge first waits for a loss task that exists.                     *)
CallerCloses(c) ==
    /\ \/ c = Loss /\ pc[Loss] = "scheduled"
       \/ c = Main /\ pc[Main] = "idle" /\ pc[Loss] \in {"idle", "done"}
    /\ Quarantine(c, "in_doubt")
    /\ UNCHANGED <<ledgerVars, active, submitted, allocated, queueVars, shutdownDone,
                   alive, collector, cancelRequested, effect, cleanup>>

(* gather: every cancelled task and every collector has finished.  The     *)
(* owner does not wait for itself.                                         *)
Gathered_WithOwner ==
    /\ \A o \in Ops : pc[o] \notin Suspended
    /\ LiveTurns = {}

Gathered ==
    /\ \A o \in Ops \ {owner} : pc[o] \notin Suspended
    /\ LiveTurns = {}

OwnerStops(c) ==
    /\ owner = c
    /\ pc[c] = "closing"
    /\ Gathered
    /\ pc' = [pc EXCEPT ![c] = "cleaning"]
    /\ StopClient
    /\ UNCHANGED <<ledgerVars, sessionVars, queueVars, cancelled, closingVars>>

(* What a quarantining task still does once the shutdown is done: the      *)
(* finally clause of its own handler.                                      *)
Leave(c) ==
    IF c \in Ops /\ IsPrompt(c) THEN LeaveLost(c)
    ELSE /\ UNCHANGED <<sessState, released, reservations>>
         /\ active' = [s \in Sessions |-> IF active[s] = c THEN NoOp ELSE active[s]]

CleanupKnown_Started == cleanup # "idle"

CleanupKnown == cleanup \in {"settled", "failed"}

(* The owner's own record gets the verdict it deferred, unless the cleanup *)
(* failed; everything else that is unsettled is in doubt.                  *)
Deferred_Regardless(o, c) == IF o = c THEN verdict ELSE "in_doubt"

Deferred(o, c) == IF o = c /\ cleanup = "settled" THEN verdict ELSE "in_doubt"

(* Only now are outcomes published.                                        *)
OwnerPublishes(c) ==
    /\ owner = c
    /\ pc[c] = "cleaning"
    /\ CleanupKnown
    /\ state' = [o \in Ops |-> IF Settled(o) \/ state[o] = "unknown"
                               THEN state[o] ELSE Deferred(o, c)]
    /\ shutdownDone' = TRUE
    /\ Leave(c)
    /\ pc' = [pc EXCEPT ![c] = "done"]
    /\ UNCHANGED <<ledger, submitted, allocated, fifo, cancelled, available, owner,
                   verdict, nativeVars>>

JoinerLeaves(c) ==
    /\ pc[c] = "joining"
    /\ shutdownDone
    /\ Leave(c)
    /\ pc' = [pc EXCEPT ![c] = "done"]
    /\ UNCHANGED <<ledgerVars, submitted, allocated, fifo, cancelled, closingVars,
                   nativeVars>>

--------------------------------------------------------------------------------
Admission ==
    \E o \in Ops :
        \/ \E s \in Sessions :
              \/ AdmitCreate(o, s)
              \/ \E p \in Phases : AdmitPrompt(o, s, p)
              \/ AdmitRetire(o, s)
        \/ \E t \in Ops : AdmitCancel(o, t)

PromptStep(o) ==
    \/ DrainCancelled(o) \/ DispatchPrompt(o) \/ SettlePrompt(o)
    \/ MismatchedTerminal(o) \/ TurnRaised(o) \/ DeadlineExpires(o)
    \/ SettleDeadline(o) \/ DeadlineUncertain(o) \/ PromptSendFails(o)
    \/ PromptCancelled(o)

CancelStep(o) ==
    StartCancel(o) \/ CancelObserves(o) \/ CancelUncertain(o) \/ CancelCancelled(o)

RetireStep(o) ==
    StartRetire(o) \/ RetireSettles(o) \/ RetireFails(o) \/ RetireCancelled(o)

SendStep(o) == SendReturns(o) \/ SendStops(o) \/ CancellationAbsorbed(o)

TaskStep(o) == PromptStep(o) \/ CancelStep(o) \/ RetireStep(o) \/ SendStep(o)

ClosingStep(c) == CallerCloses(c) \/ OwnerStops(c) \/ OwnerPublishes(c) \/ JoinerLeaves(c)

Next ==
    \/ Admission
    \/ \E o \in Ops : TaskStep(o) \/ (TurnStep(o) /\ NativeMoves)
    \/ \E c \in Tasks : ClosingStep(c)
    \/ (EndCleanup \/ LoseChild) /\ NativeMoves

Spec == Init /\ [][Next]_vars

(* What the event loop and the timers guarantee.  A task that is not       *)
(* waiting for something resumes, and every wait of a task is bounded by a *)
(* timer: the deadline, the grace period, the request timeout.  Effects    *)
(* are bounded by their own timeouts, the owned cleanup ends, and a turn   *)
(* that was asked to cancel waits a bounded time.  Otherwise the native    *)
(* turn may hang, callers need not call, and neither a lost child nor a    *)
(* shutdown signal has to come.                                            *)
TurnMustStop(o) ==
    (o \in interrupted \cup cancelRequested \/ ~alive) /\ StopTurn(o)

Fairness ==
    /\ \A o \in Ops : /\ WF_vars(TaskStep(o))
                      /\ WF_vars(EndEffect(o) /\ NativeMoves)
                      /\ WF_vars((TurnMustStop(o) \/ RaiseTurn(o)) /\ NativeMoves)
    /\ \A c \in Tasks : WF_vars(OwnerStops(c) \/ OwnerPublishes(c) \/ JoinerLeaves(c))
    /\ WF_vars(CallerCloses(Loss))
    /\ WF_vars(EndCleanup /\ NativeMoves)

FairSpec == Spec /\ Fairness

--------------------------------------------------------------------------------
(* Safety                                                                  *)

Work(o) == Kind(o) \in {"prompt", "retire"}

(* A session's active_operation_id names exactly its one unsettled prompt  *)
(* or retirement, whatever queued cancellations, settlements and drained   *)
(* workers came before (admit_prompt, admit_cancel, _execute_prompt).      *)
SessionExclusion ==
    available =>
        \A s \in Sessions, o \in Ops :
            active[s] = o <=> (Work(o) /\ Sess(o) = s /\ ~Settled(o))

(* Every unsettled prompt holds one reservation and no settled one does,   *)
(* so the queue stays within its negotiated bound although a cancelled     *)
(* worker releases twice (admit_prompt, _release_prompt_reservation).      *)
QueueAccounting ==
    available =>
        /\ reservations = Cardinality({o \in Ops : IsPrompt(o) /\ ~Settled(o)})
        /\ reservations <= MaxQueuedPrompts + 1

(* The stable instructions of a session reach the native client at most    *)
(* once: a second initial prompt is dispatched only if the first never was *)
(* (_validate_prompt_lifetime with _settle_terminal and _execute_prompt).  *)
InstructionsSentOnce ==
    \A a, b \in Ops :
        /\ a # b
        /\ ledger[a] = ledger[b]
        /\ IsPrompt(a) /\ ledger[a].phase = "initial"
        /\ collector[a] # "none"
        => collector[b] = "none"

(* A session whose dispatched prompt did not complete never takes new work *)
(* as a reusable session (_settle_terminal, _settle_deadline).             *)
NoReuseAfterFailure ==
    \A o \in Ops :
        /\ IsPrompt(o)
        /\ collector[o] # "none"
        /\ state[o] \in Terminal \ {"completed"}
        => sessState[Sess(o)] \notin {"ready", "busy"}

(* When a session may be prompted again (the two above): what was sent of  *)
(* it stays sent, and what went wrong stays wrong.                         *)
ReuseIsJustified == InstructionsSentOnce /\ NoReuseAfterFailure

(* An outcome other than in_doubt is published only when the native turn   *)
(* is over and owns no effect; this covers a cancellation that reports     *)
(* completed after it gave up on its target (ADR-020, _quarantine_...).    *)
OutcomeMeansSettledEffects ==
    \A o \in Ops :
        /\ Kind(o) \in {"prompt", "cancel"}
        /\ state[o] \in Terminal \ {"in_doubt"}
        => Turn(o) \notin effect \cup LiveTurns

(* A cancellation is reported only once its target is terminal.            *)
CancelReportsSettled ==
    \A o \in Ops :
        Kind(o) = "cancel" /\ state[o] = "completed" => Settled(Turn(o))

(* A session is retired or being retired only when none of its prompts is  *)
(* unsettled in the ledger or live in the native client.                   *)
RetirementExcludesWork ==
    \A o \in Ops :
        IsPrompt(o) /\ sessState[Sess(o)] \in {"retiring", "retired"}
        => Settled(o) /\ o \notin LiveTurns \cup effect

(* What a cancellation and a retirement imply about the prompts they are   *)
(* about (admit_cancel, _execute_cancel, admit_retire, _execute_retire).   *)
ControlsAreTruthful == CancelReportsSettled /\ RetirementExcludesWork

(* What any outcome says of the effects it is about (the two above).       *)
OutcomesAreTruthful == OutcomeMeansSettledEffects /\ ControlsAreTruthful

(* run_turn is called once for an operation, by the holder of its session, *)
(* in the current generation and never while another turn is live: this is *)
(* what serializes prompts globally, not the native client's own refusal.  *)
DispatchDiscipline ==
    [][\A o \in Ops : collector'[o] # collector[o] /\ pc[o] = "waiting" =>
            /\ collector[o] = "none"
            /\ available
            /\ state[o] \in {"accepted", "queued"}
            /\ active[Sess(o)] = o
            /\ LiveTurns = {}]_vars

(* A prompt that was being cancelled, by its deadline or by a caller, is   *)
(* never published as completed, whichever of the two results came first.  *)
CancellationNotOverruled ==
    [][\A o \in Ops : IsPrompt(o) /\ state[o] = "cancelling" => state'[o] # "completed"]_vars

(* A terminal outcome is final, and the record under an id never changes.  *)
TerminalIsFinal ==
    [][\A o \in Ops :
            /\ Settled(o) => state'[o] = state[o]
            /\ ledger[o] # NoRequest => ledger'[o] = ledger[o]]_vars

(* Once admission is revoked, work whose native turn has not returned a    *)
(* terminal is answered only after the owned cleanup has ended, and after  *)
(* a failed cleanup only as in_doubt (mark_generation_lost).               *)
LossPublishesLast ==
    [][\A o \in Ops : ~available /\ ~Settled(o) /\ Settled(o)' =>
            \/ cleanup = "settled"
            \/ cleanup = "failed" /\ state'[o] = "in_doubt"
            \/ collector[Turn(o)] \in TurnOutcomes /\ Turn(o) \notin effect]_vars

--------------------------------------------------------------------------------
(* Liveness                                                                *)

(* The shutdown owner gathers a task that waits for the shutdown.          *)
CircularWait ==
    /\ owner \in Tasks
    /\ pc[owner] = "closing"
    /\ \E o \in Ops \ {owner} : pc[o] = "joining"

(* Every admitted operation is answered, unless the loss handling waits    *)
(* for itself: deadlines, grace periods and the quarantine leave no other  *)
(* way for work to stay unsettled.                                         *)
WorkSettles ==
    \A o \in Ops :
        (ledger[o] # NoRequest /\ ~Settled(o)) ~> (Settled(o) \/ CircularWait)

(* A lost generation finishes its shutdown (ADR-012: it marks unsettled    *)
(* work in_doubt and stops the proxy).                                     *)
LossCompletes == ~available ~> shutdownDone
================================================================================
