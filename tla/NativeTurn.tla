------------------------------ MODULE NativeTurn ------------------------------
(***************************************************************************)
(* One prompt through NativeClient (native_client.py): the task running    *)
(* run_turn, the messages the reader of NativeTransport admits for it, the *)
(* client tool calls queued on effect_lock, the tasks that ask the turn to *)
(* cancel, and the owned cleanup behind stop().                            *)
(*                                                                         *)
(* A step is what a task does between two points where it really suspends. *)
(* The transport enters with what the client sees of it: whether it is     *)
(* open, whether its reader still admits messages, and abort, which fails  *)
(* every request that is not yet answered.  The variables of the turn      *)
(* (begun to calls) belong to context, the turn run last.                  *)
(*                                                                         *)
(* An operator named Name_Slip is a mutated form of Name: a mistake the    *)
(* code could plausibly have made, which a property must notice.           *)
(***************************************************************************)
EXTENDS Sequences

CONSTANTS
    Turns,      \* the prompts that may be given to run_turn
    Calls,      \* client tool calls of one turn
    Callers,    \* callers of cancel_session
    Scheduled,  \* context.cancellation, the task of _schedule_cancel
    NoTurn

ASSUME SignallerAssumption ==
    /\ NoTurn \notin Turns
    /\ Scheduled \notin Turns \cup Callers
    /\ Turns \cap Callers = {}

VARIABLES
    open,         \* transport.is_open
    reading,      \* the reader admits messages
    cleanup,      \* NativeClient._cleanup: effects, then transport, then result
    context,      \* the turn run last; NativeClient._active while it is live
    phase,        \* where run_turn suspends, or how it ended
    interrupted,  \* turns with a CancelledError to deliver
    requested,    \* turns with cancel_requested
    bound,        \* session.binding is a ConversationBinding
    begun,        \* the turn's begin was seen
    ended,        \* the turn's end was seen
    reply,        \* the answer to its request: rpc_ended unless "none"
    reason,       \* its end gave a cancellation reason
    failing,      \* its end gave an error; with reply, native_error
    overflow,     \* evidence was cut
    calls,        \* what became of each tool call
    queue,        \* calls that wait for effect_lock, in order
    signal,       \* where each _signal_cancel suspends
    target        \* the turn each caller of cancel_session joins

transportVars == <<open, reading>>
turnVars == <<context, phase, interrupted>>
wireVars == <<bound, begun, ended, reply, reason, failing>>
callVars == <<calls, queue>>
vars == <<transportVars, cleanup, turnVars, requested, wireVars, overflow,
          callVars, signal, target>>

Signallers == Turns \cup Callers \cup {Scheduled}

Working == {"prompting", "signalling", "acknowledging", "joining", "settling",
            "checking", "checked"}
Settled == {"completed", "failed", "cancelled", "overflow"}
Raised == {"unsettled", "error", "aborted"}

(* A call that was accepted and whose callback task has not ended.         *)
Unsettled == {"queued", "running", "replying"}

TypeOK ==
    /\ open \in BOOLEAN
    /\ reading \in BOOLEAN
    /\ cleanup \in {"idle", "tools", "transport", "settled", "failed"}
    /\ context \in Turns \cup {NoTurn}
    /\ phase \in [Turns -> {"unused", "stopping"} \cup Working \cup Settled \cup Raised]
    /\ interrupted \subseteq Turns
    /\ requested \subseteq Turns
    /\ bound \in BOOLEAN /\ begun \in BOOLEAN /\ ended \in BOOLEAN
    /\ reply \in {"none", "result", "error"}
    /\ reason \in BOOLEAN /\ failing \in BOOLEAN /\ overflow \in BOOLEAN
    /\ calls \in [Calls -> Unsettled \cup {"none", "lost", "raised", "replied", "dropped"}]
    /\ queue \in Seq(Calls)
    /\ signal \in [Signallers -> {"idle", "ready", "notifying", "joining", "done",
                                  "failed", "stopping"}]
    /\ target \in [Callers -> Turns \cup {NoTurn}]

Init ==
    /\ open = TRUE
    /\ reading = TRUE
    /\ cleanup = "idle"
    /\ context = NoTurn
    /\ phase = [t \in Turns |-> "unused"]
    /\ interrupted = {}
    /\ requested = {}
    /\ bound = FALSE /\ begun = FALSE /\ ended = FALSE
    /\ reply = "none"
    /\ reason = FALSE /\ failing = FALSE /\ overflow = FALSE
    /\ calls = [k \in Calls |-> "none"]
    /\ queue = << >>
    /\ signal = [s \in Signallers |-> "idle"]
    /\ target = [c \in Callers |-> NoTurn]

Live == {t \in Turns : phase[t] \in Working \cup {"stopping"}}
Running == {k \in Calls : calls[k] = "running"}

--------------------------------------------------------------------------------
(* Shared pieces of the handlers                                           *)

(* NativeTransport.abort: it revokes the generation once.                  *)
Abort == open' = FALSE

(* NativeClient.stop up to its first suspension.                           *)
StartCleanup ==
    /\ cleanup' = IF cleanup = "idle" THEN "tools" ELSE cleanup
    /\ requested' = IF cleanup = "idle" THEN requested \cup Live ELSE requested

(* _schedule_cancel: one task for each turn.                               *)
Schedule(wanted) ==
    signal' = IF wanted /\ signal[Scheduled] = "idle"
              THEN [signal EXCEPT ![Scheduled] = "ready"] ELSE signal

(* _retain: evidence past its limit is dropped, and so is all that follows.*)
Retain(cut) ==
    /\ overflow' = (overflow \/ cut)
    /\ Schedule(overflow')

(* Where _signal_cancel suspends: the first to ask writes $/cancelRequest, *)
(* everyone joins the running effect through WorkspaceTools.cancel.        *)
JoinEffect_Never == "done"

JoinEffect == IF Running = {} THEN "done" ELSE "joining"

SignalPlace ==
    IF context \notin requested /\ reply = "none" /\ open THEN "notifying" ELSE JoinEffect

--------------------------------------------------------------------------------
(* run_turn                                                                *)

(* Prompts are serialized by their callers; the client refuses otherwise.  *)
RunTurn(t) ==
    /\ phase[t] = "unused"
    /\ IF open /\ cleanup = "idle" /\ Live = {}
       THEN /\ context' = t
            /\ phase' = [phase EXCEPT ![t] = "prompting"]
            /\ begun' = FALSE /\ ended' = FALSE
            /\ reply' = "none"
            /\ reason' = FALSE /\ failing' = FALSE /\ overflow' = FALSE
            /\ calls' = [k \in Calls |-> "none"]
            /\ signal' = [signal EXCEPT ![Scheduled] = "idle"]
            /\ UNCHANGED <<bound, queue>>
       ELSE /\ phase' = [phase EXCEPT ![t] = "error"]
            /\ UNCHANGED <<context, wireVars, overflow, callVars, signal>>
    /\ UNCHANGED <<transportVars, cleanup, interrupted, requested, target>>

Goes(t, from, to) ==
    /\ t \notin interrupted
    /\ phase[t] = from
    /\ phase' = [phase EXCEPT ![t] = to]
    /\ UNCHANGED <<transportVars, cleanup, context, interrupted, wireVars, overflow,
                   callVars, target>>

(* The prompt's time is up: run_turn asks the server to cancel, itself.    *)
TurnTimesOut(t) ==
    /\ Goes(t, "prompting", "signalling")
    /\ signal' = [signal EXCEPT ![t] = SignalPlace]
    /\ requested' = requested \cup {t}

TurnSignalled(t) ==
    /\ signal[t] = "done"
    /\ Goes(t, "signalling", "acknowledging")
    /\ UNCHANGED <<requested, signal>>

(* The request is answered.  Before its timeout an error is an outcome;    *)
(* after it, the error is not expected and ends the turn.                  *)
TurnAnswered(t) ==
    /\ \/ reply # "none" /\ Goes(t, "prompting", "joining")
       \/ reply = "result" /\ Goes(t, "acknowledging", "joining")
    /\ UNCHANGED <<requested, signal>>

TurnJoined_Unjoined(t) ==
    /\ Goes(t, "joining", "settling")
    /\ UNCHANGED <<requested, signal>>

(* The scheduled cancellation, if there is one by now, has ended.          *)
TurnJoined(t) ==
    /\ signal[Scheduled] \in {"idle", "done"}
    /\ Goes(t, "joining", "settling")
    /\ UNCHANGED <<requested, signal>>

(* transport.settle_callbacks: every admitted callback has ended, well.    *)
CallbacksSettled_Effects ==
    Running = {}

CallbacksSettled ==
    \A k \in Calls : calls[k] \notin Unsettled \cup {"lost", "raised"}

TurnSettles(t) ==
    /\ open
    /\ CallbacksSettled
    /\ Goes(t, "settling", "checking")
    /\ UNCHANGED <<requested, signal>>

(* The catalog of _check_mcp is empty.  Its request is written after any   *)
(* message that is still being written, and this exchange outlasts the     *)
(* wake-up of whoever joined an effect that has ended.                     *)
TurnChecked(t) ==
    /\ open
    /\ \A s \in Signallers : signal[s] \notin {"notifying", "joining"}
    /\ Goes(t, "checking", "checked")
    /\ UNCHANGED <<requested, signal>>

(* A turn asked to cancel must have been told so by the server.            *)
Unacknowledged_Evidence(t) == ~reason /\ overflow

Unacknowledged(t) == ~reason /\ (overflow \/ t \in requested)

Outcome ==
    IF reason THEN (IF overflow THEN "overflow" ELSE "cancelled")
    ELSE IF failing \/ reply = "error" THEN "failed" ELSE "completed"

TurnReturns(t) ==
    /\ ~Unacknowledged(t)
    /\ Goes(t, "checked", Outcome)
    /\ UNCHANGED <<requested, signal>>

(* The turn awaits WorkspaceTools._settle, by itself or through the        *)
(* scheduled cancellation, which goes on in spite of a CancelledError.     *)
Absorbing(t) ==
    \/ phase[t] = "signalling" /\ signal[t] = "joining"
    \/ phase[t] = "joining" /\ signal[Scheduled] = "joining"

TurnAbsorbs(t) ==
    /\ t \in interrupted
    /\ Absorbing(t)
    /\ interrupted' = interrupted \ {t}
    /\ UNCHANGED <<transportVars, cleanup, context, phase, requested, wireVars, overflow,
                   callVars, signal, target>>

(* Every wait for the server has its own timer.                            *)
TimesOut_Checking(t) == phase[t] = "checking"

TimesOut(t) == phase[t] \in {"acknowledging", "checking"}

(* What makes run_turn give up.  A CancelledError that meets the gather of *)
(* settle_callbacks is raised once the callbacks it cancelled have ended.  *)
GivesUp(t) ==
    \/ t \in interrupted /\ ~Absorbing(t) /\ (phase[t] = "settling" => Running = {})
    \/ phase[t] = "prompting" /\ reply = "none" /\ ~open
    \/ phase[t] = "signalling" /\ signal[t] = "failed"
    \/ TimesOut(t)
    \/ phase[t] = "joining" /\ signal[Scheduled] = "failed"
    \/ phase[t] = "settling" /\ ~open /\ \A k \in Calls : calls[k] \notin Unsettled
    \/ phase[t] = "settling" /\ \E k \in Calls : calls[k] \in {"lost", "raised"}
    \/ phase[t] = "checked" /\ Unacknowledged(t)

(* It aborts the transport and joins stop().                               *)
TurnFails(t) ==
    /\ phase[t] \in Working
    /\ GivesUp(t)
    /\ phase' = [phase EXCEPT ![t] = "stopping"]
    /\ interrupted' = interrupted \ {t}
    /\ Abort
    /\ StartCleanup
    /\ UNCHANGED <<reading, context, wireVars, overflow, callVars, signal, target>>

(* stop() returns or raises once the cleanup task has ended.               *)
StopEnded == cleanup \in {"settled", "failed"}

TurnRaises(t) ==
    /\ phase[t] = "stopping"
    /\ StopEnded
    /\ phase' = [phase EXCEPT ![t] = IF cleanup = "failed" THEN "error"
                                     ELSE IF t \in interrupted THEN "aborted" ELSE "unsettled"]
    /\ interrupted' = interrupted \ {t}
    /\ UNCHANGED <<transportVars, cleanup, context, requested, wireVars, overflow, callVars,
                   signal, target>>

--------------------------------------------------------------------------------
(* Messages of the server, in the order the reader admits them             *)

Admits == reading /\ context \in Live

Unmoved == UNCHANGED <<transportVars, cleanup, turnVars, requested, target>>

ProgressBegin(cut) ==
    /\ Admits
    /\ ~begun /\ ~ended
    /\ begun' = TRUE
    /\ bound' = TRUE
    /\ Retain(cut)
    /\ Unmoved
    /\ UNCHANGED <<ended, reply, reason, failing, callVars>>

(* A report matters here when it does not fit.  It must name the turn of   *)
(* the session's binding, which before begin is that of an earlier turn.   *)
ProgressReport ==
    /\ Admits
    /\ bound /\ ~ended
    /\ Retain(TRUE)
    /\ Unmoved
    /\ UNCHANGED <<wireVars, callVars>>

ProgressEnd(cut, cancels, fails) ==
    /\ Admits
    /\ bound /\ ~ended
    /\ ended' = TRUE
    /\ reason' = cancels
    /\ failing' = fails
    /\ overflow' = (overflow \/ cut)
    /\ Schedule(overflow' \/ cancels)
    /\ Unmoved
    /\ UNCHANGED <<bound, begun, reply, callVars>>

(* _terminal_rpc: the response may not overtake the end.                   *)
Response(kind) ==
    /\ Admits /\ open
    /\ ended
    /\ reply = "none"
    /\ reply' = kind
    /\ Unmoved
    /\ UNCHANGED <<bound, begun, ended, reason, failing, overflow, callVars, signal>>

(* _callback: a confirmation or an undecodable invocation is answered at   *)
(* once, an invocation queues on effect_lock.                              *)
CallAllowed == begun /\ ~ended /\ reply = "none" /\ ~overflow /\ context \notin requested

Invoke(k, cut) ==
    /\ Admits
    /\ CallAllowed
    /\ calls[k] = "none"
    /\ \/ calls' = [calls EXCEPT ![k] = "queued"] /\ queue' = Append(queue, k)
       \/ calls' = [calls EXCEPT ![k] = "replying"] /\ UNCHANGED queue
    /\ Retain(cut)
    /\ Unmoved
    /\ UNCHANGED wireVars

(* Anything else the reader meets ends continuity: the end of the stream,  *)
(* a malformed, stale, repeated or unexpected message.                     *)
ReaderFails ==
    /\ reading
    /\ reading' = FALSE
    /\ Abort
    /\ UNCHANGED <<cleanup, turnVars, requested, wireVars, overflow, callVars, signal, target>>

--------------------------------------------------------------------------------
(* Tool calls                                                              *)

CallMoves(k, to) ==
    /\ calls' = [calls EXCEPT ![k] = to]
    /\ UNCHANGED <<transportVars, cleanup, turnVars, requested, wireVars, target>>

(* _execute_owned looks again once it holds effect_lock.                   *)
Refused == overflow \/ context \in requested \/ ~open

(* A cancelled gather cancels the callbacks it joins.                      *)
CallbacksCancelled == context \in interrupted /\ phase[context] = "settling"

CallStarts(k, cut) ==
    /\ queue # << >> /\ Head(queue) = k
    /\ Running = {}
    /\ ~CallbacksCancelled
    /\ queue' = Tail(queue)
    /\ \/ Refused /\ CallMoves(k, "replying") /\ Retain(cut)
       \/ /\ ~Refused
          /\ \/ CallMoves(k, "running")
             \/ CallMoves(k, "raised")   \* authorize denied it
          /\ UNCHANGED <<overflow, signal>>

(* The effect has settled and its result is retained.                      *)
CallEnds(k, cut) ==
    /\ calls[k] = "running"
    /\ CallMoves(k, "replying")
    /\ Retain(cut)
    /\ UNCHANGED queue

(* The tool raised: nobody knows whether its command has stopped.          *)
CallLoses(k) ==
    /\ calls[k] = "running"
    /\ CallMoves(k, "lost")
    /\ UNCHANGED <<overflow, queue, signal>>

(* The answer is written, or cannot be.                                    *)
CallReplies(k) ==
    /\ calls[k] = "replying"
    /\ \/ open /\ CallMoves(k, "replied")
       \/ CallMoves(k, "raised")
    /\ UNCHANGED <<overflow, queue, signal>>

(* _callback_done: a callback that failed ends continuity.                 *)
CallbackAborts ==
    /\ open
    /\ \E k \in Calls : calls[k] \in {"lost", "raised"}
    /\ Abort
    /\ UNCHANGED <<reading, cleanup, turnVars, requested, wireVars, overflow, callVars,
                   signal, target>>

--------------------------------------------------------------------------------
(* _signal_cancel and cancel_session                                       *)

SignalMoves(s, to) ==
    /\ signal' = [signal EXCEPT ![s] = to]
    /\ UNCHANGED <<reading, turnVars, wireVars, overflow, callVars>>

(* The first step of the scheduled task.                                   *)
SignalStarts ==
    /\ signal[Scheduled] = "ready"
    /\ SignalMoves(Scheduled, SignalPlace)
    /\ requested' = requested \cup {context}
    /\ UNCHANGED <<open, cleanup, target>>

SignalSent(s) ==
    /\ signal[s] = "notifying"
    /\ \/ SignalMoves(s, JoinEffect) /\ UNCHANGED open
       \/ SignalMoves(s, "failed") /\ Abort
    /\ UNCHANGED <<cleanup, requested, target>>

(* A CancelledError of the turn reaches the join before its end does.      *)
SignalJoined(s) ==
    /\ signal[s] = "joining"
    /\ Running = {}
    /\ \A t \in interrupted : ~Absorbing(t)
    /\ SignalMoves(s, IF \E k \in Calls : calls[k] = "lost" THEN "failed" ELSE "done")
    /\ UNCHANGED <<open, cleanup, requested, target>>

CancelSession(c) ==
    /\ signal[c] = "idle"
    /\ context \in Live
    /\ SignalMoves(c, SignalPlace)
    /\ target' = [target EXCEPT ![c] = context]
    /\ requested' = requested \cup {context}
    /\ UNCHANGED <<open, cleanup>>

(* Its turn is over, or the signal failed, or stop() has ended.            *)
CancelReturns(c) ==
    /\ \/ signal[c] = "done" /\ target[c] \notin Live
       \/ signal[c] = "failed"
       \/ signal[c] = "stopping" /\ StopEnded
    /\ SignalMoves(c, "idle")
    /\ target' = [target EXCEPT ![c] = NoTurn]
    /\ UNCHANGED <<open, cleanup, requested>>

(* The turn did not settle in time: the client is stopped.                 *)
CancelGivesUp(c) ==
    /\ signal[c] = "done"
    /\ SignalMoves(c, "stopping")
    /\ Abort
    /\ StartCleanup
    /\ UNCHANGED target

--------------------------------------------------------------------------------
(* The owner of the client, and the cleanup                                *)

OwnerInterrupts ==
    /\ interrupted' = Live
    /\ UNCHANGED <<transportVars, cleanup, context, phase, requested, wireVars, overflow,
                   callVars, signal, target>>

OwnerStops ==
    /\ StartCleanup
    /\ UNCHANGED <<transportVars, turnVars, wireVars, overflow, callVars, signal, target>>

(* Every session's tools are closed, which joins their effect; then the    *)
(* transport stops: it fails what is pending, cancels the callbacks and    *)
(* the reader.                                                             *)
ToolsClosed == Running = {}

StopTransport ==
    /\ cleanup = "tools"
    /\ ToolsClosed
    /\ cleanup' = "transport"
    /\ open' = FALSE /\ reading' = FALSE
    /\ calls' = [k \in Calls |-> IF calls[k] \in {"queued", "replying"} THEN "dropped"
                                 ELSE calls[k]]
    /\ queue' = << >>
    /\ UNCHANGED <<turnVars, requested, wireVars, overflow, signal, target>>

(* A command owner that lost a process says so when it is closed; the      *)
(* child's own process tree may fail to stop as well.  Stopping it takes a *)
(* thread: whoever joined the effect has been resumed by then.             *)
CleanupEnds ==
    /\ cleanup = "transport"
    /\ \A s \in Signallers : signal[s] # "joining"
    /\ \/ cleanup' = "failed"
       \/ cleanup' = "settled" /\ \A k \in Calls : calls[k] # "lost"
    /\ UNCHANGED <<transportVars, turnVars, requested, wireVars, overflow, callVars, signal,
                   target>>

--------------------------------------------------------------------------------
TurnStep(t) ==
    \/ TurnTimesOut(t) \/ TurnSignalled(t) \/ TurnAnswered(t) \/ TurnJoined(t)
    \/ TurnSettles(t) \/ TurnChecked(t) \/ TurnReturns(t) \/ TurnAbsorbs(t)
    \/ TurnFails(t) \/ TurnRaises(t)

Message ==
    \/ \E cut \in BOOLEAN : ProgressBegin(cut) \/ \E k \in Calls : Invoke(k, cut)
    \/ ProgressReport
    \/ \E cut, cancels, fails \in BOOLEAN : ProgressEnd(cut, cancels, fails)
    \/ \E kind \in {"result", "error"} : Response(kind)
    \/ ReaderFails

CallStep(k) ==
    \/ \E cut \in BOOLEAN : CallStarts(k, cut) \/ CallEnds(k, cut)
    \/ CallLoses(k) \/ CallReplies(k)

SignalStep(s) == SignalSent(s) \/ SignalJoined(s)

CancelStep(c) == CancelReturns(c) \/ CancelGivesUp(c)

Next ==
    \/ \E t \in Turns : RunTurn(t) \/ TurnStep(t)
    \/ Message
    \/ \E k \in Calls : CallStep(k)
    \/ CallbackAborts
    \/ SignalStarts
    \/ \E s \in Signallers : SignalStep(s)
    \/ \E c \in Callers : CancelSession(c) \/ CancelStep(c)
    \/ OwnerInterrupts \/ OwnerStops \/ StopTransport \/ CleanupEnds

Spec == Init /\ [][Next]_vars

(* Tasks resume, timers fire, effects and writes are bounded by their own  *)
(* timeouts.  The server owes nothing, and neither do callers.  Joining an *)
(* effect goes on through any number of cancellations: strong fairness.    *)
Fairness ==
    /\ \A t \in Turns : WF_vars(TurnStep(t))
    /\ \A k \in Calls : WF_vars(CallStep(k))
    /\ \A s \in Signallers : SF_vars(SignalStep(s))
    /\ \A c \in Callers : WF_vars(CancelStep(c))
    /\ WF_vars(CallbackAborts) /\ WF_vars(SignalStarts)
    /\ WF_vars(StopTransport) /\ WF_vars(CleanupEnds)

FairSpec == Spec /\ Fairness

--------------------------------------------------------------------------------
(* Properties                                                              *)

(* A turn that returned a terminal is over: its end and its answer were    *)
(* seen, its own cancellation has ended, and every tool call it made was   *)
(* answered.  Nothing of it comes back later (run_turn).                   *)
ReturnedTurnIsOver ==
    context \in Turns /\ phase[context] \in Settled =>
        /\ ended /\ reply # "none"
        /\ signal[Scheduled] \in {"idle", "done"}
        /\ \A k \in Calls : calls[k] \in {"none", "replied"}

(* Once any _signal_cancel of a turn has returned, no effect of the turn   *)
(* runs, not even one that was queued behind the effect it joined.         *)
CancelJoinsEffects ==
    \A s \in Signallers :
        /\ signal[s] \in {"done", "stopping"}
        /\ s \in Callers => target[s] = context
        /\ s \in Turns => s = context
        => Running = {}

(* An owned cleanup that settled has left no effect and no callback.       *)
CleanupLeavesNothing ==
    cleanup = "settled" =>
        /\ queue = << >>
        /\ \A k \in Calls : calls[k] \notin Unsettled \cup {"lost"}

(* The state invariant of the client: types, and effects that are over     *)
(* whenever a cancellation or a cleanup says so (_signal_cancel, stop).    *)
TurnInv == TypeOK /\ CancelJoinsEffects /\ CleanupLeavesNothing

(* A second turn never starts while anything of the first is pending: it   *)
(* would inherit its cancellation or its calls (run_turn).                 *)
TurnsDoNotMix ==
    [][context' # context =>
            /\ queue = << >>
            /\ \A k \in Calls : calls[k] \notin Unsettled
            /\ signal[Scheduled] \in {"idle", "done"}
            /\ \A s \in Signallers : signal[s] \notin {"notifying", "joining"}]_vars

(* As ADR-021 says, byte overflow still cancels and settles the native     *)
(* turn: a turn that reaches its end with cut evidence, which nobody asked *)
(* to stop, is returned with it.                                           *)
OverflowSettles ==
    [][\A t \in Turns :
            /\ phase[t] = "checked" /\ overflow /\ t \notin interrupted
            /\ cleanup = "idle"
            /\ \A s \in Signallers \ {Scheduled} : signal[s] = "idle"
            /\ phase'[t] # phase[t]
            => phase'[t] = "overflow"]_vars

(* Every turn ends, whatever the server, the callers or the owner do.      *)
TurnsEnd == \A t \in Turns : t \in Live ~> t \notin Live

(* Every cancel_session returns.                                           *)
CancelsReturn == \A c \in Callers : signal[c] # "idle" ~> signal[c] = "idle"

(* Both, for nobody waits for the other in vain (run_turn, cancel_session).*)
EveryoneReturns == TurnsEnd /\ CancelsReturn
================================================================================
