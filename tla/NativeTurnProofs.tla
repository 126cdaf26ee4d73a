---------------------------- MODULE NativeTurnProofs ---------------------------
(***************************************************************************)
(* Proofs about NativeTurn for every set of turns, tool calls and callers  *)
(* of cancel_session: a returned turn is over, a cancellation joins the    *)
(* effects it is about, a turn inherits nothing, and the client does to a  *)
(* turn only what DirectService assumes of it (NativeTurnContract).        *)
(***************************************************************************)
EXTENDS NativeTurnContract, Naturals, TLAPS

--------------------------------------------------------------------------------
(* The inductive invariant                                                 *)

Gone == {"stopping"} \cup Raised

(* The turn run last is the only one that may be live, and every trace of  *)
(* a turn is one of a turn that was run.                                   *)
TurnOwned ==
    /\ Live \subseteq {context}
    /\ context \in Turns => phase[context] # "unused"
    /\ \A t \in Turns : phase[t] = "unused" => signal[t] = "idle" /\ t \notin requested
    /\ \A c \in Callers : target[c] \in Turns => phase[target[c]] # "unused"
    /\ interrupted \subseteq Live

(* Before the first turn nothing has happened to one.                      *)
NothingYet ==
    context = NoTurn =>
        /\ queue = << >> /\ \A k \in Calls : calls[k] = "none"
        /\ \A s \in Signallers : signal[s] = "idle"
        /\ ~overflow /\ ~reason

(* The answer is the last message of a turn, its end the one before; and   *)
(* from the answer on run_turn has it.                                     *)
AnswerLast ==
    /\ reply # "none" => ended
    /\ reason => ended
    /\ context \in Turns /\ phase[context] \in {"joining", "settling", "checking", "checked"} \cup Settled
           => reply # "none"

(* A cancellation is scheduled exactly for cut evidence or an end that was *)
(* cancelled, and has ended when run_turn is past its join.                *)
CancellationScheduled ==
    /\ signal[Scheduled] = "idle" <=> ~(overflow \/ reason)
    /\ context \in Turns /\ phase[context] \in {"settling", "checking", "checked"} \cup Settled /\ reason
           => signal[Scheduled] = "done"
    /\ context \in Turns /\ phase[context] \in Settled => reason \/ ~overflow

(* Every queued call is in the queue once; past settle_callbacks none is   *)
(* left, and none is dropped while the transport is open.                  *)
CallsSettled ==
    /\ \A i \in 1 .. Len(queue) : calls[queue[i]] = "queued"
    /\ \A i, j \in 1 .. Len(queue) : queue[i] = queue[j] => i = j
    /\ \A k \in Calls : calls[k] = "dropped" => ~open
    /\ context \in Turns /\ phase[context] \in {"checking", "checked"} \cup Settled
           => \A k \in Calls : calls[k] \in {"none", "replied"}
    /\ context \in Turns /\ phase[context] \in {"checked"} \cup Settled
           => \A s \in Signallers : signal[s] \notin {"notifying", "joining"}

(* A signaller that is about the turn run last.                            *)
About(s) ==
    /\ s \in Callers => target[s] = context
    /\ s \in Turns => s = context

(* A turn has been asked to cancel as soon as anyone signals it, and when  *)
(* it stops; a cleanup asks it as well.                                    *)
Asked ==
    /\ \A s \in Signallers : About(s) /\ signal[s] \notin {"idle", "ready"} => context \in requested
    /\ context \in Turns /\ phase[context] \in Gone => context \in requested /\ ~open
    /\ cleanup # "idle" => Live \subseteq requested

(* From its last step but one on a cleanup has closed everything.          *)
CleanupClosed ==
    cleanup \in {"transport", "settled", "failed"} =>
        /\ ~open /\ ~reading
        /\ queue = << >> /\ \A k \in Calls : calls[k] \notin Unsettled

(* The types but for the flags, which are Boolean.                         *)
StateTypes ==
    /\ cleanup \in {"idle", "tools", "transport", "settled", "failed"}
    /\ context \in Turns \cup {NoTurn}
    /\ phase \in [Turns -> {"unused", "stopping"} \cup Working \cup Settled \cup Raised]
    /\ interrupted \subseteq Turns
    /\ requested \subseteq Turns
    /\ reply \in {"none", "result", "error"}
    /\ calls \in [Calls -> Unsettled \cup {"none", "lost", "raised", "replied", "dropped"}]
    /\ queue \in Seq(Calls)
    /\ signal \in [Signallers -> {"idle", "ready", "notifying", "joining", "done",
                                  "failed", "stopping"}]
    /\ target \in [Callers -> Turns \cup {NoTurn}]

Flags ==
    /\ open \in BOOLEAN /\ reading \in BOOLEAN
    /\ bound \in BOOLEAN /\ begun \in BOOLEAN /\ ended \in BOOLEAN
    /\ reason \in BOOLEAN /\ failing \in BOOLEAN /\ overflow \in BOOLEAN

Rest ==
    /\ TurnOwned /\ NothingYet /\ AnswerLast /\ CancellationScheduled
    /\ CallsSettled /\ Asked /\ CleanupClosed /\ CancelJoinsEffects /\ CleanupLeavesNothing

TurnIInv == StateTypes /\ Rest

--------------------------------------------------------------------------------
(* Types                                                                   *)

LEMMA Separate ==
    /\ NoTurn \notin Turns /\ Scheduled \notin Turns /\ Scheduled \notin Callers
    /\ Scheduled \in Signallers /\ Turns \subseteq Signallers /\ Callers \subseteq Signallers
    /\ \A t \in Turns : t \notin Callers
BY SignallerAssumption DEF Signallers

(* The flags of the turn and the transport.                                *)
LEMMA FlagsStep == ASSUME Flags, [Next]_vars PROVE Flags'
<1> USE DEF Flags, transportVars, turnVars, wireVars, callVars
<1>1. ASSUME NEW t \in Turns, RunTurn(t)
      PROVE  Flags'
  BY <1>1, Zenon DEF RunTurn
<1>2. ASSUME NEW t \in Turns, TurnStep(t)
      PROVE  Flags'
  BY <1>2, Zenon DEF TurnStep, TurnTimesOut, TurnSignalled, TurnAnswered, TurnJoined, TurnSettles,
     TurnChecked,
     TurnReturns, TurnAbsorbs, TurnFails, TurnRaises, Goes, Abort
<1>3. ASSUME NEW cut \in BOOLEAN, ProgressBegin(cut) \/ ProgressReport
      PROVE  Flags'
  BY <1>3, Zenon DEF ProgressBegin, ProgressReport, Retain, Unmoved
<1>4. ASSUME NEW cut \in BOOLEAN, NEW cancels \in BOOLEAN, NEW fails \in BOOLEAN,
             ProgressEnd(cut, cancels, fails)
      PROVE  Flags'
  BY <1>4, Zenon DEF ProgressEnd, Unmoved
<1>5. ASSUME NEW kind, Response(kind) \/ ReaderFails
      PROVE  Flags'
  BY <1>5, Zenon DEF Response, ReaderFails, Unmoved, Abort
<1>6. ASSUME NEW k \in Calls, NEW cut \in BOOLEAN,
             Invoke(k, cut) \/ CallStarts(k, cut) \/ CallEnds(k, cut)
      PROVE  Flags'
  BY <1>6, Zenon DEF Invoke, CallStarts, CallEnds, CallMoves, Retain, Unmoved
<1>7. ASSUME NEW k \in Calls, CallLoses(k) \/ CallReplies(k)
      PROVE  Flags'
  BY <1>7, Zenon DEF CallLoses, CallReplies, CallMoves
<1>8. CASE CallbackAborts \/ SignalStarts
  BY <1>8, Zenon DEF CallbackAborts, SignalStarts, SignalMoves, Abort
<1>9. ASSUME NEW s \in Signallers, SignalStep(s)
      PROVE  Flags'
  BY <1>9, Zenon DEF SignalStep, SignalSent, SignalJoined, SignalMoves, Abort
<1>10. ASSUME NEW c \in Callers, CancelSession(c) \/ CancelStep(c)
      PROVE  Flags'
  BY <1>10, Zenon DEF CancelSession, CancelStep, CancelReturns, CancelGivesUp, SignalMoves, Abort
<1>11. CASE OwnerInterrupts \/ OwnerStops \/ StopTransport \/ CleanupEnds
  BY <1>11, Zenon DEF OwnerInterrupts, OwnerStops, StopTransport, CleanupEnds
<1>12. CASE UNCHANGED vars
  BY <1>12, Zenon DEF vars
<1> HIDE DEF Flags
<1>13. ASSUME Message
      PROVE  Flags'
  BY <1>3, <1>4, <1>5, <1>6, <1>13 DEF Message
<1>14. ASSUME NEW k \in Calls, CallStep(k)
      PROVE  Flags'
  BY <1>6, <1>7, <1>14 DEF CallStep
<1> QED
  BY <1>1, <1>2, <1>8, <1>9, <1>10, <1>11, <1>12, <1>13, <1>14 DEF Next

(* What a sequence of calls becomes.                                       *)
LEMMA QueueMoves ==
    ASSUME NEW items \in Seq(Calls)
    PROVE  /\ \A k \in Calls : Append(items, k) \in Seq(Calls)
           /\ items # << >> => Tail(items) \in Seq(Calls) /\ Head(items) \in Calls
  OBVIOUS

LEMMA TypesStep == ASSUME StateTypes, NothingYet, [Next]_vars PROVE StateTypes'
<1> USE Separate DEF StateTypes, transportVars, turnVars, wireVars, callVars
<1> DEFINE Where == {"idle", "ready", "notifying", "joining", "done", "failed", "stopping"}
<1>0. SignalPlace \in Where /\ JoinEffect \in Where
  BY DEF SignalPlace, JoinEffect
<1>1. ASSUME NEW t \in Turns, RunTurn(t)
      PROVE  StateTypes'
  BY <1>1 DEF RunTurn, Working, Raised
<1>2. ASSUME NEW t \in Turns, TurnStep(t)
      PROVE  StateTypes'
  <2>1. CASE TurnTimesOut(t)
    BY <1>0, <2>1 DEF TurnTimesOut, Goes, Working
  <2>2. CASE TurnSignalled(t) \/ TurnAnswered(t) \/ TurnJoined(t) \/ TurnSettles(t) \/ TurnChecked(t)
    BY <2>2 DEF TurnSignalled, TurnAnswered, TurnJoined, TurnSettles, TurnChecked, Goes, Working
  <2>3. CASE TurnReturns(t)
    BY <2>3 DEF TurnReturns, Goes, Outcome, Settled
  <2>4. CASE TurnAbsorbs(t) \/ TurnFails(t)
    BY <2>4 DEF TurnAbsorbs, TurnFails, StartCleanup, Live
  <2>5. CASE TurnRaises(t)
    BY <2>5 DEF TurnRaises, Raised
  <2> QED
    BY <1>2, <2>1, <2>2, <2>3, <2>4, <2>5 DEF TurnStep
<1>3. ASSUME NEW wanted, Schedule(wanted)
      PROVE  signal' \in [Signallers -> Where]
  BY <1>3 DEF Schedule
<1>4. ASSUME NEW cut, ProgressBegin(cut) \/ ProgressReport
      PROVE  StateTypes'
  BY <1>3, <1>4 DEF ProgressBegin, ProgressReport, Retain, Unmoved
<1>5. ASSUME NEW cut, NEW cancels, NEW fails, ProgressEnd(cut, cancels, fails)
      PROVE  StateTypes'
  BY <1>3, <1>5 DEF ProgressEnd, Unmoved
<1>6. ASSUME NEW kind \in {"result", "error"}, Response(kind) \/ ReaderFails
      PROVE  StateTypes'
  BY <1>6 DEF Response, ReaderFails, Unmoved
<1>7. ASSUME NEW k \in Calls, NEW cut, Invoke(k, cut) \/ CallStarts(k, cut) \/ CallEnds(k, cut)
      PROVE  StateTypes'
  <2>1. CASE Invoke(k, cut)
    <3>1. calls' \in [Calls -> Unsettled \cup {"none", "lost", "raised", "replied", "dropped"}]
      BY <2>1 DEF Invoke, Unsettled
    <3>2. queue' \in Seq(Calls)
      <4>1. queue \in Seq(Calls) /\ queue' \in {queue, Append(queue, k)}
        BY <2>1 DEF Invoke
      <4> QED
        BY <4>1, QueueMoves
    <3> QED
      BY <1>3, <2>1, <3>1, <3>2 DEF Invoke, Retain, Unmoved
  <2>2. CASE CallStarts(k, cut)
    BY <1>3, <2>2, QueueMoves DEF CallStarts, CallMoves, Retain, Unsettled
  <2>3. CASE CallEnds(k, cut)
    BY <1>3, <2>3 DEF CallEnds, CallMoves, Retain, Unsettled
  <2> QED
    BY <1>7, <2>1, <2>2, <2>3
<1>8. ASSUME NEW k \in Calls, CallLoses(k) \/ CallReplies(k)
      PROVE  StateTypes'
  BY <1>8 DEF CallLoses, CallReplies, CallMoves
<1>9. CASE CallbackAborts
  BY <1>9 DEF CallbackAborts
<1>10. CASE SignalStarts
  <2>1. context \in Turns
    BY <1>10 DEF SignalStarts, NothingYet
  <2> QED
    BY <1>0, <1>10, <2>1 DEF SignalStarts, SignalMoves
<1>11. ASSUME NEW s \in Signallers, SignalStep(s)
      PROVE  StateTypes'
  BY <1>0, <1>11 DEF SignalStep, SignalSent, SignalJoined, SignalMoves
<1>12. ASSUME NEW c \in Callers, CancelSession(c) \/ CancelStep(c)
      PROVE  StateTypes'
  BY <1>0, <1>12 DEF CancelSession, CancelStep, CancelReturns, CancelGivesUp, SignalMoves,
     StartCleanup, Live
<1>13. CASE OwnerInterrupts \/ OwnerStops \/ StopTransport \/ CleanupEnds
  <2>1. CASE OwnerInterrupts \/ OwnerStops
    BY <2>1 DEF OwnerInterrupts, OwnerStops, StartCleanup, Live
  <2>2. CASE StopTransport
    BY <2>2 DEF StopTransport
  <2>3. CASE CleanupEnds
    BY <2>3 DEF CleanupEnds
  <2> QED
    BY <1>13, <2>1, <2>2, <2>3
<1>14. CASE UNCHANGED vars
  BY <1>14 DEF vars
<1> HIDE DEF StateTypes
<1>15. CASE Message
  BY <1>4, <1>5, <1>6, <1>7, <1>15 DEF Message
<1>16. ASSUME NEW k \in Calls, CallStep(k)
      PROVE  StateTypes'
  BY <1>7, <1>8, <1>16 DEF CallStep
<1> QED
  BY <1>1, <1>2, <1>9, <1>10, <1>11, <1>12, <1>13, <1>14, <1>15, <1>16 DEF Next

--------------------------------------------------------------------------------
(* The steps of run_turn                                                   *)

(* A step of the turn that moves only its phase is one of the turn run     *)
(* last, and keeps all that does not speak of where it is.                 *)
LEMMA PhaseMoves ==
    ASSUME StateTypes, Rest, NEW t \in Turns, NEW from \in Working, NEW to \in Working \cup Settled,
           Goes(t, from, to), UNCHANGED <<requested, signal>>
    PROVE  /\ t = context /\ phase[context] = from /\ phase'[context] = to
           /\ TurnOwned' /\ NothingYet' /\ Asked' /\ CleanupClosed' /\ CancelJoinsEffects' /\ CleanupLeavesNothing'
<1> USE DEF Rest, Goes, transportVars, turnVars, wireVars, callVars, StateTypes
<1>1. t = context /\ phase[context] = from /\ phase'[context] = to
  BY DEF TurnOwned, Live
<1>2. TurnOwned'
  <2>1. Live' \subseteq {context}
    BY <1>1 DEF TurnOwned, Live
  <2>2. interrupted' \subseteq Live'
    BY <1>1 DEF TurnOwned, Live
  <2> QED
    BY <1>1, <2>1, <2>2 DEF TurnOwned, Working, Settled
<1>3. NothingYet' /\ CleanupClosed' /\ CancelJoinsEffects' /\ CleanupLeavesNothing'
  BY DEF NothingYet, CleanupClosed, CancelJoinsEffects, Running, CleanupLeavesNothing
<1>4. Asked'
  <2>1. Live' \subseteq Live
    BY <1>1 DEF Live
  <2>2. \A s \in Signallers : About(s)' <=> About(s)
    BY DEF About
  <2>3. phase'[context] \notin Gone
    BY <1>1 DEF Gone, Working, Settled, Raised
  <2> QED
    BY <2>1, <2>2, <2>3 DEF Asked
<1> QED
  BY <1>1, <1>2, <1>3, <1>4

LEMMA RunTurnStep ==
    ASSUME StateTypes, Rest, NEW t \in Turns, RunTurn(t)
    PROVE  Rest'
<1> USE Separate DEF Rest, transportVars, wireVars, callVars, StateTypes
<1>1. t # context /\ phase[t] = "unused" /\ signal[t] = "idle" /\ t \notin requested
  BY DEF RunTurn, TurnOwned
<1>2. CASE open /\ cleanup = "idle" /\ Live = {}
  <2>1. /\ context' = t /\ phase' = [phase EXCEPT ![t] = "prompting"]
        /\ reply' = "none" /\ ~ended' /\ ~reason' /\ ~overflow'
        /\ calls' = [k \in Calls |-> "none"] /\ signal' = [signal EXCEPT ![Scheduled] = "idle"]
        /\ UNCHANGED <<queue, open, reading, cleanup, interrupted, requested, target>>
    BY <1>2 DEF RunTurn
  <2>2. queue = << >>
    <3>1. CASE context = NoTurn
      BY <3>1 DEF NothingYet
    <3>2. CASE context \in Turns
      <4>1. phase[context] \in Settled
        BY <1>2, <3>2 DEF TurnOwned, Asked, Live, Gone, Working, Raised, Settled
      <4>2. \A i \in 1 .. Len(queue) : queue[i] \in Calls /\ calls[queue[i]] = "queued"
        BY DEF CallsSettled
      <4>3. \A i \in 1 .. Len(queue) : FALSE
        BY <3>2, <4>1, <4>2 DEF CallsSettled
      <4> QED
        BY <4>3
    <3> QED
      BY <3>1, <3>2
  <2>3. Live' = {t}
    BY <1>1, <1>2, <2>1 DEF Live, Working
  <2>4. TurnOwned'
    BY <1>1, <1>2, <2>1, <2>3 DEF TurnOwned
  <2>5. NothingYet' /\ AnswerLast' /\ CancellationScheduled'
    BY <2>1 DEF NothingYet, AnswerLast, CancellationScheduled, Settled
  <2>6. CallsSettled' /\ CleanupClosed' /\ CleanupLeavesNothing'
    BY <1>2, <2>1, <2>2 DEF CallsSettled, CleanupClosed, CleanupLeavesNothing, Settled
  <2>7. ASSUME NEW s \in Signallers, About(s)'
        PROVE  signal'[s] = "idle"
    BY <1>1, <2>1, <2>7, TurnOwned DEF About, Signallers, TurnOwned
  <2>8. Asked' /\ CancelJoinsEffects'
    BY <1>2, <2>1, <2>7 DEF Asked, CancelJoinsEffects, About, Gone, Raised
  <2> QED
    BY <2>4, <2>5, <2>6, <2>8
<1>3. CASE ~(open /\ cleanup = "idle" /\ Live = {})
  <2>1. /\ phase' = [phase EXCEPT ![t] = "error"]
        /\ UNCHANGED <<open, reading, cleanup, context, interrupted, requested, reply, ended,
                       reason, overflow,
                       calls, queue, signal, target>>
    BY <1>3 DEF RunTurn
  <2>2. Live' = Live /\ (context \in Turns => phase'[context] = phase[context])
    BY <1>1, <2>1 DEF Live, Working
  <2>3. TurnOwned' /\ NothingYet'
    BY <1>1, <2>1, <2>2 DEF TurnOwned, NothingYet
  <2>4. AnswerLast' /\ CancellationScheduled' /\ CallsSettled'
    BY <2>1, <2>2 DEF AnswerLast, CancellationScheduled, CallsSettled
  <2>5. Asked' /\ CleanupClosed' /\ CancelJoinsEffects' /\ CleanupLeavesNothing'
    BY <2>1, <2>2 DEF Asked, About, CleanupClosed, CancelJoinsEffects, Running, CleanupLeavesNothing
  <2> QED
    BY <2>3, <2>4, <2>5
<1> QED
  BY <1>2, <1>3

(* What the phases past each wait of run_turn say of the turn.             *)
LEMMA TurnWaits ==
    ASSUME StateTypes, Rest, NEW t \in Turns,
           TurnSignalled(t) \/ TurnAnswered(t) \/ TurnJoined(t) \/ TurnSettles(t) \/ TurnChecked(t) \/ TurnReturns(t)
    PROVE  Rest'
<1> USE Separate DEF Rest, StateTypes
<1>1. PICK from \in Working,
           to \in Working \cup Settled : Goes(t, from, to) /\ UNCHANGED <<requested, signal>>
  BY DEF TurnSignalled, TurnAnswered, TurnJoined, TurnSettles, TurnChecked, TurnReturns, Outcome,
     Working, Settled
<1>2. /\ t = context /\ phase[context] = from /\ phase'[context] = to
      /\ TurnOwned' /\ NothingYet' /\ Asked' /\ CleanupClosed' /\ CancelJoinsEffects' /\ CleanupLeavesNothing'
  BY <1>1, PhaseMoves
<1>3. /\ phase[context] # phase'[context]
      /\ UNCHANGED <<context, open, reply, ended, reason, overflow, calls, queue, signal>>
  BY <1>1, <1>2 DEF Goes, wireVars, callVars, transportVars, TurnSignalled, TurnAnswered,
     TurnJoined, TurnSettles, TurnChecked, TurnReturns, Outcome
<1>4. AnswerLast'
  BY <1>2, <1>3 DEF AnswerLast, Goes, TurnSignalled, TurnAnswered, TurnJoined, TurnSettles,
     TurnChecked, TurnReturns, Outcome, Settled
<1>5. CancellationScheduled'
  BY <1>2, <1>3 DEF CancellationScheduled, Goes, TurnSignalled, TurnAnswered, TurnJoined,
     TurnSettles, TurnChecked, TurnReturns, Outcome, Settled, Unacknowledged
<1>6. CallsSettled'
  BY <1>2, <1>3 DEF CallsSettled, Goes, TurnSignalled, TurnAnswered, TurnJoined, TurnSettles,
     TurnChecked, TurnReturns, Outcome, Settled, CallbacksSettled, Unsettled
<1> QED
  BY <1>2, <1>4, <1>5, <1>6

(* Where _signal_cancel suspends joins an effect, or there is none.        *)
LEMMA SignalPlaces ==
    /\ SignalPlace \in {"notifying", "joining", "done"} /\ JoinEffect \in {"joining", "done"}
    /\ SignalPlace = "done" \/ JoinEffect = "done" => Running = {}
    /\ SignalPlace = "joining" => Running # {}
    /\ reply # "none" /\ Running = {} => SignalPlace = "done"
BY DEF SignalPlace, JoinEffect

LEMMA TimesOutStep ==
    ASSUME StateTypes, Rest, NEW t \in Turns, TurnTimesOut(t)
    PROVE  Rest'
<1> USE Separate DEF Rest, StateTypes
<1>1. /\ t = context /\ phase[t] = "prompting" /\ phase' = [phase EXCEPT ![t] = "signalling"]
      /\ signal' = [signal EXCEPT ![t] = SignalPlace] /\ requested' = requested \cup {t}
      /\ UNCHANGED <<open, reading, cleanup, context, interrupted, reply, ended, reason, overflow,
                     calls, queue, target>>
  BY DEF TurnTimesOut, Goes, TurnOwned, Live, Working, transportVars, wireVars, callVars
<1>2. Live' = Live
  BY <1>1 DEF Live, Working
<1>3. TurnOwned' /\ NothingYet'
  BY <1>1, <1>2 DEF TurnOwned, NothingYet
<1>4. AnswerLast' /\ CancellationScheduled' /\ CallsSettled'
  BY <1>1 DEF AnswerLast, CancellationScheduled, CallsSettled, Settled
<1>5. Asked' /\ CleanupClosed' /\ CleanupLeavesNothing'
  BY <1>1, <1>2 DEF Asked, CleanupClosed, CleanupLeavesNothing, Gone, Raised
<1>6. CancelJoinsEffects'
  BY <1>1, SignalPlaces DEF CancelJoinsEffects, Running
<1> QED
  BY <1>3, <1>4, <1>5, <1>6

LEMMA AbsorbsStep ==
    ASSUME StateTypes, Rest, NEW t \in Turns, TurnAbsorbs(t)
    PROVE  Rest'
<1> USE DEF Rest, TurnAbsorbs, transportVars, wireVars, callVars
<1>1. TurnOwned' /\ NothingYet' /\ AnswerLast' /\ CancellationScheduled'
  BY DEF TurnOwned, NothingYet, AnswerLast, CancellationScheduled, Live
<1>2. CallsSettled' /\ Asked' /\ CleanupClosed' /\ CancelJoinsEffects' /\ CleanupLeavesNothing'
  BY DEF CallsSettled, Asked, About, Live, CleanupClosed, CancelJoinsEffects, Running,
     CleanupLeavesNothing
<1> QED
  BY <1>1, <1>2

(* A turn that gives up stops the client, which asks it to cancel.         *)
LEMMA FailsStep ==
    ASSUME StateTypes, Rest, NEW t \in Turns, TurnFails(t)
    PROVE  Rest'
<1> USE Separate DEF Rest, StateTypes
<1>1. /\ t = context /\ t \in Live /\ phase' = [phase EXCEPT ![t] = "stopping"] /\ ~open'
      /\ interrupted' = interrupted \ {t}
      /\ cleanup' = (IF cleanup = "idle" THEN "tools" ELSE cleanup)
      /\ requested' = (IF cleanup = "idle" THEN requested \cup Live ELSE requested)
      /\ UNCHANGED <<reading, context, reply, ended, reason, overflow, calls, queue, signal,
                     target>>
  BY DEF TurnFails, Abort, StartCleanup, TurnOwned, Live, wireVars, callVars
<1>2. Live' = Live
  BY <1>1 DEF Live
<1>3. TurnOwned' /\ NothingYet'
  <2>1. \A u \in Live : phase[u] # "unused"
    BY DEF Live, Working
  <2> QED
    BY <1>1, <1>2, <2>1 DEF TurnOwned, NothingYet
<1>4. AnswerLast' /\ CancellationScheduled' /\ CallsSettled'
  BY <1>1 DEF AnswerLast, CancellationScheduled, CallsSettled, Settled
<1>5. Asked'
  BY <1>1, <1>2 DEF Asked, About
<1>6. CleanupClosed' /\ CancelJoinsEffects' /\ CleanupLeavesNothing'
  BY <1>1 DEF CleanupClosed, CancelJoinsEffects, Running, CleanupLeavesNothing
<1> QED
  BY <1>3, <1>4, <1>5, <1>6

LEMMA RaisesStep ==
    ASSUME StateTypes, Rest, NEW t \in Turns, TurnRaises(t)
    PROVE  Rest'
<1> USE Separate DEF Rest, StateTypes
<1>1. /\ t = context /\ phase[t] = "stopping" /\ phase'[t] \in Raised
      /\ \A u \in Turns \ {t} : phase'[u] = phase[u]
      /\ interrupted' = interrupted \ {t}
      /\ UNCHANGED <<open, reading, cleanup, context, requested, reply, ended, reason, overflow,
                     calls, queue, signal,
                     target>>
  BY DEF TurnRaises, TurnOwned, Live, Raised, transportVars, wireVars, callVars
<1>2. Live' = Live \ {t}
  BY <1>1 DEF Live, Raised, Working
<1>3. TurnOwned' /\ NothingYet'
  BY <1>1, <1>2 DEF TurnOwned, NothingYet, Raised
<1>4. AnswerLast' /\ CancellationScheduled' /\ CallsSettled'
  BY <1>1 DEF AnswerLast, CancellationScheduled, CallsSettled, Settled, Raised
<1>5. Asked'
  BY <1>1, <1>2 DEF Asked, About, Gone
<1>6. CleanupClosed' /\ CancelJoinsEffects' /\ CleanupLeavesNothing'
  BY <1>1 DEF CleanupClosed, CancelJoinsEffects, Running, CleanupLeavesNothing
<1> QED
  BY <1>3, <1>4, <1>5, <1>6

--------------------------------------------------------------------------------
(* The messages of the server and the tool calls                           *)

Scheduling(wanted) ==
    /\ \A s \in Signallers \ {Scheduled} : signal'[s] = signal[s]
    /\ signal'[Scheduled] = IF wanted /\ signal[Scheduled] = "idle" THEN "ready" ELSE signal[Scheduled]

LEMMA Schedules ==
    ASSUME StateTypes, NEW wanted, Schedule(wanted)
    PROVE  Scheduling(wanted)
BY Separate DEF Schedule, Scheduling, StateTypes

(* Scheduling a cancellation changes nothing else about the signallers.    *)
LEMMA ScheduleKeeps ==
    ASSUME StateTypes, Rest, NEW wanted, Scheduling(wanted), UNCHANGED <<context, phase,
                                                                         interrupted, requested,
                                                                             target>>
    PROVE  /\ TurnOwned'
           /\ UNCHANGED <<open, cleanup>> => Asked'
           /\ Running' \subseteq Running => CancelJoinsEffects'
<1> USE Separate DEF Rest, Scheduling, StateTypes
<1>1. Live' = Live /\ \A s \in Signallers : About(s)' <=> About(s)
  BY DEF Live, About
<1>2. TurnOwned'
  BY <1>1 DEF TurnOwned
<1>3. ASSUME UNCHANGED <<open, cleanup>>
      PROVE  Asked'
  BY <1>1, <1>3 DEF Asked
<1>4. ASSUME Running' \subseteq Running
      PROVE  CancelJoinsEffects'
  BY <1>4 DEF CancelJoinsEffects
<1> QED
  BY <1>2, <1>3, <1>4

LEMMA ProgressStep ==
    ASSUME StateTypes, Rest, NEW cut \in BOOLEAN, NEW cancels \in BOOLEAN, NEW fails \in BOOLEAN,
           ProgressBegin(cut) \/ ProgressReport \/ ProgressEnd(cut, cancels, fails)
    PROVE  Rest'
<1> USE Separate DEF Rest, StateTypes
<1>1. /\ context \in Turns /\ phase[context] \in Working \cup {"stopping"} /\ ~ended
      /\ UNCHANGED <<open, reading, cleanup, context, phase, interrupted, requested, target, reply,
                     calls, queue>>
  BY DEF ProgressBegin, ProgressReport, ProgressEnd, Admits, Live, Unmoved, transportVars, turnVars,
     wireVars, callVars
<1>2. /\ Scheduling(overflow' \/ reason') /\ (overflow => overflow')
      /\ reason' => ended'
      /\ ended => ended'
  <2>1. CASE ProgressBegin(cut) \/ ProgressReport
    <3>1. Scheduling(overflow') /\ (overflow => overflow') /\ UNCHANGED <<ended, reason>> /\ ~reason
      BY <1>1, <2>1, Schedules DEF ProgressBegin, ProgressReport, Retain, wireVars, AnswerLast
    <3> QED
      BY <1>1, <3>1 DEF Scheduling, AnswerLast
  <2>2. CASE ProgressEnd(cut, cancels, fails)
    BY <2>2, Schedules DEF ProgressEnd, Scheduling
  <2> QED
    BY <2>1, <2>2
<1>3. TurnOwned' /\ Asked' /\ CancelJoinsEffects'
  BY <1>1, <1>2, ScheduleKeeps DEF Running
<1>4. NothingYet' /\ AnswerLast' /\ CleanupClosed' /\ CleanupLeavesNothing'
  BY <1>1, <1>2 DEF NothingYet, AnswerLast, CleanupClosed, CleanupLeavesNothing
<1>5. reply = "none" /\ ~reason /\ phase[context] \notin {"settling", "checking", "checked"} \cup Settled
  BY <1>1 DEF AnswerLast
<1>6. CancellationScheduled'
  BY <1>1, <1>2, <1>5 DEF CancellationScheduled, Scheduling
<1>7. CallsSettled'
  BY <1>1, <1>5 DEF CallsSettled
<1> QED
  BY <1>3, <1>4, <1>6, <1>7

LEMMA ResponseStep ==
    ASSUME StateTypes, Rest, NEW kind \in {"result", "error"}, Response(kind)
    PROVE  Rest'
<1> USE DEF Rest
<1>1. /\ ended /\ reply' # "none"
      /\ UNCHANGED <<open, reading, cleanup, context, phase, interrupted, requested, target, ended,
                     reason, overflow,
                     calls, queue, signal>>
  BY DEF Response, Unmoved, transportVars, turnVars, callVars
<1>2. TurnOwned' /\ NothingYet' /\ AnswerLast' /\ CancellationScheduled'
  BY <1>1 DEF TurnOwned, NothingYet, AnswerLast, CancellationScheduled, Live
<1>3. CallsSettled' /\ Asked' /\ CleanupClosed' /\ CancelJoinsEffects' /\ CleanupLeavesNothing'
  BY <1>1 DEF CallsSettled, Asked, About, Live, CleanupClosed, CancelJoinsEffects, Running,
     CleanupLeavesNothing
<1> QED
  BY <1>2, <1>3

(* The transport is lost, and perhaps its reader with it.                  *)
LEMMA LossStep ==
    ASSUME StateTypes, Rest, ReaderFails \/ CallbackAborts
    PROVE  Rest'
<1> USE DEF Rest
<1>1. /\ ~open' /\ (reading' => reading)
      /\ UNCHANGED <<cleanup, context, phase, interrupted, requested, target, reply, ended, reason,
                     overflow,
                     calls, queue, signal>>
  BY DEF ReaderFails, CallbackAborts, Abort, turnVars, wireVars, callVars
<1>2. TurnOwned' /\ NothingYet' /\ AnswerLast' /\ CancellationScheduled'
  BY <1>1 DEF TurnOwned, NothingYet, AnswerLast, CancellationScheduled, Live
<1>3. CallsSettled' /\ Asked' /\ CleanupClosed' /\ CancelJoinsEffects' /\ CleanupLeavesNothing'
  BY <1>1 DEF CallsSettled, Asked, About, Live, CleanupClosed, CancelJoinsEffects, Running,
     CleanupLeavesNothing
<1> QED
  BY <1>2, <1>3

(* What a step of a tool call leaves alone, and when it can happen: before *)
(* the turn is checked, and before a cleanup has closed the tools.         *)
Calling(k) ==
    /\ UNCHANGED <<context, phase, interrupted, requested, target, open, reading, cleanup, reply,
                   ended, reason>>
    /\ overflow => overflow'
    /\ Scheduling(overflow')
    /\ context \in Turns
    /\ phase[context] \notin {"checking", "checked"} \cup Settled
    /\ cleanup \notin {"transport", "settled", "failed"}
    /\ calls'[k] # "dropped"
    /\ \A other \in Calls \ {k} : calls'[other] = calls[other]

LEMMA CallingKeeps ==
    ASSUME StateTypes, Rest, NEW k \in Calls, Calling(k)
    PROVE  /\ TurnOwned' /\ NothingYet' /\ AnswerLast' /\ Asked' /\ CleanupClosed' /\ CleanupLeavesNothing'
           /\ CancellationScheduled'
           /\ Running' \subseteq Running => CancelJoinsEffects'
           /\ /\ \A i \in 1 .. Len(queue') : calls'[queue'[i]] = "queued"
              /\ \A i, j \in 1 .. Len(queue') : queue'[i] = queue'[j] => i = j
              => CallsSettled'
<1> USE Separate DEF Rest, Calling
<1>1. TurnOwned' /\ Asked' /\ (Running' \subseteq Running => CancelJoinsEffects')
  BY ScheduleKeeps
<1>2. NothingYet' /\ AnswerLast' /\ CleanupClosed' /\ CleanupLeavesNothing'
  BY DEF NothingYet, AnswerLast, CleanupClosed, CleanupLeavesNothing
<1>3. CancellationScheduled'
  BY DEF CancellationScheduled, Scheduling
<1>4. ASSUME /\ \A i \in 1 .. Len(queue') : calls'[queue'[i]] = "queued"
             /\ \A i, j \in 1 .. Len(queue') : queue'[i] = queue'[j] => i = j
      PROVE  CallsSettled'
  BY <1>4 DEF CallsSettled
<1> QED
  BY <1>1, <1>2, <1>3, <1>4

(* A call that is not over can only be of a turn that is not checked yet.  *)
LEMMA CallUnderWay ==
    ASSUME StateTypes, Rest, NEW k \in Calls, calls[k] \in Unsettled
    PROVE  /\ context \in Turns
           /\ phase[context] \notin {"checking", "checked"} \cup Settled
           /\ cleanup \notin {"transport", "settled", "failed"}
BY DEF Rest, StateTypes, NothingYet, CallsSettled, CleanupClosed, Unsettled

LEMMA InvokeStep ==
    ASSUME StateTypes, Rest, NEW k \in Calls, NEW cut \in BOOLEAN, Invoke(k, cut)
    PROVE  Rest'
<1> USE DEF StateTypes
<1>1. Calling(k) /\ calls[k] = "none" /\ calls'[k] \in {"queued", "replying"}
  <2>1. context \in Turns /\ phase[context] \notin {"checking", "checked"} \cup Settled
    BY DEF Invoke, Admits, CallAllowed, Live, Working, Settled, Rest, AnswerLast
  <2>2. reading /\ cleanup \notin {"transport", "settled", "failed"}
    BY DEF Invoke, Admits, Rest, CleanupClosed
  <2>3. Scheduling(overflow') /\ (overflow => overflow')
    BY Schedules DEF Invoke, Retain
  <2>4. calls[k] = "none" /\ calls'[k] \in {"queued", "replying"} /\ \A other \in Calls \ {k} : calls'[other] = calls[other]
    BY DEF Invoke
  <2>5. UNCHANGED <<context, phase, interrupted, requested, target, open, reading, cleanup, reply,
                    ended, reason>>
    BY DEF Invoke, Unmoved, transportVars, turnVars, wireVars
  <2> QED
    BY <2>1, <2>2, <2>3, <2>4, <2>5 DEF Calling
<1>2. Running' = Running
  BY <1>1 DEF Running, Calling
<1>3. /\ \A i \in 1 .. Len(queue') : calls'[queue'[i]] = "queued"
      /\ \A i, j \in 1 .. Len(queue') : queue'[i] = queue'[j] => i = j
  <2>1. /\ queue \in Seq(Calls)
        /\ \A i \in 1 .. Len(queue) : queue[i] \in Calls /\ calls[queue[i]] = "queued" /\ queue[i] # k
        /\ \A i, j \in 1 .. Len(queue) : queue[i] = queue[j] => i = j
    BY <1>1 DEF Rest, CallsSettled
  <2>2. CASE queue' = queue
    BY <1>1, <2>1, <2>2 DEF Calling
  <2>3. CASE calls'[k] = "queued" /\ queue' = Append(queue, k)
    BY <1>1, <2>1, <2>3 DEF Calling
  <2> QED
    BY <2>2, <2>3 DEF Invoke
<1> QED
  BY <1>1, <1>2, <1>3, CallingKeeps DEF Rest

(* The next of the queue starts only in a turn that nobody asked to stop.  *)
LEMMA CallStartsStep ==
    ASSUME StateTypes, Rest, NEW k \in Calls, NEW cut \in BOOLEAN, CallStarts(k, cut)
    PROVE  Rest'
<1> USE DEF StateTypes
<1>1. /\ queue \in Seq(Calls) /\ queue # << >> /\ Len(queue) > 0 /\ k = queue[1] /\ queue' = Tail(queue)
      /\ Len(queue') = Len(queue) - 1 /\ \A i \in 1 .. Len(queue') : queue'[i] = queue[i + 1] /\ i + 1 \in 1 .. Len(queue)
  BY DEF CallStarts
<1>2. calls[k] = "queued"
  BY <1>1 DEF Rest, CallsSettled
<1>3. calls'[k] \in {"replying", "running", "raised"} /\ \A other \in Calls \ {k} : calls'[other] = calls[other]
  BY DEF CallStarts, CallMoves
<1>4. Calling(k)
  <2>1. Scheduling(overflow') /\ (overflow => overflow')
    <3>1. CASE Retain(cut)
      BY <3>1, Schedules DEF Retain
    <3>2. CASE UNCHANGED <<overflow, signal>> /\ ~overflow
      BY <3>2 DEF Scheduling
    <3> QED
      BY <3>1, <3>2 DEF CallStarts, Refused
  <2>2. UNCHANGED <<context, phase, interrupted, requested, target, open, reading, cleanup, reply,
                    ended, reason>>
    BY DEF CallStarts, CallMoves, transportVars, turnVars, wireVars
  <2> QED
    BY <1>2, <1>3, <2>1, <2>2, CallUnderWay DEF Calling, Unsettled
<1>5. /\ \A i \in 1 .. Len(queue') : calls'[queue'[i]] = "queued"
      /\ \A i, j \in 1 .. Len(queue') : queue'[i] = queue'[j] => i = j
  <2>1. /\ \A i \in 1 .. Len(queue) : queue[i] \in Calls /\ calls[queue[i]] = "queued"
        /\ \A i, j \in 1 .. Len(queue) : queue[i] = queue[j] => i = j
    BY <1>1 DEF Rest, CallsSettled
  <2>2. \A i \in 1 .. Len(queue') : queue'[i] \in Calls \ {k} /\ calls[queue'[i]] = "queued"
    BY <1>1, <2>1
  <2>3. \A i \in 1 .. Len(queue') : calls'[queue'[i]] = "queued"
    BY <1>3, <2>2
  <2>4. ASSUME NEW i \in 1 .. Len(queue'), NEW j \in 1 .. Len(queue'), queue'[i] = queue'[j]
        PROVE  i = j
    <3>1. /\ i + 1 \in 1 .. Len(queue) /\ j + 1 \in 1 .. Len(queue)
          /\ queue[i + 1] = queue[j + 1]
      BY <1>1, <2>4
    <3>2. i + 1 = j + 1
      BY <2>1, <3>1
    <3> QED
      BY <3>2
  <2> QED
    BY <2>3, <2>4
<1>6. CASE calls'[k] # "running"
  <2>1. Running' \subseteq Running
    BY <1>3, <1>6 DEF Running
  <2> QED
    BY <1>4, <1>5, <2>1, CallingKeeps DEF Rest
<1>7. CASE calls'[k] = "running"
  <2>1. ~Refused /\ UNCHANGED <<signal, target, context>>
    BY <1>7 DEF CallStarts, CallMoves, turnVars
  <2>2. \A s \in Signallers : About(s)' => signal'[s] \notin {"done", "stopping"}
    BY <2>1 DEF Refused, Rest, Asked, About
  <2>3. CancelJoinsEffects'
    BY <2>2 DEF CancelJoinsEffects, About
  <2> QED
    BY <1>4, <1>5, <2>3, CallingKeeps DEF Rest
<1> QED
  BY <1>6, <1>7

LEMMA CallGoesStep ==
    ASSUME StateTypes, Rest, NEW k \in Calls, NEW cut \in BOOLEAN,
           CallEnds(k, cut) \/ CallLoses(k) \/ CallReplies(k)
    PROVE  Rest'
<1> USE DEF StateTypes
<1>1. /\ calls[k] \in {"running", "replying"} /\ calls'[k] \in {"replying", "lost", "replied", "raised"}
      /\ \A other \in Calls \ {k} : calls'[other] = calls[other]
      /\ UNCHANGED queue
  BY DEF CallEnds, CallLoses, CallReplies, CallMoves
<1>2. Calling(k)
  <2>1. Scheduling(overflow') /\ (overflow => overflow')
    <3>1. CASE CallEnds(k, cut)
      BY <3>1, Schedules DEF CallEnds, Retain
    <3>2. CASE UNCHANGED <<overflow, signal>>
      BY <3>2 DEF Scheduling, Rest, CancellationScheduled
    <3> QED
      BY <3>1, <3>2 DEF CallLoses, CallReplies
  <2>2. UNCHANGED <<context, phase, interrupted, requested, target, open, reading, cleanup, reply,
                    ended, reason>>
    BY DEF CallEnds, CallLoses, CallReplies, CallMoves, transportVars, turnVars, wireVars
  <2> QED
    BY <1>1, <2>1, <2>2, CallUnderWay DEF Calling, Unsettled
<1>3. Running' \subseteq Running
  BY <1>1 DEF Running
<1>4. /\ \A i \in 1 .. Len(queue') : calls'[queue'[i]] = "queued"
      /\ \A i, j \in 1 .. Len(queue') : queue'[i] = queue'[j] => i = j
  <2>1. /\ \A i \in 1 .. Len(queue) : queue[i] \in Calls /\ calls[queue[i]] = "queued"
        /\ \A i, j \in 1 .. Len(queue) : queue[i] = queue[j] => i = j
    BY DEF Rest, CallsSettled
  <2> QED
    BY <1>1, <2>1
<1> QED
  BY <1>2, <1>3, <1>4, CallingKeeps DEF Rest

--------------------------------------------------------------------------------
(* The signallers and the cleanup                                          *)

(* A signaller that moves to a place of _signal_cancel has asked its turn, *)
(* and is done only when no effect runs.                                   *)
LEMMA SignalStartsStep ==
    ASSUME StateTypes, Rest, SignalStarts
    PROVE  Rest'
<1> USE Separate DEF Rest, StateTypes
<1>1. /\ signal[Scheduled] = "ready" /\ signal' = [signal EXCEPT ![Scheduled] = SignalPlace]
      /\ requested' = requested \cup {context} /\ context \in Turns
      /\ UNCHANGED <<open, reading, cleanup, context, phase, interrupted, reply, ended, reason,
                     overflow, calls, queue,
                     target>>
  BY DEF SignalStarts, SignalMoves, NothingYet, turnVars, wireVars, callVars
<1>2. Live' = Live
  BY <1>1 DEF Live
<1>3. TurnOwned' /\ NothingYet' /\ AnswerLast'
  BY <1>1, <1>2 DEF TurnOwned, NothingYet, AnswerLast
<1>4. phase[context] \in {"checked"} \cup Settled => reply # "none" /\ Running = {}
  BY <1>1 DEF AnswerLast, CallsSettled, Running
<1>5. CancellationScheduled'
  BY <1>1, SignalPlaces DEF CancellationScheduled
<1>6. CallsSettled'
  BY <1>1, <1>4, SignalPlaces DEF CallsSettled
<1>7. Asked'
  BY <1>1, <1>2 DEF Asked
<1>8. CleanupClosed' /\ CleanupLeavesNothing'
  BY <1>1 DEF CleanupClosed, CleanupLeavesNothing
<1>9. CancelJoinsEffects'
  BY <1>1, SignalPlaces DEF CancelJoinsEffects, Running
<1> QED
  BY <1>3, <1>5, <1>6, <1>7, <1>8, <1>9

LEMMA SignalGoesStep ==
    ASSUME StateTypes, Rest, NEW s \in Signallers, SignalSent(s) \/ SignalJoined(s)
    PROVE  Rest'
<1> USE Separate DEF Rest, StateTypes
<1>1. PICK place \in {"joining", "done", "failed"} :
          /\ signal[s] \in {"notifying", "joining"} /\ signal' = [signal EXCEPT ![s] = place]
          /\ place = "joining" => signal[s] = "notifying"
          /\ place = "done" => Running = {}
          /\ open' => open
          /\ UNCHANGED <<reading, cleanup, requested, context, phase, interrupted, reply, ended,
                         reason, overflow, calls, queue,
                         target>>
  BY SignalPlaces DEF SignalSent, SignalJoined, SignalMoves, Abort, turnVars, wireVars, callVars
<1>2. Live' = Live
  BY <1>1 DEF Live
<1>3. TurnOwned' /\ NothingYet' /\ AnswerLast'
  BY <1>1, <1>2 DEF TurnOwned, NothingYet, AnswerLast
<1>4. CancellationScheduled'
  BY <1>1 DEF CancellationScheduled
<1>5. CallsSettled'
  BY <1>1 DEF CallsSettled
<1>6. Asked'
  BY <1>1, <1>2 DEF Asked, About
<1>7. CleanupClosed' /\ CleanupLeavesNothing'
  BY <1>1 DEF CleanupClosed, CleanupLeavesNothing
<1>8. CancelJoinsEffects'
  BY <1>1 DEF CancelJoinsEffects, Running
<1> QED
  BY <1>3, <1>4, <1>5, <1>6, <1>7, <1>8

LEMMA CancelSessionStep ==
    ASSUME StateTypes, Rest, NEW c \in Callers, CancelSession(c)
    PROVE  Rest'
<1> USE Separate DEF Rest, StateTypes
<1>1. /\ signal[c] = "idle" /\ signal' = [signal EXCEPT ![c] = SignalPlace]
      /\ context \in Live /\ target' = [target EXCEPT ![c] = context]
      /\ requested' = requested \cup {context}
      /\ UNCHANGED <<open, reading, cleanup, context, phase, interrupted, reply, ended, reason,
                     overflow, calls, queue>>
  BY DEF CancelSession, SignalMoves, turnVars, wireVars, callVars
<1>2. Live' = Live /\ context \in Turns /\ c \in Signallers /\ c # Scheduled /\ c \notin Turns
  BY <1>1 DEF Live
<1>3. TurnOwned' /\ NothingYet' /\ AnswerLast'
  BY <1>1, <1>2 DEF TurnOwned, NothingYet, AnswerLast
<1>4. phase[context] \in {"checked"} \cup Settled => reply # "none" /\ Running = {}
  BY <1>2 DEF AnswerLast, CallsSettled, Running
<1>5. CancellationScheduled'
  BY <1>1, <1>2 DEF CancellationScheduled
<1>6. CallsSettled'
  BY <1>1, <1>2, <1>4, SignalPlaces DEF CallsSettled
<1>7. Asked'
  BY <1>1, <1>2 DEF Asked
<1>8. CleanupClosed' /\ CleanupLeavesNothing'
  BY <1>1 DEF CleanupClosed, CleanupLeavesNothing
<1>9. CancelJoinsEffects'
  BY <1>1, <1>2, SignalPlaces DEF CancelJoinsEffects, Running
<1> QED
  BY <1>3, <1>5, <1>6, <1>7, <1>8, <1>9

(* A caller that leaves is about no turn; one that gives up stops the      *)
(* client, which asks the live turn to cancel.                             *)
LEMMA CancelReturnsStep ==
    ASSUME StateTypes, Rest, NEW c \in Callers, CancelReturns(c)
    PROVE  Rest'
<1> USE Separate DEF Rest, StateTypes
<1>1. /\ signal' = [signal EXCEPT ![c] = "idle"] /\ target' = [target EXCEPT ![c] = NoTurn]
      /\ UNCHANGED <<open, reading, cleanup, requested, context, phase, interrupted, reply, ended,
                     reason, overflow, calls, queue>>
  BY DEF CancelReturns, SignalMoves, turnVars, wireVars, callVars
<1>2. Live' = Live /\ c \in Signallers /\ c # Scheduled /\ c \notin Turns
  BY <1>1 DEF Live
<1>3. TurnOwned' /\ NothingYet' /\ AnswerLast'
  BY <1>1, <1>2 DEF TurnOwned, NothingYet, AnswerLast
<1>4. CancellationScheduled' /\ CallsSettled'
  BY <1>1, <1>2 DEF CancellationScheduled, CallsSettled
<1>5. Asked' /\ CancelJoinsEffects'
  BY <1>1, <1>2 DEF Asked, About, CancelJoinsEffects, Running
<1>6. CleanupClosed' /\ CleanupLeavesNothing'
  BY <1>1 DEF CleanupClosed, CleanupLeavesNothing
<1> QED
  BY <1>3, <1>4, <1>5, <1>6

LEMMA StopsStep ==
    ASSUME StateTypes, Rest, OwnerStops \/ \E c \in Callers : CancelGivesUp(c)
    PROVE  Rest'
<1> USE Separate DEF Rest, StateTypes
<1>1. /\ open' => open
      /\ cleanup' = (IF cleanup = "idle" THEN "tools" ELSE cleanup)
      /\ requested' = (IF cleanup = "idle" THEN requested \cup Live ELSE requested)
      /\ UNCHANGED <<reading, context, phase, interrupted, reply, ended, reason, overflow, calls,
                     queue, target>>
      /\ \/ UNCHANGED signal
         \/ \E c \in Callers : signal[c] = "done" /\ signal' = [signal EXCEPT ![c] = "stopping"]
  BY DEF OwnerStops, CancelGivesUp, SignalMoves, StartCleanup, Abort, transportVars, turnVars,
     wireVars, callVars
<1>2. /\ Live' = Live
      /\ \A u \in Live : phase[u] # "unused"
  BY <1>1 DEF Live, Working
<1>3. \A s \in Signallers : \/ signal'[s] = signal[s]
                            \/ s \in Callers /\ signal[s] = "done" /\ signal'[s] = "stopping"
  BY <1>1
<1>4. TurnOwned'
  BY <1>1, <1>2, <1>3 DEF TurnOwned
<1>5. NothingYet' /\ AnswerLast'
  BY <1>1, <1>3 DEF NothingYet, AnswerLast
<1>6. CancellationScheduled' /\ CallsSettled'
  BY <1>1, <1>3 DEF CancellationScheduled, CallsSettled
<1>7. Asked'
  BY <1>1, <1>2, <1>3 DEF Asked, About
<1>8. CancelJoinsEffects' /\ CleanupClosed' /\ CleanupLeavesNothing'
  BY <1>1, <1>3 DEF CancelJoinsEffects, Running, CleanupClosed, CleanupLeavesNothing
<1> QED
  BY <1>4, <1>5, <1>6, <1>7, <1>8

LEMMA OwnerStep ==
    ASSUME StateTypes, Rest, OwnerInterrupts \/ StopTransport \/ CleanupEnds
    PROVE  Rest'
<1> USE Separate DEF Rest, StateTypes
<1>1. CASE OwnerInterrupts
  <2>1. /\ interrupted' = Live /\ Live' = Live
        /\ UNCHANGED <<open, reading, cleanup, requested, context, phase, reply, ended, reason,
                       overflow, calls, queue,
                       signal, target>>
    BY <1>1 DEF OwnerInterrupts, Live, transportVars, wireVars, callVars
  <2>2. TurnOwned' /\ NothingYet' /\ AnswerLast' /\ CancellationScheduled'
    BY <2>1 DEF TurnOwned, NothingYet, AnswerLast, CancellationScheduled
  <2>3. CallsSettled' /\ Asked' /\ CleanupClosed' /\ CancelJoinsEffects' /\ CleanupLeavesNothing'
    BY <2>1 DEF CallsSettled, Asked, About, CleanupClosed, CancelJoinsEffects, Running,
       CleanupLeavesNothing
  <2> QED
    BY <2>2, <2>3
<1>2. CASE StopTransport
  <2>1. /\ cleanup = "tools" /\ Running = {} /\ cleanup' = "transport" /\ ~open' /\ ~reading' /\ queue' = << >>
        /\ \A k \in Calls : calls'[k] = IF calls[k] \in {"queued", "replying"} THEN "dropped" ELSE calls[k]
        /\ UNCHANGED <<context, phase, interrupted, requested, reply, ended, reason, overflow,
                       signal, target>>
    BY <1>2 DEF StopTransport, ToolsClosed, turnVars, wireVars
  <2>2. \A k \in Calls : calls'[k] \notin Unsettled
    BY <2>1 DEF Running, Unsettled
  <2>3. Live' = Live
    BY <2>1 DEF Live
  <2>4. TurnOwned' /\ NothingYet' /\ AnswerLast' /\ CancellationScheduled'
    BY <2>1, <2>3 DEF TurnOwned, NothingYet, AnswerLast, CancellationScheduled
  <2>5. CallsSettled' /\ Asked'
    BY <2>1, <2>3 DEF CallsSettled, Asked, About
  <2>6. CleanupClosed' /\ CancelJoinsEffects' /\ CleanupLeavesNothing'
    BY <2>1, <2>2 DEF CleanupClosed, CancelJoinsEffects, CleanupLeavesNothing, Running, Unsettled
  <2> QED
    BY <2>4, <2>5, <2>6
<1>3. CASE CleanupEnds
  <2>1. /\ cleanup = "transport" /\ cleanup' \in {"settled", "failed"}
        /\ cleanup' = "settled" => \A k \in Calls : calls[k] # "lost"
        /\ UNCHANGED <<open, reading, context, phase, interrupted, requested, reply, ended, reason,
                       overflow, calls, queue,
                       signal, target>>
    BY <1>3 DEF CleanupEnds, transportVars, turnVars, wireVars, callVars
  <2>2. TurnOwned' /\ NothingYet' /\ AnswerLast' /\ CancellationScheduled'
    BY <2>1 DEF TurnOwned, NothingYet, AnswerLast, CancellationScheduled, Live
  <2>3. CallsSettled' /\ Asked' /\ CleanupClosed' /\ CancelJoinsEffects' /\ CleanupLeavesNothing'
    BY <2>1 DEF CallsSettled, Asked, About, Live, CleanupClosed, CancelJoinsEffects, Running,
       CleanupLeavesNothing
  <2> QED
    BY <2>2, <2>3
<1> QED
  BY <1>1, <1>2, <1>3

--------------------------------------------------------------------------------
(* The theorems                                                            *)

LEMMA RestStep ==
    ASSUME StateTypes, Rest, [Next]_vars
    PROVE  Rest'
<1>1. ASSUME NEW t \in Turns, RunTurn(t) \/ TurnStep(t)
      PROVE  Rest'
  BY <1>1, RunTurnStep, TurnWaits, TimesOutStep, AbsorbsStep, FailsStep, RaisesStep DEF TurnStep
<1>2. CASE Message
  BY <1>2, ProgressStep, ResponseStep, InvokeStep, LossStep DEF Message
<1>3. ASSUME NEW k \in Calls, CallStep(k)
      PROVE  Rest'
  BY <1>3, CallStartsStep, CallGoesStep DEF CallStep
<1>4. ASSUME NEW s \in Signallers, SignalStep(s)
      PROVE  Rest'
  BY <1>4, SignalGoesStep DEF SignalStep
<1>5. ASSUME NEW c \in Callers, CancelSession(c) \/ CancelStep(c)
      PROVE  Rest'
  BY <1>5, CancelSessionStep, CancelReturnsStep, StopsStep DEF CancelStep
<1>6. CASE CallbackAborts \/ SignalStarts \/ OwnerInterrupts \/ OwnerStops \/ StopTransport \/ CleanupEnds
  BY <1>6, LossStep, SignalStartsStep, StopsStep, OwnerStep
<1>7. CASE UNCHANGED vars
  <2> USE <1>7 DEF vars, transportVars, turnVars, wireVars, callVars, Rest
  <2>1. TurnOwned' /\ NothingYet' /\ AnswerLast' /\ CancellationScheduled'
    BY DEF TurnOwned, NothingYet, AnswerLast, CancellationScheduled, Live
  <2>2. CallsSettled' /\ Asked' /\ CleanupClosed' /\ CancelJoinsEffects' /\ CleanupLeavesNothing'
    BY DEF CallsSettled, Asked, About, Live, CleanupClosed, CancelJoinsEffects, Running,
       CleanupLeavesNothing
  <2> QED
    BY <2>1, <2>2
<1> QED
  BY <1>1, <1>2, <1>3, <1>4, <1>5, <1>6, <1>7 DEF Next

LEMMA Inductive == Spec => []TurnIInv
<1>1. Init => TurnIInv
  <2> SUFFICES ASSUME Init PROVE TurnIInv
    OBVIOUS
  <2> USE Separate DEF Init
  <2>1. StateTypes
    BY DEF StateTypes
  <2>2. TurnOwned /\ NothingYet /\ AnswerLast /\ CancellationScheduled
    BY DEF TurnOwned, NothingYet, AnswerLast, CancellationScheduled, Live, Working
  <2>3. CallsSettled /\ Asked /\ CleanupClosed /\ CancelJoinsEffects /\ CleanupLeavesNothing
    BY DEF CallsSettled, Asked, About, CleanupClosed, CancelJoinsEffects, CleanupLeavesNothing
  <2> QED
    BY <2>1, <2>2, <2>3 DEF TurnIInv, Rest
<1>2. TurnIInv /\ [Next]_vars => TurnIInv'
  BY TypesStep, RestStep DEF TurnIInv, Rest
<1> QED
  BY <1>1, <1>2, PTL DEF Spec

LEMMA FlagsHold == Spec => []Flags
<1>1. Init => Flags
  BY Zenon DEF Init, Flags
<1>2. Flags /\ [Next]_vars => Flags'
  BY FlagsStep
<1> QED
  BY <1>1, <1>2, PTL DEF Spec

(* Once any _signal_cancel of a turn has returned no effect of the turn    *)
(* runs, and none will; and a cleanup that settled has left no effect and  *)
(* no callback (_signal_cancel, _execute_owned, stop).                     *)
THEOREM CancellationsJoin == Spec => []TurnInv
<1>1. TurnIInv /\ Flags => TurnInv
  BY DEF TurnIInv, StateTypes, Rest, Flags, TurnInv, TypeOK
<1> QED
  BY <1>1, Inductive, FlagsHold, PTL

(* A turn that returned a terminal is over: the server has ended and       *)
(* answered it, its cancellation has ended, and its tool calls are         *)
(* answered (run_turn, settle_callbacks, _check_mcp).                      *)
THEOREM ReturnedOver == Spec => []ReturnedTurnIsOver
<1>1. TurnIInv => ReturnedTurnIsOver
  <2> SUFFICES ASSUME TurnIInv, context \in Turns, phase[context] \in Settled
               PROVE  /\ ended /\ reply # "none"
                      /\ signal[Scheduled] \in {"idle", "done"}
                      /\ \A k \in Calls : calls[k] \in {"none", "replied"}
    BY DEF ReturnedTurnIsOver
  <2> QED
    BY DEF TurnIInv, Rest, AnswerLast, CancellationScheduled, CallsSettled
<1> QED
  BY <1>1, Inductive, PTL

(* No turn starts while anything of the one before is pending: it would    *)
(* inherit its cancellation or its calls (run_turn).                       *)
THEOREM TurnsStayApart == Spec => TurnsDoNotMix
<1> DEFINE Apart == /\ queue = << >>
                    /\ \A k \in Calls : calls[k] \notin Unsettled
                    /\ signal[Scheduled] \in {"idle", "done"}
                    /\ \A s \in Signallers : signal[s] \notin {"notifying", "joining"}
<1>1. ASSUME TurnIInv, NEW t \in Turns, RunTurn(t), context' # context
      PROVE  Apart
  <2> USE <1>1 DEF TurnIInv, StateTypes, Rest
  <2>1. open /\ Live = {}
    BY DEF RunTurn
  <2>2. CASE context = NoTurn
    BY <2>2, Separate DEF NothingYet, Unsettled
  <2>3. CASE context \in Turns
    <3>1. phase[context] \in Settled
      BY <2>1, <2>3 DEF TurnOwned, Asked, Live, Gone, Working, Raised, Settled
    <3>2. \A i \in 1 .. Len(queue) : queue[i] \in Calls /\ calls[queue[i]] = "queued"
      BY DEF CallsSettled
    <3>3. \A k \in Calls : calls[k] \in {"none", "replied"}
      BY <2>3, <3>1 DEF CallsSettled
    <3>4. queue = << >>
      <4>1. \A i \in 1 .. Len(queue) : FALSE
        BY <3>2, <3>3
      <4> QED
        BY <4>1
    <3>5. \A s \in Signallers : signal[s] \notin {"notifying", "joining"}
      BY <2>3, <3>1 DEF CallsSettled
    <3>6. signal[Scheduled] \in {"idle", "done"}
      BY <2>3, <3>1 DEF CancellationScheduled
    <3> QED
      BY <3>3, <3>4, <3>5, <3>6 DEF Unsettled
  <2> QED
    BY <2>2, <2>3
<1>2. [Next]_vars => UNCHANGED context \/ \E t \in Turns : RunTurn(t)
  <2> SUFFICES ASSUME [Next]_vars PROVE UNCHANGED context \/ \E t \in Turns : RunTurn(t)
    OBVIOUS
  <2> USE DEF turnVars
  <2>1. ASSUME NEW t \in Turns, TurnStep(t)
        PROVE  UNCHANGED context
    BY <2>1 DEF TurnStep, TurnTimesOut, TurnSignalled, TurnAnswered, TurnJoined, TurnSettles,
       TurnChecked,
       TurnReturns, TurnAbsorbs, TurnFails, TurnRaises, Goes
  <2>2. CASE Message
    BY <2>2 DEF Message, ProgressBegin, Invoke, ProgressReport, ProgressEnd, Response, ReaderFails,
       Unmoved
  <2>3. ASSUME NEW k \in Calls, CallStep(k)
        PROVE  UNCHANGED context
    BY <2>3 DEF CallStep, CallStarts, CallEnds, CallLoses, CallReplies, CallMoves
  <2>4. ASSUME NEW s \in Signallers, SignalStep(s)
        PROVE  UNCHANGED context
    BY <2>4 DEF SignalStep, SignalSent, SignalJoined, SignalMoves
  <2>5. ASSUME NEW c \in Callers, CancelSession(c) \/ CancelStep(c)
        PROVE  UNCHANGED context
    BY <2>5 DEF CancelSession, CancelStep, CancelReturns, CancelGivesUp, SignalMoves
  <2>6. CASE CallbackAborts \/ SignalStarts \/ OwnerInterrupts \/ OwnerStops \/ StopTransport \/ CleanupEnds
    BY <2>6 DEF CallbackAborts, SignalStarts, SignalMoves, OwnerInterrupts, OwnerStops,
       StopTransport, CleanupEnds
  <2>7. CASE UNCHANGED vars
    BY <2>7 DEF vars
  <2> QED
    BY <2>1, <2>2, <2>3, <2>4, <2>5, <2>6, <2>7 DEF Next
<1>3. TurnIInv /\ [Next]_vars => [context' # context => Apart]_vars
  BY <1>1, <1>2
<1>4. [][context' # context => Apart]_vars => TurnsDoNotMix
  BY DEF TurnsDoNotMix
<1> HIDE DEF Apart
<1> QED
  BY <1>3, <1>4, Inductive, PTL DEF Spec

--------------------------------------------------------------------------------
(* The refinement                                                          *)

(* What NativeContract sees of the client.                                 *)
Alive == open /\ cleanup = "idle"

Collector == [t \in Turns |-> CollectorOf(phase[t])]

Effect == IF OwnsEffect THEN {context} ELSE {}

ContractSees == <<Alive, Collector, interrupted, requested, Effect, CleanupOf(cleanup)>>

(* A turn has its own request answered or times out before it signals.     *)
Prompted == \A t \in Turns : phase[t] = "prompting" => signal[t] = "idle"

LEMMA PromptedStep == ASSUME StateTypes, TurnOwned, Prompted, [Next]_vars PROVE Prompted'
<1> USE Separate DEF StateTypes, Prompted, transportVars, turnVars, wireVars, callVars
<1>1. ASSUME NEW t \in Turns, RunTurn(t)
      PROVE  Prompted'
  BY <1>1 DEF RunTurn, TurnOwned
<1>2. ASSUME NEW t \in Turns, TurnStep(t)
      PROVE  Prompted'
  <2>1. CASE TurnTimesOut(t)
    BY <2>1 DEF TurnTimesOut, Goes
  <2>2. CASE TurnSignalled(t) \/ TurnAnswered(t) \/ TurnJoined(t) \/ TurnSettles(t) \/ TurnChecked(t)
    BY <2>2 DEF TurnSignalled, TurnAnswered, TurnJoined, TurnSettles, TurnChecked, Goes
  <2>3. CASE TurnReturns(t)
    BY <2>3 DEF TurnReturns, Goes, Outcome
  <2>4. CASE TurnAbsorbs(t) \/ TurnFails(t) \/ TurnRaises(t)
    BY <2>4 DEF TurnAbsorbs, TurnFails, TurnRaises
  <2> QED
    BY <1>2, <2>1, <2>2, <2>3, <2>4 DEF TurnStep
<1>3. ASSUME UNCHANGED phase, \A t \in Turns : signal'[t] = signal[t] \/ signal[t] # "idle"
      PROVE  Prompted'
  BY <1>3
<1>4. CASE Message
  BY <1>3, <1>4 DEF Message, ProgressBegin, Invoke, ProgressReport, ProgressEnd, Response,
     ReaderFails,
     Unmoved, Retain, Schedule
<1>5. ASSUME NEW k \in Calls, CallStep(k)
      PROVE  Prompted'
  BY <1>3, <1>5 DEF CallStep, CallStarts, CallEnds, CallLoses, CallReplies, CallMoves, Retain,
     Schedule
<1>6. ASSUME NEW s \in Signallers, SignalStep(s)
      PROVE  Prompted'
  BY <1>3, <1>6 DEF SignalStep, SignalSent, SignalJoined, SignalMoves
<1>7. ASSUME NEW c \in Callers, CancelSession(c) \/ CancelStep(c)
      PROVE  Prompted'
  BY <1>3, <1>7 DEF CancelSession, CancelStep, CancelReturns, CancelGivesUp, SignalMoves
<1>8. CASE CallbackAborts \/ SignalStarts \/ OwnerInterrupts \/ OwnerStops \/ StopTransport \/ CleanupEnds
  BY <1>3, <1>8 DEF CallbackAborts, SignalStarts, SignalMoves, OwnerInterrupts, OwnerStops,
     StopTransport, CleanupEnds
<1>9. CASE UNCHANGED vars
  BY <1>3, <1>9 DEF vars
<1> HIDE DEF Prompted
<1> QED
  BY <1>1, <1>2, <1>4, <1>5, <1>6, <1>7, <1>8, <1>9 DEF Next

LEMMA PromptedHolds == Spec => []Prompted
<1>1. Init => Prompted
  BY Separate DEF Init, Prompted
<1>2. TurnIInv /\ Prompted /\ [Next]_vars => Prompted'
  BY PromptedStep DEF TurnIInv, Rest
<1> QED
  BY <1>1, <1>2, Inductive, PTL DEF Spec

(* The contract's live turn is the client's.                               *)
LEMMA SeesLive == ASSUME StateTypes PROVE Contract!LiveTurns = Live
<1>1. ASSUME NEW t \in Turns
      PROVE  CollectorOf(phase[t]) \in {"running", "stopping"} <=> phase[t] \in Working \cup {"stopping"}
  BY DEF StateTypes, CollectorOf, Working, Settled, Raised
<1> QED
  BY <1>1 DEF Contract!LiveTurns, Contract!LiveTurn, Live

(* A turn that moves is moved in the contract, or not seen to move.        *)
LEMMA CollectorMoves ==
    ASSUME StateTypes, NEW t \in Turns, NEW to, phase' = [phase EXCEPT ![t] = to]
    PROVE  /\ Collector' = [Collector EXCEPT ![t] = CollectorOf(to)]
           /\ phase[t] \in Working /\ to \in Working => UNCHANGED Collector
<1>1. Collector' = [Collector EXCEPT ![t] = CollectorOf(to)]
  BY DEF Collector, StateTypes
<1>2. ASSUME phase[t] \in Working, to \in Working
      PROVE  UNCHANGED Collector
  <2>1. CollectorOf(phase[t]) = "running" /\ CollectorOf(to) = "running"
    BY <1>2 DEF CollectorOf, Working
  <2>2. [Collector EXCEPT ![t] = "running"] = Collector
    BY <2>1 DEF Collector
  <2> QED
    BY <1>1, <2>1, <2>2
<1> QED
  BY <1>1, <1>2

(* The owned effect of a turn is the same while the same calls run, and a  *)
(* signaller joins only an effect that runs.                               *)
LEMMA EffectKept ==
    ASSUME UNCHANGED context, Running' = Running,
           \A s \in {context, Scheduled} \cap Signallers :
               signal'[s] = signal[s] \/ (signal[s] # "joining" /\ (signal'[s] = "joining" => Running # {}))
    PROVE  UNCHANGED Effect
<1>1. OwnsEffect' <=> OwnsEffect
  BY DEF OwnsEffect, Signallers
<1> QED
  BY <1>1 DEF Effect

LEMMA JoinsWhatRuns == (SignalPlace = "joining" => Running # {}) /\ (JoinEffect = "joining" => Running # {})
BY DEF SignalPlace, JoinEffect

(* The turn run last owns its effect or none is owned.                     *)
LEMMA EffectIs ==
    ASSUME StateTypes, Rest
    PROVE  /\ Running # {} => Effect = {context} /\ context \in Turns
           /\ \A s \in {context, Scheduled} \cap Signallers : signal[s] = "joining" =>
                  Effect = {context} /\ context \in Turns /\ context \in requested
           /\ Running = {} /\ (\A s \in Signallers : signal[s] # "joining") => Effect = {}
           /\ context \notin requested /\ Running = {} => Effect = {}
<1> USE Separate DEF Rest, StateTypes
<1>1. Running # {} => context \in Turns
  BY DEF NothingYet, Running
<1>2. ASSUME NEW s \in {context, Scheduled} \cap Signallers, signal[s] = "joining"
      PROVE  context \in Turns /\ context \in requested
  <2>1. context \in Turns
    BY <1>2 DEF NothingYet
  <2>2. About(s)
    BY <1>2, <2>1 DEF About
  <2> QED
    BY <1>2, <2>1, <2>2 DEF Asked
<1> QED
  BY <1>1, <1>2 DEF Effect, OwnsEffect

(* The steps of run_turn are those of the contract's turn.                 *)
LEMMA RunsInContract ==
    ASSUME StateTypes, Rest, NEW t \in Turns, RunTurn(t)
    PROVE  Collector[t] = "none" /\ Contract!RunTurn(t)
<1> USE Separate DEF transportVars, wireVars, callVars
<1>1. /\ phase[t] = "unused" /\ Collector[t] = "none"
      /\ UNCHANGED <<open, cleanup, interrupted, requested>>
  BY DEF RunTurn, Collector, CollectorOf, Working
<1>2. CASE Alive /\ Live = {}
  <2>1. /\ context' = t /\ phase' = [phase EXCEPT ![t] = "prompting"]
        /\ calls' = [k \in Calls |-> "none"] /\ signal' = [signal EXCEPT ![Scheduled] = "idle"]
    BY <1>2 DEF RunTurn, Alive
  <2>2. Running = {} /\ Running' = {} /\ signal[t] = "idle"
        /\ \A s \in Signallers : signal[s] # "joining"
    <3>1. CASE context = NoTurn
      BY <1>1, <2>1, <3>1 DEF Rest, NothingYet, Running, Signallers
    <3>2. CASE context \in Turns
      <4>1. phase[context] \in Settled
        BY <1>2, <3>2 DEF Rest, StateTypes, TurnOwned, Asked, Live, Gone, Working, Raised, Settled,
           Alive
      <4> QED
        BY <1>1, <2>1, <3>2, <4>1 DEF Rest, CallsSettled, TurnOwned, Running
    <3> QED
      BY <3>1, <3>2 DEF StateTypes
  <2>3. Effect = {} /\ Effect' = {}
    <3>1. ~OwnsEffect
      BY <2>2 DEF OwnsEffect
    <3>2. \A s \in {context', Scheduled} \cap Signallers : signal'[s] # "joining"
      BY <2>1, <2>2 DEF StateTypes
    <3>3. ~OwnsEffect'
      BY <2>2, <3>2 DEF OwnsEffect, Signallers
    <3> QED
      BY <3>1, <3>3 DEF Effect
  <2>4. Collector' = [Collector EXCEPT ![t] = "running"]
    BY <2>1, CollectorMoves DEF CollectorOf, Working
  <2> QED
    BY <1>1, <1>2, <2>3, <2>4, SeesLive DEF Contract!RunTurn, Alive, Collector, Effect
<1>3. CASE ~(Alive /\ Live = {})
  <2>1. phase' = [phase EXCEPT ![t] = "error"] /\ UNCHANGED <<context, calls, signal>>
    BY <1>3 DEF RunTurn, Alive
  <2>2. Collector' = [Collector EXCEPT ![t] = "error"]
    BY <2>1, CollectorMoves DEF CollectorOf, Working
  <2>3. UNCHANGED Effect
    BY <2>1, EffectKept DEF Running
  <2> QED
    BY <1>1, <1>3, <2>2, <2>3, SeesLive DEF Contract!RunTurn, Alive, Collector, Effect
<1> QED
  BY <1>1, <1>2, <1>3

LEMMA WaitsInContract ==
    ASSUME StateTypes, Rest, NEW t \in Turns,
           TurnSignalled(t) \/ TurnAnswered(t) \/ TurnJoined(t) \/ TurnSettles(t) \/ TurnChecked(t)
    PROVE  UNCHANGED ContractSees
<1> USE DEF Goes, transportVars, turnVars, wireVars, callVars
<1>1. PICK to \in Working : /\ phase[t] \in Working /\ phase' = [phase EXCEPT ![t] = to]
                            /\ UNCHANGED <<open, cleanup, context, interrupted, requested, calls,
                                           signal>>
  BY DEF TurnSignalled, TurnAnswered, TurnJoined, TurnSettles, TurnChecked, Working
<1>2. UNCHANGED Collector
  BY <1>1, CollectorMoves
<1>3. UNCHANGED Effect
  BY <1>1, EffectKept DEF Running
<1> QED
  BY <1>1, <1>2, <1>3 DEF ContractSees, Alive

LEMMA CancelInContract ==
    ASSUME StateTypes, NEW t \in Live, requested' = requested \cup {t},
           UNCHANGED <<open, cleanup, interrupted, Collector, Effect>>
    PROVE  Contract!CancelTurn(t)
<1>1. Collector[t] \in {"running", "stopping"}
  BY SeesLive DEF Live, Collector, CollectorOf
<1> QED
  BY <1>1 DEF Contract!CancelTurn, Contract!LiveTurn, Alive, Collector, Effect

LEMMA TimesOutInContract ==
    ASSUME StateTypes, Rest, Prompted, NEW t \in Turns, TurnTimesOut(t)
    PROVE  Contract!CancelTurn(t)
<1> USE Separate DEF transportVars, turnVars, wireVars, callVars
<1>1. /\ phase[t] = "prompting" /\ phase' = [phase EXCEPT ![t] = "signalling"]
      /\ signal' = [signal EXCEPT ![t] = SignalPlace] /\ requested' = requested \cup {t}
      /\ UNCHANGED <<open, cleanup, context, interrupted, calls>>
  BY DEF TurnTimesOut, Goes
<1>2. UNCHANGED Collector
  BY <1>1, CollectorMoves DEF Working
<1>3. UNCHANGED Effect
  BY <1>1, EffectKept, JoinsWhatRuns DEF Prompted, Running, StateTypes
<1>4. t \in Live
  BY <1>1 DEF Live, Working
<1> QED
  BY <1>1, <1>2, <1>3, <1>4, CancelInContract

(* A turn returns with its effect settled, and as cancelled when it was    *)
(* asked to be.                                                            *)
LEMMA ReturnsInContract ==
    ASSUME StateTypes, Rest, NEW t \in Turns, TurnReturns(t)
    PROVE  Contract!SettleTurn(t, Outcome) /\ Outcome \in Contract!TurnOutcomes
<1> USE Separate DEF transportVars, turnVars, wireVars, callVars
<1>1. /\ t \notin interrupted /\ phase[t] = "checked" /\ phase' = [phase EXCEPT ![t] = Outcome]
      /\ ~Unacknowledged(t)
      /\ UNCHANGED <<open, cleanup, context, interrupted, requested, calls, signal>>
  BY DEF TurnReturns, Goes
<1>2. t = context
  BY <1>1 DEF Rest, TurnOwned, Live, Working
<1>3. Effect = {}
  <2>1. Running = {}
    BY <1>1, <1>2 DEF Rest, CallsSettled, Running
  <2>2. \A s \in Signallers : signal[s] # "joining"
    BY <1>1, <1>2 DEF Rest, CallsSettled
  <2> QED
    BY <2>1, <2>2, EffectIs
<1>4. UNCHANGED Effect
  BY <1>1, EffectKept DEF Running
<1>5. Outcome \in Settled /\ (t \in requested => Outcome \in {"cancelled", "overflow"})
  BY <1>1 DEF Outcome, Unacknowledged, Settled
<1>6. Collector[t] = "running" /\ Collector' = [Collector EXCEPT ![t] = Outcome]
  <2>1. CollectorOf(Outcome) = Outcome
    BY <1>5 DEF CollectorOf, Settled, Working
  <2> QED
    BY <1>1, <2>1, CollectorMoves DEF Collector, CollectorOf, Working
<1>7. Contract!SettleTurn(t, Outcome)
  BY <1>1, <1>3, <1>4, <1>5, <1>6 DEF Contract!SettleTurn, Alive, Collector, Effect
<1> QED
  BY <1>5, <1>7 DEF Contract!TurnOutcomes, Settled

LEMMA AbsorbsInContract ==
    ASSUME StateTypes, Rest, NEW t \in Turns, TurnAbsorbs(t)
    PROVE  Contract!AbsorbTurn(t)
<1> USE Separate DEF transportVars, wireVars, callVars
<1>1. /\ t \in interrupted /\ interrupted' = interrupted \ {t} /\ Absorbing(t)
      /\ UNCHANGED <<open, cleanup, context, phase, requested, calls, signal>>
  BY DEF TurnAbsorbs
<1>2. t = context /\ phase[t] \in Working
  BY <1>1 DEF Rest, TurnOwned, Absorbing, Working
<1>3. Effect = {t} /\ t \in requested
  BY <1>1, <1>2, EffectIs DEF Absorbing
<1>4. UNCHANGED Effect
  BY <1>1, EffectKept DEF Running
<1>5. Collector[t] = "running" /\ UNCHANGED Collector
  BY <1>1, <1>2 DEF Collector, CollectorOf
<1> QED
  BY <1>1, <1>3, <1>4, <1>5 DEF Contract!AbsorbTurn, Alive, Collector, Effect

(* StartCleanup is what the contract says of stop().                       *)
LEMMA StopsInContract ==
    ASSUME StateTypes, StartCleanup
    PROVE  CleanupOf(cleanup)' = Contract!CleanupStarted /\ requested' = Contract!StopRequested /\ ~Alive'
<1>1. CleanupOf(cleanup) = "idle" <=> cleanup = "idle"
  BY DEF StateTypes, CleanupOf
<1> QED
  BY <1>1, SeesLive DEF StateTypes, StartCleanup, Contract!CleanupStarted, Contract!StopRequested,
     CleanupOf, Alive

LEMMA FailsInContract ==
    ASSUME StateTypes, Rest, NEW t \in Turns, TurnFails(t)
    PROVE  Contract!StopTurn(t)
<1>1. /\ phase[t] \in Working /\ phase' = [phase EXCEPT ![t] = "stopping"]
      /\ interrupted' = interrupted \ {t} /\ StartCleanup
      /\ UNCHANGED <<context, calls, signal>>
  BY DEF TurnFails, callVars
<1>2. Collector[t] = "running" /\ Collector' = [Collector EXCEPT ![t] = "stopping"]
  BY <1>1, CollectorMoves DEF Collector, CollectorOf, Working
<1>3. UNCHANGED Effect
  BY <1>1, EffectKept DEF Running
<1> QED
  BY <1>1, <1>2, <1>3, StopsInContract DEF Contract!StopTurn, Alive, Collector, Effect

LEMMA RaisesInContract ==
    ASSUME StateTypes, Rest, NEW t \in Turns, TurnRaises(t)
    PROVE  Contract!RaiseTurn(t)
<1> USE DEF transportVars, wireVars, callVars
<1> DEFINE End == IF cleanup = "failed" THEN "error" ELSE IF t \in interrupted THEN "aborted" ELSE "unsettled"
<1>1. /\ phase[t] = "stopping" /\ phase' = [phase EXCEPT ![t] = End] /\ cleanup \in {"settled", "failed"}
      /\ interrupted' = interrupted \ {t}
      /\ UNCHANGED <<open, cleanup, context, requested, calls, signal>>
  BY DEF TurnRaises, StopEnded
<1>2. Collector[t] = "stopping"
  BY <1>1 DEF Collector, CollectorOf, Working
<1>3. Collector' = [Collector EXCEPT ![t] = End]
  <2>1. CollectorOf(End) = End
    BY DEF CollectorOf, Working
  <2> HIDE DEF End
  <2> QED
    BY <1>1, <2>1, CollectorMoves
<1>4. UNCHANGED Effect
  BY <1>1, EffectKept DEF Running
<1>5. CleanupOf(cleanup) = cleanup
  BY <1>1 DEF CleanupOf
<1> QED
  BY <1>1, <1>2, <1>3, <1>4, <1>5 DEF Contract!RaiseTurn, Alive, Collector, Effect

(* Messages, and calls that do not touch the effect, are not seen.         *)
LEMMA Unseen ==
    ASSUME UNCHANGED <<open, cleanup, context, phase, interrupted, requested>>, Running' = Running,
           \A s \in Signallers : signal'[s] = signal[s] \/ (signal[s] # "joining" /\ signal'[s] # "joining")
    PROVE  UNCHANGED ContractSees
<1>1. UNCHANGED Effect
  BY EffectKept
<1> QED
  BY <1>1 DEF ContractSees, Alive, Collector

LEMMA ScheduleUnseen ==
    ASSUME StateTypes, NEW wanted, Schedule(wanted)
    PROVE  \A s \in Signallers : signal'[s] = signal[s] \/ (signal[s] # "joining" /\ signal'[s] # "joining")
BY Separate DEF StateTypes, Schedule

LEMMA MessageInContract ==
    ASSUME StateTypes, Rest, Message
    PROVE  Contract!LoseChild \/ UNCHANGED ContractSees
<1> USE DEF Unmoved, Retain, transportVars, turnVars, wireVars, callVars
<1>1. ASSUME NEW cut, ProgressBegin(cut)
      PROVE  UNCHANGED ContractSees
  BY <1>1, Unseen, ScheduleUnseen DEF ProgressBegin, Running
<1>2. ASSUME NEW k \in Calls, NEW cut, Invoke(k, cut)
      PROVE  UNCHANGED ContractSees
  <2>1. Running' = Running
    BY <1>2 DEF Invoke, Running, StateTypes
  <2> QED
    BY <1>2, <2>1, Unseen, ScheduleUnseen DEF Invoke
<1>3. CASE ProgressReport
  BY <1>3, Unseen, ScheduleUnseen DEF ProgressReport, Running
<1>4. ASSUME NEW cut, NEW cancels, NEW fails, ProgressEnd(cut, cancels, fails)
      PROVE  UNCHANGED ContractSees
  BY <1>4, Unseen, ScheduleUnseen DEF ProgressEnd, Running
<1>5. ASSUME NEW kind, Response(kind)
      PROVE  UNCHANGED ContractSees
  BY <1>5, Unseen DEF Response, Running
<1>6. ASSUME ReaderFails
      PROVE  Contract!LoseChild \/ UNCHANGED ContractSees
  <2>1. ~open' /\ UNCHANGED <<cleanup, context, phase, interrupted, requested, calls, signal>>
    BY <1>6 DEF ReaderFails, Abort
  <2>2. UNCHANGED <<Collector, Effect>> /\ ~Alive'
    BY <2>1, EffectKept DEF Running, Collector, Alive
  <2> QED
    BY <2>1, <2>2 DEF Contract!LoseChild, ContractSees, Alive, Collector, Effect
<1> QED
  BY <1>1, <1>2, <1>3, <1>4, <1>5, <1>6 DEF Message

(* A call is admitted to an effect only for a turn that still runs, with   *)
(* the transport open and nobody's cancellation or cleanup on it.          *)
LEMMA StartsInContract ==
    ASSUME StateTypes, Rest, NEW k \in Calls, NEW cut, CallStarts(k, cut)
    PROVE  (context \in Turns /\ Contract!BeginEffect(context)) \/ UNCHANGED ContractSees
<1> USE Separate DEF CallMoves, transportVars, turnVars, wireVars
<1>1. /\ queue # << >> /\ Head(queue) = k /\ Running = {}
      /\ UNCHANGED <<open, cleanup, context, phase, interrupted, requested>>
  BY DEF CallStarts
<1>2. CASE calls' = [calls EXCEPT ![k] = "running"] /\ ~Refused /\ UNCHANGED signal
  <2>1. open /\ context \notin requested
    BY <1>2 DEF Refused
  <2>2. context \in Turns /\ phase[context] \in Working
    <3>1. context \in Turns
      BY <1>1 DEF Rest, StateTypes, NothingYet
    <3>2. calls[k] = "queued"
      BY <1>1 DEF Rest, StateTypes, CallsSettled
    <3>3. phase[context] \notin Settled
      BY <3>1, <3>2 DEF Rest, CallsSettled
    <3>4. phase[context] \notin {"unused"} \cup Gone
      BY <2>1, <3>1 DEF Rest, TurnOwned, Asked
    <3> QED
      BY <3>1, <3>3, <3>4 DEF StateTypes, Gone
  <2>3. cleanup = "idle"
    BY <2>1, <2>2 DEF Rest, Asked, Live
  <2>4. Effect = {}
    BY <1>1, <2>1, EffectIs
  <2>5. Effect' = {context}
    <3>1. k \in Running'
      BY <1>2 DEF Running, StateTypes
    <3> QED
      BY <1>1, <3>1 DEF Effect, OwnsEffect
  <2>6. Collector[context] = "running" /\ UNCHANGED Collector
    BY <1>1, <2>2 DEF Collector, CollectorOf
  <2> QED
    BY <1>1, <2>1, <2>2, <2>3, <2>4, <2>5, <2>6 DEF Contract!BeginEffect, Alive, Collector, Effect
<1>3. CASE \E to \in {"replying", "raised"} : calls' = [calls EXCEPT ![k] = to]
  <2>1. Running' = Running
    BY <1>1, <1>3 DEF Running, StateTypes
  <2>2. \A s \in Signallers : signal'[s] = signal[s] \/ (signal[s] # "joining" /\ signal'[s] # "joining")
    BY ScheduleUnseen DEF CallStarts, Retain
  <2> QED
    BY <1>1, <2>1, <2>2, Unseen
<1> QED
  BY <1>2, <1>3 DEF CallStarts

(* What ends the owned effect is its call, or the last one to join it.     *)
LEMMA EffectEnds ==
    ASSUME UNCHANGED <<open, cleanup, context, phase, interrupted, requested>>,
           context \in Turns, Effect = {context}
    PROVE  Contract!EndEffect(context) \/ UNCHANGED ContractSees
<1>1. Effect' \in {{}, {context}}
  BY DEF Effect
<1>2. CASE Effect' = {}
  BY <1>2 DEF Contract!EndEffect, Alive, Collector, Effect
<1>3. CASE Effect' = {context}
  BY <1>3 DEF ContractSees, Alive, Collector
<1> QED
  BY <1>1, <1>2, <1>3

LEMMA CallsInContract ==
    ASSUME StateTypes, Rest, NEW k \in Calls, NEW cut,
           CallEnds(k, cut) \/ CallLoses(k) \/ CallReplies(k)
    PROVE  (context \in Turns /\ Contract!EndEffect(context)) \/ UNCHANGED ContractSees
<1> USE DEF CallMoves, transportVars, turnVars, wireVars
<1>1. UNCHANGED <<open, cleanup, context, phase, interrupted, requested>>
  BY DEF CallEnds, CallLoses, CallReplies
<1>2. CASE calls[k] = "running"
  <2>1. context \in Turns /\ Effect = {context}
    BY <1>2, EffectIs DEF Running
  <2> QED
    BY <1>1, <2>1, EffectEnds
<1>3. CASE calls[k] # "running"
  <2>1. CallReplies(k)
    BY <1>3 DEF CallEnds, CallLoses
  <2>2. Running' = Running
    BY <1>3, <2>1 DEF CallReplies, Running, StateTypes
  <2> QED
    BY <1>1, <2>1, <2>2, Unseen DEF CallReplies
<1> QED
  BY <1>2, <1>3

(* A transport that closes is a child that is lost, unless it was already. *)
LEMMA LossInContract ==
    ASSUME ~open', UNCHANGED <<cleanup, Collector, interrupted, requested, Effect>>
    PROVE  Contract!LoseChild \/ UNCHANGED ContractSees
BY DEF Contract!LoseChild, ContractSees, Alive, Collector, Effect

LEMMA SignalsInContract ==
    ASSUME StateTypes, Rest, NEW s \in Signallers, SignalStep(s)
    PROVE  \/ Contract!LoseChild \/ UNCHANGED ContractSees
           \/ context \in Turns /\ Contract!EndEffect(context)
<1> USE Separate DEF SignalMoves, turnVars, wireVars, callVars
<1>1. CASE SignalSent(s)
  <2>1. PICK to \in {JoinEffect, "failed"} :
            /\ signal[s] = "notifying" /\ signal' = [signal EXCEPT ![s] = to]
            /\ open' = open \/ ~open'
            /\ UNCHANGED <<cleanup, context, phase, interrupted, requested, calls>>
    BY <1>1 DEF SignalSent, Abort
  <2>2. UNCHANGED <<Collector, Effect>>
    BY <2>1, EffectKept, JoinsWhatRuns DEF Running, Collector, StateTypes
  <2> QED
    BY <2>1, <2>2, LossInContract DEF ContractSees, Alive
<1>2. CASE SignalJoined(s)
  <2>1. PICK to \in {"failed", "done"} :
            /\ signal[s] = "joining" /\ signal' = [signal EXCEPT ![s] = to]
            /\ UNCHANGED <<open, cleanup, context, phase, interrupted, requested, calls>>
    BY <1>2 DEF SignalJoined
  <2>2. CASE s \in {context, Scheduled}
    BY <2>1, <2>2, EffectIs, EffectEnds
  <2>3. CASE s \notin {context, Scheduled}
    <3>1. UNCHANGED Effect
      BY <2>1, <2>3, EffectKept DEF Running, StateTypes
    <3> QED
      BY <2>1, <3>1 DEF ContractSees, Alive, Collector
  <2> QED
    BY <2>2, <2>3
<1> QED
  BY <1>1, <1>2 DEF SignalStep

(* The scheduled cancellation asks a live turn, or one that was asked.     *)
LEMMA ScheduledInContract ==
    ASSUME StateTypes, Rest, SignalStarts
    PROVE  (\E t \in Turns : Contract!CancelTurn(t)) \/ UNCHANGED ContractSees
<1> USE Separate DEF SignalMoves, turnVars, wireVars, callVars
<1>1. /\ signal[Scheduled] = "ready" /\ signal' = [signal EXCEPT ![Scheduled] = SignalPlace]
      /\ requested' = requested \cup {context}
      /\ UNCHANGED <<open, cleanup, context, phase, interrupted, calls>>
  BY DEF SignalStarts
<1>2. UNCHANGED <<Collector, Effect>>
  BY <1>1, EffectKept, JoinsWhatRuns DEF Running, Collector, StateTypes
<1>3. CASE context \in Live
  BY <1>1, <1>2, <1>3, CancelInContract DEF Live
<1>4. CASE context \notin Live
  <2>1. context \in Turns
    BY <1>1 DEF Rest, StateTypes, NothingYet
  <2>2. phase[context] \notin Settled
    BY <1>1, <2>1 DEF Rest, CancellationScheduled
  <2>3. phase[context] \in Gone
    BY <1>4, <2>1, <2>2 DEF Rest, StateTypes, TurnOwned, Live, Gone
  <2>4. UNCHANGED requested
    BY <1>1, <2>1, <2>3 DEF Rest, Asked
  <2> QED
    BY <1>1, <1>2, <2>4 DEF ContractSees, Alive
<1> QED
  BY <1>3, <1>4

LEMMA CallersInContract ==
    ASSUME StateTypes, Rest, NEW c \in Callers, CancelSession(c) \/ CancelStep(c)
    PROVE  (\E t \in Turns : Contract!CancelTurn(t)) \/ Contract!StopClient \/ UNCHANGED ContractSees
<1> USE Separate DEF SignalMoves, turnVars, wireVars, callVars
<1>1. PICK to : /\ signal' = [signal EXCEPT ![c] = to]
                /\ UNCHANGED <<context, phase, interrupted, calls>>
  BY DEF CancelSession, CancelStep, CancelReturns, CancelGivesUp
<1>2. c # Scheduled /\ c # context
  <2>1. context \in Turns
    BY DEF StateTypes, Rest, NothingYet, CancelSession, CancelStep, CancelReturns, CancelGivesUp,
       Live
  <2> QED
    BY <2>1
<1>3. UNCHANGED <<Collector, Effect>>
  <2>1. \A s \in {context, Scheduled} \cap Signallers : signal'[s] = signal[s]
    BY <1>1, <1>2 DEF StateTypes
  <2> QED
    BY <1>1, <2>1, EffectKept DEF Running, Collector
<1>4. CASE CancelSession(c)
  BY <1>1, <1>3, <1>4, CancelInContract DEF CancelSession, Live
<1>5. CASE CancelReturns(c)
  BY <1>1, <1>3, <1>5 DEF CancelReturns, ContractSees, Alive
<1>6. CASE CancelGivesUp(c)
  BY <1>1, <1>3, <1>6, StopsInContract DEF CancelGivesUp, Contract!StopClient, Alive, Collector,
     Effect
<1> QED
  BY <1>4, <1>5, <1>6 DEF CancelStep

LEMMA OwnersInContract ==
    ASSUME StateTypes, Rest,
           OwnerInterrupts \/ OwnerStops \/ StopTransport \/ CleanupEnds \/ CallbackAborts
    PROVE  \/ Contract!InterruptTurns \/ Contract!StopClient \/ Contract!EndCleanup \/ Contract!LoseChild
           \/ UNCHANGED ContractSees
<1> USE DEF transportVars, turnVars, wireVars, callVars
<1>1. CASE OwnerInterrupts
  <2>1. UNCHANGED <<open, cleanup, context, phase, requested, calls, signal>>
    BY <1>1 DEF OwnerInterrupts
  <2>2. UNCHANGED <<Collector, Effect>>
    BY <2>1, EffectKept DEF Collector, Running
  <2> QED
    BY <1>1, <2>1, <2>2, SeesLive DEF OwnerInterrupts, Contract!InterruptTurns, Alive, Collector,
       Effect
<1>2. CASE OwnerStops
  <2>1. UNCHANGED <<context, phase, interrupted, calls, signal>> /\ StartCleanup
    BY <1>2 DEF OwnerStops
  <2>2. UNCHANGED <<Collector, Effect>>
    BY <2>1, EffectKept DEF Collector, Running
  <2> QED
    BY <2>1, <2>2, StopsInContract DEF Contract!StopClient, Alive, Collector, Effect
<1>3. CASE StopTransport
  <2>1. /\ cleanup = "tools" /\ cleanup' = "transport"
        /\ UNCHANGED <<context, phase, interrupted, requested, signal>>
    BY <1>3 DEF StopTransport
  <2>2. Running' = Running
    BY <1>3 DEF StopTransport, Running
  <2>3. UNCHANGED <<Collector, Effect>>
    BY <2>1, <2>2, EffectKept DEF Collector
  <2> QED
    BY <2>1, <2>3 DEF ContractSees, Alive, CleanupOf
<1>4. CASE CleanupEnds
  <2>1. /\ cleanup = "transport" /\ \A s \in Signallers : signal[s] # "joining"
        /\ cleanup' \in {"settled", "failed"}
        /\ UNCHANGED <<open, context, phase, interrupted, requested, calls, signal>>
    BY <1>4 DEF CleanupEnds
  <2>2. UNCHANGED <<Collector, Effect, Alive>>
    BY <2>1, EffectKept DEF Collector, Running, Alive
  <2>3. Running = {}
    BY <2>1 DEF Rest, CleanupClosed, Running, Unsettled
  <2>4. Effect = {}
    BY <2>1, <2>3, EffectIs
  <2>5. CleanupOf(cleanup) = "running" /\ CleanupOf(cleanup)' \in {"settled", "failed"}
    BY <2>1 DEF CleanupOf
  <2> QED
    BY <2>1, <2>2, <2>4, <2>5 DEF Contract!EndCleanup, Alive, Collector, Effect
<1>5. CASE CallbackAborts
  <2>1. ~open' /\ UNCHANGED <<cleanup, context, phase, interrupted, requested, calls, signal>>
    BY <1>5 DEF CallbackAborts, Abort
  <2>2. UNCHANGED <<Collector, Effect>>
    BY <2>1, EffectKept DEF Collector, Running
  <2> QED
    BY <2>1, <2>2, LossInContract
<1> QED
  BY <1>1, <1>2, <1>3, <1>4, <1>5

LEMMA ContractStep ==
    ASSUME StateTypes, Rest, Prompted, [Next]_vars
    PROVE  Contract!NativeNext \/ UNCHANGED ContractSees
<1>1. ASSUME NEW t \in Turns, RunTurn(t)
      PROVE  Contract!NativeNext
  BY <1>1, RunsInContract DEF Contract!NativeNext, Collector
<1>2. ASSUME NEW t \in Turns, TurnStep(t)
      PROVE  Contract!TurnStep(t) \/ UNCHANGED ContractSees
  BY <1>2, WaitsInContract, TimesOutInContract, ReturnsInContract, AbsorbsInContract,
     FailsInContract, RaisesInContract
     DEF TurnStep, Contract!TurnStep
<1>3. CASE Message
  BY <1>3, MessageInContract DEF Contract!NativeNext
<1>4. ASSUME NEW k \in Calls, CallStep(k)
      PROVE  Contract!NativeNext \/ UNCHANGED ContractSees
  BY <1>4, StartsInContract, CallsInContract DEF CallStep, Contract!NativeNext, Contract!TurnStep
<1>5. ASSUME NEW s \in Signallers, SignalStep(s)
      PROVE  Contract!NativeNext \/ UNCHANGED ContractSees
  BY <1>5, SignalsInContract DEF Contract!NativeNext, Contract!TurnStep
<1>6. ASSUME NEW c \in Callers, CancelSession(c) \/ CancelStep(c)
      PROVE  Contract!NativeNext \/ UNCHANGED ContractSees
  BY <1>6, CallersInContract DEF Contract!NativeNext, Contract!TurnStep
<1>7. CASE SignalStarts
  BY <1>7, ScheduledInContract DEF Contract!NativeNext, Contract!TurnStep
<1>8. CASE CallbackAborts \/ OwnerInterrupts \/ OwnerStops \/ StopTransport \/ CleanupEnds
  BY <1>8, OwnersInContract DEF Contract!NativeNext
<1>9. CASE UNCHANGED vars
  <2>1. UNCHANGED <<open, cleanup, context, phase, interrupted, requested, calls, signal>>
    BY <1>9 DEF vars, transportVars, turnVars, callVars
  <2> QED
    BY <2>1, Unseen DEF Running
<1> QED
  BY <1>1, <1>2, <1>3, <1>4, <1>5, <1>6, <1>7, <1>8, <1>9 DEF Next, Contract!NativeNext

(* The task of run_turn, its callbacks, its cancellations and the cleanup  *)
(* do to a turn only what DirectService assumes of the native client:      *)
(* effects begin only in a turn nobody asked to cancel, a terminal is      *)
(* returned only without one, and a failure joins the cleanup (run_turn,   *)
(* _callback, cancel_session, stop).                                       *)
THEOREM TurnKeepsContract == Spec => TurnRefinement
<1>1. Init => Contract!NativeInit
  <2> SUFFICES ASSUME Init PROVE Contract!NativeInit
    OBVIOUS
  <2>1. Collector = [t \in Turns |-> "none"]
    BY DEF Init, Collector, CollectorOf, Working
  <2>2. Effect = {}
    BY Separate DEF Init, Effect, OwnsEffect, Running
  <2> QED
    BY <2>1, <2>2 DEF Init, Contract!NativeInit, Collector, Effect, CleanupOf
<1>2. StateTypes /\ Rest /\ Prompted /\ [Next]_vars
        => [Contract!NativeNext]_<<open /\ cleanup = "idle",
                                   [t \in Turns |-> CollectorOf(phase[t])], interrupted,
                                   requested, IF OwnsEffect THEN {context} ELSE {},
                                       CleanupOf(cleanup)>>
  BY ContractStep DEF ContractSees, Alive, Collector, Effect
<1> QED
  BY <1>1, <1>2, Inductive, PromptedHolds, PTL
     DEF Spec, TurnIInv, TurnRefinement, Contract!NativeSpec, Contract!clientVars
================================================================================
