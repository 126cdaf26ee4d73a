----------------------- MODULE DirectServiceOutcomeProofs ----------------------
(***************************************************************************)
(* What the outcomes that DirectService publishes say, for every set of    *)
(* operations and sessions and every limit: of the queue, of the sessions, *)
(* of the native turns, and of the ledger a caller sees.                   *)
(***************************************************************************)
EXTENDS DirectServiceProofs, DirectServiceLedger

--------------------------------------------------------------------------------
(* The inductive invariant                                                 *)

Awaiting == {"sending", "stopping", "grace"}

(* An admitted operation has a record, and where its task waits for a      *)
(* cancellation tells the state of the record.                             *)
Records ==
    \A o \in Ops :
        /\ ledger[o] # NoRequest => state[o] # "unknown"
        /\ pc[o] \in Awaiting =>
               \/ IsPrompt(o) /\ state[o] = "cancelling"
               \/ Kind(o) = "cancel" /\ state[o] = "running"

(* A prompt has a native turn from its dispatch on, and one that was       *)
(* settled before the shutdown was done has a turn that settled.           *)
Dispatched ==
    \A o \in Ops : IsPrompt(o) =>
        /\ state[o] \in {"accepted", "queued"} => collector[o] = "none"
        /\ state[o] \in {"running", "cancelling"} => collector[o] # "none"
        /\ Settled(o) /\ ~shutdownDone /\ collector[o] # "none" => collector[o] \in TurnOutcomes

(* A cancellation names a prompt, that was dispatched if it has a task.    *)
Targets ==
    \A o \in Ops : Kind(o) = "cancel" =>
        /\ Turn(o) \in Ops /\ IsPrompt(Turn(o))
        /\ pc[o] \in {"scheduled"} \cup Awaiting => collector[Turn(o)] # "none"

(* What is left of the tasks, turns and effects as a shutdown goes on.     *)
Gone ==
    /\ shutdownDone => \A o \in Ops : pc[o] \notin Suspended
    /\ shutdownDone \/ (\E c \in Tasks : pc[c] = "cleaning") => LiveTurns = {}
    /\ cleanup = "settled" => effect = {}
    /\ cleanup # "idle" => ~alive
    /\ \A o \in Ops : collector[o] \in {"none"} \cup TurnOutcomes => o \notin effect

(* What can only be the outcome of a shutdown, and what it is the outcome  *)
(* of: a prompt that takes over the shutdown is in doubt itself.           *)
Verdicts ==
    /\ \A o \in Ops :
           \/ state[o] = "in_doubt"
           \/ Kind(o) = "cancel" /\ state[o] \in Terminal \ {"completed"}
           => shutdownDone
    /\ \A o \in Ops : owner = o /\ IsPrompt(o) => verdict = "in_doubt"

(* While the generation is available an unsettled prompt keeps its session *)
(* busy, and was admitted while the instructions had not been submitted if *)
(* it carries them; afterwards no session takes work and no task starts.   *)
Reuse ==
    /\ \A o \in Ops : IsPrompt(o) => sessState[Sess(o)] # "absent"
    /\ available => \A o \in Ops : IsPrompt(o) =>
           /\ ~Settled(o) => /\ sessState[Sess(o)] = "busy"
                             /\ ledger[o].phase = "initial" => Sess(o) \notin submitted
           /\ state[o] = "completed" => Sess(o) \in submitted
    /\ ~available => /\ \A s \in Sessions : sessState[s] \notin {"ready", "busy", "retiring"}
                     /\ \A o \in Ops : pc[o] = "scheduled" => o \in cancelled

(* A reservation is released when its prompt settles.                      *)
Reserved == available => released = {o \in Ops : IsPrompt(o) /\ Settled(o)}

OutcomeIInv ==
    /\ Records /\ Dispatched /\ Targets /\ Gone /\ Verdicts /\ Reuse
    /\ Reserved /\ QueueAccounting /\ ReuseIsJustified /\ OutcomesAreTruthful

--------------------------------------------------------------------------------
(* Which steps change what                                                 *)

(* Only an admission records a request,                                    *)
LEMMA LedgerChanges == [Next]_vars => Admission \/ UNCHANGED ledger
<1> SUFFICES ASSUME [Next]_vars
             PROVE  Admission \/ UNCHANGED ledger
  OBVIOUS
<1> USE DEF ledgerVars
<1>1. ASSUME NEW o \in Ops, PromptStep(o)
      PROVE  UNCHANGED ledger
  BY <1>1 DEF PromptStep, DrainCancelled, DispatchPrompt, SettlePrompt, MismatchedTerminal, TurnRaised,
         DeadlineExpires, SettleDeadline, DeadlineUncertain, PromptSendFails, PromptCancelled
<1>2. ASSUME NEW o \in Ops, CancelStep(o) \/ RetireStep(o) \/ SendStep(o)
      PROVE  UNCHANGED ledger
  BY <1>2 DEF CancelStep, RetireStep, SendStep, StartCancel, CancelObserves, CancelUncertain,
         CancelCancelled, StartRetire, RetireSettles, RetireFails, RetireCancelled,
         SendReturns, SendStops, CancellationAbsorbed
<1>3. ASSUME NEW c \in Tasks, ClosingStep(c)
      PROVE  UNCHANGED ledger
  BY <1>3 DEF ClosingStep, CallerCloses, OwnerStops, OwnerPublishes, JoinerLeaves
<1>4. ASSUME NativeMoves \/ UNCHANGED vars
      PROVE  UNCHANGED ledger
  BY <1>4 DEF NativeMoves, vars
<1> QED
  BY <1>1, <1>2, <1>3, <1>4 DEF Next, TaskStep

(* these change the state of one,                                          *)
StateStep ==
    \/ Admission
    \/ \E o \in Ops : \/ DispatchPrompt(o) \/ SettlePrompt(o) \/ DeadlineExpires(o) \/ SettleDeadline(o)
                      \/ StartCancel(o) \/ CancelObserves(o) \/ StartRetire(o) \/ RetireSettles(o)
    \/ \E c \in Tasks : OwnerPublishes(c)

LEMMA StateChanges == [Next]_vars => StateStep \/ UNCHANGED <<ledger, state, shutdownDone>>
<1> SUFFICES ASSUME [Next]_vars, ~StateStep
             PROVE  UNCHANGED <<ledger, state, shutdownDone>>
  OBVIOUS
<1> USE DEF StateStep, ledgerVars, closingVars
<1>1. ASSUME NEW o \in Ops, PromptStep(o)
      PROVE  UNCHANGED <<ledger, state, shutdownDone>>
  BY <1>1 DEF PromptStep, DrainCancelled, MismatchedTerminal, TurnRaised,
         DeadlineUncertain, PromptSendFails, PromptCancelled
<1>2. ASSUME NEW o \in Ops, CancelStep(o) \/ RetireStep(o) \/ SendStep(o)
      PROVE  UNCHANGED <<ledger, state, shutdownDone>>
  BY <1>2 DEF CancelStep, RetireStep, SendStep, CancelUncertain, CancelCancelled, RetireFails, RetireCancelled,
         SendReturns, SendStops, CancellationAbsorbed
<1>3. ASSUME NEW c \in Tasks, ClosingStep(c)
      PROVE  UNCHANGED <<ledger, state, shutdownDone>>
  BY <1>3 DEF ClosingStep, CallerCloses, OwnerStops, JoinerLeaves
<1>4. ASSUME NativeMoves \/ UNCHANGED vars
      PROVE  UNCHANGED <<ledger, state, shutdownDone>>
  BY <1>4 DEF NativeMoves, vars
<1> QED
  BY <1>1, <1>2, <1>3, <1>4 DEF Next, TaskStep

(* and these the native turn of a prompt.                                  *)
TurnEnds(o) ==
    /\ NativeMoves
    /\ StopTurn(o) \/ RaiseTurn(o) \/ \E outcome \in TurnOutcomes : SettleTurn(o, outcome)

LEMMA CollectorChanges ==
    [Next]_vars => (\E o \in Ops : DispatchPrompt(o) \/ TurnEnds(o)) \/ UNCHANGED collector
<1> SUFFICES ASSUME [Next]_vars, \A o \in Ops : ~DispatchPrompt(o) /\ ~TurnEnds(o)
             PROVE  UNCHANGED collector
  OBVIOUS
<1> USE DEF nativeVars
<1>1. ASSUME Admission
      PROVE  UNCHANGED collector
  BY <1>1 DEF Admission, AdmitCreate, AdmitPrompt, AdmitRetire, AdmitCancel
<1>2. ASSUME NEW o \in Ops, PromptStep(o)
      PROVE  UNCHANGED collector
  BY <1>2 DEF PromptStep, DrainCancelled, SettlePrompt, MismatchedTerminal, TurnRaised,
         DeadlineExpires, SettleDeadline, DeadlineUncertain, PromptSendFails, PromptCancelled
<1>3. ASSUME NEW o \in Ops, CancelStep(o) \/ RetireStep(o) \/ SendStep(o)
      PROVE  UNCHANGED collector
  BY <1>3 DEF CancelStep, RetireStep, SendStep, StartCancel, CancelObserves, CancelUncertain,
         CancelCancelled, StartRetire, RetireSettles, RetireFails, RetireCancelled,
         SendReturns, SendStops, StopClient, CancellationAbsorbed
<1>4. ASSUME NEW c \in Tasks, ClosingStep(c)
      PROVE  UNCHANGED collector
  BY <1>4 DEF ClosingStep, CallerCloses, OwnerStops, StopClient, OwnerPublishes, JoinerLeaves
<1>5. ASSUME NEW o \in Ops, NativeMoves, TurnStep(o)
      PROVE  UNCHANGED collector
  BY <1>5 DEF TurnStep, TurnEnds, BeginEffect, EndEffect, CancelTurn, AbsorbTurn
<1>6. ASSUME EndCleanup \/ LoseChild \/ UNCHANGED vars
      PROVE  UNCHANGED collector
  BY <1>6 DEF EndCleanup, LoseChild, vars
<1> QED
  BY <1>1, <1>2, <1>3, <1>4, <1>5, <1>6 DEF Next, TaskStep

(* What a turn that ends was and becomes.                                  *)
LEMMA TurnEnd ==
    ASSUME TypeOK, NEW o \in Ops, TurnEnds(o)
    PROVE  /\ collector[o] \in LiveTurn
           /\ collector'[o] \in {"stopping"} \cup TurnOutcomes \cup TurnErrors
           /\ collector'[o] \in TurnOutcomes => o \notin effect
           /\ \A x \in Ops \ {o} : collector'[x] = collector[x]
           /\ UNCHANGED <<ledger, state, sessState, active, submitted, reservations, released, available,
                          owner, verdict, shutdownDone, cancelled, effect>>
BY DEF TurnEnds, StopTurn, RaiseTurn, SettleTurn, TypeOK, NativeTypeOK, LiveTurn, TurnOutcomes, TurnErrors,
       NativeMoves, ledgerVars, sessionVars, queueVars, closingVars

(* A generation that was revoked is not available again.                   *)
LEMMA RevokedForGood == IInv /\ [Next]_vars /\ ~available => ~available' /\ ~Admission
<1> SUFFICES ASSUME IInv, [Next]_vars, ~available
             PROVE  ~available' /\ ~Admission
  OBVIOUS
<1> USE DEF closingVars
<1>1. ~Admission
  BY DEF Admission, AdmitCreate, AdmitPrompt, AdmitRetire, AdmitCancel, MayAdmit
<1>2. ASSUME NEW o \in Ops, PromptStep(o)
      PROVE  ~available'
  BY <1>2, QuarantineMoves DEF PromptStep, DrainCancelled, DispatchPrompt, SettlePrompt, MismatchedTerminal, TurnRaised,
         DeadlineExpires, SettleDeadline, DeadlineUncertain, PromptSendFails, PromptCancelled
<1>3. ASSUME NEW o \in Ops, CancelStep(o) \/ SendStep(o)
      PROVE  ~available'
  BY <1>3, TakeOverMoves DEF CancelStep, SendStep, StartCancel, CancelObserves, CancelUncertain, Join,
         CancelCancelled, SendReturns, SendStops, CancellationAbsorbed
<1>4. ASSUME NEW o \in Ops, RetireStep(o)
      PROVE  ~available'
  BY <1>4, TakeOverMoves, QuarantineMoves DEF RetireStep, StartRetire, RetireSettles, RetireFails, RetireCancelled
<1>5. ASSUME NEW c \in Tasks, ClosingStep(c)
      PROVE  ~available'
  BY <1>5, QuarantineMoves DEF ClosingStep, CallerCloses, OwnerStops, OwnerPublishes, JoinerLeaves
<1>6. ASSUME NativeMoves \/ UNCHANGED vars
      PROVE  ~available'
  BY <1>6 DEF NativeMoves, vars
<1> QED
  BY <1>1, <1>2, <1>3, <1>4, <1>5, <1>6 DEF Next, TaskStep

(* While the generation stays available, these steps alone change its      *)
(* records, sessions and reservations.                                     *)
ServingStep ==
    \/ Admission
    \/ \E o \in Ops : \/ DrainCancelled(o) \/ DispatchPrompt(o) \/ SettlePrompt(o) \/ DeadlineExpires(o)
                      \/ SettleDeadline(o) \/ StartCancel(o) \/ CancelObserves(o)
                      \/ StartRetire(o) \/ RetireSettles(o)

LEMMA ServingChanges ==
    IInv /\ [Next]_vars /\ available' =>
        ServingStep \/ UNCHANGED <<ledger, state, sessionVars, reservations, released>>
<1> DEFINE Same == UNCHANGED <<ledger, state, sessionVars, reservations, released>>
<1> SUFFICES ASSUME IInv, [Next]_vars, available', ~ServingStep
             PROVE  Same
  OBVIOUS
<1>0. Revoked /\ available
  BY RevokedForGood DEF IInv
<1> USE DEF ServingStep, ledgerVars, sessionVars, queueVars
<1>1. ASSUME NEW o \in Ops, PromptStep(o)
      PROVE  Same
  BY <1>0, <1>1, QuarantineMoves DEF PromptStep, MismatchedTerminal, TurnRaised,
         DeadlineUncertain, PromptSendFails, PromptCancelled, Revoked
<1>2. ASSUME NEW o \in Ops, CancelStep(o) \/ SendStep(o)
      PROVE  Same
  BY <1>0, <1>2, TakeOverMoves DEF CancelStep, SendStep, CancelUncertain, CancelCancelled,
         SendReturns, SendStops, CancellationAbsorbed
<1>3. ASSUME NEW o \in Ops, RetireStep(o)
      PROVE  Same
  BY <1>0, <1>3, TakeOverMoves DEF RetireStep, RetireFails, RetireCancelled, Revoked
<1>4. ASSUME NEW c \in Tasks, ClosingStep(c)
      PROVE  Same
  BY <1>0, <1>4, QuarantineMoves DEF ClosingStep, CallerCloses, OwnerStops, OwnerPublishes, JoinerLeaves, Revoked
<1>5. ASSUME NativeMoves \/ UNCHANGED vars
      PROVE  Same
  BY <1>5 DEF NativeMoves, vars
<1> HIDE DEF Same
<1> QED
  BY <1>1, <1>2, <1>3, <1>4, <1>5 DEF Next, TaskStep

(* A task starts when its operation is admitted, and awaits a cancellation *)
(* when its deadline expires or it is itself a cancellation.               *)
Entered(o) ==
    /\ pc'[o] \in Suspended => pc[o] \in Suspended \/ (Admission /\ ledger[o] = NoRequest)
    /\ pc'[o] \in Awaiting => pc[o] \in Awaiting \/ DeadlineExpires(o) \/ StartCancel(o)
    /\ pc'[o] = "scheduled" => pc[o] = "scheduled" \/ (Admission /\ ledger[o] = NoRequest)

LEMMA PlacesEntered ==
    ASSUME IInv, [Next]_vars, NEW x \in Ops
    PROVE  Entered(x)
<1>0. TypeOK /\ x \in Tasks /\ x # Loss /\ x # Main
  BY IdentityAssumption DEF IInv, Tasks
<1> USE <1>0 DEF TypeOK, NativeTypeOK, Entered, Awaiting, Suspended, Tasks, taskVars
<1>1. ASSUME UNCHANGED pc
      PROVE  Entered(x)
  BY <1>1
<1>2. ASSUME NEW o \in Ops, NEW s \in Sessions, NEW p \in Phases,
             AdmitCreate(o, s) \/ AdmitPrompt(o, s, p) \/ AdmitRetire(o, s)
      PROVE  Entered(x)
  BY <1>2 DEF AdmitCreate, AdmitPrompt, AdmitRetire, LedgerAdmits, Admission
<1>3. ASSUME NEW o \in Ops, NEW t \in Ops, AdmitCancel(o, t)
      PROVE  Entered(x)
  BY <1>3 DEF AdmitCancel, CancelQueued, CancelSettled, CancelDispatched, LedgerAdmits, Admission
<1>4. ASSUME NEW o \in Ops, PromptStep(o)
      PROVE  Entered(x)
  BY <1>4, QuarantineMoves DEF PromptStep, DrainCancelled, DispatchPrompt, SettlePrompt, MismatchedTerminal, TurnRaised,
         DeadlineExpires, SettleDeadline, DeadlineUncertain, PromptSendFails, PromptCancelled, HoldsLock, SendFrom,
         Sending, StopRaised
<1>5. ASSUME NEW o \in Ops, CancelStep(o) \/ SendStep(o)
      PROVE  Entered(x)
  BY <1>5, TakeOverMoves DEF CancelStep, SendStep, StartCancel, CancelObserves, CancelUncertain, Join,
         CancelCancelled, SendReturns, SendStops, CancellationAbsorbed, SendFrom, Sending, StopRaised
<1>6. ASSUME NEW o \in Ops, RetireStep(o)
      PROVE  Entered(x)
  <2>1. CASE StartRetire(o)
    BY <2>1, QuarantineMoves DEF StartRetire
  <2>2. CASE RetireSettles(o)
    BY <2>2 DEF RetireSettles
  <2>3. CASE RetireFails(o)
    <3>1. pc' = [[pc EXCEPT ![Loss] = LossAfterAbort] EXCEPT ![o] = "closing"] /\ pc[o] = "retiring"
      BY <2>3 DEF RetireFails, TakeOver
    <3>2. pc'[x] = IF x = o THEN "closing" ELSE pc[x]
      BY <3>1
    <3> QED
      BY <3>1, <3>2
  <2>4. CASE RetireCancelled(o)
    BY <2>4 DEF RetireCancelled
  <2> QED
    BY <1>6, <2>1, <2>2, <2>3, <2>4 DEF RetireStep
<1>7. ASSUME NEW c \in Tasks, ClosingStep(c)
      PROVE  Entered(x)
  BY <1>7, QuarantineMoves DEF ClosingStep, CallerCloses, OwnerStops, OwnerPublishes, JoinerLeaves
<1>8. ASSUME NativeMoves
      PROVE  Entered(x)
  BY <1>8 DEF NativeMoves
<1>9. ASSUME UNCHANGED vars
      PROVE  Entered(x)
  BY <1>1, <1>9 DEF vars
<1> HIDE DEF Entered
<1> QED
  BY <1>2, <1>3, <1>4, <1>5, <1>6, <1>7, <1>8, <1>9 DEF Next, Admission, TaskStep, Phases

--------------------------------------------------------------------------------
(* What happens to the record of one operation                             *)

(* The operation is admitted in this step, with the record of its kind.    *)
New(x) ==
    /\ ledger[x] = NoRequest /\ state[x] = "unknown" /\ pc[x] = "idle" /\ collector[x] = "none"
    /\ ledger'[x] \in Requests
    /\ \/ ledger'[x].kind = "create" /\ state'[x] \in {"completed", "failed"} /\ pc'[x] = "idle"
       \/ ledger'[x].kind = "prompt" /\ state'[x] \in {"accepted", "queued"} /\ pc'[x] = "waiting"
       \/ ledger'[x].kind = "retire" /\ state'[x] = "accepted" /\ pc'[x] = "scheduled"
       \/ /\ ledger'[x].kind = "cancel"
          /\ \E t \in Ops \ {x} :
                /\ ledger'[x].target = t /\ IsPrompt(t) /\ ledger'[t] = ledger[t]
                /\ \/ /\ state[t] \in {"accepted", "queued"} \cup Terminal /\ state'[t] \in Terminal
                      /\ state'[t] # state[t] => state'[t] = "cancelled"
                      /\ state'[x] = "completed" /\ pc'[x] = "idle"
                   \/ /\ state[t] \in {"running", "cancelling"} /\ state'[t] = "cancelling"
                      /\ state'[x] = "accepted" /\ pc'[x] = "scheduled"

(* A cancellation that is admitted settles a prompt before its dispatch,   *)
(* or marks a dispatched one.                                              *)
Overtaken(x) ==
    /\ IsPrompt(x) /\ ledger'[x] = ledger[x] /\ pc'[x] = pc[x]
    /\ \/ state[x] \in {"accepted", "queued"} /\ state'[x] = "cancelled"
       \/ state[x] \in {"running", "cancelling"} /\ state'[x] = "cancelling"

LEMMA AdmissionMoves ==
    ASSUME IInv, Admission, NEW x \in Ops
    PROVE  \/ New(x)
           \/ Overtaken(x)
           \/ ledger'[x] = ledger[x] /\ state'[x] = state[x] /\ pc'[x] = pc[x]
<1> DEFINE Same == ledger'[x] = ledger[x] /\ state'[x] = state[x] /\ pc'[x] = pc[x]
<1>0. /\ ledger \in [Ops -> Requests \cup {NoRequest}]
      /\ state \in [Ops -> OperationStates \cup {"unknown"}]
      /\ pc \in [Tasks -> Suspended \cup {"idle", "done"}]
      /\ Ops \subseteq Tasks /\ Fresh /\ Turns
  BY DEF IInv, TypeOK, Tasks
<1>1. ASSUME NEW o \in Ops, NEW s \in Sessions, AdmitCreate(o, s)
      PROVE  New(x) \/ Same
  <2>1. CASE x = o
    BY <1>0, <1>1, <2>1, RequestShapes DEF AdmitCreate, LedgerAdmits, Fresh, Turns, New, taskVars
  <2>2. CASE x # o
    BY <1>0, <1>1, <2>2 DEF AdmitCreate, taskVars
  <2> QED
    BY <2>1, <2>2
<1>2. ASSUME NEW o \in Ops, NEW s \in Sessions, NEW p \in Phases, AdmitPrompt(o, s, p)
      PROVE  New(x) \/ Same
  <2>1. CASE x = o
    BY <1>0, <1>2, <2>1, RequestShapes DEF AdmitPrompt, LedgerAdmits, Fresh, Turns, New
  <2>2. CASE x # o
    BY <1>0, <1>2, <2>2 DEF AdmitPrompt
  <2> QED
    BY <2>1, <2>2
<1>3. ASSUME NEW o \in Ops, NEW s \in Sessions, AdmitRetire(o, s)
      PROVE  New(x) \/ Same
  <2>1. CASE x = o
    BY <1>0, <1>3, <2>1, RequestShapes DEF AdmitRetire, LedgerAdmits, Fresh, Turns, New
  <2>2. CASE x # o
    BY <1>0, <1>3, <2>2 DEF AdmitRetire
  <2> QED
    BY <2>1, <2>2
<1>4. ASSUME NEW o \in Ops, NEW t \in Ops, AdmitCancel(o, t)
      PROVE  New(x) \/ Overtaken(x) \/ Same
  <2>1. /\ o # t /\ ledger[o] = NoRequest /\ state[o] = "unknown" /\ pc[o] = "idle" /\ IsPrompt(t)
        /\ \A y \in Ops \ {o} : ledger'[y] = ledger[y]
        /\ collector[o] = "none"
    BY <1>0, <1>4, NewCancel DEF IsPrompt, Kind, Turns
  <2>2. ledger'[o] \in Requests /\ ledger'[o].kind = "cancel" /\ ledger'[o].target = t
    <3>1. Sess(t) \in Sessions
      BY <2>1, AdmittedFields, KindAdmitted DEF IInv, IsPrompt
    <3> QED
      BY <1>0, <1>4, <3>1, RequestShapes DEF AdmitCancel
  <2>3. CASE CancelQueued(o, t)
    <3>1. /\ state[t] \in {"accepted", "queued"} /\ pc' = pc
          /\ state' = [state EXCEPT ![t] = "cancelled", ![o] = "completed"]
      BY <2>3 DEF CancelQueued
    <3> QED
      BY <1>0, <2>1, <2>2, <3>1 DEF New, Overtaken, Terminal
  <2>4. CASE CancelSettled(o, t)
    <3>1. /\ state[t] \in Terminal /\ pc' = pc /\ state' = [state EXCEPT ![o] = "completed"]
      BY <2>4 DEF CancelSettled, Settled
    <3> QED
      BY <1>0, <2>1, <2>2, <3>1 DEF New
  <2>5. CASE CancelDispatched(o, t)
    <3>1. /\ state[t] \in {"running", "cancelling"} /\ pc' = [pc EXCEPT ![o] = "scheduled"]
          /\ state' = [state EXCEPT ![t] = "cancelling", ![o] = "accepted"]
      BY <2>5 DEF CancelDispatched
    <3> QED
      BY <1>0, <2>1, <2>2, <3>1 DEF New, Overtaken
  <2> QED
    BY <1>4, <2>3, <2>4, <2>5 DEF AdmitCancel
<1> QED
  BY <1>1, <1>2, <1>3, <1>4 DEF Admission

(* What an admission leaves alone.                                         *)
LEMMA AdmissionKeeps ==
    Admission => /\ available /\ alive
                 /\ UNCHANGED <<submitted, cancelled, available, owner, verdict, shutdownDone, nativeVars>>
BY DEF Admission, AdmitCreate, AdmitPrompt, AdmitRetire, AdmitCancel, MayAdmit, closingVars, taskVars

(* Otherwise the record of an operation is changed by its own task, or by  *)
(* the owner of the shutdown.                                              *)
OwnStep(x) ==
    \/ /\ IsPrompt(x)
       /\ DispatchPrompt(x) \/ SettlePrompt(x) \/ DeadlineExpires(x) \/ SettleDeadline(x)
    \/ Kind(x) = "cancel" /\ (StartCancel(x) \/ CancelObserves(x))
    \/ Kind(x) = "retire" /\ (StartRetire(x) \/ RetireSettles(x))

LEMMA StateMoves ==
    ASSUME IInv, [Next]_vars, ~Admission, NEW x \in Ops
    PROVE  \/ state'[x] = state[x]
           \/ OwnStep(x)
           \/ \E c \in Tasks : OwnerPublishes(c)
<1>0. TypeOK /\ Places
  BY DEF IInv
<1>1. ASSUME NEW o \in Ops, x # o,
             \/ DispatchPrompt(o) \/ SettlePrompt(o) \/ DeadlineExpires(o) \/ SettleDeadline(o)
             \/ StartCancel(o) \/ CancelObserves(o) \/ StartRetire(o) \/ RetireSettles(o)
      PROVE  state'[x] = state[x]
  BY <1>0, <1>1 DEF TypeOK, DispatchPrompt, SettlePrompt, DeadlineExpires, SettleDeadline, StartCancel, CancelObserves,
                    StartRetire, RetireSettles, SetTerminal
<1>2. ASSUME \/ DispatchPrompt(x) \/ SettlePrompt(x) \/ DeadlineExpires(x) \/ SettleDeadline(x)
             \/ StartCancel(x) \/ CancelObserves(x) \/ StartRetire(x) \/ RetireSettles(x)
      PROVE  OwnStep(x)
  BY <1>0, <1>2 DEF Places, OwnStep, DispatchPrompt, HoldsLock, SettlePrompt, DeadlineExpires, SettleDeadline,
                    StartCancel, CancelObserves, StartRetire, RetireSettles
<1> QED
  BY <1>1, <1>2, StateChanges DEF StateStep

(* Publishing leaves nothing that was admitted unsettled.                  *)
LEMMA PublishMoves ==
    ASSUME IInv, NEW c \in Tasks, OwnerPublishes(c)
    PROVE  /\ ~available /\ pc[c] = "cleaning" /\ owner = c /\ shutdownDone'
           /\ pc' = [pc EXCEPT ![c] = "done"]
           /\ \A o \in Ops \ {c} : pc[o] \notin Suspended
           /\ \A o \in Ops :
                  /\ Settled(o) \/ state[o] = "unknown" => state'[o] = state[o]
                  /\ ~(Settled(o) \/ state[o] = "unknown") =>
                         state'[o] = IF o = c /\ cleanup = "settled" THEN verdict ELSE "in_doubt"
                  /\ state[o] # "unknown" => state'[o] \in Terminal
           /\ UNCHANGED <<ledger, submitted, available, owner, verdict, collector, effect, cleanup, alive>>
BY DEF OwnerPublishes, Deferred, IInv, TypeOK, Revoked, Alone, Settled, Terminal, nativeVars

--------------------------------------------------------------------------------
(* Records, turns, targets                                                 *)

LEMMA RecordsStep ==
    ASSUME IInv, Records, [Next]_vars
    PROVE  Records'
<1> SUFFICES ASSUME NEW x \in Ops
             PROVE  /\ ledger'[x] # NoRequest => state'[x] # "unknown"
                    /\ pc'[x] \in Awaiting =>
                           \/ ledger'[x].kind = "prompt" /\ state'[x] = "cancelling"
                           \/ ledger'[x].kind = "cancel" /\ state'[x] = "running"
  BY DEF Records, IsPrompt, Kind
<1>0. TypeOK /\ Places /\ Entered(x) /\ x \in Tasks
  BY PlacesEntered DEF IInv, Tasks
<1>1. CASE Admission
  <2>1. CASE New(x)
    BY <1>0, <1>1, <2>1 DEF New, Entered, Awaiting, DeadlineExpires, StartCancel
  <2>2. CASE Overtaken(x)
    BY <2>2 DEF Overtaken, Records, IsPrompt, Kind, Awaiting
  <2>3. CASE ledger'[x] = ledger[x] /\ state'[x] = state[x] /\ pc'[x] = pc[x]
    BY <2>3 DEF Records, IsPrompt, Kind
  <2> QED
    BY <1>1, <2>1, <2>2, <2>3, AdmissionMoves
<1>2. CASE ~Admission
  <2>0. ledger'[x] = ledger[x]
    BY <1>2, LedgerChanges
  <2>1. CASE state'[x] = state[x] /\ (pc'[x] \in Awaiting => pc[x] \in Awaiting)
    BY <2>0, <2>1 DEF Records, IsPrompt, Kind
  <2>2. CASE OwnStep(x)
    <3>1. state \in [Ops -> OperationStates \cup {"unknown"}] /\ pc \in [Tasks -> Suspended \cup {"idle", "done"}]
      BY <1>0 DEF TypeOK
    <3>2. CASE DispatchPrompt(x) \/ SettlePrompt(x) \/ SettleDeadline(x) \/ CancelObserves(x) \/ RetireSettles(x)
      <4>1. pc'[x] \in {"running", "done"} /\ (state'[x] # "unknown" \/ state'[x] = state[x])
        BY <1>0, <3>1, <3>2 DEF DispatchPrompt, SettlePrompt, SettleDeadline, CancelObserves, RetireSettles,
           SetTerminal, Published
      <4> QED
        BY <2>0, <4>1 DEF Records, Awaiting
    <3>3. CASE DeadlineExpires(x)
      BY <1>0, <2>0, <3>1, <3>3 DEF DeadlineExpires, Places, IsPrompt, Kind
    <3>4. CASE StartCancel(x)
      BY <2>0, <3>1, <3>4 DEF StartCancel, Kind
    <3>5. CASE StartRetire(x)
      <4>1. pc[x] = "scheduled" /\ state'[x] = "running" /\ Kind(x) = "retire"
        BY <3>1, <3>5 DEF StartRetire
      <4> QED
        BY <1>0, <2>0, <4>1 DEF Entered, DeadlineExpires, StartCancel, Awaiting
    <3> QED
      BY <2>2, <3>2, <3>3, <3>4, <3>5 DEF OwnStep
  <2>3. ASSUME NEW c \in Tasks, OwnerPublishes(c)
        PROVE  /\ ledger'[x] # NoRequest => state'[x] # "unknown"
               /\ pc'[x] \notin Awaiting
    BY <1>0, <2>0, <2>3, PublishMoves DEF Records, Terminal, TypeOK, Awaiting, Suspended, Settled
  <2>4. DeadlineExpires(x) \/ StartCancel(x) => OwnStep(x)
    BY <1>0 DEF OwnStep, DeadlineExpires, StartCancel, Places
  <2> QED
    BY <1>0, <1>2, <2>0, <2>1, <2>2, <2>3, <2>4, StateMoves DEF Entered, Records, IsPrompt, Kind
<1> QED
  BY <1>1, <1>2

LEMMA DispatchedStep ==
    ASSUME IInv, Records, Dispatched, [Next]_vars
    PROVE  Dispatched'
<1> SUFFICES ASSUME NEW x \in Ops, ledger'[x].kind = "prompt"
             PROVE  /\ state'[x] \in {"accepted", "queued"} => collector'[x] = "none"
                    /\ state'[x] \in {"running", "cancelling"} => collector'[x] # "none"
                    /\ state'[x] \in Terminal /\ ~shutdownDone' /\ collector'[x] # "none" =>
                           collector'[x] \in TurnOutcomes
  BY DEF Dispatched, IsPrompt, Kind, Settled
<1>0. TypeOK /\ Places /\ Turns
  BY DEF IInv
<1> USE DEF Dispatched, IsPrompt, Kind, Settled
<1>1. CASE Admission
  <2>1. UNCHANGED <<collector, shutdownDone>>
    BY <1>1, AdmissionKeeps DEF nativeVars
  <2>2. CASE New(x)
    BY <2>1, <2>2 DEF New
  <2>3. CASE Overtaken(x)
    BY <2>1, <2>3 DEF Overtaken, Terminal
  <2> QED
    BY <1>1, <2>1, <2>2, <2>3, AdmissionMoves
<1>2. CASE OwnStep(x)
  <2>1. CASE DispatchPrompt(x)
    BY <1>0, <2>1 DEF DispatchPrompt, RunTurn, TypeOK, NativeTypeOK, Terminal
  <2>2. CASE SettlePrompt(x) \/ DeadlineExpires(x) \/ SettleDeadline(x)
    <3>1. UNCHANGED <<ledger, collector>> /\ ledger[x].kind = "prompt" /\ pc[x] \in {"running", "grace"}
      BY <1>0, <2>2 DEF SettlePrompt, DeadlineExpires, SettleDeadline, nativeVars, Places
    <3>2. state[x] \in {"running", "cancelling"}
      BY <1>0, <3>1, KindAdmitted DEF Places, Records, Awaiting
    <3> QED
      BY <1>0, <2>2, <3>1, <3>2 DEF SettlePrompt, DeadlineExpires, SettleDeadline, SetTerminal, Published, Terminal,
         TurnOutcomes, TypeOK
  <2> QED
    BY <1>2, <2>1, <2>2, LedgerChanges, FinalStep, KindAdmitted DEF OwnStep, Final, StartCancel, CancelObserves,
       StartRetire, RetireSettles, ledgerVars, TypeOK
<1>3. ASSUME NEW c \in Tasks, OwnerPublishes(c)
      PROVE  state'[x] \in Terminal /\ shutdownDone'
  BY <1>3, PublishMoves, RequestShapes DEF Records
<1>4. CASE ~Admission /\ state'[x] = state[x]
  <2>1. ledger'[x] = ledger[x] /\ (shutdownDone => shutdownDone')
    BY <1>4, LedgerChanges, StateChanges DEF StateStep, DispatchPrompt, SettlePrompt, DeadlineExpires, SettleDeadline,
       StartCancel, CancelObserves, StartRetire, RetireSettles, OwnerPublishes, closingVars
  <2>2. CASE collector'[x] = collector[x]
    BY <1>4, <2>1, <2>2
  <2>3. CASE TurnEnds(x)
    BY <1>0, <1>4, <2>1, <2>3, TurnEnd DEF LiveTurn, TurnOutcomes, TurnErrors
  <2>4. CASE DispatchPrompt(x)
    <3>1. state[x] \in {"accepted", "queued"} /\ state'[x] = "running"
      BY <1>0, <2>4, DispatchFinds DEF DispatchPrompt, TypeOK
    <3> QED
      BY <1>4, <3>1
  <2>5. ASSUME NEW o \in Ops, DispatchPrompt(o) \/ TurnEnds(o), x # o
        PROVE  collector'[x] = collector[x]
    BY <1>0, <2>5, TurnEnd DEF DispatchPrompt, RunTurn, TypeOK, NativeTypeOK
  <2> QED
    BY <2>2, <2>3, <2>4, <2>5, CollectorChanges
<1> QED
  BY <1>1, <1>2, <1>3, <1>4, StateMoves DEF Terminal

LEMMA TargetsStep ==
    ASSUME IInv, Dispatched, Targets, [Next]_vars
    PROVE  Targets'
<1> SUFFICES ASSUME NEW x \in Ops, ledger'[x].kind = "cancel"
             PROVE  /\ ledger'[x].target \in Ops /\ ledger'[ledger'[x].target].kind = "prompt"
                    /\ pc'[x] \in {"scheduled"} \cup Awaiting => collector'[ledger'[x].target] # "none"
  BY DEF Targets, IsPrompt, Kind, Turn
<1>0. TypeOK /\ Places /\ Turns /\ Entered(x) /\ Final
  BY PlacesEntered, FinalStep DEF IInv
<1> USE DEF IsPrompt, Kind, Settled, Turn
<1>1. \A y \in Ops : collector[y] # "none" => collector'[y] # "none"
  <2>1. ASSUME NEW o \in Ops, DispatchPrompt(o) \/ TurnEnds(o)
        PROVE  \A y \in Ops : collector[y] # "none" => collector'[y] # "none"
    BY <1>0, <2>1, TurnEnd DEF DispatchPrompt, RunTurn, TypeOK, NativeTypeOK, TurnOutcomes, TurnErrors
  <2> QED
    BY <2>1, CollectorChanges
<1>2. CASE New(x)
  <2>1. PICK t \in Ops \ {x} :
            /\ ledger'[x].target = t /\ IsPrompt(t) /\ ledger'[t] = ledger[t]
            /\ \/ pc'[x] = "idle"
               \/ state[t] \in {"running", "cancelling"}
    BY <1>2 DEF New
  <2>2. collector[t] # "none" \/ pc'[x] = "idle"
    BY <2>1 DEF Dispatched
  <2> QED
    BY <1>1, <2>1, <2>2 DEF Awaiting
<1>3. CASE ledger'[x] = ledger[x]
  <2>1. /\ ledger[x].target \in Ops /\ ledger[ledger[x].target].kind = "prompt"
        /\ ledger'[ledger[x].target] = ledger[ledger[x].target]
        /\ pc[x] \in {"scheduled"} \cup Awaiting => collector[ledger[x].target] # "none"
    BY <1>0, <1>3, RequestShapes DEF Targets, Final
  <2>2. pc'[x] \in {"scheduled"} \cup Awaiting => pc[x] \in {"scheduled"} \cup Awaiting
    BY <1>0, <1>3, RequestShapes DEF Entered, DeadlineExpires, StartCancel, Places
  <2> QED
    BY <1>1, <1>3, <2>1, <2>2
<1> QED
  BY <1>2, <1>3, LedgerChanges, AdmissionMoves DEF Overtaken

--------------------------------------------------------------------------------
(* The end of a generation                                                 *)

(* The client loses its child and starts its cleanup once, and the         *)
(* effects of a turn begin only while it lives.                            *)
ClientMove ==
    /\ alive' => alive
    /\ \/ UNCHANGED cleanup
       \/ EndCleanup /\ UNCHANGED effect
       \/ cleanup = "idle" /\ cleanup' = "running" /\ ~alive'
    /\ \/ effect' \subseteq effect
       \/ \E o \in Ops : BeginEffect(o)

LEMMA ClientMoves == TypeOK /\ [Next]_vars => ClientMove
<1> SUFFICES ASSUME TypeOK, [Next]_vars
             PROVE  ClientMove
  OBVIOUS
<1>0. alive \in BOOLEAN /\ cleanup \in {"idle", "running", "settled", "failed"}
  BY DEF TypeOK, NativeTypeOK
<1> USE <1>0 DEF nativeVars, ClientMove
<1>1. ASSUME Admission \/ UNCHANGED vars
      PROVE  ClientMove
  BY <1>1, AdmissionKeeps DEF vars
<1>2. ASSUME NEW o \in Ops, PromptStep(o)
      PROVE  ClientMove
  BY <1>2 DEF PromptStep, DrainCancelled, DispatchPrompt, RunTurn, SettlePrompt, MismatchedTerminal, TurnRaised,
         DeadlineExpires, SettleDeadline, DeadlineUncertain, PromptSendFails, PromptCancelled
<1>3. ASSUME NEW o \in Ops, CancelStep(o) \/ RetireStep(o) \/ SendStep(o)
      PROVE  ClientMove
  BY <1>3 DEF CancelStep, RetireStep, SendStep, StartCancel, CancelObserves, CancelUncertain,
         CancelCancelled, StartRetire, RetireSettles, RetireFails, RetireCancelled,
         SendReturns, SendStops, StopClient, CleanupStarted, CancellationAbsorbed
<1>4. ASSUME NEW c \in Tasks, ClosingStep(c)
      PROVE  ClientMove
  BY <1>4 DEF ClosingStep, CallerCloses, OwnerStops, StopClient, CleanupStarted, OwnerPublishes, JoinerLeaves
<1>5. ASSUME NEW o \in Ops, TurnStep(o)
      PROVE  ClientMove
  BY <1>5 DEF TurnStep, EndEffect, CancelTurn, StopTurn, CleanupStarted, AbsorbTurn, RaiseTurn, SettleTurn, BeginEffect
<1>6. ASSUME EndCleanup \/ LoseChild
      PROVE  ClientMove
  BY <1>6 DEF EndCleanup, LoseChild
<1> HIDE DEF ClientMove
<1> QED
  BY <1>1, <1>2, <1>3, <1>4, <1>5, <1>6 DEF Next, TaskStep

(* Only the owner of the shutdown cleans up, after it has gathered.        *)
LEMMA CleaningEntered ==
    ASSUME IInv, [Next]_vars, NEW x \in Tasks, pc'[x] = "cleaning"
    PROVE  pc[x] = "cleaning" \/ OwnerStops(x)
<1> DEFINE Kept == pc'[x] = "cleaning" => pc[x] = "cleaning" \/ OwnerStops(x)
<1> SUFFICES Kept
  OBVIOUS
<1>0. pc \in [Tasks -> Suspended \cup {"idle", "done"}] /\ Ops \subseteq Tasks /\ Loss \in Tasks /\ TypeOK
  BY DEF IInv, TypeOK, Tasks
<1> USE <1>0 DEF taskVars
<1>1. ASSUME UNCHANGED pc
      PROVE  Kept
  BY <1>1
<1>2. ASSUME Admission
      PROVE  Kept
  BY <1>2 DEF Admission, AdmitCreate, AdmitPrompt, AdmitRetire, AdmitCancel, CancelQueued, CancelSettled,
         CancelDispatched
<1>3. ASSUME NEW o \in Ops, PromptStep(o)
      PROVE  Kept
  BY <1>3, QuarantineMoves DEF PromptStep, DrainCancelled, DispatchPrompt, SettlePrompt, MismatchedTerminal, TurnRaised,
         DeadlineExpires, SettleDeadline, DeadlineUncertain, PromptSendFails, PromptCancelled, SendFrom
<1>4. ASSUME NEW o \in Ops, CancelStep(o) \/ SendStep(o)
      PROVE  Kept
  BY <1>4, TakeOverMoves DEF CancelStep, SendStep, StartCancel, CancelObserves, CancelUncertain, Join,
         CancelCancelled, SendReturns, SendStops, CancellationAbsorbed, SendFrom, LossAfterAbort
<1>5. ASSUME NEW o \in Ops, StartRetire(o) \/ RetireSettles(o) \/ RetireCancelled(o)
      PROVE  Kept
  BY <1>5, QuarantineMoves DEF StartRetire, RetireSettles, RetireCancelled, LossAfterAbort
<1>6. ASSUME NEW o \in Ops, RetireFails(o)
      PROVE  Kept
  <2>1. pc' = [[pc EXCEPT ![Loss] = LossAfterAbort] EXCEPT ![o] = "closing"]
    BY <1>6 DEF RetireFails, TakeOver
  <2> QED
    BY <2>1 DEF LossAfterAbort
<1>7. ASSUME NEW c \in Tasks, ClosingStep(c)
      PROVE  Kept
  BY <1>7, QuarantineMoves DEF ClosingStep, CallerCloses, OwnerStops, OwnerPublishes, JoinerLeaves
<1>8. ASSUME NativeMoves
      PROVE  Kept
  BY <1>8 DEF NativeMoves, LossAfterAbort
<1> HIDE DEF Kept
<1> QED
  BY <1>1, <1>2, <1>3, <1>4, <1>5, <1>6, <1>7, <1>8 DEF Next, TaskStep, RetireStep, vars

LEMMA GoneStep ==
    ASSUME IInv, Gone, [Next]_vars
    PROVE  Gone'
<1>0. TypeOK /\ Revoked /\ Alone
  BY DEF IInv
<1>1. ASSUME shutdownDone'
      PROVE  shutdownDone \/ \E c \in Tasks : OwnerPublishes(c)
  BY <1>1, StateChanges DEF StateStep, Admission, AdmitCreate, AdmitPrompt, AdmitRetire, AdmitCancel, DispatchPrompt,
     SettlePrompt, DeadlineExpires, SettleDeadline, StartCancel, CancelObserves, StartRetire, RetireSettles, closingVars
<1>2. ASSUME shutdownDone', NEW x \in Ops
      PROVE  pc'[x] \notin Suspended
  <2>1. CASE shutdownDone
    BY <1>0, <2>1, PlacesEntered, RevokedForGood DEF Revoked, Gone, Entered
  <2>2. ASSUME NEW c \in Tasks, OwnerPublishes(c)
        PROVE  pc'[x] \notin Suspended
    BY <1>0, <2>2, PublishMoves DEF TypeOK, Tasks, Suspended
  <2> QED
    BY <1>1, <1>2, <2>1, <2>2
<1>3. ASSUME shutdownDone' \/ \E c \in Tasks : pc'[c] = "cleaning"
      PROVE  LiveTurns' = {}
  <2>1. CASE \E c \in Tasks : OwnerStops(c)
    BY <2>1 DEF OwnerStops, Gathered, StopClient, LiveTurns
  <2>2. CASE shutdownDone \/ \E c \in Tasks : pc[c] = "cleaning"
    <3>1. LiveTurns = {} /\ ~available
      BY <1>0, <2>2 DEF Gone, Revoked
    <3>2. UNCHANGED collector
      BY <1>0, <3>1, CollectorChanges, TurnEnd DEF DispatchPrompt, LiveTurns
    <3> QED
      BY <3>1, <3>2 DEF LiveTurns
  <2> QED
    BY <1>1, <1>3, <2>1, <2>2, CleaningEntered, PublishMoves
<1>4. /\ cleanup' = "settled" => effect' = {}
      /\ cleanup' # "idle" => ~alive'
  BY <1>0, ClientMoves DEF Gone, ClientMove, EndCleanup, BeginEffect
<1>5. ASSUME NEW x \in Ops, collector'[x] \in {"none"} \cup TurnOutcomes
      PROVE  x \notin effect'
  <2>1. x \notin effect
    <3>1. CASE collector'[x] = collector[x]
      BY <1>5, <3>1 DEF Gone
    <3>2. CASE TurnEnds(x)
      BY <1>0, <1>5, <3>2, TurnEnd DEF TurnErrors, TurnOutcomes
    <3>3. CASE DispatchPrompt(x)
      BY <1>0, <3>3, DispatchFinds DEF Gone
    <3>4. ASSUME NEW o \in Ops, DispatchPrompt(o) \/ TurnEnds(o), x # o
          PROVE  collector'[x] = collector[x]
      BY <1>0, <3>4, TurnEnd DEF DispatchPrompt, RunTurn, TypeOK, NativeTypeOK
    <3> QED
      BY <3>1, <3>2, <3>3, <3>4, CollectorChanges
  <2>2. ASSUME NEW o \in Ops, BeginEffect(o)
        PROVE  x # o /\ effect' = effect \cup {o}
    BY <1>5, <2>2 DEF BeginEffect, TurnOutcomes
  <2> QED
    BY <1>0, <2>1, <2>2, ClientMoves DEF ClientMove
<1> QED
  BY <1>2, <1>3, <1>4, <1>5 DEF Gone

(* The shutdown is done for good.                                          *)
LEMMA ShutdownStays == [Next]_vars /\ shutdownDone => shutdownDone'
BY StateChanges, AdmissionKeeps
   DEF StateStep, DispatchPrompt, SettlePrompt, DeadlineExpires, SettleDeadline, StartCancel, CancelObserves,
       StartRetire, RetireSettles, OwnerPublishes, closingVars

(* What the task that revokes the generation does in that step.            *)
Revokes(c) ==
    /\ owner' = c
    /\ verdict' = "in_doubt" \/ (c \in Ops /\ Kind(c) = "cancel")
    /\ sessState' = [s \in Sessions |-> IF sessState[s] \in {"absent", "retired"} THEN sessState[s] ELSE "lost"]
    /\ cancelled' = {o \in Ops \ {c} : pc[o] \in Suspended}
    /\ pc'[c] = "closing"
    /\ \A o \in Ops \ {c} : pc'[o] = pc[o]

(* The owner of the shutdown and its verdict are chosen once.              *)
LEMMA OwnerMoves ==
    ASSUME IInv, [Next]_vars
    PROVE  \/ UNCHANGED <<owner, verdict, available>>
           \/ available /\ ~available' /\ \E c \in Tasks : Revokes(c)
<1> DEFINE Moved == \/ UNCHANGED <<owner, verdict, available>>
                    \/ available /\ ~available' /\ \E c \in Tasks : Revokes(c)
<1>0. pc \in [Tasks -> Suspended \cup {"idle", "done"}] /\ Ops \subseteq Tasks /\ Loss \in Tasks /\ Loss \notin Ops
  BY IdentityAssumption DEF IInv, TypeOK, Tasks
<1> USE DEF closingVars
<1>1. ASSUME NEW c \in Tasks, Quarantine(c, "in_doubt")
      PROVE  Moved
  <2>1. CASE available
    <3>1. Revokes(c) /\ ~available'
      BY <1>0, <1>1, <2>1 DEF Quarantine, TakeOver, Revokes
    <3> QED
      BY <2>1, <3>1
  <2>2. CASE ~available
    BY <1>1, <2>2 DEF Quarantine, Join
  <2> QED
    BY <2>1, <2>2
<1>2. ASSUME NEW o \in Ops, CancelUncertain(o)
      PROVE  Moved
  <2>1. CASE available
    <3>1. Revokes(o) /\ ~available'
      BY <1>0, <1>2, <2>1 DEF CancelUncertain, TakeOver, Revokes
    <3> QED
      BY <1>0, <2>1, <3>1
  <2>2. CASE ~available
    BY <1>2, <2>2 DEF CancelUncertain, Join
  <2> QED
    BY <2>1, <2>2
<1>3. ASSUME NEW o \in Ops, RetireFails(o)
      PROVE  Moved
  <2>1. pc' = [[pc EXCEPT ![Loss] = LossAfterAbort] EXCEPT ![o] = "closing"] /\ available
    BY <1>3 DEF RetireFails, TakeOver
  <2>2. pc'[o] = "closing" /\ \A x \in Ops \ {o} : pc'[x] = pc[x]
    BY <1>0, <2>1
  <2>3. Revokes(o) /\ ~available'
    BY <1>3, <2>2 DEF RetireFails, TakeOver, Revokes
  <2> QED
    BY <1>0, <2>1, <2>3
<1>4. ASSUME NEW o \in Ops, PromptStep(o)
      PROVE  Moved
  BY <1>0, <1>1, <1>4 DEF PromptStep, DrainCancelled, DispatchPrompt, SettlePrompt, MismatchedTerminal, TurnRaised,
         DeadlineExpires, SettleDeadline, DeadlineUncertain, PromptSendFails, PromptCancelled
<1>5. ASSUME NEW o \in Ops, CancelStep(o) \/ SendStep(o)
      PROVE  Moved
  BY <1>0, <1>2, <1>5 DEF CancelStep, SendStep, StartCancel, CancelObserves,
         CancelCancelled, SendReturns, SendStops, CancellationAbsorbed
<1>6. ASSUME NEW o \in Ops, RetireStep(o)
      PROVE  Moved
  BY <1>0, <1>1, <1>3, <1>6 DEF RetireStep, StartRetire, RetireSettles, RetireCancelled
<1>7. ASSUME NEW c \in Tasks, ClosingStep(c)
      PROVE  Moved
  BY <1>1, <1>7 DEF ClosingStep, CallerCloses, OwnerStops, OwnerPublishes, JoinerLeaves
<1>8. ASSUME NativeMoves \/ UNCHANGED vars \/ Admission
      PROVE  Moved
  BY <1>8, AdmissionKeeps DEF NativeMoves, vars
<1> HIDE DEF Moved
<1>9. Moved
  BY <1>4, <1>5, <1>6, <1>7, <1>8 DEF Next, TaskStep
<1> QED
  BY <1>9 DEF Moved

(* Only a shutdown leaves a record in doubt, or a cancellation anything    *)
(* but completed.                                                          *)
LEMMA VerdictsStep ==
    ASSUME IInv, Verdicts, [Next]_vars
    PROVE  Verdicts'
<1>0. TypeOK /\ Revoked /\ Fresh
  BY DEF IInv
<1>1. ASSUME NEW x \in Ops,
             state'[x] = "in_doubt" \/ (ledger'[x].kind = "cancel" /\ state'[x] \in Terminal \ {"completed"})
      PROVE  shutdownDone'
  <2>1. CASE Admission
    BY <1>1, <2>1, AdmissionMoves, AdmissionKeeps DEF New, Overtaken, Terminal, Verdicts, IsPrompt, Kind
  <2>2. CASE ~Admission
    <3>1. ledger'[x] = ledger[x]
      BY <2>2, LedgerChanges
    <3>2. CASE state'[x] = state[x]
      BY <1>1, <3>1, <3>2, ShutdownStays DEF Verdicts, Kind
    <3>3. CASE OwnStep(x)
      <4>1. state \in [Ops -> OperationStates \cup {"unknown"}]
        BY <1>0 DEF TypeOK
      <4> QED
        BY <1>1, <3>1, <3>2, <3>3, <4>1 DEF OwnStep, DispatchPrompt, SettlePrompt, DeadlineExpires, SettleDeadline,
           StartCancel, CancelObserves, StartRetire, RetireSettles, SetTerminal, Published, IsPrompt, Kind, Terminal
    <3>4. CASE \E c \in Tasks : OwnerPublishes(c)
      BY <3>4, PublishMoves
    <3> QED
      BY <2>2, <3>2, <3>3, <3>4, StateMoves
  <2> QED
    BY <2>1, <2>2
<1>2. ASSUME NEW x \in Ops, owner' = x, ledger'[x].kind = "prompt"
      PROVE  verdict' = "in_doubt"
  <2>1. CASE Admission
    BY <1>0, <1>2, <2>1, AdmissionKeeps, IdentityAssumption DEF Revoked
  <2>2. CASE ~Admission
    BY <1>2, <2>2, OwnerMoves, LedgerChanges DEF Verdicts, Revokes, IsPrompt, Kind
  <2> QED
    BY <2>1, <2>2
<1> QED
  BY <1>1, <1>2 DEF Verdicts, IsPrompt, Kind

--------------------------------------------------------------------------------
(* The sessions and their instructions                                     *)

(* In a generation that was revoked a session is only lost or set aside,   *)
LEMMA LostSessions ==
    ASSUME IInv, [Next]_vars, ~available, NEW s \in Sessions
    PROVE  sessState'[s] \in {sessState[s], "lost", "non_reusable"}
<1> DEFINE Kept == sessState'[s] \in {sessState[s], "lost", "non_reusable"}
<1>0. sessState \in [Sessions -> SessionStates \cup {"absent"}] /\ ~Admission
  BY RevokedForGood DEF IInv, TypeOK
<1> USE DEF sessionVars
<1>1. ASSUME NEW o \in Ops, PromptStep(o)
      PROVE  Kept
  BY <1>0, <1>1 DEF PromptStep, DrainCancelled, DispatchPrompt, SettlePrompt, MismatchedTerminal, TurnRaised,
         DeadlineExpires, SettleDeadline, DeadlineUncertain, PromptSendFails, PromptCancelled, Quarantine, LeaveLost
<1>2. ASSUME NEW o \in Ops, CancelStep(o) \/ SendStep(o)
      PROVE  Kept
  BY <1>0, <1>2 DEF CancelStep, SendStep, StartCancel, CancelObserves, CancelUncertain,
         CancelCancelled, SendReturns, SendStops, CancellationAbsorbed
<1>3. ASSUME NEW o \in Ops, RetireStep(o)
      PROVE  Kept
  BY <1>0, <1>3 DEF RetireStep, StartRetire, RetireSettles, RetireFails, RetireCancelled, Quarantine
<1>4. ASSUME NEW c \in Tasks, ClosingStep(c)
      PROVE  Kept
  BY <1>0, <1>4 DEF ClosingStep, CallerCloses, OwnerStops, OwnerPublishes, JoinerLeaves, Leave, LeaveLost, Quarantine
<1>5. ASSUME NativeMoves \/ UNCHANGED vars
      PROVE  Kept
  BY <1>5 DEF NativeMoves, vars
<1> HIDE DEF Kept
<1>6. Kept
  BY <1>0, <1>1, <1>2, <1>3, <1>4, <1>5 DEF Next, TaskStep
<1> QED
  BY <1>6 DEF Kept

(* and a cancellation is delivered to a task that then is gone or has      *)
(* started.                                                                *)
LEMMA CancelledKept ==
    ASSUME IInv, [Next]_vars, ~available, NEW x \in Ops, x \in cancelled, pc'[x] = "scheduled"
    PROVE  x \in cancelled'
<1>0. pc \in [Tasks -> Suspended \cup {"idle", "done"}] /\ Ops \subseteq Tasks /\ x \in Tasks /\ Loss # x /\ ~Admission
  BY RevokedForGood, IdentityAssumption DEF IInv, TypeOK, Tasks
<1> USE DEF taskVars
<1>1. ASSUME NEW o \in Ops, PromptStep(o)
      PROVE  x \in cancelled'
  BY <1>0, <1>1 DEF PromptStep, DrainCancelled, DispatchPrompt, SettlePrompt, MismatchedTerminal, TurnRaised,
         DeadlineExpires, SettleDeadline, DeadlineUncertain, PromptSendFails, PromptCancelled, Quarantine, Join
<1>2. ASSUME NEW o \in Ops, CancelStep(o) \/ SendStep(o)
      PROVE  x \in cancelled'
  BY <1>0, <1>2 DEF CancelStep, SendStep, StartCancel, CancelObserves, CancelUncertain,
         CancelCancelled, SendReturns, SendStops, CancellationAbsorbed, Join
<1>3. ASSUME NEW o \in Ops, RetireStep(o)
      PROVE  x \in cancelled'
  BY <1>0, <1>3 DEF RetireStep, StartRetire, RetireSettles, RetireFails, RetireCancelled, Quarantine, Join
<1>4. ASSUME NEW c \in Tasks, ClosingStep(c)
      PROVE  x \in cancelled'
  BY <1>0, <1>4 DEF ClosingStep, CallerCloses, OwnerStops, OwnerPublishes, JoinerLeaves, Quarantine, Join
<1>5. ASSUME NativeMoves \/ UNCHANGED vars
      PROVE  x \in cancelled'
  BY <1>5 DEF NativeMoves, vars
<1> QED
  BY <1>0, <1>1, <1>2, <1>3, <1>4, <1>5 DEF Next, TaskStep

(* Hence with the generation goes every session that could take work and   *)
(* every task that was not started, and no session is retired any more.    *)
LEMMA LossMoves ==
    ASSUME IInv, Reuse, [Next]_vars, ~available'
    PROVE  /\ \A s \in Sessions :
                  /\ sessState'[s] \notin {"ready", "busy", "retiring"}
                  /\ sessState'[s] = "retired" => sessState[s] = "retired"
                  /\ sessState'[s] = "absent" => sessState[s] = "absent"
           /\ \A x \in Ops : pc'[x] = "scheduled" => x \in cancelled'
<1>0. TypeOK
  BY DEF IInv
<1>1. CASE available
  <2>1. PICK c \in Tasks : Revokes(c)
    BY <1>1, OwnerMoves
  <2>2. ASSUME NEW x \in Ops, pc'[x] = "scheduled"
        PROVE  x \in cancelled'
    <3>1. pc[x] = "scheduled" /\ x # c
      BY <2>1, <2>2 DEF Revokes
    <3> QED
      BY <2>1, <3>1 DEF Revokes, Suspended
  <2> QED
    BY <2>1, <2>2 DEF Revokes
<1>2. CASE ~available
  <2>1. ~Admission
    BY <1>2, RevokedForGood
  <2>2. ASSUME NEW x \in Ops, pc'[x] = "scheduled"
        PROVE  x \in cancelled'
    <3>1. pc[x] = "scheduled"
      BY <2>1, <2>2, PlacesEntered DEF Entered
    <3> QED
      BY <1>2, <2>2, <3>1, CancelledKept DEF Reuse
  <2>3. ASSUME NEW s \in Sessions
        PROVE  /\ sessState'[s] \notin {"ready", "busy", "retiring"}
               /\ sessState'[s] = "retired" => sessState[s] = "retired"
               /\ sessState'[s] = "absent" => sessState[s] = "absent"
    BY <1>2, LostSessions DEF Reuse
  <2> QED
    BY <2>2, <2>3
<1> QED
  BY <1>1, <1>2

(* A session has one unsettled prompt or retirement.                       *)
LEMMA OnePerSession ==
    ASSUME IInv, available, NEW a \in Ops, NEW b \in Ops, Work(a), Work(b), ~Settled(a), ~Settled(b), Sess(a) = Sess(b)
    PROVE  a = b /\ active[Sess(a)] = a /\ Sess(a) \in Sessions
<1>1. Sess(a) \in Sessions
  BY AdmittedFields, RequestShapes DEF IInv, Work, Kind
<1> QED
  BY <1>1 DEF IInv, SessionExclusion

(* What Reuse says of one prompt while the generation is available.        *)
Held(x) ==
    IsPrompt(x) =>
        /\ sessState[Sess(x)] # "absent"
        /\ ~Settled(x) => /\ sessState[Sess(x)] = "busy"
                          /\ ledger[x].phase = "initial" => Sess(x) \notin submitted
        /\ state[x] = "completed" => Sess(x) \in submitted

LEMMA HeldOnAdmission ==
    ASSUME IInv, Reuse, Admission, NEW x \in Ops
    PROVE  Held(x)'
<1>0. /\ available /\ UNCHANGED submitted /\ Held(x)
      /\ sessState \in [Sessions -> SessionStates \cup {"absent"}]
      /\ ledger \in [Ops -> Requests \cup {NoRequest}]
      /\ state \in [Ops -> OperationStates \cup {"unknown"}]
  BY AdmissionKeeps DEF Reuse, Held, IInv, TypeOK
<1>00. IsPrompt(x) => Sess(x) \in Sessions
  BY AdmittedFields, RequestShapes DEF IInv, IsPrompt, Kind
<1>01. ASSUME NEW o \in Ops, NEW t \in Ops, AdmitCancel(o, t)
       PROVE  o # t /\ ledger[t].kind = "prompt" /\ ledger'[o].kind = "cancel" /\ \A y \in Ops \ {o} : ledger'[y] = ledger[y]
  BY <1>01, NewCancel
<1> USE <1>0 DEF Held, IsPrompt, Kind, Sess, Settled
<1>1. ASSUME NEW o \in Ops, NEW s \in Sessions, AdmitCreate(o, s)
      PROVE  Held(x)'
  <2>1. CASE x = o
    BY <1>1, <2>1, RequestShapes DEF AdmitCreate
  <2>2. CASE x # o
    BY <1>1, <1>00, <2>2 DEF AdmitCreate
  <2> QED
    BY <2>1, <2>2
<1>2. ASSUME NEW o \in Ops, NEW s \in Sessions, NEW p \in Phases, AdmitPrompt(o, s, p)
      PROVE  Held(x)'
  <2>1. CASE x = o
    BY <1>2, <2>1 DEF AdmitPrompt, PromptRequest, LifetimeAllows, Terminal
  <2>2. CASE x # o
    BY <1>2, <2>2 DEF AdmitPrompt
  <2> QED
    BY <2>1, <2>2
<1>3. ASSUME NEW o \in Ops, NEW s \in Sessions, AdmitRetire(o, s)
      PROVE  Held(x)'
  <2>1. CASE x = o
    BY <1>3, <2>1, RequestShapes DEF AdmitRetire
  <2>2. CASE x # o
    <3>1. IsPrompt(x) /\ ~Settled(x) => Sess(x) # s
      BY <1>3, IdentityAssumption DEF AdmitRetire, SessionIdle, IInv, SessionExclusion, Work
    <3> QED
      BY <1>3, <2>2, <3>1 DEF AdmitRetire
  <2> QED
    BY <2>1, <2>2
<1>4. ASSUME NEW o \in Ops, NEW t \in Ops, AdmitCancel(o, t)
      PROVE  Held(x)'
  <2>0. o # t /\ ledger[t].kind = "prompt" /\ ledger'[o].kind = "cancel" /\ \A y \in Ops \ {o} : ledger'[y] = ledger[y]
    BY <1>4, <1>01
  <2>1. CASE CancelQueued(o, t)
    <3>1. /\ state[t] \in {"accepted", "queued"}
          /\ state' = [state EXCEPT ![t] = "cancelled", ![o] = "completed"]
          /\ sessState' = [sessState EXCEPT ![ledger[t].sess] = "ready"]
      BY <2>1 DEF CancelQueued
    <3>2. x # t /\ IsPrompt(x) /\ ~Settled(x) => Sess(x) # Sess(t)
      BY <2>0, <3>1, OnePerSession DEF Work, Terminal
    <3> QED
      BY <2>0, <3>1, <3>2 DEF Terminal
  <2>2. CASE CancelSettled(o, t)
    BY <2>0, <2>2 DEF CancelSettled
  <2>3. CASE CancelDispatched(o, t)
    BY <2>0, <2>3 DEF CancelDispatched, Terminal
  <2> QED
    BY <1>4, <2>1, <2>2, <2>3 DEF AdmitCancel
<1> HIDE DEF Held
<1> QED
  BY <1>1, <1>2, <1>3, <1>4 DEF Admission

LEMMA HeldInService ==
    ASSUME IInv, Records, Reuse, [Next]_vars, available', ~Admission, NEW x \in Ops
    PROVE  Held(x)'
<1>0. /\ available /\ Held(x) /\ UNCHANGED ledger
      /\ sessState \in [Sessions -> SessionStates \cup {"absent"}]
      /\ ledger \in [Ops -> Requests \cup {NoRequest}]
      /\ state \in [Ops -> OperationStates \cup {"unknown"}]
      /\ Places
  BY RevokedForGood, LedgerChanges DEF Reuse, Held, IInv, TypeOK
<1> USE <1>0 DEF Held, IsPrompt, Kind, Sess, Settled
<1>1. ASSUME NEW o \in Ops, DrainCancelled(o) \/ DispatchPrompt(o)
      PROVE  Held(x)'
  BY <1>1 DEF DrainCancelled, DispatchPrompt, sessionVars, ledgerVars, Terminal
<1>2. ASSUME NEW o \in Ops, SettlePrompt(o)
      PROVE  Held(x)'
  <2>1. /\ IsPrompt(o) /\ state[o] \in {"running", "cancelling"}
        /\ x # o /\ IsPrompt(x) /\ ~Settled(x) => Sess(x) # Sess(o)
    BY <1>2, OnePerSession DEF SettlePrompt, Places, Work, Terminal
  <2>2. CASE x = o
    BY <1>2, <2>1, <2>2 DEF SettlePrompt, SetTerminal, Published, Terminal
  <2>3. CASE x # o
    BY <1>2, <2>1, <2>3 DEF SettlePrompt, SetTerminal
  <2> QED
    BY <2>2, <2>3
<1>3. ASSUME NEW o \in Ops, SettleDeadline(o)
      PROVE  Held(x)'
  <2>1. /\ IsPrompt(o) /\ state[o] = "cancelling"
        /\ x # o /\ IsPrompt(x) /\ ~Settled(x) => Sess(x) # Sess(o)
    BY <1>3, OnePerSession DEF SettleDeadline, Records, Awaiting, Work, Terminal
  <2>2. CASE x = o
    BY <1>3, <2>1, <2>2 DEF SettleDeadline, SetTerminal, Terminal
  <2>3. CASE x # o
    BY <1>3, <2>1, <2>3 DEF SettleDeadline, SetTerminal
  <2> QED
    BY <2>2, <2>3
<1>4. ASSUME NEW o \in Ops, DeadlineExpires(o) \/ StartCancel(o) \/ CancelObserves(o)
      PROVE  Held(x)'
  BY <1>4 DEF DeadlineExpires, StartCancel, CancelObserves, SetTerminal, sessionVars, Places, Terminal
<1>5. ASSUME NEW o \in Ops, StartRetire(o)
      PROVE  Held(x)'
  BY <1>5, QuarantineMoves DEF StartRetire, Terminal
<1>6. ASSUME NEW o \in Ops, RetireSettles(o)
      PROVE  Held(x)'
  <2>1. /\ ledger[o].kind = "retire" /\ state[o] = "running"
        /\ IsPrompt(x) /\ ~Settled(x) => Sess(x) # Sess(o)
    BY <1>6, OnePerSession DEF RetireSettles, Places, Work, Terminal
  <2> QED
    BY <1>6, <2>1 DEF RetireSettles, SetTerminal
<1>7. ASSUME UNCHANGED <<ledger, state, sessionVars>>
      PROVE  Held(x)'
  BY <1>7 DEF sessionVars
<1> HIDE DEF Held
<1> QED
  BY <1>1, <1>2, <1>3, <1>4, <1>5, <1>6, <1>7, ServingChanges DEF ServingStep

(* Every step keeps Reuse.                                                 *)
LEMMA ReuseStep ==
    ASSUME IInv, Records, Reuse, [Next]_vars
    PROVE  Reuse'
<1>1. CASE available'
  BY <1>1, HeldOnAdmission, HeldInService DEF Reuse, Held
<1>2. CASE ~available'
  <2>1. ~Admission
    BY <1>2, AdmissionKeeps
  <2>2. ASSUME NEW x \in Ops, IsPrompt(x)'
        PROVE  sessState'[Sess(x)'] # "absent"
    <3>1. ledger'[x] = ledger[x] /\ IsPrompt(x)
      BY <2>1, <2>2, LedgerChanges DEF IsPrompt, Kind
    <3>2. Sess(x) \in Sessions
      BY <3>1, AdmittedFields, RequestShapes DEF IInv, IsPrompt, Kind
    <3> QED
      BY <1>2, <3>1, <3>2, LossMoves DEF Reuse, Sess
  <2> QED
    BY <1>2, <2>2, LossMoves DEF Reuse
<1> QED
  BY <1>1, <1>2

--------------------------------------------------------------------------------
(* The queue                                                               *)

Unsettled == {o \in Ops : IsPrompt(o) /\ ~Settled(o)}

Answered == {o \in Ops : IsPrompt(o) /\ Settled(o)}

(* A step leaves the account alone, reserves for one prompt or releases    *)
(* the reservation of one.                                                 *)
Reserves(o) ==
    /\ o \notin Unsettled /\ Unsettled' = Unsettled \cup {o} /\ Answered' = Answered
    /\ QueueFits /\ reservations' = reservations + 1 /\ UNCHANGED released

Releases(o) ==
    /\ o \in Unsettled /\ Unsettled' = Unsettled \ {o} /\ Answered' = Answered \cup {o}
    /\ reservations' = reservations - 1 /\ released' = released \cup {o}

QueueMove ==
    \/ UNCHANGED <<reservations, released, Unsettled, Answered>>
    \/ \E o \in Ops : Reserves(o) \/ Releases(o)

(* The prompt that settles is the one whose reservation is released.       *)
LEMMA Releasing ==
    ASSUME available, Reserved, NEW o \in Ops, IsPrompt(o), ~Settled(o), Release(o),
           state'[o] \in Terminal,
           \A x \in Ops \ {o} : IsPrompt(x)' <=> IsPrompt(x),
           \A x \in Ops \ {o} : IsPrompt(x) => (state'[x] \in Terminal <=> state[x] \in Terminal),
           IsPrompt(o)'
    PROVE  Releases(o)
<1>1. o \notin released /\ released' = released \cup {o} /\ reservations' = reservations - 1
  BY DEF Release, Reserved
<1>2. Unsettled' = Unsettled \ {o}
  BY DEF Unsettled, Settled
<1>3. Answered' = Answered \cup {o}
  BY DEF Answered, Settled
<1> QED
  BY <1>1, <1>2, <1>3 DEF Releases, Unsettled

LEMMA QueueOnAdmission ==
    ASSUME IInv, Reserved, Admission
    PROVE  QueueMove
<1>0. /\ available
      /\ ledger \in [Ops -> Requests \cup {NoRequest}]
      /\ state \in [Ops -> OperationStates \cup {"unknown"}]
      /\ Fresh
  BY AdmissionKeeps DEF IInv, TypeOK
<1>1. ASSUME NEW o \in Ops, NEW t \in Ops, AdmitCancel(o, t)
      PROVE  QueueMove
  <2>0. /\ o # t /\ ledger[o] = NoRequest /\ state[o] = "unknown" /\ IsPrompt(t) /\ IsPrompt(t)'
        /\ ~IsPrompt(o) /\ ~IsPrompt(o)'
        /\ \A y \in Ops \ {o} : ledger'[y] = ledger[y]
    BY <1>1, NewCancel, RequestShapes DEF IsPrompt, Kind
  <2>1. \A y \in Ops : IsPrompt(y)' <=> IsPrompt(y)
    BY <2>0 DEF IsPrompt, Kind
  <2>2. CASE CancelQueued(o, t)
    <3>1. /\ state[t] \in {"accepted", "queued"} /\ Release(t)
          /\ state' = [state EXCEPT ![t] = "cancelled", ![o] = "completed"]
      BY <2>2 DEF CancelQueued
    <3>2. ~Settled(t) /\ state'[t] \in Terminal /\ \A y \in Ops : IsPrompt(y) /\ y # t => state'[y] = state[y]
      BY <1>0, <2>0, <3>1 DEF Settled, Terminal
    <3>3. Releases(t)
      BY <1>0, <2>0, <2>1, <3>1, <3>2, Releasing
    <3> QED
      BY <3>3 DEF QueueMove
  <2>3. CASE CancelSettled(o, t) \/ CancelDispatched(o, t)
    <3>1. /\ UNCHANGED <<reservations, released>>
          /\ \A y \in Ops : IsPrompt(y) => (state'[y] \in Terminal <=> state[y] \in Terminal)
      BY <1>0, <2>0, <2>3 DEF CancelSettled, CancelDispatched, Terminal
    <3> QED
      BY <2>1, <3>1 DEF QueueMove, Unsettled, Answered, Settled
  <2> QED
    BY <1>1, <2>2, <2>3 DEF AdmitCancel
<1>2. ASSUME NEW o \in Ops, NEW s \in Sessions, NEW p \in Phases, AdmitPrompt(o, s, p)
      PROVE  Reserves(o)
  <2>1. /\ ledger[o] = NoRequest /\ ledger' = [ledger EXCEPT ![o] = PromptRequest(s, p)]
        /\ state'[o] \in {"accepted", "queued"} /\ \A y \in Ops \ {o} : state'[y] = state[y]
        /\ QueueFits /\ reservations' = reservations + 1 /\ UNCHANGED released
    BY <1>0, <1>2 DEF AdmitPrompt, LedgerAdmits
  <2>2. ~IsPrompt(o) /\ IsPrompt(o)' /\ state'[o] \notin Terminal /\ \A y \in Ops \ {o} : IsPrompt(y)' <=> IsPrompt(y)
    BY <1>0, <2>1, RequestShapes DEF IsPrompt, Kind, Terminal
  <2> QED
    BY <2>1, <2>2 DEF Reserves, Unsettled, Answered, Settled
<1>3. ASSUME NEW o \in Ops, NEW s \in Sessions, AdmitCreate(o, s) \/ AdmitRetire(o, s)
      PROVE  QueueMove
  <2>1. /\ ledger[o] = NoRequest /\ ledger'[o].kind \in {"create", "retire"}
        /\ \A y \in Ops \ {o} : ledger'[y] = ledger[y] /\ state'[y] = state[y]
        /\ UNCHANGED <<reservations, released>>
    BY <1>0, <1>3, RequestShapes DEF AdmitCreate, AdmitRetire, LedgerAdmits, queueVars
  <2>2. \A y \in Ops : (IsPrompt(y)' <=> IsPrompt(y)) /\ (IsPrompt(y) => state'[y] = state[y])
    BY <2>1, RequestShapes DEF IsPrompt, Kind
  <2> QED
    BY <2>1, <2>2 DEF QueueMove, Unsettled, Answered, Settled
<1> QED
  BY <1>1, <1>2, <1>3 DEF Admission, QueueMove

LEMMA QueueInService ==
    ASSUME IInv, Records, Reserved, [Next]_vars, available', ~Admission
    PROVE  QueueMove
<1>0. /\ available /\ UNCHANGED ledger
      /\ state \in [Ops -> OperationStates \cup {"unknown"}]
      /\ Places
  BY RevokedForGood, LedgerChanges DEF IInv, TypeOK
<1>00. \A y \in Ops : IsPrompt(y)' <=> IsPrompt(y)
  BY <1>0 DEF IsPrompt, Kind
<1>1. ASSUME UNCHANGED <<reservations, released>>,
             \A y \in Ops : IsPrompt(y) => (state'[y] \in Terminal <=> state[y] \in Terminal)
      PROVE  QueueMove
  BY <1>00, <1>1 DEF QueueMove, Unsettled, Answered, Settled
<1>2. ASSUME NEW o \in Ops, SettlePrompt(o) \/ SettleDeadline(o)
      PROVE  QueueMove
  <2>1. IsPrompt(o) /\ ~Settled(o) /\ Release(o)
    BY <1>0, <1>2 DEF SettlePrompt, SettleDeadline, Places, Records, Awaiting, Settled, Terminal
  <2>2. state'[o] \in Terminal /\ \A y \in Ops \ {o} : state'[y] = state[y]
    BY <1>0, <1>2, <2>1 DEF SettlePrompt, SettleDeadline, SetTerminal, Published, Terminal, Settled
  <2>3. Releases(o)
    BY <1>0, <1>00, <2>1, <2>2, Releasing
  <2> QED
    BY <2>3 DEF QueueMove
<1>3. ASSUME NEW o \in Ops, DrainCancelled(o)
      PROVE  QueueMove
  <2>1. o \in released
    BY <1>0, <1>3 DEF DrainCancelled, HoldsLock, Places, Reserved
  <2> QED
    BY <1>1, <1>3, <2>1 DEF DrainCancelled, Release, ledgerVars
<1>4. ASSUME NEW o \in Ops, DispatchPrompt(o) \/ DeadlineExpires(o)
      PROVE  QueueMove
  BY <1>0, <1>1, <1>4 DEF DispatchPrompt, DeadlineExpires, queueVars, Places, Settled, Terminal
<1>5. ASSUME NEW o \in Ops, StartCancel(o) \/ CancelObserves(o) \/ StartRetire(o) \/ RetireSettles(o)
      PROVE  QueueMove
  <2>1. ~IsPrompt(o) /\ \A y \in Ops \ {o} : state'[y] = state[y]
    BY <1>0, <1>5 DEF StartCancel, CancelObserves, StartRetire, RetireSettles, SetTerminal, Places, IsPrompt
  <2>2. UNCHANGED <<reservations, released>>
    BY <1>5 DEF StartCancel, CancelObserves, StartRetire, RetireSettles, queueVars
  <2> QED
    BY <1>1, <2>1, <2>2
<1>6. ASSUME UNCHANGED <<state, reservations, released>>
      PROVE  QueueMove
  BY <1>1, <1>6
<1> QED
  BY <1>2, <1>3, <1>4, <1>5, <1>6, ServingChanges DEF ServingStep

(* Every step keeps the account and the bound.                             *)
LEMMA QueueStep ==
    ASSUME IInv, Records, Reserved, QueueAccounting, [Next]_vars
    PROVE  Reserved' /\ QueueAccounting'
<1> SUFFICES ASSUME available'
             PROVE  released' = Answered' /\ reservations' = Cardinality(Unsettled') /\ reservations' <= MaxQueuedPrompts + 1
  BY DEF Reserved, QueueAccounting, Unsettled, Answered
<1>1. /\ available /\ released = Answered /\ reservations = Cardinality(Unsettled)
      /\ reservations <= MaxQueuedPrompts + 1 /\ MaxQueuedPrompts \in Nat
  BY RevokedForGood, LimitAssumption DEF Reserved, QueueAccounting, Unsettled, Answered
<1>2. QueueMove
  BY QueueOnAdmission, QueueInService
<1>3. IsFiniteSet(Unsettled) /\ Cardinality(Unsettled) \in Nat
  BY IdentityAssumption, FS_Subset, FS_CardinalityType DEF Unsettled
<1>4. ASSUME NEW o \in Ops, Reserves(o)
      PROVE  released' = Answered' /\ reservations' = Cardinality(Unsettled') /\ reservations' <= MaxQueuedPrompts + 1
  <2>1. Cardinality(Unsettled \cup {o}) = Cardinality(Unsettled) + 1
    BY <1>3, <1>4, FS_AddElement DEF Reserves
  <2> QED
    BY <1>1, <1>3, <1>4, <2>1 DEF Reserves, QueueFits
<1>5. ASSUME NEW o \in Ops, Releases(o)
      PROVE  released' = Answered' /\ reservations' = Cardinality(Unsettled') /\ reservations' <= MaxQueuedPrompts + 1
  <2>1. Cardinality(Unsettled \ {o}) = Cardinality(Unsettled) - 1
    BY <1>3, <1>5, FS_RemoveElement DEF Releases
  <2> QED
    BY <1>1, <1>3, <1>5, <2>1 DEF Releases
<1> QED
  BY <1>1, <1>2, <1>4, <1>5 DEF QueueMove

--------------------------------------------------------------------------------
(* Reuse of a session                                                      *)

(* A session becomes reusable only from a state in which it was, or when   *)
(* it is created.                                                          *)
LEMMA SessionOpens ==
    ASSUME IInv, Records, Reuse, [Next]_vars, available', NEW s \in Sessions, sessState'[s] \in {"ready", "busy"}
    PROVE  sessState[s] \in {"ready", "busy", "absent"}
<1> DEFINE Kept == sessState'[s] \in {"ready", "busy"} => sessState[s] \in {"ready", "busy", "absent"}
<1>0. /\ available /\ sessState \in [Sessions -> SessionStates \cup {"absent"}]
      /\ Places
      /\ \A o \in Ops : IsPrompt(o) /\ ~Settled(o) => sessState[Sess(o)] = "busy"
  BY RevokedForGood DEF IInv, TypeOK, Reuse
<1>1. ASSUME NEW o \in Ops, NEW z \in Sessions, NEW p \in Phases,
             AdmitCreate(o, z) \/ AdmitPrompt(o, z, p) \/ AdmitRetire(o, z)
      PROVE  Kept
  BY <1>0, <1>1 DEF AdmitCreate, AdmitPrompt, AdmitRetire
<1>2. ASSUME NEW o \in Ops, NEW t \in Ops, AdmitCancel(o, t)
      PROVE  Kept
  <2>1. IsPrompt(t) /\ (state[t] \in {"accepted", "queued"} => sessState[Sess(t)] = "busy")
    BY <1>0, <1>2 DEF AdmitCancel, Settled, Terminal
  <2> QED
    BY <1>0, <1>2, <2>1 DEF AdmitCancel, CancelQueued, CancelSettled, CancelDispatched
<1>3. ASSUME NEW o \in Ops, SettlePrompt(o) \/ SettleDeadline(o)
      PROVE  Kept
  <2>1. sessState[Sess(o)] = "busy"
    BY <1>0, <1>3 DEF SettlePrompt, SettleDeadline, Places, Records, Awaiting, Settled, Terminal
  <2> QED
    BY <1>0, <1>3, <2>1 DEF SettlePrompt, SettleDeadline
<1>4. ASSUME NEW o \in Ops, \/ DrainCancelled(o) \/ DispatchPrompt(o) \/ DeadlineExpires(o) \/ StartCancel(o)
                            \/ CancelObserves(o) \/ StartRetire(o) \/ RetireSettles(o)
      PROVE  Kept
  BY <1>0, <1>4, QuarantineMoves DEF DrainCancelled, DispatchPrompt, DeadlineExpires, StartCancel, CancelObserves,
     StartRetire, RetireSettles, sessionVars
<1>5. ASSUME UNCHANGED sessionVars
      PROVE  Kept
  BY <1>5 DEF sessionVars
<1> HIDE DEF Kept
<1>6. Kept
  BY <1>1, <1>2, <1>3, <1>4, <1>5, ServingChanges DEF ServingStep, Admission, Phases
<1> QED
  BY <1>6 DEF Kept

(* A prompt that was dispatched and did not complete leaves its session    *)
(* closed for good.                                                        *)
LEMMA NoReuseStep ==
    ASSUME IInv, Records, Dispatched, Reuse, NoReuseAfterFailure, [Next]_vars
    PROVE  NoReuseAfterFailure'
<1> SUFFICES ASSUME NEW x \in Ops, IsPrompt(x)', collector'[x] # "none", state'[x] \in Terminal \ {"completed"},
                    sessState'[Sess(x)'] \in {"ready", "busy"}
             PROVE  FALSE
  BY DEF NoReuseAfterFailure
<1>0. /\ TypeOK /\ Turns /\ Final /\ sessState \in [Sessions -> SessionStates \cup {"absent"}]
      /\ state \in [Ops -> OperationStates \cup {"unknown"}]
      /\ collector \in [Ops -> {"none"} \cup LiveTurn \cup TurnOutcomes \cup TurnErrors]
  BY FinalStep DEF IInv, TypeOK, NativeTypeOK
<1>1. ~New(x)
  BY DEF New, IsPrompt, Kind, Terminal
<1>2. ledger'[x] = ledger[x] /\ IsPrompt(x) /\ Sess(x)' = Sess(x)
  BY <1>1, LedgerChanges, AdmissionMoves DEF Overtaken, IsPrompt, Kind, Sess
<1>3. Sess(x) \in Sessions
  BY <1>0, <1>2, AdmittedFields, RequestShapes DEF IsPrompt, Kind
<1>4. available' /\ available
  BY <1>2, <1>3, LossMoves, RevokedForGood
<1>5. sessState[Sess(x)] \in {"ready", "busy"}
  BY <1>2, <1>3, <1>4, SessionOpens DEF Reuse
<1>6. collector[x] # "none"
  <2>1. ASSUME NEW o \in Ops, DispatchPrompt(o)
        PROVE  collector[x] # "none"
    <3>1. x # o
      BY <1>0, <2>1 DEF DispatchPrompt, Terminal
    <3> QED
      BY <1>0, <2>1, <3>1 DEF DispatchPrompt, RunTurn
  <2>2. ASSUME NEW o \in Ops, TurnEnds(o)
        PROVE  collector[x] # "none"
    BY <1>0, <2>2, TurnEnd DEF LiveTurn
  <2> QED
    BY <2>1, <2>2, CollectorChanges
<1>7. ~Settled(x)
  BY <1>0, <1>2, <1>5, <1>6 DEF NoReuseAfterFailure, Final, Settled
<1>8. state'[x] # state[x]
  BY <1>7 DEF Settled
<1>9. ~Admission
  BY <1>1, <1>2, <1>6, <1>8, AdmissionMoves DEF Overtaken, Dispatched, Terminal
<1>10. OwnStep(x)
  BY <1>4, <1>8, <1>9, StateMoves, PublishMoves
<1>11. SettlePrompt(x) \/ SettleDeadline(x)
  BY <1>0, <1>2, <1>10 DEF OwnStep, DispatchPrompt, DeadlineExpires, Terminal, IsPrompt
<1>12. sessState'[Sess(x)] = "non_reusable"
  BY <1>0, <1>3, <1>4, <1>7, <1>11 DEF SettlePrompt, SettleDeadline, SetTerminal, Published, Reusable, Settled
<1> QED
  BY <1>2, <1>12

(* When the instructions of a session are dispatched, no other initial     *)
(* prompt of it ever was: one that is not settled holds the session, one   *)
(* that completed submitted them, and any other closed the session.        *)
LEMMA SentOnceStep ==
    ASSUME IInv, Reuse, ReuseIsJustified, [Next]_vars
    PROVE  InstructionsSentOnce'
<1> SUFFICES ASSUME NEW a \in Ops, NEW b \in Ops, a # b, ledger'[a] = ledger'[b],
                    IsPrompt(a)', ledger'[a].phase = "initial", collector'[a] # "none", collector'[b] # "none"
             PROVE  FALSE
  BY DEF InstructionsSentOnce
<1>0. TypeOK /\ Turns /\ collector \in [Ops -> {"none"} \cup LiveTurn \cup TurnOutcomes \cup TurnErrors] /\ Final
  BY FinalStep DEF IInv, TypeOK, NativeTypeOK
<1>1. \A x \in Ops : collector[x] # "none" => ledger'[x] = ledger[x]
  BY <1>0 DEF Turns, Final
<1>2. ASSUME NEW o \in Ops, DispatchPrompt(o), NEW x \in Ops, x # o, collector'[x] # "none",
             ledger'[o] = ledger'[x], ledger'[x].kind = "prompt", ledger'[x].phase = "initial"
      PROVE  FALSE
  <2>1. ledger[x] = ledger[o] /\ collector[x] # "none" /\ IsPrompt(x) /\ IsPrompt(o) /\ ledger[o].phase = "initial"
    BY <1>0, <1>2 DEF DispatchPrompt, RunTurn, IsPrompt, Kind
  <2>2. ~Settled(o) /\ available
    BY <1>2 DEF DispatchPrompt
  <2>3. sessState[Sess(o)] = "busy" /\ Sess(o) \notin submitted /\ Sess(x) = Sess(o)
    BY <2>1, <2>2 DEF Reuse, Sess
  <2>4. CASE ~Settled(x)
    BY <1>2, <2>1, <2>2, <2>3, <2>4, OnePerSession DEF Work, IsPrompt
  <2>5. CASE Settled(x)
    BY <2>1, <2>2, <2>3, <2>5 DEF Reuse, ReuseIsJustified, NoReuseAfterFailure, Settled
  <2> QED
    BY <2>4, <2>5
<1>3. \A x \in Ops : ledger'[x] = ledger'[a] => IsPrompt(x)' /\ ledger'[x].phase = "initial"
  BY DEF IsPrompt, Kind
<1>4. \A x \in {a, b} : collector[x] # "none"
  <2>1. ASSUME NEW o \in Ops, DispatchPrompt(o), NEW x \in {a, b}
        PROVE  collector[x] # "none"
    <3>1. o \notin {a, b}
      BY <1>2, <1>3, <2>1 DEF IsPrompt, Kind
    <3> QED
      BY <1>0, <2>1, <3>1 DEF DispatchPrompt, RunTurn
  <2>2. ASSUME NEW o \in Ops, TurnEnds(o), NEW x \in {a, b}
        PROVE  collector[x] # "none"
    BY <1>0, <2>2, TurnEnd DEF LiveTurn
  <2> QED
    BY <2>1, <2>2, CollectorChanges
<1> QED
  BY <1>1, <1>4 DEF ReuseIsJustified, InstructionsSentOnce, IsPrompt, Kind

--------------------------------------------------------------------------------
(* What outcomes say                                                       *)

(* An operation that was admitted keeps its request, and settled stays so. *)
LEMMA KindStays ==
    ASSUME IInv, [Next]_vars, NEW x \in Ops, Kind(x) # "none"
    PROVE  ledger'[x] = ledger[x] /\ (state[x] \in Terminal => state'[x] = state[x])
BY FinalStep, KindAdmitted DEF IInv, Final, Settled

(* A cancellation completes when its target is settled.                    *)
LEMMA CancelReportsStep ==
    ASSUME IInv, Records, Targets, CancelReportsSettled, [Next]_vars
    PROVE  CancelReportsSettled'
<1> SUFFICES ASSUME NEW x \in Ops, ledger'[x].kind = "cancel", state'[x] = "completed"
             PROVE  state'[ledger'[x].target] \in Terminal
  BY DEF CancelReportsSettled, Kind, Settled, Turn
<1>0. state \in [Ops -> OperationStates \cup {"unknown"}]
  BY DEF IInv, TypeOK
<1>1. CASE New(x)
  BY <1>1 DEF New
<1>2. CASE ledger'[x] = ledger[x] /\ ~New(x)
  <2>1. /\ Kind(x) = "cancel" /\ Turn(x) = ledger'[x].target /\ Turn(x) \in Ops /\ IsPrompt(Turn(x))
    BY <1>2 DEF Kind, Turn, Targets
  <2>2. state[Turn(x)] \in Terminal => state'[Turn(x)] \in Terminal
    BY <2>1, KindStays DEF IsPrompt
  <2>3. CASE state'[x] = state[x]
    BY <2>1, <2>2, <2>3 DEF CancelReportsSettled, Settled
  <2>4. CASE OwnStep(x)
    <3>1. CancelObserves(x)
      BY <1>0, <2>1, <2>4 DEF OwnStep, StartCancel, IsPrompt
    <3> QED
      BY <2>1, <2>2, <3>1 DEF CancelObserves, Settled
  <2>5. ASSUME NEW c \in Tasks, OwnerPublishes(c)
        PROVE  state'[Turn(x)] \in Terminal
    <3>1. state[Turn(x)] # "unknown"
      BY <2>1, RequestShapes DEF Records, IsPrompt, Kind
    <3> QED
      BY <2>1, <2>5, <3>1, PublishMoves
  <2>6. Admission => state'[x] = state[x]
    BY <1>2, <2>1, AdmissionMoves DEF Overtaken, IsPrompt
  <2> QED
    BY <2>1, <2>3, <2>4, <2>5, <2>6, StateMoves
<1> QED
  BY <1>1, <1>2, LedgerChanges, AdmissionMoves DEF Overtaken

(* The native turn of an operation with a definite outcome is over, before *)
(* the shutdown is done because its turn settled, in the step that ends it *)
(* because the cleanup settled, and nothing starts afterwards.             *)
LEMMA SettledEffectsStep ==
    ASSUME IInv, Records, Targets, Gone, OutcomeMeansSettledEffects, [Next]_vars,
           TypeOK', Dispatched', Targets', Gone', Verdicts', CancelReportsSettled'
    PROVE  OutcomeMeansSettledEffects'
<1> SUFFICES ASSUME NEW x \in Ops, Kind(x)' \in {"prompt", "cancel"}, state'[x] \in Terminal \ {"in_doubt"}
             PROVE  Turn(x)' \notin effect' \cup LiveTurns'
  BY DEF OutcomeMeansSettledEffects
<1>0. TypeOK /\ Turns
  BY DEF IInv
<1>1. CASE ~shutdownDone'
  <2>1. ASSUME NEW y \in Ops, IsPrompt(y)', Settled(y)'
        PROVE  y \notin effect' \cup LiveTurns'
    <3>1. collector'[y] \in {"none"} \cup TurnOutcomes
      BY <1>1, <2>1 DEF Dispatched
    <3> QED
      BY <3>1 DEF Gone, LiveTurns, LiveTurn, TurnOutcomes
  <2>2. CASE Kind(x)' = "prompt"
    BY <2>1, <2>2 DEF Turn, IsPrompt, Settled
  <2>3. CASE Kind(x)' = "cancel"
    <3>1. state'[x] = "completed"
      BY <1>1, <2>3 DEF Verdicts
    <3> QED
      BY <2>1, <2>3, <3>1 DEF CancelReportsSettled, Targets
  <2> QED
    BY <2>2, <2>3
<1>2. CASE shutdownDone'
  <2>1. LiveTurns' = {} /\ ~available
    BY <1>2, RevokedForGood, StateChanges, AdmissionKeeps, PublishMoves DEF Gone, IInv, Revoked, StateStep,
       DispatchPrompt, SettlePrompt, DeadlineExpires, SettleDeadline, StartCancel, CancelObserves, StartRetire,
       RetireSettles, closingVars
  <2>2. ledger'[x] = ledger[x] /\ Kind(x) \in {"prompt", "cancel"} /\ Turn(x)' = Turn(x)
    BY <2>1, LedgerChanges, RevokedForGood DEF Kind, Turn
  <2>3. ASSUME NEW c \in Tasks, OwnerPublishes(c)
        PROVE  Turn(x) \notin effect'
    <3>1. CASE Settled(x)
      BY <2>2, <2>3, <3>1, PublishMoves DEF OutcomeMeansSettledEffects
    <3>2. CASE ~Settled(x)
      <4>1. state[x] # "unknown"
        BY <2>2, RequestShapes DEF Records, Kind
      <4>2. cleanup = "settled" /\ UNCHANGED effect
        BY <2>3, <3>2, <4>1, PublishMoves
      <4> QED
        BY <4>2 DEF Gone
    <3> QED
      BY <3>1, <3>2
  <2>4. CASE \A c \in Tasks : ~OwnerPublishes(c)
    <3>1. shutdownDone
      BY <1>2, <2>4, StateChanges, AdmissionKeeps DEF StateStep, DispatchPrompt, SettlePrompt, DeadlineExpires,
         SettleDeadline, StartCancel, CancelObserves, StartRetire, RetireSettles, closingVars
    <3>2. ~OwnStep(x)
      BY <3>1 DEF Gone, OwnStep, DispatchPrompt, HoldsLock, SettlePrompt, DeadlineExpires, SettleDeadline, StartCancel,
         CancelObserves, StartRetire, RetireSettles, Suspended
    <3>3. state'[x] = state[x]
      BY <2>1, <2>4, <3>2, StateMoves, RevokedForGood
    <3>4. Turn(x) \notin effect
      BY <2>2, <3>3 DEF OutcomeMeansSettledEffects
    <3>5. \A o \in Ops : ~BeginEffect(o)
      BY <1>0, <3>1 DEF Gone, BeginEffect, LiveTurns, LiveTurn
    <3> QED
      BY <1>0, <2>1, <2>2, <3>4, <3>5, ClientMoves DEF ClientMove
  <2> QED
    BY <2>1, <2>2, <2>3, <2>4
<1> QED
  BY <1>1, <1>2

(* A prompt of a session that is retired is over: while the generation is  *)
(* available because the session would be busy, afterwards because nothing *)
(* of it starts.                                                           *)
LEMMA RetirementStep ==
    ASSUME IInv, Reuse, RetirementExcludesWork, [Next]_vars,
           TypeOK', Revoked', Dispatched', Reuse', Gone'
    PROVE  RetirementExcludesWork'
<1> SUFFICES ASSUME NEW x \in Ops, IsPrompt(x)', sessState'[Sess(x)'] \in {"retiring", "retired"}
             PROVE  Settled(x)' /\ x \notin LiveTurns' \cup effect'
  BY DEF RetirementExcludesWork
<1>0. TypeOK /\ TypeOK'
  BY DEF IInv
<1>1. CASE available'
  <2>1. Settled(x)'
    BY <1>1 DEF Reuse
  <2>2. collector'[x] \in {"none"} \cup TurnOutcomes
    BY <1>1, <2>1 DEF Revoked, Dispatched
  <2> QED
    BY <2>1, <2>2 DEF Gone, LiveTurns, LiveTurn, TurnOutcomes
<1>2. CASE ~available'
  <2>1. ~Admission
    BY <1>2, AdmissionKeeps
  <2>2. IsPrompt(x) /\ Sess(x)' = Sess(x)
    BY <2>1, LedgerChanges DEF IsPrompt, Kind, Sess
  <2>3. Sess(x) \in Sessions
    BY <1>0, <2>2, AdmittedFields, RequestShapes DEF IsPrompt, Kind
  <2>4. Settled(x) /\ x \notin LiveTurns \cup effect
    BY <1>2, <2>2, <2>3, LossMoves DEF RetirementExcludesWork
  <2>5. Settled(x)'
    BY <2>2, <2>4, KindStays DEF IsPrompt, Settled
  <2>6. collector[x] \notin LiveTurn /\ collector'[x] = collector[x]
    <3>1. collector[x] \notin LiveTurn
      BY <2>4 DEF LiveTurns
    <3>2. ASSUME NEW o \in Ops, DispatchPrompt(o)
          PROVE  FALSE
      BY <1>2, <3>2 DEF DispatchPrompt, closingVars
    <3>3. ASSUME NEW o \in Ops, TurnEnds(o)
          PROVE  collector'[x] = collector[x]
      BY <1>0, <3>1, <3>3, TurnEnd
    <3> QED
      BY <3>1, <3>2, <3>3, CollectorChanges
  <2>7. x \notin effect'
    BY <1>0, <2>4, <2>6, ClientMoves DEF ClientMove, BeginEffect, LiveTurn
  <2> QED
    BY <2>5, <2>6, <2>7 DEF LiveTurns
<1> QED
  BY <1>1, <1>2

--------------------------------------------------------------------------------
(* The invariant holds initially,                                          *)
LEMMA OutcomeStart == Init => OutcomeIInv
<1> SUFFICES ASSUME Init
             PROVE  OutcomeIInv
  OBVIOUS
<1>0. /\ \A o \in Ops : /\ ledger[o] = NoRequest /\ Kind(o) = "none" /\ ~IsPrompt(o) /\ state[o] = "unknown"
                        /\ pc[o] = "idle" /\ collector[o] = "none"
      /\ \A c \in Tasks : pc[c] = "idle"
      /\ effect = {} /\ released = {} /\ reservations = 0 /\ owner = NoOp /\ ~shutdownDone
      /\ cleanup = "idle" /\ available /\ alive
  BY RequestShapes DEF Init, NativeInit, Kind, IsPrompt, Tasks
<1>1. Records /\ Dispatched /\ Targets
  BY <1>0 DEF Records, Awaiting, Dispatched, Targets
<1>2. Gone
  BY <1>0 DEF Gone
<1>3. Verdicts /\ Reuse
  BY <1>0, IdentityAssumption DEF Verdicts, Reuse, Terminal
<1>4. Reserved /\ QueueAccounting
  <2>1. {o \in Ops : IsPrompt(o) /\ Settled(o)} = {} /\ {o \in Ops : IsPrompt(o) /\ ~Settled(o)} = {}
    BY <1>0
  <2> QED
    BY <1>0, <2>1, FS_EmptySet, LimitAssumption DEF Reserved, QueueAccounting
<1>5. ReuseIsJustified
  BY <1>0 DEF ReuseIsJustified, InstructionsSentOnce, NoReuseAfterFailure
<1>6. OutcomesAreTruthful
  BY <1>0 DEF OutcomesAreTruthful, OutcomeMeansSettledEffects, ControlsAreTruthful, CancelReportsSettled,
              RetirementExcludesWork
<1> QED
  BY <1>1, <1>2, <1>3, <1>4, <1>5, <1>6 DEF OutcomeIInv

(* every step keeps it,                                                    *)
LEMMA OutcomeStep == IInv /\ OutcomeIInv /\ [Next]_vars => OutcomeIInv'
<1> SUFFICES ASSUME IInv, OutcomeIInv, [Next]_vars
             PROVE  OutcomeIInv'
  OBVIOUS
<1>1. Records /\ Dispatched /\ Targets /\ Gone /\ Verdicts /\ Reuse /\ Reserved /\ QueueAccounting
  BY DEF OutcomeIInv
<1>2. IInv' /\ TypeOK' /\ Revoked'
  BY Step DEF IInv
<1>3. Records' /\ Dispatched' /\ Targets' /\ Gone' /\ Verdicts' /\ Reuse'
  BY <1>1, RecordsStep, DispatchedStep, TargetsStep, GoneStep, VerdictsStep, ReuseStep
<1>4. Reserved' /\ QueueAccounting'
  BY <1>1, QueueStep
<1>5. ReuseIsJustified'
  <2>1. NoReuseAfterFailure'
    BY <1>1, NoReuseStep DEF OutcomeIInv, ReuseIsJustified
  <2>2. InstructionsSentOnce'
    BY <1>1, SentOnceStep DEF OutcomeIInv
  <2> QED
    BY <2>1, <2>2 DEF ReuseIsJustified
<1>6. OutcomesAreTruthful'
  <2>1. CancelReportsSettled'
    BY <1>1, CancelReportsStep DEF OutcomeIInv, OutcomesAreTruthful, ControlsAreTruthful
  <2>2. OutcomeMeansSettledEffects'
    BY <1>1, <1>2, <1>3, <2>1, SettledEffectsStep DEF OutcomeIInv, OutcomesAreTruthful
  <2>3. RetirementExcludesWork'
    BY <1>1, <1>2, <1>3, RetirementStep DEF OutcomeIInv, OutcomesAreTruthful, ControlsAreTruthful
  <2> QED
    BY <2>1, <2>2, <2>3 DEF OutcomesAreTruthful, ControlsAreTruthful
<1> QED
  BY <1>3, <1>4, <1>5, <1>6 DEF OutcomeIInv

(* hence it holds throughout.                                              *)
LEMMA OutcomeInductive == Spec => []OutcomeIInv
BY OutcomeStart, OutcomeStep, Inductive, PTL DEF Spec

(* For any queue bound, while the generation is available exactly the      *)
(* unsettled prompts hold a reservation, and there are at most one more    *)
(* than may queue (admit_prompt, _release_prompt_reservation).             *)
THEOREM QueueAccounted == Spec => []QueueAccounting
<1>1. OutcomeIInv => QueueAccounting
  BY DEF OutcomeIInv
<1> QED
  BY <1>1, OutcomeInductive, PTL

(* For any number of prompts, the instructions of a session are dispatched *)
(* once, and a session whose prompt did not complete takes no more work    *)
(* (_validate_prompt_lifetime, _settle_terminal, _settle_deadline).        *)
THEOREM ReuseJustified == Spec => []ReuseIsJustified
<1>1. OutcomeIInv => ReuseIsJustified
  BY DEF OutcomeIInv
<1> QED
  BY <1>1, OutcomeInductive, PTL

(* For any interleaving of deadlines, cancellations, retirements, effects  *)
(* and losses, an outcome other than in_doubt means that the native turn   *)
(* is over and owns no effect, a completed cancellation that its target is *)
(* settled, and a retirement that its session has no work left (ADR-020).  *)
THEOREM OutcomesTruthful == Spec => []OutcomesAreTruthful
<1>1. OutcomeIInv => OutcomesAreTruthful
  BY DEF OutcomeIInv
<1> QED
  BY <1>1, OutcomeInductive, PTL

--------------------------------------------------------------------------------
(* What a step may publish                                                 *)

(* The actions that CancellationNotOverruled and LossPublishesLast are     *)
(* about.                                                                  *)
NotOverruled == \A o \in Ops : IsPrompt(o) /\ state[o] = "cancelling" => state'[o] # "completed"

PublishedLast ==
    \A o \in Ops : ~available /\ ~Settled(o) /\ Settled(o)' =>
        \/ cleanup = "settled"
        \/ cleanup = "failed" /\ state'[o] = "in_doubt"
        \/ collector[Turn(o)] \in TurnOutcomes /\ Turn(o) \notin effect

(* A terminal that contradicts the cancellation quarantines, and the       *)
(* verdict of a quarantine by a prompt is in_doubt.                        *)
LEMMA NotOverruledStep ==
    ASSUME IInv, OutcomeIInv, [Next]_vars
    PROVE  NotOverruled
<1> SUFFICES ASSUME NEW x \in Ops, IsPrompt(x), state[x] = "cancelling"
             PROVE  state'[x] # "completed"
  BY DEF NotOverruled
<1>0. state \in [Ops -> OperationStates \cup {"unknown"}] /\ Verdicts
  BY DEF IInv, TypeOK, OutcomeIInv
<1>1. CASE Admission
  BY <1>1, AdmissionMoves DEF New, Overtaken
<1>2. CASE OwnStep(x)
  <2>1. CASE SettlePrompt(x)
    BY <1>0, <2>1 DEF SettlePrompt, StopMismatch, SetTerminal, Published, Terminal
  <2>2. CASE DispatchPrompt(x) \/ DeadlineExpires(x) \/ SettleDeadline(x)
    BY <1>0, <2>2 DEF DispatchPrompt, DeadlineExpires, SettleDeadline, SetTerminal, Terminal
  <2> QED
    BY <1>2, <2>1, <2>2 DEF OwnStep, IsPrompt
<1>3. ASSUME NEW c \in Tasks, OwnerPublishes(c)
      PROVE  state'[x] # "completed"
  BY <1>0, <1>3, PublishMoves DEF Verdicts, Settled, Terminal
<1> QED
  BY <1>1, <1>2, <1>3, StateMoves

(* After a loss a record is settled by its own task only when the turn it  *)
(* is about returned a terminal, and otherwise by the owner.               *)
LEMMA PublishedLastStep ==
    ASSUME IInv, OutcomeIInv, [Next]_vars
    PROVE  PublishedLast
<1> SUFFICES ASSUME NEW x \in Ops, ~available, ~Settled(x), Settled(x)'
             PROVE  \/ cleanup = "settled"
                    \/ cleanup = "failed" /\ state'[x] = "in_doubt"
                    \/ collector[Turn(x)] \in TurnOutcomes /\ Turn(x) \notin effect
  BY DEF PublishedLast
<1>0. /\ state \in [Ops -> OperationStates \cup {"unknown"}] /\ Dispatched /\ Targets /\ Gone /\ ~Admission
      /\ state'[x] # state[x]
  BY RevokedForGood DEF IInv, TypeOK, OutcomeIInv, Settled
<1>1. CASE OwnStep(x)
  <2>1. CASE SettleDeadline(x)
    BY <1>0, <2>1 DEF SettleDeadline, Turn, IsPrompt, Gone, TurnOutcomes
  <2>2. CASE CancelObserves(x)
    <3>1. ~shutdownDone /\ collector[Turn(x)] # "none" /\ Turn(x) \in Ops /\ IsPrompt(Turn(x)) /\ Settled(Turn(x))
      BY <1>0, <2>2 DEF CancelObserves, Gone, Suspended, Targets, Awaiting
    <3> QED
      BY <1>0, <3>1 DEF Dispatched, Gone
  <2> QED
    BY <1>0, <1>1, <2>1, <2>2 DEF OwnStep, DispatchPrompt, SettlePrompt, DeadlineExpires, StartCancel, StartRetire,
       RetireSettles, Settled, Terminal
<1>2. ASSUME NEW c \in Tasks, OwnerPublishes(c)
      PROVE  cleanup = "settled" \/ (cleanup = "failed" /\ state'[x] = "in_doubt")
  <2>1. state[x] # "unknown"
    BY <1>0, <1>2, PublishMoves
  <2>2. cleanup \in {"settled", "failed"}
    BY <1>2 DEF OwnerPublishes, CleanupKnown
  <2> QED
    BY <1>2, <2>1, <2>2, PublishMoves
<1> QED
  BY <1>0, <1>1, <1>2, StateMoves

(* For any order in which a deadline, a caller's cancellation and the      *)
(* native terminal arrive, a prompt that was being cancelled is never      *)
(* published as completed (_settle_terminal, _settle_deadline).            *)
THEOREM CancellationStands == Spec => CancellationNotOverruled
<1>1. IInv /\ OutcomeIInv /\ [Next]_vars => [NotOverruled]_vars
  BY NotOverruledStep
<1> QED
  BY <1>1, Inductive, OutcomeInductive, PTL DEF Spec, CancellationNotOverruled, NotOverruled

(* Once a generation is lost, work whose turn has not returned a terminal  *)
(* is answered only after the cleanup has ended, and after a cleanup that  *)
(* failed only as in_doubt (mark_generation_lost).                         *)
THEOREM PublishedAfterCleanup == Spec => LossPublishesLast
<1>1. IInv /\ OutcomeIInv /\ [Next]_vars => [PublishedLast]_vars
  BY PublishedLastStep
<1> QED
  BY <1>1, Inductive, OutcomeInductive, PTL DEF Spec, LossPublishesLast, PublishedLast

--------------------------------------------------------------------------------
(* The ledger a caller sees                                                *)

phase == [o \in Ops |-> Progress(o)]

(* A record that has a state has a request, so the ledger is as full as    *)
(* OperationLedger says.                                                   *)
LEMMA RoomInLedger ==
    ASSUME IInv, Records, NEW o \in Ops, LedgerAdmits(ledger, o)
    PROVE  phase[o] = "unknown" /\ Cardinality({x \in Ops : phase[x] # "unknown"}) < MaxOperations
<1>1. \A x \in Ops : phase[x] # "unknown" <=> ledger[x] # NoRequest
  BY DEF phase, Progress, IInv, Fresh, Records
<1>2. {x \in Ops : phase[x] # "unknown"} = {x \in Ops : ledger[x] # NoRequest}
  BY <1>1
<1> QED
  BY <1>1, <1>2 DEF LedgerAdmits

(* The step of one operation is that of its phase.                         *)
LEMMA OnePhase ==
    ASSUME NEW o \in Ops, \A x \in Ops \ {o} : Progress(x)' = Progress(x)
    PROVE  phase' = [phase EXCEPT ![o] = Progress(o)']
BY DEF phase

(* The instance of OperationLedger counts as FiniteSets does.              *)
LEMMA LedgerCounts == ASSUME NEW S PROVE Ledger!Cardinality(S) = Cardinality(S)
BY Zenon DEF Ledger!Cardinality, Cardinality

(* An admission is one of the ledger: what it admits is pending or settles *)
(* at once, and it may settle a pending prompt with it.                    *)
LEMMA AdmissionImplements ==
    ASSUME IInv, Records, Admission
    PROVE  \E o \in Ops : Ledger!Admit(o)
<1>0. /\ state \in [Ops -> OperationStates \cup {"unknown"}]
      /\ available /\ available'
  BY AdmissionKeeps DEF IInv, TypeOK
<1>1. ASSUME NEW o \in Ops, LedgerAdmits(ledger, o),
             \A x \in Ops \ {o} : Progress(x)' = Progress(x),
             Progress(o)' \in {"pending", "settled"}
      PROVE  Ledger!Admit(o)
  <2>1. phase' = [phase EXCEPT ![o] = Progress(o)']
    BY <1>1, OnePhase
  <2>2. phase[o] = "unknown" /\ Cardinality({x \in Ops : phase[x] # "unknown"}) < MaxOperations
    BY <1>1, RoomInLedger
  <2> QED
    BY <1>0, <1>1, <2>1, <2>2, LedgerCounts DEF Ledger!Admit, Ledger!Admitted, phase
<1>2. ASSUME NEW o \in Ops, NEW s \in Sessions, NEW p \in Phases,
             AdmitCreate(o, s) \/ AdmitPrompt(o, s, p) \/ AdmitRetire(o, s)
      PROVE  Ledger!Admit(o)
  <2>1. LedgerAdmits(ledger, o)
    BY <1>2 DEF AdmitCreate, AdmitPrompt, AdmitRetire
  <2>2. \A x \in Ops \ {o} : Progress(x)' = Progress(x)
    BY <1>0, <1>2 DEF AdmitCreate, AdmitPrompt, AdmitRetire, Progress
  <2>3. Progress(o)' \in {"pending", "settled"}
    BY <1>0, <1>2 DEF AdmitCreate, AdmitPrompt, AdmitRetire, Progress, Terminal
  <2> QED
    BY <1>1, <2>1, <2>2, <2>3
<1>3. ASSUME NEW o \in Ops, NEW t \in Ops, AdmitCancel(o, t)
      PROVE  Ledger!Admit(o)
  <2>1. LedgerAdmits(ledger, o) /\ o # t
    BY <1>3, NewCancel DEF AdmitCancel
  <2>2. CASE CancelQueued(o, t)
    <3>1. /\ state' = [state EXCEPT ![t] = "cancelled", ![o] = "completed"]
          /\ state[t] \in {"accepted", "queued"}
      BY <2>2 DEF CancelQueued
    <3>2. /\ Progress(t) = "pending" /\ Progress(t)' = "settled" /\ Progress(o)' = "settled"
          /\ \A x \in Ops \ {o, t} : Progress(x)' = Progress(x)
      BY <1>0, <2>1, <3>1 DEF Progress, Terminal
    <3>3. phase[t] = "pending" /\ phase' = [phase EXCEPT ![o] = "settled", ![t] = "settled"]
      BY <2>1, <3>2 DEF phase
    <3>4. phase[o] = "unknown" /\ Cardinality({x \in Ops : phase[x] # "unknown"}) < MaxOperations
      BY <2>1, RoomInLedger
    <3> QED
      BY <1>0, <3>3, <3>4, LedgerCounts DEF Ledger!Admit, Ledger!Admitted, phase
  <2>3. CASE CancelSettled(o, t)
    BY <1>0, <1>1, <2>1, <2>3 DEF CancelSettled, Progress, Terminal
  <2>4. CASE CancelDispatched(o, t)
    BY <1>0, <1>1, <2>1, <2>4 DEF CancelDispatched, Progress, Terminal
  <2> QED
    BY <1>3, <2>2, <2>3, <2>4 DEF AdmitCancel
<1> QED
  BY <1>2, <1>3 DEF Admission, Phases

(* A step of the task of an operation dispatches or settles it, and may    *)
(* revoke the generation with the dispatch.                                *)
LEMMA OwnImplements ==
    ASSUME IInv, OutcomeIInv, [Next]_vars, ~Admission, NEW o \in Ops, OwnStep(o),
           \A x \in Ops \ {o} : state'[x] = state[x]
    PROVE  \/ Ledger!Dispatch(o) \/ Ledger!Settle(o) \/ Ledger!Revoke
           \/ UNCHANGED <<phase, available>>
<1>0. /\ state \in [Ops -> OperationStates \cup {"unknown"}] /\ Records /\ Reuse /\ Places /\ TypeOK
  BY DEF IInv, TypeOK, OutcomeIInv
<1>1. phase' = [phase EXCEPT ![o] = Progress(o)'] /\ phase[o] = Progress(o)
  <2>1. \A x \in Ops \ {o} : Progress(x)' = Progress(x)
    BY DEF Progress
  <2> QED
    BY <2>1, OnePhase DEF phase
<1>2. CASE DispatchPrompt(o)
  <2>1. Progress(o) = "pending" /\ Progress(o)' = "dispatched" /\ available /\ available'
    BY <1>0, <1>2, DispatchFinds DEF DispatchPrompt, Progress, Terminal, closingVars
  <2> QED
    BY <1>1, <2>1 DEF Ledger!Dispatch, phase
<1>3. CASE SettlePrompt(o) \/ SettleDeadline(o) \/ CancelObserves(o) \/ RetireSettles(o)
  <2>1. state[o] \in {"running", "cancelling"} /\ state'[o] \in Terminal /\ UNCHANGED available
    BY <1>0, <1>3 DEF SettlePrompt, SettleDeadline, CancelObserves, RetireSettles, SetTerminal, Published, Places,
       Records, Awaiting, Terminal, closingVars
  <2>2. Progress(o) = "dispatched" /\ Progress(o)' = "settled"
    BY <2>1 DEF Progress, Terminal
  <2> QED
    BY <1>1, <2>1, <2>2 DEF Ledger!Settle, phase
<1>4. CASE DeadlineExpires(o)
  <2>1. Progress(o) = "dispatched" /\ Progress(o)' = "dispatched" /\ UNCHANGED available
    BY <1>0, <1>4 DEF DeadlineExpires, Places, Progress, Terminal, closingVars
  <2> QED
    BY <1>1, <2>1 DEF phase
<1>5. CASE StartCancel(o) \/ StartRetire(o)
  <2>1. state[o] = "accepted" /\ state'[o] = "running" /\ o \notin cancelled /\ pc[o] = "scheduled"
    BY <1>0, <1>5 DEF StartCancel, StartRetire, Places
  <2>2. available
    BY <1>0, <2>1 DEF Reuse
  <2>3. Progress(o) = "pending" /\ Progress(o)' = "dispatched"
    BY <2>1 DEF Progress, Terminal
  <2>4. CASE available'
    BY <1>1, <2>2, <2>3, <2>4 DEF Ledger!Dispatch, phase
  <2>5. CASE ~available'
    BY <1>1, <2>2, <2>3, <2>5 DEF Ledger!Revoke, phase
  <2> QED
    BY <2>4, <2>5
<1> QED
  BY <1>2, <1>3, <1>4, <1>5 DEF OwnStep

(* Every step of the service is one of the ledger, or none.                *)
LEMMA LedgerStep ==
    ASSUME IInv, OutcomeIInv, [Next]_vars
    PROVE  Ledger!Next \/ UNCHANGED <<phase, available>>
<1>0. state \in [Ops -> OperationStates \cup {"unknown"}] /\ Records /\ TypeOK
  BY DEF IInv, TypeOK, OutcomeIInv
<1>1. CASE Admission
  BY <1>0, <1>1, AdmissionImplements DEF Ledger!Next
<1>2. ASSUME ~Admission, NEW o \in Ops, OwnStep(o)
      PROVE  Ledger!Next \/ UNCHANGED <<phase, available>>
  <2>1. \A x \in Ops \ {o} : state'[x] = state[x]
    BY <1>0, <1>2 DEF OwnStep, DispatchPrompt, SettlePrompt, DeadlineExpires, SettleDeadline, StartCancel,
       CancelObserves, StartRetire, RetireSettles, SetTerminal
  <2> QED
    BY <1>2, <2>1, OwnImplements DEF Ledger!Next
<1>3. ASSUME NEW c \in Tasks, OwnerPublishes(c)
      PROVE  Ledger!Next
  <2>1. /\ ~available /\ ~available'
        /\ \A x \in Ops : IF state[x] = "unknown" THEN state'[x] = "unknown" ELSE state'[x] \in Terminal
    BY <1>3, PublishMoves
  <2>2. \A x \in Ops : Progress(x)' = IF Progress(x) = "unknown" THEN "unknown" ELSE "settled"
    BY <2>1 DEF Progress, Terminal
  <2>3. phase' = [x \in Ops |-> IF phase[x] = "unknown" THEN "unknown" ELSE "settled"]
    BY <2>2 DEF phase
  <2> QED
    BY <2>1, <2>3 DEF Ledger!AnswerAll, Ledger!Next, phase
<1>4. CASE \A x \in Ops : state'[x] = state[x]
  <2>1. phase' = phase
    BY <1>4 DEF phase, Progress
  <2>2. CASE available /\ ~available'
    BY <2>1, <2>2 DEF Ledger!Revoke, Ledger!Next, phase
  <2>3. CASE ~(available /\ ~available')
    BY <2>1, <2>3, OwnerMoves
  <2> QED
    BY <2>2, <2>3
<1> QED
  BY <1>1, <1>2, <1>3, <1>4, StateMoves

(* For every set of operations, sessions and every limit, the service is   *)
(* an implementation of the ledger that callers rely on: admitted once,    *)
(* dispatched once and only while the generation lives, settled for good,  *)
(* and answered in one step when the generation ends (DirectLedger,        *)
(* admit_*, _execute_*, mark_generation_lost).                             *)
THEOREM ServiceIsLedger == Spec => ServiceRefinement
<1>1. Init => Ledger!Init
  <2>1. ASSUME Init
        PROVE  \A o \in Ops : Progress(o) = "unknown"
    BY <2>1 DEF Init, Progress
  <2> QED
    BY <2>1 DEF Ledger!Init, Init
<1>2. IInv /\ OutcomeIInv /\ [Next]_vars => [Ledger!Next]_<<[o \in Ops |-> Progress(o)], ~available>>
  BY LedgerStep DEF phase
<1> QED
  BY <1>1, <1>2, Inductive, OutcomeInductive, PTL DEF Spec, ServiceRefinement, Ledger!Spec
================================================================================
