-------------------------- MODULE DirectServiceProofs --------------------------
(***************************************************************************)
(* Proofs about DirectService for every set of operations and sessions and *)
(* every limit.                                                            *)
(*                                                                         *)
(* The invariants of the service are not inductive on their own: that a    *)
(* session is held by its unsettled work depends on where the tasks are,   *)
(* on who holds prompt_lock, and on nothing of a shutdown being visible    *)
(* while the generation is available.  IInv says all of that together, and *)
(* one lemma for each of its parts shows that every step keeps it.         *)
(***************************************************************************)
EXTENDS DirectService, SequenceTheorems, FiniteSetTheorems, TLAPS

--------------------------------------------------------------------------------
(* The inductive invariant                                                 *)

(* An identity that was never admitted has neither an outcome nor a task.  *)
Fresh ==
    \A o \in Ops : ledger[o] = NoRequest => state[o] = "unknown" /\ pc[o] = "idle"

(* Where the task of an operation is says what kind of operation it is and *)
(* that its record is not settled yet.                                     *)
Places ==
    \A o \in Ops :
        /\ pc[o] = "waiting" => IsPrompt(o)
        /\ pc[o] = "running" => IsPrompt(o) /\ state[o] \in {"running", "cancelling"}
        /\ pc[o] = "retiring" => Kind(o) = "retire" /\ state[o] = "running"
        /\ pc[o] = "scheduled" => Kind(o) \in {"cancel", "retire"} /\ state[o] = "accepted"

(* A prompt past its queue holds prompt_lock.                              *)
Holding == {"running", "sending", "stopping", "grace", "closing", "cleaning", "joining"}

LockHeld ==
    \A o \in Ops : IsPrompt(o) /\ pc[o] \in Holding => fifo # << >> /\ Head(fifo) = o

(* Only a quarantined generation has a shutdown owner or cancelled tasks.  *)
Revoked ==
    available =>
        /\ owner = NoOp
        /\ ~shutdownDone
        /\ cancelled = {}
        /\ interrupted = {}
        /\ \A o \in Ops : collector[o] # "aborted"
        /\ \A c \in Tasks : pc[c] # "cleaning"

(* While the native cleanup runs no other execution task is left.          *)
Alone ==
    \A c \in Tasks : pc[c] = "cleaning" => \A o \in Ops \ {c} : pc[o] \notin Suspended

(* While the generation is available a live turn belongs to a prompt that  *)
(* is past its queue, and a prompt in the queue has none.                  *)
Turns ==
    \A o \in Ops :
        /\ ledger[o] = NoRequest => collector[o] = "none"
        /\ pc[o] = "waiting" => /\ collector[o] = "none"
                               /\ state[o] \in {"accepted", "queued"} \cup Terminal
        /\ available /\ collector[o] \in LiveTurn =>
                IsPrompt(o) /\ pc[o] \in {"running", "sending", "stopping", "grace"}

IInv ==
    /\ TypeOK
    /\ Fresh
    /\ Places
    /\ LockHeld
    /\ Revoked
    /\ Alone
    /\ SessionExclusion
    /\ Turns

--------------------------------------------------------------------------------
(* The requests are records of the four shapes and tell their kind.        *)
LEMMA RequestShapes ==
    /\ \A s \in Sessions :
         /\ CreateRequest(s) \in Requests /\ CreateRequest(s).kind = "create"
         /\ RetireRequest(s) \in Requests /\ RetireRequest(s).kind = "retire"
         /\ RetireRequest(s).sess = s
         /\ \A p \in Phases : /\ PromptRequest(s, p) \in Requests
                              /\ PromptRequest(s, p).kind = "prompt"
                              /\ PromptRequest(s, p).sess = s
         /\ \A t \in Ops : /\ CancelRequest(s, t) \in Requests
                           /\ CancelRequest(s, t).kind = "cancel"
                           /\ CancelRequest(s, t).target = t
    /\ NoRequest.kind = "none"
    /\ NoRequest \notin Requests
BY DEF Requests, CreateRequest, RetireRequest, PromptRequest, CancelRequest, NoRequest, Phases

(* A recorded request is of one of the kinds; only NoRequest has none.     *)
LEMMA RequestFields ==
    ASSUME NEW r \in Requests \cup {NoRequest}
    PROVE  /\ r.kind \in {"create", "prompt", "cancel", "retire", "none"}
           /\ r.kind = "none" <=> r = NoRequest
           /\ r # NoRequest => r \in Requests /\ r.sess \in Sessions
BY DEF Requests, NoRequest

(* What revoking the generation leaves behind has the declared types.      *)
LEMMA TakeOverTypes ==
    ASSUME TypeOK, NEW c \in Tasks,
           NEW place \in [Tasks -> Suspended \cup {"idle", "done"}],
           TakeOver(c, place)
    PROVE  /\ available' \in BOOLEAN
           /\ owner' \in Tasks \cup {NoOp}
           /\ sessState' \in [Sessions -> SessionStates \cup {"absent"}]
           /\ cancelled' \subseteq Ops
           /\ interrupted' \subseteq Ops
           /\ pc' \in [Tasks -> Suspended \cup {"idle", "done"}]
<1>1. available' \in BOOLEAN /\ owner' \in Tasks \cup {NoOp}
  BY DEF TakeOver
<1>2. sessState' \in [Sessions -> SessionStates \cup {"absent"}]
  BY DEF TakeOver, TypeOK, NativeTypeOK, SessionStates
<1>3. cancelled' \subseteq Ops
  BY DEF TakeOver
<1>4. interrupted' \subseteq Ops
  BY DEF TakeOver, LiveTurns
<1>5. pc' \in [Tasks -> Suspended \cup {"idle", "done"}]
  BY DEF TakeOver, Suspended
<1> QED
  BY <1>1, <1>2, <1>3, <1>4, <1>5

(* So does a quarantine, whether it owns the shutdown or joins it.         *)
LEMMA QuarantineTypes ==
    ASSUME TypeOK, NEW c \in Tasks, NEW outcome \in Terminal, Quarantine(c, outcome)
    PROVE  /\ available' \in BOOLEAN
           /\ owner' \in Tasks \cup {NoOp}
           /\ verdict' \in Terminal
           /\ sessState' \in [Sessions -> SessionStates \cup {"absent"}]
           /\ cancelled' \subseteq Ops
           /\ interrupted' \subseteq Ops
           /\ pc' \in [Tasks -> Suspended \cup {"idle", "done"}]
<1>1. CASE available
  BY <1>1, TakeOverTypes DEF TypeOK, NativeTypeOK, Quarantine
<1>2. CASE ~available
  BY <1>2 DEF TypeOK, NativeTypeOK, Quarantine, Join, Suspended
<1> QED
  BY <1>1, <1>2

(* Releasing a reservation keeps the types of the queue's account.         *)
LEMMA ReleaseTypes ==
    ASSUME TypeOK, NEW o \in Ops, Release(o)
    PROVE  released' \subseteq Ops /\ reservations' \in Int
BY DEF TypeOK, NativeTypeOK, Release

(* So does what a task does when the shutdown is done.                     *)
LEMMA LeaveTypes ==
    ASSUME TypeOK, NEW c \in Tasks, Leave(c)
    PROVE  /\ active' \in [Sessions -> Ops \cup {NoOp}]
           /\ sessState' \in [Sessions -> SessionStates \cup {"absent"}]
           /\ released' \subseteq Ops
           /\ reservations' \in Int
<1>1. CASE c \in Ops /\ IsPrompt(c)
  BY <1>1, ReleaseTypes DEF TypeOK, NativeTypeOK, Leave, LeaveLost, SessionStates
<1>2. CASE ~(c \in Ops /\ IsPrompt(c))
  BY <1>2 DEF TypeOK, NativeTypeOK, Leave
<1> QED
  BY <1>1, <1>2

(* An abort leaves the loss task where it was or schedules it.             *)
LEMMA LossAfterAbortPlace ==
    ASSUME TypeOK
    PROVE  /\ LossAfterAbort \in Suspended \cup {"idle", "done"}
           /\ [pc EXCEPT ![Loss] = LossAfterAbort]
                \in [Tasks -> Suspended \cup {"idle", "done"}]
BY DEF TypeOK, NativeTypeOK, LossAfterAbort, Suspended, Tasks

(* A step of the native client that keeps its continuity moves no task.    *)
LEMMA QuietMove ==
    ASSUME TypeOK, NativeMoves, UNCHANGED alive
    PROVE  UNCHANGED pc
<1>1. CASE alive
  BY <1>1 DEF NativeMoves, TypeOK
<1>2. CASE ~alive
  BY <1>2 DEF NativeMoves, LossAfterAbort, TypeOK
<1> QED
  BY <1>1, <1>2 DEF TypeOK, NativeTypeOK

(* Whatever the native client does, at most the loss task is scheduled.    *)
LEMMA LossMove ==
    ASSUME TypeOK, NativeMoves
    PROVE  /\ pc' \in [Tasks -> Suspended \cup {"idle", "done"}]
           /\ pc'[Loss] \in {pc[Loss], "scheduled"}
           /\ \A c \in Tasks \ {Loss} : pc'[c] = pc[c]
BY LossAfterAbortPlace DEF NativeMoves, LossAfterAbort, TypeOK, Tasks, Suspended

(* The same when the aborting task ends in the step.                       *)
LEMMA AbortPlaces ==
    ASSUME TypeOK, NEW o \in Ops
    PROVE  [pc EXCEPT ![o] = "done", ![Loss] = LossAfterAbort]
                \in [Tasks -> Suspended \cup {"idle", "done"}]
<1>1. pc \in [Tasks -> Suspended \cup {"idle", "done"}]
  BY DEF TypeOK, NativeTypeOK
<1>2. LossAfterAbort \in Suspended \cup {"idle", "done"}
  BY LossAfterAbortPlace
<1>3. "done" \in Suspended \cup {"idle", "done"}
  OBVIOUS
<1> QED
  BY <1>1, <1>2, <1>3

(* An admitted operation belongs to a session.                             *)
LEMMA AdmittedFields ==
    ASSUME TypeOK, NEW o \in Ops, ledger[o] # NoRequest
    PROVE  ledger[o] \in Requests /\ Sess(o) \in Sessions
BY RequestFields DEF TypeOK, NativeTypeOK, Sess

(* An identity without a kind was not admitted.                            *)
LEMMA KindAdmitted ==
    ASSUME TypeOK, NEW o \in Ops
    PROVE  ledger[o] = NoRequest <=> Kind(o) = "none"
BY RequestFields DEF TypeOK, NativeTypeOK, Kind

(* A prompt past its queue is the first of fifo, which it can release.     *)
LEMMA TailOfLock ==
    ASSUME IInv, NEW o \in Ops, IsPrompt(o), pc[o] \in Holding
    PROVE  fifo # << >> /\ Head(fifo) = o /\ Tail(fifo) \in Seq(Ops)
BY DEF IInv, TypeOK, NativeTypeOK, LockHeld

(* Every step keeps the declared types.                                    *)
LEMMA TypeStep ==
    ASSUME IInv, [Next]_vars
    PROVE  TypeOK'
<1>0. TypeOK
  BY DEF IInv
<1> USE <1>0 DEF TypeOK, NativeTypeOK, Tasks, Suspended, OperationStates, SessionStates, Terminal,
           LiveTurn, TurnOutcomes, TurnErrors, ledgerVars, sessionVars, queueVars,
           taskVars, closingVars, nativeVars
<1>1. ASSUME NEW o \in Ops, NEW s \in Sessions, AdmitCreate(o, s)
      PROVE  TypeOK'
  <2>1. CreateRequest(s) \in Requests
    BY RequestShapes
  <2>2. ledger' \in [Ops -> Requests \cup {NoRequest}]
    BY <1>1, <2>1 DEF AdmitCreate
  <2>3. state' \in [Ops -> OperationStates \cup {"unknown"}]
    BY <1>1 DEF AdmitCreate
  <2>4. sessState' \in [Sessions -> SessionStates \cup {"absent"}]
    BY <1>1 DEF AdmitCreate
  <2>5. allocated' \subseteq Sessions
    BY <1>1 DEF AdmitCreate
  <2> QED
    BY <1>1, <2>2, <2>3, <2>4, <2>5 DEF AdmitCreate
<1>2. ASSUME NEW o \in Ops, NEW s \in Sessions, NEW p \in Phases,
             AdmitPrompt(o, s, p)
      PROVE  TypeOK'
  BY <1>2, RequestShapes DEF AdmitPrompt
<1>3. ASSUME NEW o \in Ops, NEW s \in Sessions, AdmitRetire(o, s)
      PROVE  TypeOK'
  BY <1>3, RequestShapes DEF AdmitRetire
<1>4. ASSUME NEW o \in Ops, NEW t \in Ops, AdmitCancel(o, t)
      PROVE  TypeOK'
  <2>1. ledger[t] # NoRequest
    BY <1>4, KindAdmitted DEF AdmitCancel, IsPrompt
  <2>2. CancelRequest(Sess(t), t) \in Requests
    BY <2>1, AdmittedFields, RequestShapes
  <2>3. ledger' \in [Ops -> Requests \cup {NoRequest}]
    BY <1>4, <2>2 DEF AdmitCancel
  <2>4. CASE CancelQueued(o, t)
    BY <1>4, <2>3, <2>4, ReleaseTypes DEF AdmitCancel, CancelQueued
  <2>5. CASE CancelSettled(o, t)
    BY <1>4, <2>3, <2>5 DEF AdmitCancel, CancelSettled
  <2>6. CASE CancelDispatched(o, t)
    BY <1>4, <2>3, <2>6 DEF AdmitCancel, CancelDispatched
  <2> QED
    BY <1>4, <2>4, <2>5, <2>6 DEF AdmitCancel
<1>5. ASSUME NEW o \in Ops, DrainCancelled(o)
      PROVE  TypeOK'
  <2>1. Tail(fifo) \in Seq(Ops)
    BY <1>5 DEF DrainCancelled, HoldsLock
  <2> QED
    BY <1>5, <2>1, ReleaseTypes DEF DrainCancelled
<1>6. ASSUME NEW o \in Ops, DispatchPrompt(o)
      PROVE  TypeOK'
  BY <1>6 DEF DispatchPrompt, RunTurn
<1>7. ASSUME NEW o \in Ops, SettlePrompt(o)
      PROVE  TypeOK'
  <2>1. IsPrompt(o) /\ ledger[o] # NoRequest
    BY <1>7, KindAdmitted DEF IInv, Places, SettlePrompt, IsPrompt
  <2>2. Tail(fifo) \in Seq(Ops)
    BY <1>7, <2>1, TailOfLock DEF SettlePrompt, Holding
  <2>3. Sess(o) \in Sessions
    BY <2>1, AdmittedFields
  <2>4. released' \subseteq Ops /\ reservations' \in Int
    BY <1>7, ReleaseTypes DEF SettlePrompt
  <2>5. state' \in [Ops -> OperationStates \cup {"unknown"}]
    BY <1>7 DEF SettlePrompt, SetTerminal, Published
  <2> QED
    BY <1>7, <2>2, <2>3, <2>4, <2>5 DEF SettlePrompt
<1>8. ASSUME NEW o \in Ops, MismatchedTerminal(o)
      PROVE  TypeOK'
  BY <1>8, QuarantineTypes DEF MismatchedTerminal
<1>9. ASSUME NEW o \in Ops, TurnRaised(o)
      PROVE  TypeOK'
  BY <1>9, QuarantineTypes DEF TurnRaised
<1>10. ASSUME NEW o \in Ops, DeadlineExpires(o)
      PROVE  TypeOK'
  BY <1>10 DEF DeadlineExpires, SendFrom, LiveTurns
<1>11. ASSUME NEW o \in Ops, SettleDeadline(o)
      PROVE  TypeOK'
  <2>1. Tail(fifo) \in Seq(Ops)
    BY <1>11, TailOfLock DEF SettleDeadline, Holding
  <2>2. released' \subseteq Ops /\ reservations' \in Int
    BY <1>11, ReleaseTypes DEF SettleDeadline
  <2>3. state' \in [Ops -> OperationStates \cup {"unknown"}]
    BY <1>11 DEF SettleDeadline, SetTerminal
  <2> QED
    BY <1>11, <2>1, <2>2, <2>3 DEF SettleDeadline
<1>12. ASSUME NEW o \in Ops, DeadlineUncertain(o)
      PROVE  TypeOK'
  BY <1>12, QuarantineTypes DEF DeadlineUncertain
<1>13. ASSUME NEW o \in Ops, PromptSendFails(o)
      PROVE  TypeOK'
  BY <1>13, QuarantineTypes DEF PromptSendFails
<1>14. ASSUME NEW o \in Ops, PromptCancelled(o)
      PROVE  TypeOK'
  BY <1>14, ReleaseTypes DEF PromptCancelled, LeaveLost
<1>15. ASSUME NEW o \in Ops, StartCancel(o)
      PROVE  TypeOK'
  BY <1>15 DEF StartCancel, SendFrom, LiveTurns
<1>16. ASSUME NEW o \in Ops, CancelObserves(o)
      PROVE  TypeOK'
  BY <1>16 DEF CancelObserves, SetTerminal
<1>17. ASSUME NEW o \in Ops, CancelUncertain(o)
      PROVE  TypeOK'
  BY <1>17, TakeOverTypes DEF CancelUncertain, Join, CancelOutcome
<1>18. ASSUME NEW o \in Ops, CancelCancelled(o)
      PROVE  TypeOK'
  BY <1>18 DEF CancelCancelled
<1>19. ASSUME NEW o \in Ops, StartRetire(o)
      PROVE  TypeOK'
  BY <1>19, QuarantineTypes DEF StartRetire
<1>20. ASSUME NEW o \in Ops, RetireSettles(o)
      PROVE  TypeOK'
  BY <1>20 DEF RetireSettles, SetTerminal
<1>21. ASSUME NEW o \in Ops, RetireFails(o)
      PROVE  TypeOK'
  BY <1>21, TakeOverTypes, LossAfterAbortPlace DEF RetireFails
<1>22. ASSUME NEW o \in Ops, RetireCancelled(o)
      PROVE  TypeOK'
  <2>1. CASE pc[o] = "retiring"
    <3>1. pc' = [pc EXCEPT ![o] = "done", ![Loss] = LossAfterAbort]
      BY <1>22, <2>1 DEF RetireCancelled
    <3>2. pc' \in [Tasks -> Suspended \cup {"idle", "done"}]
      BY <3>1, AbortPlaces, Zenon
    <3>3. active' = [active EXCEPT ![Sess(o)] = IF @ = o THEN NoOp ELSE @] /\ alive' = FALSE
      BY <1>22, <2>1 DEF RetireCancelled
    <3>4. active' \in [Sessions -> Ops \cup {NoOp}]
      BY <3>3
    <3>5. UNCHANGED <<ledgerVars, sessState, submitted, allocated, queueVars,
                      closingVars, collector, interrupted, cancelRequested, effect,
                      cleanup>> /\ cancelled' = cancelled \ {o}
      BY <1>22 DEF RetireCancelled
    <3> QED
      BY <3>2, <3>3, <3>4, <3>5
  <2>2. CASE pc[o] # "retiring"
    BY <1>22, <2>2 DEF RetireCancelled
  <2> QED
    BY <2>1, <2>2
<1>23. ASSUME NEW o \in Ops, SendReturns(o)
      PROVE  TypeOK'
  BY <1>23 DEF SendReturns
<1>24. ASSUME NEW o \in Ops, SendStops(o)
      PROVE  TypeOK'
  BY <1>24, LossAfterAbortPlace DEF SendStops, StopClient, CleanupStarted, StopRequested, LiveTurns
<1>25. ASSUME NEW o \in Ops, CancellationAbsorbed(o)
      PROVE  TypeOK'
  BY <1>25 DEF CancellationAbsorbed
<1>26. ASSUME NEW c \in Tasks, CallerCloses(c)
      PROVE  TypeOK'
  BY <1>26, QuarantineTypes DEF CallerCloses
<1>27. ASSUME NEW c \in Tasks, OwnerStops(c)
      PROVE  TypeOK'
  BY <1>27, LossAfterAbortPlace DEF OwnerStops, StopClient, CleanupStarted, StopRequested, LiveTurns
<1>28. ASSUME NEW c \in Tasks, OwnerPublishes(c)
      PROVE  TypeOK'
  BY <1>28, LeaveTypes DEF OwnerPublishes, Deferred
<1>29. ASSUME NEW c \in Tasks, JoinerLeaves(c)
      PROVE  TypeOK'
  BY <1>29, LeaveTypes DEF JoinerLeaves
<1>30. ASSUME NEW o \in Ops, NativeMoves,
              BeginEffect(o) \/ EndEffect(o) \/ CancelTurn(o) \/ AbsorbTurn(o)
      PROVE  TypeOK'
  BY <1>30, QuietMove DEF NativeMoves, BeginEffect, EndEffect, CancelTurn, AbsorbTurn
<1>31. ASSUME NEW o \in Ops, NEW outcome \in TurnOutcomes, NativeMoves,
              SettleTurn(o, outcome)
      PROVE  TypeOK'
  BY <1>31, QuietMove DEF NativeMoves, SettleTurn, TurnOutcomes
<1>32. ASSUME NEW o \in Ops, NativeMoves, StopTurn(o)
      PROVE  TypeOK'
  BY <1>32, LossMove DEF NativeMoves, StopTurn, CleanupStarted, StopRequested, LiveTurns
<1>33. ASSUME NEW o \in Ops, NativeMoves, RaiseTurn(o)
      PROVE  TypeOK'
  BY <1>33, QuietMove DEF NativeMoves, RaiseTurn
<1>34. ASSUME NativeMoves, EndCleanup
      PROVE  TypeOK'
  BY <1>34, QuietMove DEF NativeMoves, EndCleanup
<1>35. ASSUME NativeMoves, LoseChild
      PROVE  TypeOK'
  BY <1>35, LossMove DEF NativeMoves, LoseChild
<1>36. ASSUME UNCHANGED vars
      PROVE  TypeOK'
  BY <1>36 DEF vars
<1> QED
  BY <1>1, <1>2, <1>3, <1>4, <1>5, <1>6, <1>7, <1>8, <1>9, <1>10, <1>11, <1>12, <1>13,
     <1>14, <1>15, <1>16, <1>17, <1>18, <1>19, <1>20, <1>21, <1>22, <1>23, <1>24, <1>25,
     <1>26, <1>27, <1>28, <1>29, <1>30, <1>31, <1>32, <1>33, <1>34, <1>35, <1>36
     DEF Next, Admission, TaskStep, PromptStep, CancelStep, RetireStep, SendStep,
         ClosingStep, TurnStep

--------------------------------------------------------------------------------
(* Taking over the shutdown revokes the generation.                        *)
LEMMA TakeOverMoves ==
    ASSUME NEW c, NEW place, TakeOver(c, place)
    PROVE  ~available' /\ pc' = [place EXCEPT ![c] = "closing"]
BY DEF TakeOver

(* So does a quarantine, which moves only its own task.                    *)
LEMMA QuarantineMoves ==
    ASSUME NEW c, NEW outcome, Quarantine(c, outcome)
    PROVE  /\ ~available'
           /\ \/ pc' = [pc EXCEPT ![c] = "closing"]
              \/ pc' = [pc EXCEPT ![c] = "joining"]
BY DEF Quarantine, TakeOver, Join

(* A new cancellation is not its own target and names a prompt.            *)
LEMMA NewCancel ==
    ASSUME IInv, NEW o \in Ops, NEW t \in Ops, AdmitCancel(o, t)
    PROVE  /\ o # t
           /\ ledger[o] = NoRequest /\ state[o] = "unknown" /\ pc[o] = "idle"
           /\ ledger[t].kind = "prompt"
           /\ ledger'[o].kind = "cancel"
           /\ \A x \in Ops \ {o} : ledger'[x] = ledger[x]
           /\ UNCHANGED <<available, fifo, collector>>
<1>1. ledger[o] = NoRequest /\ ledger[t].kind = "prompt"
  BY DEF AdmitCancel, LedgerAdmits, IsPrompt, Kind
<1>2. o # t /\ ledger[t] # NoRequest
  BY <1>1, RequestShapes
<1>3. CancelRequest(Sess(t), t).kind = "cancel"
  BY DEF CancelRequest
<1> QED
  BY <1>1, <1>2, <1>3 DEF IInv, TypeOK, NativeTypeOK, Fresh, AdmitCancel, closingVars, nativeVars

(* A task goes to a place only from one where its record was of the right  *)
(* kind and not settled; nobody else settles the record of a task that is  *)
(* still in such a place.                                                  *)
LEMMA PlacesStep ==
    ASSUME IInv, [Next]_vars, TypeOK'
    PROVE  Fresh' /\ Places'
<1>0. TypeOK /\ Fresh /\ Places /\ Alone /\ Revoked
  BY DEF IInv
<1> USE <1>0, IdentityAssumption, QuarantineMoves, TakeOverMoves
        DEF TypeOK, NativeTypeOK, Tasks, Fresh, Places, Kind, IsPrompt, ledgerVars, sessionVars,
            queueVars, taskVars, closingVars, nativeVars
<1>1. ASSUME NEW o \in Ops, NEW s \in Sessions, AdmitCreate(o, s)
      PROVE  Fresh' /\ Places'
  BY <1>1, RequestShapes DEF AdmitCreate, LedgerAdmits, MayAdmit
<1>2. ASSUME NEW o \in Ops, NEW s \in Sessions, NEW p \in Phases,
             AdmitPrompt(o, s, p)
      PROVE  Fresh' /\ Places'
  BY <1>2, RequestShapes DEF AdmitPrompt, LedgerAdmits
<1>3. ASSUME NEW o \in Ops, NEW s \in Sessions, AdmitRetire(o, s)
      PROVE  Fresh' /\ Places'
  BY <1>3, RequestShapes DEF AdmitRetire, LedgerAdmits
<1>4. ASSUME NEW o \in Ops, NEW t \in Ops, AdmitCancel(o, t)
      PROVE  Fresh' /\ Places'
  <2>1. /\ o # t
        /\ ledger[o] = NoRequest /\ state[o] = "unknown" /\ pc[o] = "idle"
        /\ ledger[t].kind = "prompt"
        /\ ledger'[o].kind = "cancel"
        /\ \A x \in Ops \ {o} : ledger'[x] = ledger[x]
        /\ UNCHANGED <<available, fifo, collector>>
    BY <1>4, NewCancel
  <2>2. CASE CancelQueued(o, t)
    BY <2>1, <2>2, RequestShapes DEF CancelQueued
  <2>3. CASE CancelSettled(o, t)
    BY <2>1, <2>3, RequestShapes DEF CancelSettled
  <2>4. CASE CancelDispatched(o, t)
    BY <2>1, <2>4, RequestShapes DEF CancelDispatched
  <2> QED
    BY <1>4, <2>2, <2>3, <2>4 DEF AdmitCancel
<1>5. ASSUME NEW o \in Ops, DrainCancelled(o)
      PROVE  Fresh' /\ Places'
  BY <1>5 DEF DrainCancelled, HoldsLock
<1>6. ASSUME NEW o \in Ops, DispatchPrompt(o)
      PROVE  Fresh' /\ Places'
  BY <1>6 DEF DispatchPrompt, RunTurn, HoldsLock
<1>7. ASSUME NEW o \in Ops, SettlePrompt(o)
      PROVE  Fresh' /\ Places'
  BY <1>7 DEF SettlePrompt, SetTerminal
<1>8. ASSUME NEW o \in Ops, MismatchedTerminal(o)
      PROVE  Fresh' /\ Places'
  BY <1>8 DEF MismatchedTerminal
<1>9. ASSUME NEW o \in Ops, TurnRaised(o)
      PROVE  Fresh' /\ Places'
  BY <1>9 DEF TurnRaised
<1>10. ASSUME NEW o \in Ops, DeadlineExpires(o)
      PROVE  Fresh' /\ Places'
  BY <1>10 DEF DeadlineExpires, SendFrom
<1>11. ASSUME NEW o \in Ops, SettleDeadline(o)
      PROVE  Fresh' /\ Places'
  BY <1>11 DEF SettleDeadline, SetTerminal
<1>12. ASSUME NEW o \in Ops, DeadlineUncertain(o)
      PROVE  Fresh' /\ Places'
  BY <1>12 DEF DeadlineUncertain
<1>13. ASSUME NEW o \in Ops, PromptSendFails(o)
      PROVE  Fresh' /\ Places'
  BY <1>13, RequestShapes DEF PromptSendFails, StopRaised, Sending
<1>14. ASSUME NEW o \in Ops, PromptCancelled(o)
      PROVE  Fresh' /\ Places'
  BY <1>14, RequestShapes DEF PromptCancelled
<1>15. ASSUME NEW o \in Ops, StartCancel(o)
      PROVE  Fresh' /\ Places'
  BY <1>15 DEF StartCancel, SendFrom
<1>16. ASSUME NEW o \in Ops, CancelObserves(o)
      PROVE  Fresh' /\ Places'
  BY <1>16 DEF CancelObserves, SetTerminal
<1>17. ASSUME NEW o \in Ops, CancelUncertain(o)
      PROVE  Fresh' /\ Places'
  BY <1>17, RequestShapes DEF CancelUncertain, Join, StopRaised, Sending
<1>18. ASSUME NEW o \in Ops, CancelCancelled(o)
      PROVE  Fresh' /\ Places'
  BY <1>18, RequestShapes DEF CancelCancelled
<1>19. ASSUME NEW o \in Ops, StartRetire(o)
      PROVE  Fresh' /\ Places'
  BY <1>19 DEF StartRetire
<1>20. ASSUME NEW o \in Ops, RetireSettles(o)
      PROVE  Fresh' /\ Places'
  BY <1>20 DEF RetireSettles, SetTerminal
<1>21. ASSUME NEW o \in Ops, RetireFails(o)
      PROVE  Fresh' /\ Places'
  BY <1>21 DEF RetireFails
<1>22. ASSUME NEW o \in Ops, RetireCancelled(o)
      PROVE  Fresh' /\ Places'
  BY <1>22, RequestShapes DEF RetireCancelled
<1>23. ASSUME NEW o \in Ops, SendReturns(o)
      PROVE  Fresh' /\ Places'
  BY <1>23 DEF SendReturns, Sending
<1>24. ASSUME NEW o \in Ops, SendStops(o)
      PROVE  Fresh' /\ Places'
  BY <1>24 DEF SendStops, StopClient, Sending
<1>25. ASSUME NEW o \in Ops, CancellationAbsorbed(o)
      PROVE  Fresh' /\ Places'
  BY <1>25 DEF CancellationAbsorbed
<1>26. ASSUME NEW c \in Tasks, CallerCloses(c)
      PROVE  Fresh' /\ Places'
  BY <1>26 DEF CallerCloses
<1>27. ASSUME NEW c \in Tasks, OwnerStops(c)
      PROVE  Fresh' /\ Places'
  BY <1>27 DEF OwnerStops, StopClient
<1>28. ASSUME NEW c \in Tasks, OwnerPublishes(c)
      PROVE  Fresh' /\ Places'
  BY <1>28 DEF OwnerPublishes, Deferred, Alone, Suspended, Settled
<1>29. ASSUME NEW c \in Tasks, JoinerLeaves(c)
      PROVE  Fresh' /\ Places'
  BY <1>29 DEF JoinerLeaves
<1>30. ASSUME NEW o \in Ops, NativeMoves,
              BeginEffect(o) \/ EndEffect(o) \/ CancelTurn(o) \/ AbsorbTurn(o)
      PROVE  Fresh' /\ Places'
  BY <1>30, QuietMove DEF NativeMoves, BeginEffect, EndEffect, CancelTurn, AbsorbTurn
<1>31. ASSUME NEW o \in Ops, NEW outcome \in TurnOutcomes, NativeMoves,
              SettleTurn(o, outcome)
      PROVE  Fresh' /\ Places'
  BY <1>31, QuietMove DEF NativeMoves, SettleTurn, TurnOutcomes
<1>32. ASSUME NEW o \in Ops, NativeMoves, StopTurn(o)
      PROVE  Fresh' /\ Places'
  BY <1>32, LossMove DEF NativeMoves, StopTurn
<1>33. ASSUME NEW o \in Ops, NativeMoves, RaiseTurn(o)
      PROVE  Fresh' /\ Places'
  BY <1>33, QuietMove DEF NativeMoves, RaiseTurn
<1>34. ASSUME NativeMoves, EndCleanup
      PROVE  Fresh' /\ Places'
  BY <1>34, QuietMove DEF NativeMoves, EndCleanup
<1>35. ASSUME NativeMoves, LoseChild
      PROVE  Fresh' /\ Places'
  BY <1>35, LossMove DEF NativeMoves, LoseChild
<1>36. ASSUME UNCHANGED vars
      PROVE  Fresh' /\ Places'
  BY <1>36 DEF vars
<1> QED
  BY <1>1, <1>2, <1>3, <1>4, <1>5, <1>6, <1>7, <1>8, <1>9, <1>10, <1>11, <1>12, <1>13,
     <1>14, <1>15, <1>16, <1>17, <1>18, <1>19, <1>20, <1>21, <1>22, <1>23, <1>24, <1>25,
     <1>26, <1>27, <1>28, <1>29, <1>30, <1>31, <1>32, <1>33, <1>34, <1>35, <1>36
     DEF Next, Admission, TaskStep, PromptStep, CancelStep, RetireStep, SendStep,
         ClosingStep, TurnStep

(* Whatever belongs to a shutdown appears only with the revocation, and    *)
(* the owner starts the cleanup only when it is alone.                     *)
LEMMA RevokedStep ==
    ASSUME IInv, [Next]_vars, TypeOK'
    PROVE  Revoked' /\ Alone'
<1>0. TypeOK /\ Fresh /\ Places /\ Alone /\ Revoked
  BY DEF IInv
<1> USE <1>0, IdentityAssumption, QuarantineMoves, TakeOverMoves
        DEF TypeOK, NativeTypeOK, Tasks, Alone, Revoked, Suspended, ledgerVars, sessionVars,
            queueVars, taskVars, closingVars, nativeVars
<1>1. ASSUME NEW o \in Ops, NEW s \in Sessions, AdmitCreate(o, s)
      PROVE  Revoked' /\ Alone'
  BY <1>1 DEF AdmitCreate, MayAdmit
<1>2. ASSUME NEW o \in Ops, NEW s \in Sessions, NEW p \in Phases,
             AdmitPrompt(o, s, p)
      PROVE  Revoked' /\ Alone'
  BY <1>2 DEF AdmitPrompt, MayAdmit
<1>3. ASSUME NEW o \in Ops, NEW s \in Sessions, AdmitRetire(o, s)
      PROVE  Revoked' /\ Alone'
  BY <1>3 DEF AdmitRetire, MayAdmit
<1>4. ASSUME NEW o \in Ops, NEW t \in Ops, AdmitCancel(o, t)
      PROVE  Revoked' /\ Alone'
  BY <1>4 DEF AdmitCancel, CancelQueued, CancelSettled, CancelDispatched, MayAdmit
<1>5. ASSUME NEW o \in Ops, DrainCancelled(o)
      PROVE  Revoked' /\ Alone'
  BY <1>5 DEF DrainCancelled, HoldsLock
<1>6. ASSUME NEW o \in Ops, DispatchPrompt(o)
      PROVE  Revoked' /\ Alone'
  BY <1>6 DEF DispatchPrompt, RunTurn, HoldsLock, LiveTurns
<1>7. ASSUME NEW o \in Ops, SettlePrompt(o)
      PROVE  Revoked' /\ Alone'
  BY <1>7 DEF SettlePrompt
<1>8. ASSUME NEW o \in Ops, MismatchedTerminal(o)
      PROVE  Revoked' /\ Alone'
  BY <1>8 DEF MismatchedTerminal
<1>9. ASSUME NEW o \in Ops, TurnRaised(o)
      PROVE  Revoked' /\ Alone'
  BY <1>9 DEF TurnRaised
<1>10. ASSUME NEW o \in Ops, DeadlineExpires(o)
      PROVE  Revoked' /\ Alone'
  BY <1>10 DEF DeadlineExpires, SendFrom
<1>11. ASSUME NEW o \in Ops, SettleDeadline(o)
      PROVE  Revoked' /\ Alone'
  BY <1>11 DEF SettleDeadline
<1>12. ASSUME NEW o \in Ops, DeadlineUncertain(o)
      PROVE  Revoked' /\ Alone'
  BY <1>12 DEF DeadlineUncertain
<1>13. ASSUME NEW o \in Ops, PromptSendFails(o)
      PROVE  Revoked' /\ Alone'
  BY <1>13 DEF PromptSendFails, StopRaised, Sending
<1>14. ASSUME NEW o \in Ops, PromptCancelled(o)
      PROVE  Revoked' /\ Alone'
  BY <1>14 DEF PromptCancelled
<1>15. ASSUME NEW o \in Ops, StartCancel(o)
      PROVE  Revoked' /\ Alone'
  BY <1>15 DEF StartCancel, SendFrom
<1>16. ASSUME NEW o \in Ops, CancelObserves(o)
      PROVE  Revoked' /\ Alone'
  BY <1>16 DEF CancelObserves
<1>17. ASSUME NEW o \in Ops, CancelUncertain(o)
      PROVE  Revoked' /\ Alone'
  BY <1>17 DEF CancelUncertain, Join, StopRaised, Sending
<1>18. ASSUME NEW o \in Ops, CancelCancelled(o)
      PROVE  Revoked' /\ Alone'
  BY <1>18 DEF CancelCancelled
<1>19. ASSUME NEW o \in Ops, StartRetire(o)
      PROVE  Revoked' /\ Alone'
  BY <1>19 DEF StartRetire
<1>20. ASSUME NEW o \in Ops, RetireSettles(o)
      PROVE  Revoked' /\ Alone'
  BY <1>20 DEF RetireSettles
<1>21. ASSUME NEW o \in Ops, RetireFails(o)
      PROVE  Revoked' /\ Alone'
  BY <1>21 DEF RetireFails, LossAfterAbort
<1>22. ASSUME NEW o \in Ops, RetireCancelled(o)
      PROVE  Revoked' /\ Alone'
  BY <1>22 DEF RetireCancelled, LossAfterAbort
<1>23. ASSUME NEW o \in Ops, SendReturns(o)
      PROVE  Revoked' /\ Alone'
  BY <1>23 DEF SendReturns, Sending
<1>24. ASSUME NEW o \in Ops, SendStops(o)
      PROVE  Revoked' /\ Alone'
  BY <1>24 DEF SendStops, StopClient, Sending, LossAfterAbort
<1>25. ASSUME NEW o \in Ops, CancellationAbsorbed(o)
      PROVE  Revoked' /\ Alone'
  BY <1>25 DEF CancellationAbsorbed
<1>26. ASSUME NEW c \in Tasks, CallerCloses(c)
      PROVE  Revoked' /\ Alone'
  BY <1>26 DEF CallerCloses
<1>27. ASSUME NEW c \in Tasks, OwnerStops(c)
      PROVE  Revoked' /\ Alone'
  BY <1>27 DEF OwnerStops, StopClient, Gathered
<1>28. ASSUME NEW c \in Tasks, OwnerPublishes(c)
      PROVE  Revoked' /\ Alone'
  BY <1>28 DEF OwnerPublishes
<1>29. ASSUME NEW c \in Tasks, JoinerLeaves(c)
      PROVE  Revoked' /\ Alone'
  BY <1>29 DEF JoinerLeaves
<1>30. ASSUME NEW o \in Ops, NativeMoves,
              BeginEffect(o) \/ EndEffect(o) \/ CancelTurn(o) \/ AbsorbTurn(o)
      PROVE  Revoked' /\ Alone'
  BY <1>30, QuietMove DEF NativeMoves, BeginEffect, EndEffect, CancelTurn, AbsorbTurn
<1>31. ASSUME NEW o \in Ops, NEW outcome \in TurnOutcomes, NativeMoves,
              SettleTurn(o, outcome)
      PROVE  Revoked' /\ Alone'
  BY <1>31, QuietMove DEF NativeMoves, SettleTurn, TurnOutcomes
<1>32. ASSUME NEW o \in Ops, NativeMoves, StopTurn(o)
      PROVE  Revoked' /\ Alone'
  BY <1>32, LossMove DEF NativeMoves, StopTurn
<1>33. ASSUME NEW o \in Ops, NativeMoves, RaiseTurn(o)
      PROVE  Revoked' /\ Alone'
  BY <1>33, QuietMove DEF NativeMoves, RaiseTurn
<1>34. ASSUME NativeMoves, EndCleanup
      PROVE  Revoked' /\ Alone'
  BY <1>34, QuietMove DEF NativeMoves, EndCleanup
<1>35. ASSUME NativeMoves, LoseChild
      PROVE  Revoked' /\ Alone'
  BY <1>35, LossMove DEF NativeMoves, LoseChild
<1>36. ASSUME UNCHANGED vars
      PROVE  Revoked' /\ Alone'
  BY <1>36 DEF vars
<1> QED
  BY <1>1, <1>2, <1>3, <1>4, <1>5, <1>6, <1>7, <1>8, <1>9, <1>10, <1>11, <1>12, <1>13,
     <1>14, <1>15, <1>16, <1>17, <1>18, <1>19, <1>20, <1>21, <1>22, <1>23, <1>24, <1>25,
     <1>26, <1>27, <1>28, <1>29, <1>30, <1>31, <1>32, <1>33, <1>34, <1>35, <1>36
     DEF Next, Admission, TaskStep, PromptStep, CancelStep, RetireStep, SendStep,
         ClosingStep, TurnStep

(* prompt_lock passes on only when its holder is done.                     *)
LEMMA LockStep ==
    ASSUME IInv, [Next]_vars, TypeOK'
    PROVE  LockHeld'
<1>0. TypeOK /\ Fresh /\ Places /\ LockHeld
  BY DEF IInv
<1> USE <1>0, IdentityAssumption, QuarantineMoves, TakeOverMoves
        DEF TypeOK, NativeTypeOK, Tasks, LockHeld, Holding, Kind, IsPrompt, ledgerVars, sessionVars,
            queueVars, taskVars, closingVars, nativeVars
<1>1. ASSUME NEW o \in Ops, NEW s \in Sessions, AdmitCreate(o, s)
      PROVE  LockHeld'
  BY <1>1, RequestShapes DEF AdmitCreate, LedgerAdmits
<1>2. ASSUME NEW o \in Ops, NEW s \in Sessions, NEW p \in Phases,
             AdmitPrompt(o, s, p)
      PROVE  LockHeld'
  BY <1>2, RequestShapes DEF AdmitPrompt, LedgerAdmits, Fresh
<1>3. ASSUME NEW o \in Ops, NEW s \in Sessions, AdmitRetire(o, s)
      PROVE  LockHeld'
  BY <1>3, RequestShapes DEF AdmitRetire, LedgerAdmits
<1>4. ASSUME NEW o \in Ops, NEW t \in Ops, AdmitCancel(o, t)
      PROVE  LockHeld'
  <2>1. /\ o # t
        /\ ledger[o] = NoRequest /\ state[o] = "unknown" /\ pc[o] = "idle"
        /\ ledger[t].kind = "prompt"
        /\ ledger'[o].kind = "cancel"
        /\ \A x \in Ops \ {o} : ledger'[x] = ledger[x]
        /\ UNCHANGED <<available, fifo, collector>>
    BY <1>4, NewCancel
  <2>2. CASE CancelQueued(o, t)
    BY <2>1, <2>2 DEF CancelQueued
  <2>3. CASE CancelSettled(o, t)
    BY <2>1, <2>3 DEF CancelSettled
  <2>4. CASE CancelDispatched(o, t)
    BY <2>1, <2>4 DEF CancelDispatched
  <2> QED
    BY <1>4, <2>2, <2>3, <2>4 DEF AdmitCancel
<1>5. ASSUME NEW o \in Ops, DrainCancelled(o)
      PROVE  LockHeld'
  BY <1>5 DEF DrainCancelled, HoldsLock
<1>6. ASSUME NEW o \in Ops, DispatchPrompt(o)
      PROVE  LockHeld'
  BY <1>6 DEF DispatchPrompt, RunTurn, HoldsLock
<1>7. ASSUME NEW o \in Ops, SettlePrompt(o)
      PROVE  LockHeld'
  BY <1>7 DEF SettlePrompt, Places
<1>8. ASSUME NEW o \in Ops, MismatchedTerminal(o)
      PROVE  LockHeld'
  BY <1>8 DEF MismatchedTerminal
<1>9. ASSUME NEW o \in Ops, TurnRaised(o)
      PROVE  LockHeld'
  BY <1>9 DEF TurnRaised
<1>10. ASSUME NEW o \in Ops, DeadlineExpires(o)
      PROVE  LockHeld'
  BY <1>10 DEF DeadlineExpires, SendFrom
<1>11. ASSUME NEW o \in Ops, SettleDeadline(o)
      PROVE  LockHeld'
  BY <1>11 DEF SettleDeadline
<1>12. ASSUME NEW o \in Ops, DeadlineUncertain(o)
      PROVE  LockHeld'
  BY <1>12 DEF DeadlineUncertain
<1>13. ASSUME NEW o \in Ops, PromptSendFails(o)
      PROVE  LockHeld'
  BY <1>13 DEF PromptSendFails, StopRaised, Sending
<1>14. ASSUME NEW o \in Ops, PromptCancelled(o)
      PROVE  LockHeld'
  BY <1>14 DEF PromptCancelled
<1>15. ASSUME NEW o \in Ops, StartCancel(o)
      PROVE  LockHeld'
  BY <1>15 DEF StartCancel, SendFrom
<1>16. ASSUME NEW o \in Ops, CancelObserves(o)
      PROVE  LockHeld'
  BY <1>16 DEF CancelObserves
<1>17. ASSUME NEW o \in Ops, CancelUncertain(o)
      PROVE  LockHeld'
  BY <1>17 DEF CancelUncertain, Join, StopRaised, Sending
<1>18. ASSUME NEW o \in Ops, CancelCancelled(o)
      PROVE  LockHeld'
  BY <1>18 DEF CancelCancelled
<1>19. ASSUME NEW o \in Ops, StartRetire(o)
      PROVE  LockHeld'
  BY <1>19 DEF StartRetire
<1>20. ASSUME NEW o \in Ops, RetireSettles(o)
      PROVE  LockHeld'
  BY <1>20 DEF RetireSettles
<1>21. ASSUME NEW o \in Ops, RetireFails(o)
      PROVE  LockHeld'
  BY <1>21 DEF RetireFails, Places
<1>22. ASSUME NEW o \in Ops, RetireCancelled(o)
      PROVE  LockHeld'
  BY <1>22 DEF RetireCancelled
<1>23. ASSUME NEW o \in Ops, SendReturns(o)
      PROVE  LockHeld'
  BY <1>23 DEF SendReturns, Sending
<1>24. ASSUME NEW o \in Ops, SendStops(o)
      PROVE  LockHeld'
  BY <1>24 DEF SendStops, StopClient, Sending
<1>25. ASSUME NEW o \in Ops, CancellationAbsorbed(o)
      PROVE  LockHeld'
  BY <1>25 DEF CancellationAbsorbed
<1>26. ASSUME NEW c \in Tasks, CallerCloses(c)
      PROVE  LockHeld'
  BY <1>26 DEF CallerCloses
<1>27. ASSUME NEW c \in Tasks, OwnerStops(c)
      PROVE  LockHeld'
  BY <1>27 DEF OwnerStops, StopClient
<1>28. ASSUME NEW c \in Tasks, OwnerPublishes(c)
      PROVE  LockHeld'
  BY <1>28 DEF OwnerPublishes
<1>29. ASSUME NEW c \in Tasks, JoinerLeaves(c)
      PROVE  LockHeld'
  BY <1>29 DEF JoinerLeaves
<1>30. ASSUME NEW o \in Ops, NativeMoves,
              BeginEffect(o) \/ EndEffect(o) \/ CancelTurn(o) \/ AbsorbTurn(o)
      PROVE  LockHeld'
  BY <1>30, QuietMove DEF NativeMoves, BeginEffect, EndEffect, CancelTurn, AbsorbTurn
<1>31. ASSUME NEW o \in Ops, NEW outcome \in TurnOutcomes, NativeMoves,
              SettleTurn(o, outcome)
      PROVE  LockHeld'
  BY <1>31, QuietMove DEF NativeMoves, SettleTurn, TurnOutcomes
<1>32. ASSUME NEW o \in Ops, NativeMoves, StopTurn(o)
      PROVE  LockHeld'
  BY <1>32, LossMove DEF NativeMoves, StopTurn
<1>33. ASSUME NEW o \in Ops, NativeMoves, RaiseTurn(o)
      PROVE  LockHeld'
  BY <1>33, QuietMove DEF NativeMoves, RaiseTurn
<1>34. ASSUME NativeMoves, EndCleanup
      PROVE  LockHeld'
  BY <1>34, QuietMove DEF NativeMoves, EndCleanup
<1>35. ASSUME NativeMoves, LoseChild
      PROVE  LockHeld'
  BY <1>35, LossMove DEF NativeMoves, LoseChild
<1>36. ASSUME UNCHANGED vars
      PROVE  LockHeld'
  BY <1>36 DEF vars
<1> QED
  BY <1>1, <1>2, <1>3, <1>4, <1>5, <1>6, <1>7, <1>8, <1>9, <1>10, <1>11, <1>12, <1>13,
     <1>14, <1>15, <1>16, <1>17, <1>18, <1>19, <1>20, <1>21, <1>22, <1>23, <1>24, <1>25,
     <1>26, <1>27, <1>28, <1>29, <1>30, <1>31, <1>32, <1>33, <1>34, <1>35, <1>36
     DEF Next, Admission, TaskStep, PromptStep, CancelStep, RetireStep, SendStep,
         ClosingStep, TurnStep

(* active_operation_id is set with the admission of the one operation and  *)
(* cleared with its settlement.                                            *)
LEMMA ExclusionStep ==
    ASSUME IInv, [Next]_vars, TypeOK'
    PROVE  SessionExclusion'
<1>0. TypeOK /\ Fresh /\ Places /\ Revoked /\ SessionExclusion
  BY DEF IInv
<1> USE <1>0, IdentityAssumption, QuarantineMoves, TakeOverMoves
        DEF TypeOK, NativeTypeOK, Tasks, SessionExclusion, Work, Sess, Settled, Kind, IsPrompt,
            ledgerVars, sessionVars, queueVars, taskVars, closingVars, nativeVars
<1>1. ASSUME NEW o \in Ops, NEW s \in Sessions, AdmitCreate(o, s)
      PROVE  SessionExclusion'
  BY <1>1, RequestShapes DEF AdmitCreate, LedgerAdmits
<1>2. ASSUME NEW o \in Ops, NEW s \in Sessions, NEW p \in Phases,
             AdmitPrompt(o, s, p)
      PROVE  SessionExclusion'
  BY <1>2, RequestShapes DEF AdmitPrompt, LedgerAdmits, Fresh, SessionIdle, Terminal
<1>3. ASSUME NEW o \in Ops, NEW s \in Sessions, AdmitRetire(o, s)
      PROVE  SessionExclusion'
  BY <1>3, RequestShapes DEF AdmitRetire, LedgerAdmits, SessionIdle, Terminal, Fresh
<1>4. ASSUME NEW o \in Ops, NEW t \in Ops, AdmitCancel(o, t)
      PROVE  SessionExclusion'
  <2>1. /\ o # t
        /\ ledger[o] = NoRequest /\ state[o] = "unknown" /\ pc[o] = "idle"
        /\ ledger[t].kind = "prompt"
        /\ ledger'[o].kind = "cancel"
        /\ \A x \in Ops \ {o} : ledger'[x] = ledger[x]
        /\ UNCHANGED <<available, fifo, collector>>
    BY <1>4, NewCancel
  <2>2. CASE CancelQueued(o, t)
    <3>1. Sess(t) \in Sessions
      BY <2>1, RequestShapes, AdmittedFields
    <3>2. /\ state' = [state EXCEPT ![t] = "cancelled", ![o] = "completed"]
          /\ active' = [active EXCEPT ![Sess(t)] = NoOp]
          /\ state[t] \in {"accepted", "queued"}
      BY <2>2 DEF CancelQueued
    <3>3. available => active[Sess(t)] = t
      <4>1. Work(t) /\ ~Settled(t)
        BY <2>1, <3>2 DEF Terminal
      <4> QED
        BY <3>1, <4>1
    <3>4. \A x \in Ops : Work(x)' /\ ~Settled(x)' <=> Work(x) /\ ~Settled(x) /\ x # t
      BY <2>1, <3>2, RequestShapes DEF Terminal
    <3>5. \A x \in Ops : Work(x)' => Sess(x)' = Sess(x)
      BY <2>1
    <3> QED
      BY <2>1, <3>1, <3>2, <3>3, <3>4, <3>5
  <2>3. CASE CancelSettled(o, t)
    BY <2>1, <2>3, RequestShapes DEF CancelSettled, Terminal
  <2>4. CASE CancelDispatched(o, t)
    BY <2>1, <2>4, RequestShapes DEF CancelDispatched, Terminal
  <2> QED
    BY <1>4, <2>2, <2>3, <2>4 DEF AdmitCancel
<1>5. ASSUME NEW o \in Ops, DrainCancelled(o)
      PROVE  SessionExclusion'
  BY <1>5 DEF DrainCancelled
<1>6. ASSUME NEW o \in Ops, DispatchPrompt(o)
      PROVE  SessionExclusion'
  BY <1>6 DEF DispatchPrompt, RunTurn, Terminal
<1>7. ASSUME NEW o \in Ops, SettlePrompt(o)
      PROVE  SessionExclusion'
  BY <1>7 DEF SettlePrompt, SetTerminal, Terminal, Published, Places
<1>8. ASSUME NEW o \in Ops, MismatchedTerminal(o)
      PROVE  SessionExclusion'
  BY <1>8 DEF MismatchedTerminal
<1>9. ASSUME NEW o \in Ops, TurnRaised(o)
      PROVE  SessionExclusion'
  BY <1>9 DEF TurnRaised
<1>10. ASSUME NEW o \in Ops, DeadlineExpires(o)
      PROVE  SessionExclusion'
  BY <1>10 DEF DeadlineExpires, SendFrom, Terminal, Places
<1>11. ASSUME NEW o \in Ops, SettleDeadline(o)
      PROVE  SessionExclusion'
  BY <1>11 DEF SettleDeadline, SetTerminal, Terminal, Published, Places
<1>12. ASSUME NEW o \in Ops, DeadlineUncertain(o)
      PROVE  SessionExclusion'
  BY <1>12 DEF DeadlineUncertain
<1>13. ASSUME NEW o \in Ops, PromptSendFails(o)
      PROVE  SessionExclusion'
  BY <1>13 DEF PromptSendFails
<1>14. ASSUME NEW o \in Ops, PromptCancelled(o)
      PROVE  SessionExclusion'
  BY <1>14 DEF PromptCancelled, Revoked
<1>15. ASSUME NEW o \in Ops, StartCancel(o)
      PROVE  SessionExclusion'
  BY <1>15 DEF StartCancel, SendFrom
<1>16. ASSUME NEW o \in Ops, CancelObserves(o)
      PROVE  SessionExclusion'
  BY <1>16 DEF CancelObserves, SetTerminal, Terminal, Published, Places
<1>17. ASSUME NEW o \in Ops, CancelUncertain(o)
      PROVE  SessionExclusion'
  BY <1>17 DEF CancelUncertain, Join
<1>18. ASSUME NEW o \in Ops, CancelCancelled(o)
      PROVE  SessionExclusion'
  BY <1>18 DEF CancelCancelled
<1>19. ASSUME NEW o \in Ops, StartRetire(o)
      PROVE  SessionExclusion'
  <2>1. CASE Sess(o) \in allocated
    <3>1. state[o] = "accepted" /\ state' = [state EXCEPT ![o] = "running"]
      BY <1>19 DEF StartRetire, Places
    <3>2. UNCHANGED <<ledger, active, available>>
      BY <1>19, <2>1 DEF StartRetire
    <3> QED
      BY <3>1, <3>2 DEF Terminal
  <2>2. CASE Sess(o) \notin allocated
    BY <1>19, <2>2 DEF StartRetire
  <2> QED
    BY <2>1, <2>2
<1>20. ASSUME NEW o \in Ops, RetireSettles(o)
      PROVE  SessionExclusion'
  BY <1>20 DEF RetireSettles, SetTerminal, Terminal, Published, Places
<1>21. ASSUME NEW o \in Ops, RetireFails(o)
      PROVE  SessionExclusion'
  BY <1>21 DEF RetireFails
<1>22. ASSUME NEW o \in Ops, RetireCancelled(o)
      PROVE  SessionExclusion'
  BY <1>22 DEF RetireCancelled, Revoked
<1>23. ASSUME NEW o \in Ops, SendReturns(o)
      PROVE  SessionExclusion'
  BY <1>23 DEF SendReturns
<1>24. ASSUME NEW o \in Ops, SendStops(o)
      PROVE  SessionExclusion'
  BY <1>24 DEF SendStops, StopClient
<1>25. ASSUME NEW o \in Ops, CancellationAbsorbed(o)
      PROVE  SessionExclusion'
  BY <1>25 DEF CancellationAbsorbed
<1>26. ASSUME NEW c \in Tasks, CallerCloses(c)
      PROVE  SessionExclusion'
  BY <1>26 DEF CallerCloses
<1>27. ASSUME NEW c \in Tasks, OwnerStops(c)
      PROVE  SessionExclusion'
  BY <1>27 DEF OwnerStops, StopClient
<1>28. ASSUME NEW c \in Tasks, OwnerPublishes(c)
      PROVE  SessionExclusion'
  BY <1>28 DEF OwnerPublishes, Revoked
<1>29. ASSUME NEW c \in Tasks, JoinerLeaves(c)
      PROVE  SessionExclusion'
  BY <1>29 DEF JoinerLeaves, Revoked
<1>30. ASSUME NEW o \in Ops, NativeMoves,
              BeginEffect(o) \/ EndEffect(o) \/ CancelTurn(o) \/ AbsorbTurn(o)
      PROVE  SessionExclusion'
  BY <1>30, QuietMove DEF NativeMoves, BeginEffect, EndEffect, CancelTurn, AbsorbTurn
<1>31. ASSUME NEW o \in Ops, NEW outcome \in TurnOutcomes, NativeMoves,
              SettleTurn(o, outcome)
      PROVE  SessionExclusion'
  BY <1>31, QuietMove DEF NativeMoves, SettleTurn, TurnOutcomes
<1>32. ASSUME NEW o \in Ops, NativeMoves, StopTurn(o)
      PROVE  SessionExclusion'
  BY <1>32, LossMove DEF NativeMoves, StopTurn
<1>33. ASSUME NEW o \in Ops, NativeMoves, RaiseTurn(o)
      PROVE  SessionExclusion'
  BY <1>33, QuietMove DEF NativeMoves, RaiseTurn
<1>34. ASSUME NativeMoves, EndCleanup
      PROVE  SessionExclusion'
  BY <1>34, QuietMove DEF NativeMoves, EndCleanup
<1>35. ASSUME NativeMoves, LoseChild
      PROVE  SessionExclusion'
  BY <1>35, LossMove DEF NativeMoves, LoseChild
<1>36. ASSUME UNCHANGED vars
      PROVE  SessionExclusion'
  BY <1>36 DEF vars
<1> QED
  BY <1>1, <1>2, <1>3, <1>4, <1>5, <1>6, <1>7, <1>8, <1>9, <1>10, <1>11, <1>12, <1>13,
     <1>14, <1>15, <1>16, <1>17, <1>18, <1>19, <1>20, <1>21, <1>22, <1>23, <1>24, <1>25,
     <1>26, <1>27, <1>28, <1>29, <1>30, <1>31, <1>32, <1>33, <1>34, <1>35, <1>36
     DEF Next, Admission, TaskStep, PromptStep, CancelStep, RetireStep, SendStep,
         ClosingStep, TurnStep

(* A turn starts with the dispatch of its prompt, and its task leaves      *)
(* those places only when the turn is over or the generation is revoked.   *)
LEMMA TurnsStep ==
    ASSUME IInv, [Next]_vars, TypeOK'
    PROVE  Turns'
<1>0. TypeOK /\ Fresh /\ Places /\ Revoked /\ Turns
  BY DEF IInv
<1> USE <1>0, IdentityAssumption, QuarantineMoves, TakeOverMoves
        DEF TypeOK, NativeTypeOK, Tasks, Turns, LiveTurn, Kind, IsPrompt, ledgerVars, sessionVars,
            queueVars, taskVars, closingVars, nativeVars
<1>1. ASSUME NEW o \in Ops, NEW s \in Sessions, AdmitCreate(o, s)
      PROVE  Turns'
  BY <1>1, RequestShapes DEF AdmitCreate, LedgerAdmits, Fresh
<1>2. ASSUME NEW o \in Ops, NEW s \in Sessions, NEW p \in Phases,
             AdmitPrompt(o, s, p)
      PROVE  Turns'
  BY <1>2, RequestShapes DEF AdmitPrompt, LedgerAdmits, Fresh
<1>3. ASSUME NEW o \in Ops, NEW s \in Sessions, AdmitRetire(o, s)
      PROVE  Turns'
  BY <1>3, RequestShapes DEF AdmitRetire, LedgerAdmits, Fresh
<1>4. ASSUME NEW o \in Ops, NEW t \in Ops, AdmitCancel(o, t)
      PROVE  Turns'
  <2>1. /\ o # t
        /\ ledger[o] = NoRequest /\ state[o] = "unknown" /\ pc[o] = "idle"
        /\ ledger[t].kind = "prompt"
        /\ ledger'[o].kind = "cancel"
        /\ \A x \in Ops \ {o} : ledger'[x] = ledger[x]
        /\ UNCHANGED <<available, fifo, collector>>
    BY <1>4, NewCancel
  <2>2. CASE CancelQueued(o, t)
    BY <2>1, <2>2, RequestShapes DEF CancelQueued, Terminal
  <2>3. CASE CancelSettled(o, t)
    BY <2>1, <2>3, RequestShapes DEF CancelSettled, Terminal
  <2>4. CASE CancelDispatched(o, t)
    BY <2>1, <2>4, RequestShapes DEF CancelDispatched, Terminal
  <2> QED
    BY <1>4, <2>2, <2>3, <2>4 DEF AdmitCancel
<1>5. ASSUME NEW o \in Ops, DrainCancelled(o)
      PROVE  Turns'
  BY <1>5 DEF DrainCancelled, HoldsLock
<1>6. ASSUME NEW o \in Ops, DispatchPrompt(o)
      PROVE  Turns'
  BY <1>6, RequestShapes DEF DispatchPrompt, RunTurn, HoldsLock, Places
<1>7. ASSUME NEW o \in Ops, SettlePrompt(o)
      PROVE  Turns'
  BY <1>7 DEF SettlePrompt, SetTerminal, TurnOutcomes
<1>8. ASSUME NEW o \in Ops, MismatchedTerminal(o)
      PROVE  Turns'
  BY <1>8 DEF MismatchedTerminal
<1>9. ASSUME NEW o \in Ops, TurnRaised(o)
      PROVE  Turns'
  BY <1>9 DEF TurnRaised
<1>10. ASSUME NEW o \in Ops, DeadlineExpires(o)
      PROVE  Turns'
  BY <1>10 DEF DeadlineExpires, SendFrom, Places
<1>11. ASSUME NEW o \in Ops, SettleDeadline(o)
      PROVE  Turns'
  BY <1>11 DEF SettleDeadline, SetTerminal, TurnOutcomes
<1>12. ASSUME NEW o \in Ops, DeadlineUncertain(o)
      PROVE  Turns'
  BY <1>12 DEF DeadlineUncertain
<1>13. ASSUME NEW o \in Ops, PromptSendFails(o)
      PROVE  Turns'
  BY <1>13 DEF PromptSendFails, StopRaised, Sending
<1>14. ASSUME NEW o \in Ops, PromptCancelled(o)
      PROVE  Turns'
  BY <1>14, RequestShapes DEF PromptCancelled, Revoked
<1>15. ASSUME NEW o \in Ops, StartCancel(o)
      PROVE  Turns'
  BY <1>15 DEF StartCancel, SendFrom
<1>16. ASSUME NEW o \in Ops, CancelObserves(o)
      PROVE  Turns'
  BY <1>16 DEF CancelObserves, SetTerminal
<1>17. ASSUME NEW o \in Ops, CancelUncertain(o)
      PROVE  Turns'
  BY <1>17 DEF CancelUncertain, Join, StopRaised, Sending
<1>18. ASSUME NEW o \in Ops, CancelCancelled(o)
      PROVE  Turns'
  BY <1>18, RequestShapes DEF CancelCancelled, Revoked
<1>19. ASSUME NEW o \in Ops, StartRetire(o)
      PROVE  Turns'
  BY <1>19 DEF StartRetire
<1>20. ASSUME NEW o \in Ops, RetireSettles(o)
      PROVE  Turns'
  BY <1>20 DEF RetireSettles, SetTerminal
<1>21. ASSUME NEW o \in Ops, RetireFails(o)
      PROVE  Turns'
  BY <1>21 DEF RetireFails
<1>22. ASSUME NEW o \in Ops, RetireCancelled(o)
      PROVE  Turns'
  <2>1. ~available /\ UNCHANGED <<available, ledger, state, collector>>
    BY <1>22 DEF RetireCancelled, Revoked
  <2>2. \A x \in Ops : pc'[x] \in {pc[x], "done"}
    BY <1>22 DEF RetireCancelled
  <2>3. ledger[o] # NoRequest
    BY <1>22, RequestShapes DEF RetireCancelled
  <2> QED
    BY <2>1, <2>2, <2>3
<1>23. ASSUME NEW o \in Ops, SendReturns(o)
      PROVE  Turns'
  BY <1>23 DEF SendReturns, Sending
<1>24. ASSUME NEW o \in Ops, SendStops(o)
      PROVE  Turns'
  BY <1>24 DEF SendStops, StopClient, Sending
<1>25. ASSUME NEW o \in Ops, CancellationAbsorbed(o)
      PROVE  Turns'
  BY <1>25 DEF CancellationAbsorbed
<1>26. ASSUME NEW c \in Tasks, CallerCloses(c)
      PROVE  Turns'
  BY <1>26 DEF CallerCloses
<1>27. ASSUME NEW c \in Tasks, OwnerStops(c)
      PROVE  Turns'
  BY <1>27 DEF OwnerStops, StopClient
<1>28. ASSUME NEW c \in Tasks, OwnerPublishes(c)
      PROVE  Turns'
  BY <1>28 DEF OwnerPublishes, Revoked, Deferred, Settled, Terminal
<1>29. ASSUME NEW c \in Tasks, JoinerLeaves(c)
      PROVE  Turns'
  BY <1>29 DEF JoinerLeaves, Revoked
<1>30. ASSUME NEW o \in Ops, NativeMoves,
              BeginEffect(o) \/ EndEffect(o) \/ CancelTurn(o) \/ AbsorbTurn(o)
      PROVE  Turns'
  BY <1>30, QuietMove DEF NativeMoves, BeginEffect, EndEffect, CancelTurn, AbsorbTurn
<1>31. ASSUME NEW o \in Ops, NEW outcome \in TurnOutcomes, NativeMoves,
              SettleTurn(o, outcome)
      PROVE  Turns'
  BY <1>31, QuietMove DEF NativeMoves, SettleTurn, TurnOutcomes
<1>32. ASSUME NEW o \in Ops, NativeMoves, StopTurn(o)
      PROVE  Turns'
  BY <1>32, LossMove DEF NativeMoves, StopTurn
<1>33. ASSUME NEW o \in Ops, NativeMoves, RaiseTurn(o)
      PROVE  Turns'
  BY <1>33, QuietMove DEF NativeMoves, RaiseTurn
<1>34. ASSUME NativeMoves, EndCleanup
      PROVE  Turns'
  BY <1>34, QuietMove DEF NativeMoves, EndCleanup
<1>35. ASSUME NativeMoves, LoseChild
      PROVE  Turns'
  BY <1>35, LossMove DEF NativeMoves, LoseChild
<1>36. ASSUME UNCHANGED vars
      PROVE  Turns'
  BY <1>36 DEF vars
<1> QED
  BY <1>1, <1>2, <1>3, <1>4, <1>5, <1>6, <1>7, <1>8, <1>9, <1>10, <1>11, <1>12, <1>13,
     <1>14, <1>15, <1>16, <1>17, <1>18, <1>19, <1>20, <1>21, <1>22, <1>23, <1>24, <1>25,
     <1>26, <1>27, <1>28, <1>29, <1>30, <1>31, <1>32, <1>33, <1>34, <1>35, <1>36
     DEF Next, Admission, TaskStep, PromptStep, CancelStep, RetireStep, SendStep,
         ClosingStep, TurnStep

(* What a step may do to records: nothing to settled or admitted ones.     *)
Final ==
    \A o \in Ops :
        /\ Settled(o) => state'[o] = state[o]
        /\ ledger[o] # NoRequest => ledger'[o] = ledger[o]

(* No step changes a settled record or the request under an admitted       *)
(* identity.                                                               *)
LEMMA FinalStep ==
    ASSUME IInv, [Next]_vars
    PROVE  Final
<1>0. TypeOK /\ Fresh /\ Places
  BY DEF IInv
<1> USE <1>0 DEF TypeOK, NativeTypeOK, Final, Settled, Terminal, ledgerVars
<1>1. ASSUME NEW o \in Ops, NEW s \in Sessions, AdmitCreate(o, s)
      PROVE  Final
  BY <1>1 DEF AdmitCreate, LedgerAdmits, Fresh
<1>2. ASSUME NEW o \in Ops, NEW s \in Sessions, NEW p \in Phases,
             AdmitPrompt(o, s, p)
      PROVE  Final
  BY <1>2 DEF AdmitPrompt, LedgerAdmits, Fresh
<1>3. ASSUME NEW o \in Ops, NEW s \in Sessions, AdmitRetire(o, s)
      PROVE  Final
  BY <1>3 DEF AdmitRetire, LedgerAdmits, Fresh
<1>4. ASSUME NEW o \in Ops, NEW t \in Ops, AdmitCancel(o, t)
      PROVE  Final
  <2>1. /\ o # t
        /\ ledger[o] = NoRequest /\ state[o] = "unknown" /\ pc[o] = "idle"
        /\ ledger[t].kind = "prompt"
        /\ ledger'[o].kind = "cancel"
        /\ \A x \in Ops \ {o} : ledger'[x] = ledger[x]
        /\ UNCHANGED <<available, fifo, collector>>
    BY <1>4, NewCancel
  <2>2. CASE CancelQueued(o, t)
    BY <2>1, <2>2, RequestShapes DEF CancelQueued
  <2>3. CASE CancelSettled(o, t)
    BY <2>1, <2>3, RequestShapes DEF CancelSettled
  <2>4. CASE CancelDispatched(o, t)
    BY <2>1, <2>4, RequestShapes DEF CancelDispatched
  <2> QED
    BY <1>4, <2>2, <2>3, <2>4 DEF AdmitCancel
<1>5. ASSUME NEW o \in Ops, DrainCancelled(o)
      PROVE  Final
  BY <1>5 DEF DrainCancelled
<1>6. ASSUME NEW o \in Ops, DispatchPrompt(o)
      PROVE  Final
  BY <1>6 DEF DispatchPrompt, RunTurn
<1>7. ASSUME NEW o \in Ops, SettlePrompt(o)
      PROVE  Final
  BY <1>7 DEF SettlePrompt, SetTerminal
<1>8. ASSUME NEW o \in Ops, MismatchedTerminal(o)
      PROVE  Final
  BY <1>8 DEF MismatchedTerminal
<1>9. ASSUME NEW o \in Ops, TurnRaised(o)
      PROVE  Final
  BY <1>9 DEF TurnRaised
<1>10. ASSUME NEW o \in Ops, DeadlineExpires(o)
      PROVE  Final
  BY <1>10 DEF DeadlineExpires, SendFrom, Places
<1>11. ASSUME NEW o \in Ops, SettleDeadline(o)
      PROVE  Final
  BY <1>11 DEF SettleDeadline, SetTerminal
<1>12. ASSUME NEW o \in Ops, DeadlineUncertain(o)
      PROVE  Final
  BY <1>12 DEF DeadlineUncertain
<1>13. ASSUME NEW o \in Ops, PromptSendFails(o)
      PROVE  Final
  BY <1>13 DEF PromptSendFails
<1>14. ASSUME NEW o \in Ops, PromptCancelled(o)
      PROVE  Final
  BY <1>14 DEF PromptCancelled
<1>15. ASSUME NEW o \in Ops, StartCancel(o)
      PROVE  Final
  BY <1>15 DEF StartCancel, SendFrom, Places
<1>16. ASSUME NEW o \in Ops, CancelObserves(o)
      PROVE  Final
  BY <1>16 DEF CancelObserves, SetTerminal
<1>17. ASSUME NEW o \in Ops, CancelUncertain(o)
      PROVE  Final
  BY <1>17 DEF CancelUncertain
<1>18. ASSUME NEW o \in Ops, CancelCancelled(o)
      PROVE  Final
  BY <1>18 DEF CancelCancelled
<1>19. ASSUME NEW o \in Ops, StartRetire(o)
      PROVE  Final
  BY <1>19 DEF StartRetire, Places
<1>20. ASSUME NEW o \in Ops, RetireSettles(o)
      PROVE  Final
  BY <1>20 DEF RetireSettles, SetTerminal
<1>21. ASSUME NEW o \in Ops, RetireFails(o)
      PROVE  Final
  BY <1>21 DEF RetireFails
<1>22. ASSUME NEW o \in Ops, RetireCancelled(o)
      PROVE  Final
  BY <1>22 DEF RetireCancelled
<1>23. ASSUME NEW o \in Ops, SendReturns(o)
      PROVE  Final
  BY <1>23 DEF SendReturns
<1>24. ASSUME NEW o \in Ops, SendStops(o)
      PROVE  Final
  BY <1>24 DEF SendStops, StopClient
<1>25. ASSUME NEW o \in Ops, CancellationAbsorbed(o)
      PROVE  Final
  BY <1>25 DEF CancellationAbsorbed
<1>26. ASSUME NEW c \in Tasks, CallerCloses(c)
      PROVE  Final
  BY <1>26 DEF CallerCloses
<1>27. ASSUME NEW c \in Tasks, OwnerStops(c)
      PROVE  Final
  BY <1>27 DEF OwnerStops, StopClient
<1>28. ASSUME NEW c \in Tasks, OwnerPublishes(c)
      PROVE  Final
  BY <1>28 DEF OwnerPublishes, Deferred
<1>29. ASSUME NEW c \in Tasks, JoinerLeaves(c)
      PROVE  Final
  BY <1>29 DEF JoinerLeaves
<1>30. ASSUME NEW o \in Ops, NativeMoves,
              BeginEffect(o) \/ EndEffect(o) \/ CancelTurn(o) \/ AbsorbTurn(o)
      PROVE  Final
  BY <1>30, QuietMove DEF NativeMoves, BeginEffect, EndEffect, CancelTurn, AbsorbTurn
<1>31. ASSUME NEW o \in Ops, NEW outcome \in TurnOutcomes, NativeMoves,
              SettleTurn(o, outcome)
      PROVE  Final
  BY <1>31, QuietMove DEF NativeMoves, SettleTurn, TurnOutcomes
<1>32. ASSUME NEW o \in Ops, NativeMoves, StopTurn(o)
      PROVE  Final
  BY <1>32, LossMove DEF NativeMoves, StopTurn
<1>33. ASSUME NEW o \in Ops, NativeMoves, RaiseTurn(o)
      PROVE  Final
  BY <1>33, QuietMove DEF NativeMoves, RaiseTurn
<1>34. ASSUME NativeMoves, EndCleanup
      PROVE  Final
  BY <1>34, QuietMove DEF NativeMoves, EndCleanup
<1>35. ASSUME NativeMoves, LoseChild
      PROVE  Final
  BY <1>35, LossMove DEF NativeMoves, LoseChild
<1>36. ASSUME UNCHANGED vars
      PROVE  Final
  BY <1>36 DEF vars
<1> QED
  BY <1>1, <1>2, <1>3, <1>4, <1>5, <1>6, <1>7, <1>8, <1>9, <1>10, <1>11, <1>12, <1>13,
     <1>14, <1>15, <1>16, <1>17, <1>18, <1>19, <1>20, <1>21, <1>22, <1>23, <1>24, <1>25,
     <1>26, <1>27, <1>28, <1>29, <1>30, <1>31, <1>32, <1>33, <1>34, <1>35, <1>36
     DEF Next, Admission, TaskStep, PromptStep, CancelStep, RetireStep, SendStep,
         ClosingStep, TurnStep

--------------------------------------------------------------------------------
(* The invariant holds initially,                                          *)
LEMMA Start == Init => IInv
<1> SUFFICES ASSUME Init PROVE IInv
  OBVIOUS
<1> USE DEF Init, NativeInit
<1>1. TypeOK
  <2>1. fifo \in Seq(Ops)
    OBVIOUS
  <2>2. pc \in [Tasks -> Suspended \cup {"idle", "done"}]
    OBVIOUS
  <2>3. /\ ledger \in [Ops -> Requests \cup {NoRequest}]
        /\ state \in [Ops -> OperationStates \cup {"unknown"}]
        /\ sessState \in [Sessions -> SessionStates \cup {"absent"}]
        /\ active \in [Sessions -> Ops \cup {NoOp}]
        /\ collector \in [Ops -> {"none"} \cup LiveTurn \cup TurnOutcomes \cup TurnErrors]
    OBVIOUS
  <2>4. verdict \in Terminal /\ owner \in Tasks \cup {NoOp}
    BY DEF Terminal
  <2>5. /\ submitted \subseteq Sessions /\ allocated \subseteq Sessions
        /\ reservations \in Int /\ released \subseteq Ops /\ cancelled \subseteq Ops
        /\ interrupted \subseteq Ops /\ cancelRequested \subseteq Ops /\ effect \subseteq Ops
        /\ cleanup \in {"idle", "running", "settled", "failed"}
    OBVIOUS
  <2>6. available \in BOOLEAN /\ shutdownDone \in BOOLEAN /\ alive \in BOOLEAN
    OBVIOUS
  <2> QED
    BY <2>1, <2>2, <2>3, <2>4, <2>5, <2>6 DEF TypeOK, NativeTypeOK
<1>2. Fresh /\ Places /\ LockHeld /\ Revoked /\ Alone /\ Turns
  BY IdentityAssumption
     DEF Fresh, Places, LockHeld, Holding, Turns, LiveTurn, Revoked, Alone, Tasks
<1>3. SessionExclusion
  BY IdentityAssumption, RequestShapes DEF SessionExclusion, Work, Kind
<1> QED
  BY <1>1, <1>2, <1>3 DEF IInv

(* every step keeps it,                                                    *)
LEMMA Step == IInv /\ [Next]_vars => IInv'
BY TypeStep, PlacesStep, LockStep, RevokedStep, ExclusionStep, TurnsStep DEF IInv

(* hence it holds throughout.                                              *)
LEMMA Inductive == Spec => []IInv
BY Start, Step, PTL DEF Spec

(* The variables of the service keep their types: in particular the task   *)
(* that releases prompt_lock is one that holds it (fifo is not empty when  *)
(* _execute_prompt leaves its async with block).                           *)
THEOREM TypeCorrect == Spec => []TypeOK
<1>1. IInv => TypeOK
  BY DEF IInv
<1> QED
  BY <1>1, Inductive, PTL

(* For any number of sessions and operations, a session's                  *)
(* active_operation_id names exactly its one unsettled prompt or           *)
(* retirement while the generation is available.                           *)
THEOREM SessionsExclusive == Spec => []SessionExclusion
<1>1. IInv => SessionExclusion
  BY DEF IInv
<1> QED
  BY <1>1, Inductive, PTL

(* For any number of operations and any interleaving of deadlines,         *)
(* cancellations, retirements and losses, a terminal outcome is published  *)
(* once and the record under an identity never changes (set_terminal,      *)
(* DirectLedger.admit, and every assignment of a state that is not         *)
(* terminal).                                                              *)
THEOREM OutcomesFinal == Spec => TerminalIsFinal
<1>1. IInv /\ [Next]_vars => [Final]_vars
  BY FinalStep
<1> QED
  BY <1>1, Inductive, PTL DEF Spec, TerminalIsFinal, Final
--------------------------------------------------------------------------------
(* The holder of prompt_lock dispatches in the state the discipline names. *)
LEMMA DispatchFinds ==
    ASSUME IInv, NEW o \in Ops, DispatchPrompt(o)
    PROVE  /\ collector[o] = "none"
           /\ available
           /\ state[o] \in {"accepted", "queued"}
           /\ active[Sess(o)] = o
           /\ LiveTurns = {}
<1>1. TypeOK /\ Places /\ LockHeld /\ Turns /\ SessionExclusion
  BY DEF IInv
<1>2. pc[o] = "waiting" /\ Head(fifo) = o /\ available /\ ~Settled(o)
  BY DEF DispatchPrompt, RunTurn, HoldsLock
<1>3. IsPrompt(o) /\ Sess(o) \in Sessions
  BY <1>1, <1>2, KindAdmitted, AdmittedFields DEF Places, IsPrompt
<1>4. collector[o] = "none" /\ state[o] \in {"accepted", "queued"}
  BY <1>1, <1>2 DEF Turns, Settled
<1>5. active[Sess(o)] = o
  BY <1>1, <1>2, <1>3 DEF SessionExclusion, Work, IsPrompt
<1>6. ASSUME NEW x \in LiveTurns
      PROVE  FALSE
  <2>1. IsPrompt(x) /\ pc[x] \in Holding /\ x \in Ops
    BY <1>1, <1>2, <1>6 DEF Turns, LiveTurns, Holding
  <2>2. x = o
    BY <1>1, <1>2, <2>1 DEF LockHeld
  <2> QED
    BY <1>2, <2>1, <2>2 DEF Holding
<1> QED
  BY <1>2, <1>4, <1>5, <1>6

(* The action DispatchDiscipline is about.                                 *)
Disciplined ==
    \A o \in Ops : collector'[o] # collector[o] /\ pc[o] = "waiting" =>
            /\ collector[o] = "none"
            /\ available
            /\ state[o] \in {"accepted", "queued"}
            /\ active[Sess(o)] = o
            /\ LiveTurns = {}

(* Only the dispatch of a prompt changes the turn of a prompt that waits.  *)
LEMMA DisciplineStep ==
    ASSUME IInv, [Next]_vars
    PROVE  Disciplined
<1>1. ASSUME UNCHANGED collector
      PROVE  Disciplined
  BY <1>1 DEF Disciplined
<1>2. ASSUME NEW o \in Ops, DispatchPrompt(o)
      PROVE  Disciplined
  <2>1. \A x \in Ops \ {o} : collector'[x] = collector[x]
    BY <1>2 DEF DispatchPrompt, RunTurn, IInv, TypeOK, NativeTypeOK
  <2> QED
    BY <1>2, <2>1, DispatchFinds DEF Disciplined
<1>3. ASSUME NEW o \in Ops, NEW outcome \in TurnOutcomes,
             StopTurn(o) \/ RaiseTurn(o) \/ SettleTurn(o, outcome)
      PROVE  Disciplined
  <2>1. pc[o] # "waiting"
    BY <1>3 DEF StopTurn, RaiseTurn, SettleTurn, IInv, Turns
  <2>2. \A x \in Ops \ {o} : collector'[x] = collector[x]
    BY <1>3 DEF StopTurn, RaiseTurn, SettleTurn, IInv, TypeOK, NativeTypeOK
  <2> QED
    BY <2>1, <2>2 DEF Disciplined
<1>4. ASSUME Admission
      PROVE  UNCHANGED collector
  BY <1>4 DEF Admission, AdmitCreate, AdmitPrompt, AdmitRetire, AdmitCancel, nativeVars
<1>5. ASSUME NEW o \in Ops, PromptStep(o), ~DispatchPrompt(o)
      PROVE  UNCHANGED collector
  BY <1>5 DEF PromptStep, DrainCancelled, SettlePrompt, MismatchedTerminal, TurnRaised,
         DeadlineExpires, SendFrom, SettleDeadline, DeadlineUncertain, PromptSendFails,
         PromptCancelled, nativeVars
<1>6. ASSUME NEW o \in Ops, CancelStep(o) \/ RetireStep(o) \/ SendStep(o)
      PROVE  UNCHANGED collector
  BY <1>6 DEF CancelStep, RetireStep, SendStep, StartCancel, CancelObserves, CancelUncertain,
         CancelCancelled, StartRetire, RetireSettles, RetireFails, RetireCancelled,
         SendReturns, SendStops, StopClient, CancellationAbsorbed, nativeVars
<1>7. ASSUME NEW c \in Tasks, ClosingStep(c)
      PROVE  UNCHANGED collector
  BY <1>7 DEF ClosingStep, CallerCloses, OwnerStops, StopClient, OwnerPublishes, JoinerLeaves, nativeVars
<1>8. ASSUME NEW o \in Ops,
             BeginEffect(o) \/ EndEffect(o) \/ CancelTurn(o) \/ AbsorbTurn(o)
      PROVE  UNCHANGED collector
  BY <1>8 DEF BeginEffect, EndEffect, CancelTurn, AbsorbTurn
<1>9. ASSUME EndCleanup \/ LoseChild \/ UNCHANGED vars
      PROVE  UNCHANGED collector
  BY <1>9 DEF EndCleanup, LoseChild, vars, nativeVars
<1>10. ASSUME NEW o \in Ops, TurnStep(o)
      PROVE  Disciplined
  BY <1>10, <1>1, <1>3, <1>8 DEF TurnStep, TurnOutcomes
<1>11. ASSUME NEW o \in Ops, TaskStep(o)
      PROVE  Disciplined
  BY <1>11, <1>1, <1>2, <1>5, <1>6 DEF TaskStep
<1> QED
  BY <1>1, <1>4, <1>7, <1>9, <1>10, <1>11 DEF Next

(* For any number of sessions and queued prompts, run_turn is called only  *)
(* by the holder of prompt_lock, in the current generation, for the        *)
(* session's own unsettled prompt, once, and while no other turn is live   *)
(* (_execute_prompt): the native client's refusal of a second active turn  *)
(* is never what keeps prompts apart.                                      *)
THEOREM DispatchesDisciplined == Spec => DispatchDiscipline
<1>1. IInv /\ [Next]_vars => [Disciplined]_vars
  BY DisciplineStep
<1> QED
  BY <1>1, Inductive, PTL DEF Spec, DispatchDiscipline, Disciplined

--------------------------------------------------------------------------------
(* The ledger and its capacity                                             *)

Recorded == {o \in Ops : ledger[o] # NoRequest}

LedgerBounded == Cardinality(Recorded) <= MaxOperations

LEMMA AdmissionFits ==
    ASSUME TypeOK, NEW o \in Ops, LedgerAdmits(ledger, o),
           NEW r, ledger' = [ledger EXCEPT ![o] = r]
    PROVE  LedgerBounded'
<1>1. Recorded' \subseteq Recorded \cup {o}
  BY DEF Recorded, TypeOK
<1>2. IsFiniteSet(Recorded)
  BY IdentityAssumption, FS_Subset DEF Recorded
<1>3. Cardinality(Recorded) \in Nat /\ Cardinality(Recorded) < MaxOperations
  BY <1>2, FS_CardinalityType DEF LedgerAdmits, Recorded
<1>4. IsFiniteSet(Recorded \cup {o}) /\ Cardinality(Recorded \cup {o}) <= Cardinality(Recorded) + 1
  <2>1. /\ IsFiniteSet(Recorded \cup {o})
        /\ Cardinality(Recorded \cup {o})
              = IF o \in Recorded THEN Cardinality(Recorded) ELSE Cardinality(Recorded) + 1
    BY <1>2, FS_AddElement, Zenon
  <2> QED
    BY <1>3, <2>1
<1>5. Cardinality(Recorded') <= Cardinality(Recorded \cup {o}) /\ Cardinality(Recorded') \in Nat
  BY <1>1, <1>4, FS_Subset, FS_CardinalityType
<1> QED
  BY <1>3, <1>4, <1>5, FS_CardinalityType, LimitAssumption DEF LedgerBounded

LEMMA BoundedStep == TypeOK /\ LedgerBounded /\ [Next]_vars => LedgerBounded'
<1> SUFFICES ASSUME TypeOK, LedgerBounded, [Next]_vars
             PROVE  LedgerBounded'
  OBVIOUS
<1> USE DEF ledgerVars
<1>1. ASSUME NEW o \in Ops, NEW s \in Sessions, AdmitCreate(o, s) \/ AdmitRetire(o, s)
      PROVE  LedgerBounded'
  BY <1>1, AdmissionFits DEF AdmitCreate, AdmitRetire
<1>2. ASSUME NEW o \in Ops, NEW s \in Sessions, NEW p \in Phases, AdmitPrompt(o, s, p)
      PROVE  LedgerBounded'
  BY <1>2, AdmissionFits DEF AdmitPrompt
<1>3. ASSUME NEW o \in Ops, NEW t \in Ops, AdmitCancel(o, t)
      PROVE  LedgerBounded'
  BY <1>3, AdmissionFits DEF AdmitCancel
<1>4. CASE Admission
  BY <1>1, <1>2, <1>3, <1>4 DEF Admission
<1>5. CASE UNCHANGED ledger
  BY <1>5 DEF LedgerBounded, Recorded
<1>6. ASSUME NEW o \in Ops, PromptStep(o)
      PROVE  UNCHANGED ledger
  BY <1>6 DEF PromptStep, DrainCancelled, DispatchPrompt, SettlePrompt, MismatchedTerminal, TurnRaised,
         DeadlineExpires, SettleDeadline, DeadlineUncertain, PromptSendFails, PromptCancelled
<1>7. ASSUME NEW o \in Ops, CancelStep(o) \/ RetireStep(o) \/ SendStep(o)
      PROVE  UNCHANGED ledger
  BY <1>7 DEF CancelStep, RetireStep, SendStep, StartCancel, CancelObserves, CancelUncertain,
         CancelCancelled, StartRetire, RetireSettles, RetireFails, RetireCancelled,
         SendReturns, SendStops, CancellationAbsorbed
<1>8. ASSUME NEW c \in Tasks, ClosingStep(c)
      PROVE  UNCHANGED ledger
  BY <1>8 DEF ClosingStep, CallerCloses, OwnerStops, OwnerPublishes, JoinerLeaves
<1>9. ASSUME NativeMoves
      PROVE  UNCHANGED ledger
  BY <1>9 DEF NativeMoves
<1> QED
  BY <1>4, <1>5, <1>6, <1>7, <1>8, <1>9 DEF Next, TaskStep, vars

(* A generation records no more operations than its negotiated capacity,   *)
(* although nothing is ever evicted (DirectLedger.admit).                  *)
THEOREM CapacityHolds == Spec => []LedgerBounded
<1>1. Init => LedgerBounded
  <2>1. ASSUME Init
        PROVE  Recorded = {}
    BY <2>1 DEF Init, Recorded
  <2> QED
    BY <2>1, FS_EmptySet, LimitAssumption DEF LedgerBounded
<1>2. TypeOK /\ LedgerBounded /\ [Next]_vars => LedgerBounded'
  BY BoundedStep
<1> QED
  BY <1>1, <1>2, TypeCorrect, PTL DEF Spec
================================================================================
