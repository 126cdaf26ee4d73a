-------------------------- MODULE NativeTransportProofs -------------------------
(***************************************************************************)
(* Proofs about NativeTransport for every set of requests and callbacks    *)
(* and every bound on them: continuity is lost for a reason and then       *)
(* completely, a stop leaves nothing behind, frames are written one after  *)
(* another, and what a capture counts is what it still has to write.       *)
(***************************************************************************)
EXTENDS NativeTransport, FiniteSetTheorems, TLAPS

--------------------------------------------------------------------------------
(* The inductive invariant                                                 *)

Places == {"idle", "working", "answering", "waiting", "writing", "waits", "left", "ended"}

(* The types of what the proofs speak of.                                  *)
StateTypes ==
    /\ life \in {"new", "capturing", "spawning", "recovering", "running", "refused"}
    /\ child \in {"none", "spawning", "absent", "running", "exited", "dead", "closed"}
    /\ pending \subseteq Requests /\ arrived \subseteq Requests /\ joined \subseteq Callbacks
    /\ future \in [Requests -> {"none", "open", "answered", "failed"}]
    /\ at \in [Senders -> Places]
    /\ cleanup \in {"idle", "callbacks", "tree", "capture", "closing", "stopped", "failed"}

(* How far start is says whether there is a process to own, and only what  *)
(* start has finished with can be stopped.                                 *)
Starting ==
    /\ life \in {"new", "capturing"} => child = "none"
    /\ writer \in {"opening", "heading"} => life = "capturing"
    /\ child = "spawning" => life \in {"spawning", "recovering"}
    /\ life = "refused" /\ ~process => child \in {"none", "absent"}
    /\ process => life \in {"running", "refused"}
    /\ life = "running" => process
    /\ stopping => life \in {"running", "refused"}

(* A request has a future from the moment it is made, an open one is       *)
(* pending, and it fails with the generation; none is made before there is *)
(* a process.                                                              *)
Futures ==
    /\ \A r \in Requests :
        /\ at[r] # "idle" \/ r \in arrived => at[r] # "idle" /\ future[r] # "none"
        /\ future[r] = "open" => r \in pending
        /\ future[r] = "failed" => failure \/ stopping
    /\ ~process => pending = {} /\ \A r \in Requests : future[r] # "open"

(* What a stop has joined by the time it gets to its later steps.          *)
Stopping ==
    /\ stopping => \A k \in Callbacks : at[k] = "working" => k \in joined
    /\ cleanup \in {"tree", "capture", "closing", "stopped", "failed"} =>
           /\ \A k \in Callbacks : at[k] # "working"
           /\ reader # "reading" /\ drain # "reading"
    /\ cleanup \in {"capture", "closing", "stopped"} /\ ~errors
       => child \in {"none", "absent", "closed"}
    /\ cleanup = "stopped" => ~errors

TransportIInv ==
    /\ StateTypes /\ Starting /\ Futures /\ Stopping
    /\ HonestServerKept /\ RevocationIsComplete

--------------------------------------------------------------------------------
(* Which steps change what                                                 *)

(* Continuity ends by an abort or a stop; otherwise a request is made or   *)
(* answered.                                                               *)
LEMMA GateMoves ==
    [TransportNext]_transportVars =>
        \/ UNCHANGED gateVars
        \/ Abort
        \/ \E r \in Requests : Requests_(r)
        \/ \E r \in Requests : r \in pending /\ Answers(r)
        \/ Stops
<1> DEFINE Goal == \/ UNCHANGED gateVars
                   \/ Abort
                   \/ \E r \in Requests : Requests_(r)
                   \/ \E r \in Requests : r \in pending /\ Answers(r)
                   \/ Stops
<1> SUFFICES ASSUME [TransportNext]_transportVars
             PROVE  Goal
  OBVIOUS
<1>1. CASE Start
  BY <1>1 DEF Start, CaptureStarts, CaptureStartGoesOn, CaptureStartFails, Spawns, SpawnThread,
     CancelStart,
     StartEnds, AbortsIf
<1>2. ASSUME NEW r \in Requests, ControlGivesUp(r) \/ WaiterLeaves(r) \/ WaiterReturns(r)
      PROVE  Goal
  BY <1>2 DEF ControlGivesUp, WaiterLeaves, WaiterReturns, Forgotten, gateVars
<1>3. ASSUME NEW s \in Senders, \/ Sends(s) \/ SendRefused(s) \/ SendBegins(s) \/ SendEnds(s)
                                \/ SendGivesUp(s) \/ CallerCancels(s) \/ CallbackCancelled(s)
      PROVE  Goal
  BY <1>3 DEF Sends, SendRefused, SendBegins, SendEnds, SendGivesUp, CallerCancels,
     CallbackCancelled, SendCancelled,
     AbortsIf
<1>4. CASE AdmitNotification \/ AdmitRogue \/ StreamEnds
  BY <1>4 DEF AdmitNotification, AdmitRogue, StreamEnds, Rejects, AbortsIf
<1>5. ASSUME NEW r \in Requests, AdmitAnswer(r)
      PROVE  Goal
  BY <1>5 DEF AdmitAnswer, Rejects, AbortsIf
<1>6. ASSUME NEW k \in Callbacks, AdmitCallback(k) \/ WorkEnds(k)
      PROVE  Goal
  BY <1>6 DEF AdmitCallback, WorkEnds, Rejects, AbortsIf
<1>7. CASE StderrEnds \/ RootExits \/ CaptureWrites \/ OwnerAborts \/ ExpectExit \/ StopStep
  BY <1>7 DEF StderrEnds, RootExits, CaptureWrites, OwnerAborts, ExpectExit, StopStep, StopJoins,
     StopTree,
     StopClosesCapture, StopEnds, AbortsIf
<1>8. CASE UNCHANGED transportVars
  BY <1>8 DEF transportVars
<1> HIDE DEF Goal
<1>9. Callbacks \subseteq Senders
  BY DEF Senders
<1>10. CASE Send
  BY <1>2, <1>3, <1>10 DEF Send, Goal
<1>11. CASE Read
  BY <1>4, <1>5, <1>6, <1>11 DEF Read
<1>12. CASE Stops
  BY <1>12 DEF Goal
<1> QED
  BY <1>1, <1>3, <1>6, <1>7, <1>8, <1>9, <1>10, <1>11, <1>12 DEF TransportNext

(* Only start, the exit of the process and a stop change how far the       *)
(* generation is; only start opens the capture.                            *)
LifeStep ==
    \/ Start \/ RootExits \/ Stops \/ StopStep

LEMMA LifeMoves ==
    [TransportNext]_transportVars /\ ~LifeStep =>
        /\ UNCHANGED <<life, child, process, cleanup, joined, errors>>
        /\ writer' \in {"opening", "heading"} => writer' = writer
<1> DEFINE Goal == /\ UNCHANGED <<life, child, process, cleanup, joined, errors>>
                   /\ writer' \in {"opening", "heading"} => writer' = writer
<1> SUFFICES ASSUME [TransportNext]_transportVars, ~LifeStep
             PROVE  Goal
  OBVIOUS
<1> USE DEF startVars, stopVars, captureVars
<1>1. Observed => UNCHANGED writer
  BY DEF Observed, Record
<1>2. ASSUME NEW r \in Requests,
             \/ ControlGivesUp(r) \/ WaiterLeaves(r) \/ WaiterReturns(r) \/ Requests_(r)
                                 \/ AdmitAnswer(r)
      PROVE  Goal
  BY <1>1, <1>2 DEF ControlGivesUp, WaiterLeaves, WaiterReturns, Requests_, QuietSend, AdmitAnswer,
     QuietRead
<1>3. ASSUME NEW s \in Senders, \/ Sends(s) \/ SendRefused(s) \/ SendBegins(s) \/ SendEnds(s)
                                \/ SendGivesUp(s) \/ CallerCancels(s) \/ CallbackCancelled(s)
      PROVE  Goal
  BY <1>1, <1>3 DEF Sends, SendRefused, SendBegins, SendEnds, SendGivesUp, CallerCancels,
     CallbackCancelled,
     SendCancelled, QuietSend
<1>4. CASE AdmitNotification \/ AdmitRogue \/ StreamEnds
  BY <1>1, <1>4 DEF AdmitNotification, AdmitRogue, StreamEnds, QuietRead
<1>5. ASSUME NEW k \in Callbacks, AdmitCallback(k) \/ WorkEnds(k)
      PROVE  Goal
  BY <1>1, <1>5 DEF AdmitCallback, QuietRead, WorkEnds, QuietSend
<1>6. CASE StderrEnds \/ CaptureWrites \/ OwnerAborts \/ ExpectExit
  BY <1>6 DEF StderrEnds, CaptureWrites, OwnerAborts, ExpectExit, WriterStep, WriterTakes,
     WriterWrites, WriterFails,
     WriterEnds
<1>7. CASE UNCHANGED transportVars
  BY <1>7 DEF transportVars
<1> HIDE DEF Goal
<1>8. Callbacks \subseteq Senders
  BY DEF Senders
<1>9. CASE Send
  BY <1>2, <1>3, <1>9 DEF Send
<1>10. CASE Read
  BY <1>2, <1>4, <1>5, <1>10 DEF Read
<1>11. Goal
  BY <1>3, <1>5, <1>6, <1>7, <1>8, <1>9, <1>10 DEF TransportNext, LifeStep
<1> QED
  BY <1>11 DEF Goal

(* A sender starts with a request of its own, a notification, or an        *)
(* admitted callback; only a held frame arrives or is torn.                *)
Sent(s) ==
    /\ at'[s] # "idle"
       => at[s] # "idle" \/ s = Note \/ s \in Callbacks \/ (s \in Requests /\ Requests_(s))
    /\ at'[s] = "idle" => at[s] = "idle"
    /\ at'[s] = "working" => at[s] = "working" \/ (s \in Callbacks /\ ~stopping /\ AdmitCallback(s))

LEMMA SendersMove ==
    ASSUME StateTypes, [TransportNext]_transportVars
    PROVE  /\ at' \in [Senders -> Places] /\ \A s \in Senders : Sent(s)
           /\ arrived' \subseteq arrived \cup {r \in Requests : at[r] = "writing"}
           /\ torn' = "given_up" => torn = "given_up" \/ Abort
<1> DEFINE Goal == /\ at' \in [Senders -> Places] /\ \A s \in Senders : Sent(s)
                   /\ arrived' \subseteq arrived \cup {r \in Requests : at[r] = "writing"}
                   /\ torn' = "given_up" => torn = "given_up" \/ Abort
<1> SUFFICES Goal
  OBVIOUS
<1>0. at \in [Senders -> Places]
  BY DEF StateTypes
<1> USE DEF sendVars, Moves, Sent, Places
<1>1. CASE UNCHANGED <<at, arrived, torn>>
  BY <1>0, <1>1
<1>2. ASSUME NEW r \in Requests,
             ControlGivesUp(r) \/ WaiterLeaves(r) \/ WaiterReturns(r) \/ Requests_(r)
      PROVE  Goal
  BY <1>0, <1>2 DEF ControlGivesUp, WaiterLeaves, WaiterReturns, Requests_
<1>3. ASSUME NEW s \in Senders, Sends(s) \/ SendRefused(s) \/ SendBegins(s) \/ SendEnds(s)
      PROVE  Goal
  BY <1>0, <1>3 DEF Sends, SendRefused, SendBegins, SendEnds, Holds
<1>4. ASSUME NEW s \in Senders, SendGivesUp(s)
      PROVE  Goal
  BY <1>0, <1>4 DEF SendGivesUp, Holds, AbortsIf
<1>5. ASSUME NEW s \in Senders, CallerCancels(s) \/ CallbackCancelled(s)
      PROVE  Goal
  BY <1>0, <1>5 DEF CallerCancels, CallbackCancelled, SendCancelled
<1>6. ASSUME NEW k \in Callbacks, AdmitCallback(k) \/ WorkEnds(k)
      PROVE  Goal
  BY <1>0, <1>6 DEF AdmitCallback, WorkEnds, Fresh
<1>7. CASE Start \/ StderrEnds \/ RootExits \/ CaptureWrites \/ OwnerAborts \/ ExpectExit \/ Stops \/ StopStep
  <2>1. UNCHANGED <<at, arrived, torn>>
    BY <1>7 DEF Start, CaptureStarts, CaptureStartGoesOn, CaptureStartFails, Spawns, SpawnThread,
       CancelStart,
       StartEnds, StderrEnds, RootExits, CaptureWrites, OwnerAborts, ExpectExit, Stops, StopStep,
           StopJoins, StopTree,
       StopClosesCapture, StopEnds
  <2> QED
    BY <1>1, <2>1
<1>8. ASSUME NEW r \in Requests, AdmitAnswer(r)
      PROVE  Goal
  BY <1>1, <1>8 DEF AdmitAnswer
<1>9. CASE AdmitNotification \/ AdmitRogue \/ StreamEnds \/ UNCHANGED transportVars
  BY <1>1, <1>9 DEF AdmitNotification, AdmitRogue, StreamEnds, transportVars
<1> HIDE DEF Goal
<1>10. Callbacks \subseteq Senders
  BY DEF Senders
<1>11. CASE Send
  BY <1>2, <1>3, <1>4, <1>5, <1>11 DEF Send
<1>12. CASE Read
  BY <1>6, <1>8, <1>9, <1>12 DEF Read
<1> QED
  BY <1>5, <1>6, <1>7, <1>9, <1>10, <1>11, <1>12 DEF TransportNext

--------------------------------------------------------------------------------
(* The parts of the invariant                                              *)

LEMMA TypesStep ==
    ASSUME StateTypes, [TransportNext]_transportVars
    PROVE  StateTypes'
<1>1. pending' \subseteq Requests /\ future' \in [Requests -> {"none", "open", "answered", "failed"}]
  BY GateMoves DEF StateTypes, gateVars, Abort, FailPending, Requests_, Answers, Stops
<1>2. arrived' \subseteq Requests /\ at' \in [Senders -> Places]
  BY SendersMove DEF StateTypes
<1>3. /\ joined' \subseteq Callbacks
      /\ life' \in {"new", "capturing", "spawning", "recovering", "running", "refused"}
      /\ child' \in {"none", "spawning", "absent", "running", "exited", "dead", "closed"}
      /\ cleanup' \in {"idle", "callbacks", "tree", "capture", "closing", "stopped", "failed"}
  BY LifeMoves DEF StateTypes, LifeStep, Start, CaptureStarts, CaptureStartGoesOn,
     CaptureStartFails, Spawns, SpawnThread,
     CancelStart, StartCancelled, StartEnds, RootExits, Stops, StopBegins, InFlight, StopStep,
         StopJoins, StopTree,
     StopClosesCapture, StopEnds, startVars, stopVars
<1> QED
  BY <1>1, <1>2, <1>3 DEF StateTypes

(* start owns its process before it is running or refused.                 *)
LEMMA StartingStep ==
    ASSUME StateTypes, Starting, [TransportNext]_transportVars
    PROVE  Starting'
<1> USE DEF Starting, stopping
<1>1. CASE ~LifeStep
  BY <1>1, LifeMoves
<1>2. CASE CaptureStarts \/ CaptureStartGoesOn \/ CaptureStartFails
  <2>1. CASE CaptureStarts
    BY <2>1 DEF CaptureStarts, StartOpens, stopVars
  <2>2. CASE CaptureStartGoesOn
    <3>1. UNCHANGED <<life, child, process, cleanup>> /\ writer \in {"opening", "heading"}
      BY <2>2 DEF CaptureStartGoesOn, StartOpened, StartWritten, startVars, stopVars
    <3> QED
      BY <3>1
  <2>3. CASE CaptureStartFails
    <3>1. /\ UNCHANGED <<child, process, cleanup>> /\ life' = "refused"
          /\ writer \in {"opening", "heading"} /\ writer' = "refused"
      BY <2>3 DEF CaptureStartFails, StartFails, stopVars
    <3> QED
      BY <3>1
  <2> QED
    BY <1>2, <2>1, <2>2, <2>3
<1>3. CASE Spawns \/ SpawnThread \/ CancelStart
  BY <1>3 DEF Spawns, SpawnThread, CancelStart, StartCancelled, captureVars, stopVars
<1>4. CASE StartEnds
  BY <1>4 DEF StartEnds, StopBegins, captureVars, stopVars
<1>5. CASE RootExits \/ Stops
  BY <1>5 DEF RootExits, Stops, StopBegins, captureVars, startVars, stopVars
<1>6. CASE StopJoins \/ StopTree \/ StopClosesCapture \/ StopEnds
  BY <1>6 DEF StopJoins, StopTree, StopClosesCapture, StopEnds, CloseStarts, CloseEnds, captureVars,
     startVars, stopVars
<1> QED
  BY <1>1, <1>2, <1>3, <1>4, <1>5, <1>6 DEF LifeStep, Start, StopStep

(* A loss, a stop and the process are for good; a stop begins by itself or *)
(* with the start that failed.                                             *)
LEMMA ForGood ==
    ASSUME StateTypes, Starting, [TransportNext]_transportVars
    PROVE  /\ failure => failure'
           /\ stopping => stopping'
           /\ process => process'
           /\ stopping' /\ ~stopping
              => (Stops \/ (StartEnds /\ ~process)) /\ joined' = InFlight /\ UNCHANGED at
           /\ stopping => UNCHANGED joined
<1>1. failure => failure'
  BY GateMoves DEF gateVars, Abort, Requests_, Answers, Stops
<1>2. /\ stopping => stopping'
      /\ process => process'
      /\ stopping' /\ ~stopping
         => (Stops \/ (StartEnds /\ ~process)) /\ joined' = InFlight /\ UNCHANGED at
      /\ stopping => UNCHANGED joined
  <2>1. CASE ~LifeStep
    BY <2>1, LifeMoves DEF stopping
  <2>2. CASE StartEnds
    BY <2>2 DEF StartEnds, StopBegins, Starting, stopping, stopVars, sendVars
  <2>3. CASE Stops
    BY <2>3 DEF Stops, StopBegins, stopping, startVars, sendVars
  <2>4. CASE CaptureStarts \/ CaptureStartGoesOn \/ CaptureStartFails \/ Spawns \/ SpawnThread \/ CancelStart
    <3>1. CASE CaptureStarts \/ CaptureStartGoesOn \/ CaptureStartFails
      <4>1. UNCHANGED <<cleanup, joined, process>>
        BY <3>1 DEF CaptureStarts, CaptureStartGoesOn, CaptureStartFails, startVars, stopVars
      <4> QED
        BY <4>1 DEF stopping
    <3>2. CASE Spawns \/ SpawnThread \/ CancelStart
      <4>1. UNCHANGED <<cleanup, joined, process>>
        BY <3>2 DEF Spawns, SpawnThread, CancelStart, StartCancelled, stopVars
      <4> QED
        BY <4>1 DEF stopping
    <3> QED
      BY <2>4, <3>1, <3>2
  <2>5. CASE RootExits \/ StopStep
    BY <2>5 DEF RootExits, StopStep, StopJoins, StopTree, StopClosesCapture, StopEnds, stopping,
       startVars, stopVars
  <2> QED
    BY <2>1, <2>2, <2>3, <2>4, <2>5 DEF LifeStep, Start
<1> QED
  BY <1>1, <1>2

(* The requests are told apart from the callbacks and the notification.    *)
LEMMA RequestSent ==
    ASSUME StateTypes, [TransportNext]_transportVars, NEW r \in Requests
    PROVE  /\ at'[r] # "idle" => at[r] # "idle" \/ Requests_(r)
           /\ r \in arrived' => r \in arrived \/ at[r] # "idle"
           /\ at[r] # "idle" => at'[r] # "idle"
BY SendersMove, TransportAssumption DEF Sent, Senders

LEMMA FuturesStep ==
    ASSUME StateTypes, Starting, Futures, [TransportNext]_transportVars
    PROVE  Futures'
<1>1. ASSUME NEW r \in Requests
      PROVE  /\ future[r] # "none" \/ Requests_(r) => future'[r] # "none"
             /\ future'[r] = "open" => r \in pending'
             /\ future'[r] = "failed" => failure' \/ stopping'
  <2>1. CASE UNCHANGED gateVars
    BY <2>1, ForGood DEF Futures, gateVars, Requests_, StateTypes
  <2>2. CASE Abort
    BY <2>2, ForGood DEF Futures, Abort, Revokes, FailPending, gateVars, Requests_, StateTypes
  <2>3. CASE \E q \in Requests : Requests_(q)
    BY <2>3, ForGood DEF Futures, Requests_, StateTypes
  <2>4. CASE \E q \in Requests : q \in pending /\ Answers(q)
    BY <2>4, ForGood DEF Futures, Answers, Requests_, StateTypes
  <2>5. CASE Stops
    BY <2>5, ForGood DEF Futures, Stops, StopBegins, stopping, FailPending, Requests_, StateTypes
  <2> QED
    BY <2>1, <2>2, <2>3, <2>4, <2>5, GateMoves
<1>2. ASSUME NEW r \in Requests, at'[r] # "idle" \/ r \in arrived'
      PROVE  at'[r] # "idle" /\ future'[r] # "none"
  BY <1>1, <1>2, RequestSent DEF Futures
<1>3. ASSUME ~process'
      PROVE  pending' = {} /\ \A r \in Requests : future'[r] # "open"
  <2>1. ~process /\ pending = {} /\ \A r \in Requests : future[r] # "open"
    BY <1>3, ForGood DEF Futures
  <2> QED
    BY <2>1, GateMoves DEF gateVars, Abort, FailPending, Requests_, IsOpen, Answers, Stops,
       StateTypes
<1> QED
  BY <1>1, <1>2, <1>3 DEF Futures

LEMMA RevocationStep ==
    ASSUME StateTypes, Starting, Futures, RevocationIsComplete, [TransportNext]_transportVars
    PROVE  RevocationIsComplete'
<1> USE DEF RevocationIsComplete
<1>1. called' = IF failure' THEN 1 ELSE 0
  BY GateMoves DEF gateVars, Abort, Revokes, Requests_, Answers, Stops
<1>2. ASSUME failure' \/ stopping'
      PROVE  pending' = {} /\ \A r \in Requests : future'[r] # "open"
  <2>1. CASE failure \/ stopping
    BY <2>1, GateMoves DEF gateVars, Abort, Revokes, Requests_, IsOpen, Answers, Stops, FailPending,
       StateTypes
  <2>2. CASE ~stopping /\ stopping'
    <3>1. CASE Stops
      BY <3>1 DEF Stops, FailPending, StateTypes
    <3>2. CASE StartEnds /\ ~process
      BY <3>2 DEF StartEnds, Futures, gateVars
    <3> QED
      BY <2>2, <3>1, <3>2, ForGood
  <2>3. CASE ~failure /\ failure'
    BY <2>3, GateMoves DEF gateVars, Abort, Requests_, Answers, Stops, FailPending, StateTypes
  <2> QED
    BY <1>2, <2>1, <2>2, <2>3
<1>3. torn' = "given_up" => failure' \/ stopping'
  BY SendersMove, ForGood DEF Abort, Revokes
<1> QED
  BY <1>1, <1>2, <1>3

(* A message of an honest server answers a pending request, or one that    *)
(* failed with its generation; and a callback past the limit is not honest.*)
LEMMA HonestStep ==
    ASSUME StateTypes, Futures, HonestServerKept, [TransportNext]_transportVars
    PROVE  HonestServerKept'
<1> USE DEF HonestServerKept
<1>1. CASE UNCHANGED unjust
  BY <1>1
<1>2. ASSUME NEW r \in Requests, AdmitAnswer(r)
      PROVE  ~unjust'
  BY <1>2 DEF AdmitAnswer, Rejects, Revokes, Futures, StateTypes
<1>3. ASSUME NEW k \in Callbacks, AdmitCallback(k)
      PROVE  ~unjust'
  BY <1>3 DEF AdmitCallback, Rejects, CallbackFits, Unfinished
<1>4. CASE AdmitNotification \/ AdmitRogue \/ StreamEnds
  BY <1>4 DEF AdmitNotification, AdmitRogue, StreamEnds, Rejects
<1>5. CASE Start \/ StderrEnds \/ RootExits \/ CaptureWrites \/ OwnerAborts \/ ExpectExit \/ Stops \/ StopStep
           \/ UNCHANGED transportVars
  BY <1>5 DEF Start, CaptureStarts, CaptureStartGoesOn, CaptureStartFails, Spawns, SpawnThread,
     CancelStart,
     StartEnds, StderrEnds, RootExits, CaptureWrites, OwnerAborts, ExpectExit, Stops, StopStep,
         StopJoins, StopTree,
     StopClosesCapture, StopEnds, transportVars
<1>6. ASSUME NEW s \in Senders, \/ Sends(s) \/ SendRefused(s) \/ SendBegins(s) \/ SendEnds(s)
                                \/ SendGivesUp(s) \/ CallerCancels(s) \/ CallbackCancelled(s)
      PROVE  UNCHANGED unjust
  BY <1>6 DEF Sends, SendRefused, SendBegins, SendEnds, SendGivesUp, CallerCancels,
     CallbackCancelled, QuietSend
<1>7. ASSUME NEW r \in Requests,
             ControlGivesUp(r) \/ WaiterLeaves(r) \/ WaiterReturns(r) \/ Requests_(r)
      PROVE  UNCHANGED unjust
  BY <1>7 DEF ControlGivesUp, WaiterLeaves, WaiterReturns, Requests_, QuietSend
<1>8. ASSUME NEW k \in Callbacks, WorkEnds(k)
      PROVE  UNCHANGED unjust
  BY <1>8 DEF WorkEnds, QuietSend
<1>9. Callbacks \subseteq Senders
  BY DEF Senders
<1> QED
  BY <1>1, <1>2, <1>3, <1>4, <1>5, <1>6, <1>7, <1>8, <1>9 DEF TransportNext, Send, Read

(* No callback begins to work in a generation that is stopping, and the    *)
(* stop has joined those that did.                                         *)
LEMMA WorkersJoined ==
    ASSUME StateTypes, Starting, Stopping, [TransportNext]_transportVars
    PROVE  stopping' => \A k \in Callbacks : at'[k] = "working" => k \in joined'
<1> SUFFICES ASSUME stopping', NEW k \in Callbacks, at'[k] = "working"
             PROVE  k \in joined'
  OBVIOUS
<1>1. k \in Senders
  BY DEF Senders
<1>2. CASE stopping
  <2>1. at[k] = "working"
    BY <1>1, <1>2, SendersMove DEF Sent
  <2> QED
    BY <1>2, <2>1, ForGood DEF Stopping
<1>3. CASE ~stopping
  <2>1. joined' = InFlight /\ UNCHANGED at
    BY <1>3, ForGood
  <2> QED
    BY <2>1 DEF InFlight
<1> QED
  BY <1>2, <1>3

(* The readers read from the start that made them, at most until the stop. *)
LEMMA ReadersMove ==
    [TransportNext]_transportVars =>
        /\ reader' = "reading" => reader = "reading" \/ StartEnds
        /\ drain' = "reading" => drain = "reading" \/ StartEnds
<1> DEFINE Goal == /\ reader' = "reading" => reader = "reading" \/ StartEnds
                   /\ drain' = "reading" => drain = "reading" \/ StartEnds
<1> SUFFICES ASSUME [TransportNext]_transportVars
             PROVE  Goal
  OBVIOUS
<1> USE DEF readVars
<1>1. CASE StartEnds
  BY <1>1
<1>2. CASE CaptureStarts \/ CaptureStartGoesOn \/ CaptureStartFails \/ Spawns \/ SpawnThread \/ CancelStart
  BY <1>2 DEF CaptureStarts, CaptureStartGoesOn, CaptureStartFails, Spawns, SpawnThread, CancelStart
<1>3. ASSUME NEW r \in Requests,
             \/ ControlGivesUp(r) \/ WaiterLeaves(r) \/ WaiterReturns(r) \/ Requests_(r)
                                 \/ AdmitAnswer(r)
      PROVE  Goal
  BY <1>3 DEF ControlGivesUp, WaiterLeaves, WaiterReturns, Requests_, QuietSend, AdmitAnswer,
     QuietRead, Rejects
<1>4. ASSUME NEW s \in Senders, \/ Sends(s) \/ SendRefused(s) \/ SendBegins(s) \/ SendEnds(s)
                                \/ SendGivesUp(s) \/ CallerCancels(s) \/ CallbackCancelled(s)
      PROVE  Goal
  BY <1>4 DEF Sends, SendRefused, SendBegins, SendEnds, SendGivesUp, CallerCancels,
     CallbackCancelled, QuietSend
<1>5. ASSUME NEW k \in Callbacks, AdmitCallback(k) \/ WorkEnds(k)
      PROVE  Goal
  BY <1>5 DEF AdmitCallback, QuietRead, Rejects, WorkEnds, QuietSend
<1>6. CASE AdmitNotification \/ AdmitRogue \/ StreamEnds
  BY <1>6 DEF AdmitNotification, AdmitRogue, StreamEnds, QuietRead, Rejects
<1>7. CASE StderrEnds \/ RootExits \/ CaptureWrites \/ OwnerAborts \/ ExpectExit \/ Stops \/ StopStep
  BY <1>7 DEF StderrEnds, RootExits, CaptureWrites, OwnerAborts, ExpectExit, Stops, StopStep,
     StopJoins, StopTree,
     StopClosesCapture, StopEnds
<1>8. CASE UNCHANGED transportVars
  BY <1>8 DEF transportVars
<1> HIDE DEF Goal
<1>9. Callbacks \subseteq Senders
  BY DEF Senders
<1>10. CASE Send
  BY <1>3, <1>4, <1>10 DEF Send
<1>11. CASE Read
  BY <1>3, <1>5, <1>6, <1>11 DEF Read
<1> QED
  BY <1>1, <1>2, <1>4, <1>5, <1>7, <1>8, <1>9, <1>10, <1>11 DEF TransportNext, Start

LEMMA StoppingStep ==
    ASSUME StateTypes, Starting, Stopping, [TransportNext]_transportVars
    PROVE  Stopping'
<1> DEFINE Joins == {"tree", "capture", "closing", "stopped", "failed"}
<1>1. CASE ~(StopJoins \/ StopTree \/ StopClosesCapture \/ StopEnds)
  <2>1. UNCHANGED <<cleanup, errors>> \/ (~stopping /\ cleanup' = "callbacks")
    <3>1. CASE ~LifeStep
      BY <3>1, LifeMoves
    <3>2. CASE Start
      BY <3>2 DEF Start, CaptureStarts, CaptureStartGoesOn, CaptureStartFails, Spawns, SpawnThread,
         CancelStart,
         StartCancelled, StartEnds, StopBegins, Starting, stopping, stopVars
    <3>3. CASE RootExits \/ Stops
      BY <3>3 DEF RootExits, Stops, StopBegins, stopping, stopVars
    <3> QED
      BY <1>1, <3>1, <3>2, <3>3 DEF LifeStep, StopStep
  <2>2. ASSUME cleanup' \in Joins
        PROVE  /\ \A k \in Callbacks : at'[k] # "working"
               /\ reader' # "reading" /\ drain' # "reading"
    <3>1. cleanup \in Joins /\ stopping /\ ~StartEnds
      BY <2>1, <2>2 DEF stopping, Starting, StartEnds
    <3>2. ASSUME NEW k \in Callbacks
          PROVE  at'[k] # "working"
      BY <3>1, SendersMove DEF Stopping, Sent, Senders
    <3> QED
      BY <3>1, <3>2, ReadersMove DEF Stopping
  <2>3. ASSUME cleanup' \in {"capture", "closing", "stopped"}, ~errors'
        PROVE  child' \in {"none", "absent", "closed"}
    <3>1. UNCHANGED <<cleanup,
                      errors>> /\ child \in {"none", "absent", "closed"} /\ life \in {"running", "refused"}
      BY <2>1, <2>3 DEF Stopping, Starting, stopping
    <3>2. CASE ~LifeStep
      BY <3>1, <3>2, LifeMoves
    <3>3. CASE RootExits \/ Stops
      BY <3>1, <3>3 DEF RootExits, Stops, startVars
    <3>4. CASE Start
      <4>1. UNCHANGED child
        BY <3>1, <3>4 DEF Start, CaptureStarts, CaptureStartGoesOn, CaptureStartFails, Spawns,
           SpawnThread,
           CancelStart, StartEnds, startVars
      <4> QED
        BY <3>1, <4>1
    <3> QED
      BY <1>1, <3>2, <3>3, <3>4 DEF LifeStep, StopStep
  <2>4. cleanup' = "stopped" => ~errors'
    BY <2>1 DEF Stopping
  <2> QED
    BY <2>2, <2>3, <2>4, WorkersJoined DEF Stopping
<1>2. CASE StopJoins
  <2>1. \A k \in Callbacks : at'[k] # "working"
    BY <1>2 DEF StopJoins, CallbacksJoined, Stopping, stopping, sendVars
  <2> QED
    BY <1>2, <2>1, WorkersJoined DEF StopJoins, Stopping
<1>3. CASE StopTree
  <2>1. /\ UNCHANGED <<reader, drain, at>> /\ cleanup = "tree" /\ cleanup' = "capture"
        /\ ~errors' => child' \in {"none", "absent", "closed"}
    <3>1. ~process => child \in {"none", "absent"}
      BY <1>3 DEF StopTree, Starting, stopping
    <3> QED
      BY <1>3, <3>1 DEF StopTree, readVars, sendVars
  <2> QED
    BY <2>1, WorkersJoined DEF Stopping
<1>4. CASE StopClosesCapture
  <2>1. /\ UNCHANGED <<reader, drain, at, child,
                       errors>> /\ cleanup = "capture" /\ cleanup' = "closing"
    BY <1>4 DEF StopClosesCapture, readVars, sendVars, startVars
  <2> QED
    BY <2>1, WorkersJoined DEF Stopping
<1>5. CASE StopEnds
  <2>1. /\ UNCHANGED <<reader, drain, at, child>> /\ cleanup = "closing"
        /\ cleanup' = IF errors' THEN "failed" ELSE "stopped"
        /\ ~errors' => ~errors
    BY <1>5 DEF StopEnds, readVars, sendVars, startVars
  <2> QED
    BY <2>1, WorkersJoined DEF Stopping
<1> QED
  BY <1>1, <1>2, <1>3, <1>4, <1>5

--------------------------------------------------------------------------------
(* The bounds on callbacks                                                 *)

(* A callback that starts was admitted within both bounds, by itself.      *)
AdmitsOne(k) ==
    /\ CallbackFits /\ Cardinality(Used) < MaxLifetime
    /\ \A other \in Callbacks \ {k} : at'[other] = at[other]

LEMMA CallbacksMove ==
    ASSUME StateTypes, [TransportNext]_transportVars, NEW k \in Callbacks
    PROVE  /\ at'[k] # "idle" => at[k] # "idle" \/ AdmitsOne(k)
           /\ at'[k] \notin {"idle", "ended"} => at[k] \notin {"idle", "ended"} \/ AdmitsOne(k)
<1> DEFINE Goal == /\ at'[k] # "idle" => at[k] # "idle" \/ AdmitsOne(k)
                   /\ at'[k] \notin {"idle", "ended"}
                      => at[k] \notin {"idle", "ended"} \/ AdmitsOne(k)
<1> SUFFICES Goal
  OBVIOUS
<1>0. at \in [Senders -> Places] /\ Callbacks \subseteq Senders /\ Requests \subseteq Senders
  BY DEF StateTypes, Senders
<1>1. CASE UNCHANGED at
  BY <1>1
<1> USE DEF sendVars, Moves, Places
<1>2. ASSUME NEW r \in Requests,
             ControlGivesUp(r) \/ WaiterLeaves(r) \/ WaiterReturns(r) \/ Requests_(r)
      PROVE  Goal
  <2>1. r # k
    BY TransportAssumption
  <2>2. \E place : at' = [at EXCEPT ![r] = place]
    BY <1>2 DEF ControlGivesUp, WaiterLeaves, WaiterReturns, Requests_
  <2> QED
    BY <1>0, <2>1, <2>2
<1>3. ASSUME NEW s \in Senders, Sends(s) \/ SendRefused(s) \/ SendBegins(s) \/ SendEnds(s)
      PROVE  Goal
  BY <1>0, <1>3, TransportAssumption DEF Sends, SendRefused, SendBegins, SendEnds, Holds
<1>4. ASSUME NEW s \in Senders, SendGivesUp(s)
      PROVE  Goal
  BY <1>0, <1>4 DEF SendGivesUp, Holds
<1>5. ASSUME NEW s \in Senders, CallerCancels(s) \/ CallbackCancelled(s)
      PROVE  Goal
  BY <1>0, <1>5 DEF CallerCancels, CallbackCancelled, SendCancelled
<1>6. ASSUME NEW other \in Callbacks, AdmitCallback(other) \/ WorkEnds(other)
      PROVE  Goal
  BY <1>0, <1>6 DEF AdmitCallback, WorkEnds, AdmitsOne
<1>7. CASE Start \/ StderrEnds \/ RootExits \/ CaptureWrites \/ OwnerAborts \/ ExpectExit \/ Stops \/ StopStep
  <2>1. UNCHANGED at
    BY <1>7 DEF Start, CaptureStarts, CaptureStartGoesOn, CaptureStartFails, Spawns, SpawnThread,
       CancelStart,
       StartEnds, StderrEnds, RootExits, CaptureWrites, OwnerAborts, ExpectExit, Stops, StopStep,
           StopJoins, StopTree,
       StopClosesCapture, StopEnds
  <2> QED
    BY <1>1, <2>1
<1>8. ASSUME NEW r \in Requests, AdmitAnswer(r)
      PROVE  Goal
  BY <1>1, <1>8 DEF AdmitAnswer
<1>9. CASE AdmitNotification \/ AdmitRogue \/ StreamEnds \/ UNCHANGED transportVars
  BY <1>1, <1>9 DEF AdmitNotification, AdmitRogue, StreamEnds, transportVars
<1> HIDE DEF Goal
<1>10. CASE Send
  BY <1>2, <1>3, <1>4, <1>5, <1>10 DEF Send
<1>11. CASE Read
  BY <1>6, <1>8, <1>9, <1>11 DEF Read
<1> QED
  BY <1>0, <1>5, <1>6, <1>7, <1>9, <1>10, <1>11 DEF TransportNext

CallbacksBounded == Cardinality(InFlight) <= MaxCallbacks /\ Cardinality(Used) <= MaxLifetime

BoundedIInv == IsFiniteSet(Used) /\ CallbacksBounded

LEMMA BoundedStep ==
    ASSUME StateTypes, BoundedIInv, [TransportNext]_transportVars
    PROVE  BoundedIInv'
<1> USE DEF BoundedIInv, CallbacksBounded
<1>1. InFlight \subseteq Used /\ IsFiniteSet(InFlight)
  BY FS_Subset DEF InFlight, Used
<1>2. /\ Cardinality(InFlight) \in Nat /\ Cardinality(Used) \in Nat
      /\ MaxCallbacks \in Nat /\ MaxLifetime \in Nat
  BY <1>1, FS_CardinalityType, TransportAssumption
<1>3. CASE \E k \in Callbacks : AdmitsOne(k)
  <2> PICK k \in Callbacks : AdmitsOne(k)
    BY <1>3
  <2>1. Used' \subseteq Used \cup {k} /\ InFlight' \subseteq InFlight \cup {k}
    BY DEF AdmitsOne, Used, InFlight
  <2>2. /\ IsFiniteSet(Used \cup {k}) /\ Cardinality(Used \cup {k}) <= Cardinality(Used) + 1
        /\ IsFiniteSet(InFlight \cup {k}) /\ Cardinality(InFlight \cup {k}) <= Cardinality(InFlight) + 1
    <3>1. \A S, x : IsFiniteSet(S)
          => IsFiniteSet(S \cup {x}) /\ Cardinality(S \cup {x}) \in {Cardinality(S), Cardinality(S) + 1}
      BY FS_AddElement
    <3> QED
      BY <1>1, <1>2, <3>1
  <2>3. /\ IsFiniteSet(Used') /\ Cardinality(Used') <= Cardinality(Used \cup {k})
        /\ IsFiniteSet(InFlight') /\ Cardinality(InFlight') <= Cardinality(InFlight \cup {k})
    BY <2>1, <2>2, FS_Subset
  <2>4. /\ Cardinality(Used') \in Nat /\ Cardinality(Used \cup {k}) \in Nat
        /\ Cardinality(InFlight') \in Nat /\ Cardinality(InFlight \cup {k}) \in Nat
    BY <2>2, <2>3, FS_CardinalityType
  <2>5. Cardinality(InFlight) < MaxCallbacks /\ Cardinality(Used) < MaxLifetime
    BY DEF AdmitsOne, CallbackFits, Unfinished
  <2> QED
    BY <1>2, <2>2, <2>3, <2>4, <2>5
<1>4. CASE ~\E k \in Callbacks : AdmitsOne(k)
  <2>1. Used' \subseteq Used /\ InFlight' \subseteq InFlight
    BY <1>4, CallbacksMove DEF Used, InFlight
  <2>2. /\ IsFiniteSet(Used') /\ Cardinality(Used') <= Cardinality(Used)
        /\ Cardinality(InFlight') <= Cardinality(InFlight)
        /\ Cardinality(Used') \in Nat /\ Cardinality(InFlight') \in Nat
    BY <1>1, <2>1, FS_Subset, FS_CardinalityType
  <2> QED
    BY <1>2, <2>2
<1> QED
  BY <1>3, <1>4

--------------------------------------------------------------------------------
(* The evidence                                                            *)

(* What the transport does to its capture.                                 *)
CaptureMove ==
    \/ StartOpens \/ StartOpened \/ StartWritten \/ StartFails
    \/ \E size \in Sizes : Record(size) \/ CloseStarts(size)
    \/ WriterTakes \/ WriterWrites \/ WriterFails \/ WriterEnds \/ CloseEnds

LEMMA CaptureMoves ==
    [TransportNext]_transportVars => UNCHANGED captureVars \/ CaptureMove
<1> DEFINE Goal == UNCHANGED captureVars \/ CaptureMove
<1> SUFFICES ASSUME [TransportNext]_transportVars
             PROVE  Goal
  OBVIOUS
<1>1. Observed => Goal
  BY DEF Observed, CaptureMove
<1>2. CASE Start
  BY <1>2 DEF Start, CaptureStarts, CaptureStartGoesOn, CaptureStartFails, Spawns, SpawnThread,
     CancelStart,
     StartEnds, CaptureMove
<1>3. ASSUME NEW r \in Requests,
             \/ ControlGivesUp(r) \/ WaiterLeaves(r) \/ WaiterReturns(r) \/ Requests_(r)
                                 \/ AdmitAnswer(r)
      PROVE  Goal
  BY <1>1, <1>3 DEF ControlGivesUp, WaiterLeaves, WaiterReturns, Requests_, AdmitAnswer
<1>4. ASSUME NEW s \in Senders, \/ Sends(s) \/ SendRefused(s) \/ SendBegins(s) \/ SendEnds(s)
                                \/ SendGivesUp(s) \/ CallerCancels(s) \/ CallbackCancelled(s)
      PROVE  Goal
  BY <1>1, <1>4 DEF Sends, SendRefused, SendBegins, SendEnds, SendGivesUp, CallerCancels,
     CallbackCancelled,
     SendCancelled
<1>5. ASSUME NEW k \in Callbacks, AdmitCallback(k) \/ WorkEnds(k)
      PROVE  Goal
  BY <1>1, <1>5 DEF AdmitCallback, WorkEnds
<1>6. CASE AdmitNotification \/ AdmitRogue \/ StreamEnds
  BY <1>1, <1>6 DEF AdmitNotification, AdmitRogue, StreamEnds
<1>7. CASE StderrEnds \/ RootExits \/ CaptureWrites \/ OwnerAborts \/ ExpectExit \/ Stops
  BY <1>7 DEF StderrEnds, RootExits, CaptureWrites, WriterStep, OwnerAborts, ExpectExit, Stops,
     CaptureMove
<1>8. CASE StopStep
  BY <1>8 DEF StopStep, StopJoins, StopTree, StopClosesCapture, StopEnds, CaptureMove
<1>9. CASE UNCHANGED transportVars
  BY <1>9 DEF transportVars
<1> HIDE DEF Goal
<1>10. Callbacks \subseteq Senders
  BY DEF Senders
<1>11. CASE Send
  BY <1>3, <1>4, <1>11 DEF Send
<1>12. CASE Read
  BY <1>3, <1>5, <1>6, <1>12 DEF Read
<1> QED
  BY <1>2, <1>4, <1>5, <1>7, <1>8, <1>9, <1>10, <1>11, <1>12 DEF TransportNext

(* A record with its size, or the None of close.                           *)
Item == [record : Int, size : Int]

EvidenceTypes ==
    /\ sequence \in Nat /\ last \in Int /\ told \in Nat
    /\ queue \in Seq(Item) /\ hand \in Item /\ file \in Seq(Int)
    /\ writer \in {"new", "opening", "heading", "getting", "writing", "closing", "done", "refused"}

Before == {"new", "opening", "heading"}
Serving == {"getting", "writing"}

(* The record in hand is the next line.                                    *)
Held == IF writer = "writing" THEN 1 ELSE 0

(* Where the writer is says what there can be on disk and in the queue;    *)
(* None is behind every record, and nothing is behind None.                *)
Positions ==
    /\ writer \in Before
       => file = << >> /\ sequence = (IF writer = "heading" THEN 1 ELSE 0) /\ last = -1
    /\ writer \in {"opening", "heading"} => ~closed
    /\ writer \in Before /\ ~closed => queue = << >>
    /\ writer \in {"closing", "done"} => closed \/ failed
    /\ writer \in Serving /\ ~closed => \A i \in 1 .. Len(queue) : queue[i] # None
    /\ writer \in Serving => \A i \in 1 .. Len(queue) : queue[i] = None => i = Len(queue)
    /\ writer \in Serving /\ closed => Len(queue) > 0 /\ queue[Len(queue)] = None

(* Lines, the record in hand and the queue are consecutive.                *)
Consecutive ==
    /\ writer \in Before \cup Serving => \A i \in DOMAIN file : file[i] = i - 1
    /\ FileIsPrefix
    /\ writer = "writing" => hand.record = Len(file)
    /\ writer \in Serving =>
           \A i \in 1 .. Len(queue) : queue[i] # None => queue[i].record = Len(file) + Held + i - 1

(* Nothing is lost before the capture failed: what it was given is written *)
(* or still to come, the None of close apart.                              *)
Coming == Held + Len(queue) - (IF closed THEN 1 ELSE 0)

Whole ==
    /\ Len(file) <= sequence
    /\ writer \in Serving => Len(file) + Coming <= sequence
    /\ writer \in Serving /\ ~failed => Len(file) + Coming = sequence
    /\ writer \in Serving => sequence > 0
    /\ writer \in {"closing", "done"} /\ ~failed =>
           /\ sequence > 0 /\ Len(file) = sequence
           /\ \A i \in DOMAIN file : file[i] = i - 1

(* capture_end is the last record, and it is lost if any is.               *)
Ended ==
    /\ last # -1 => closed /\ last = sequence - 1
    /\ closed /\ writer \in Serving \cup {"closing", "done"} /\ ~failed => last = sequence - 1
    /\ told = (IF failed THEN 1 ELSE 0)
    /\ closer # "idle" => closed
    /\ closer \in {"complete", "incomplete"} => writer \in {"new", "refused", "done"}
    /\ closer = "complete" => ~failed

EvidenceIInv == EvidenceTypes /\ Positions /\ Consecutive /\ Whole /\ Ended

(* Record and close queue behind the records, a writer takes the first.    *)
LEMMA Queued ==
    ASSUME NEW items \in Seq(Item), NEW item \in Item
    PROVE  /\ Append(items, item) \in Seq(Item) /\ Len(Append(items, item)) = Len(items) + 1
           /\ \A i \in 1 .. Len(items) : Append(items, item)[i] = items[i]
           /\ Append(items, item)[Len(items) + 1] = item
  OBVIOUS

LEMMA Taken ==
    ASSUME NEW items \in Seq(Item), items # << >>
    PROVE  /\ Tail(items) \in Seq(Item) /\ Len(Tail(items)) = Len(items) - 1
           /\ \A i \in 1 .. Len(Tail(items)) : Tail(items)[i] = items[i + 1]
           /\ Len(items) > 0 /\ Head(items) = items[1] /\ Head(items) \in Item
  OBVIOUS

LEMMA Written ==
    ASSUME NEW lines \in Seq(Int), NEW new \in Int
    PROVE  /\ Append(lines, new) \in Seq(Int) /\ Len(Append(lines, new)) = Len(lines) + 1
           /\ \A i \in DOMAIN lines : Append(lines, new)[i] = lines[i]
           /\ Append(lines, new)[Len(lines) + 1] = new
           /\ DOMAIN lines = 1 .. Len(lines) /\ DOMAIN Append(lines, new) = 1 .. Len(lines) + 1
  OBVIOUS

LEMMA RecordStep ==
    ASSUME EvidenceIInv, NEW size \in Sizes, Record(size)
    PROVE  EvidenceIInv'
<1> DEFINE item == [record |-> sequence, size |-> size]
<1> USE DEF EvidenceIInv, Record, Take, backlog
<1>1. item \in Item /\ item # None /\ item.record = sequence
  BY CaptureAssumption DEF EvidenceTypes, Item, None
<1>2. UNCHANGED <<file, last, writer, hand, closed,
                  closer>> /\ sequence' = sequence + 1 /\ ~failed /\ ~closed
      /\ writer \notin Before /\ Held' = Held
  BY DEF Before, EvidenceTypes, Held
<1>3. \/ queue' = Append(queue, item) /\ UNCHANGED <<failed, told>>
      \/ queue' = queue /\ failed' = TRUE /\ told' = told + 1
  BY <1>2 DEF Fail
<1>4. EvidenceTypes'
  <2>1. queue' \in Seq(Item)
    BY <1>1, <1>3, Queued DEF EvidenceTypes
  <2>2. sequence' \in Nat /\ told' \in Nat
    BY <1>2, <1>3 DEF EvidenceTypes
  <2> QED
    BY <1>2, <2>1, <2>2 DEF EvidenceTypes
<1>5. CASE queue' = Append(queue, item) /\ UNCHANGED <<failed, told>>
  <2>1. queue \in Seq(Item)
    BY DEF EvidenceTypes
  <2>2. /\ Len(queue') = Len(queue) + 1 /\ queue'[Len(queue) + 1] = item
        /\ \A i \in 1 .. Len(queue) : queue'[i] = queue[i]
    BY <1>1, <1>5, <2>1, Queued
  <2>3. Positions'
    BY <1>1, <1>2, <1>5, <2>1, <2>2 DEF Positions, Before, Serving
  <2>4. Consecutive'
    <3>1. writer \in Serving => Len(file) + Held + Len(queue) = sequence
      BY <1>2 DEF Whole, EvidenceTypes, Held, Coming
    <3>2. ASSUME writer \in Serving, NEW i \in 1 .. Len(queue')
          PROVE  queue'[i] # None => queue'[i].record = Len(file) + Held + i - 1
      <4>1. CASE i \in 1 .. Len(queue)
        BY <2>1, <2>2, <3>2, <4>1 DEF Consecutive
      <4>2. CASE i = Len(queue) + 1
        BY <1>1, <2>1, <2>2, <3>1, <3>2, <4>2 DEF EvidenceTypes, Held
      <4> QED
        BY <2>1, <2>2, <4>1, <4>2
    <3> QED
      BY <1>2, <3>2 DEF Consecutive, FileIsPrefix
  <2>5. Whole'
    <3>1. sequence \in Nat /\ Len(file) \in Nat /\ Len(queue) \in Nat /\ Held \in Nat
      BY <2>1 DEF EvidenceTypes, Held
    <3>2. writer \notin {"closing", "done"}
      BY <1>2 DEF Positions
    <3> QED
      BY <1>2, <1>5, <2>2, <3>1, <3>2 DEF Whole, Coming
  <2>6. Ended'
    BY <1>2, <1>5 DEF Ended
  <2> QED
    BY <1>4, <2>3, <2>4, <2>5, <2>6
<1>6. CASE queue' = queue /\ failed' = TRUE /\ told' = told + 1
  <2>1. Positions' /\ Consecutive'
    BY <1>2, <1>6 DEF Positions, Consecutive, FileIsPrefix, Before, Serving
  <2>2. Whole'
    <3>1. Coming' = Coming /\ Coming \in Int
      BY <1>2, <1>6 DEF Coming, Held, EvidenceTypes
    <3> QED
      BY <1>2, <1>6, <3>1 DEF Whole, EvidenceTypes
  <2>3. Ended'
    BY <1>2, <1>6 DEF Ended
  <2> QED
    BY <1>4, <2>1, <2>2, <2>3
<1> QED
  BY <1>3, <1>5, <1>6

LEMMA StartStep ==
    ASSUME EvidenceIInv, StartOpens \/ StartOpened \/ StartWritten \/ StartFails
    PROVE  EvidenceIInv'
<1>0. EvidenceTypes /\ Positions /\ Consecutive /\ Whole /\ Ended
  BY DEF EvidenceIInv
<1> USE DEF Before, Serving, Held
<1>1. CASE StartOpens \/ StartOpened
  <2>1. /\ writer \in {"new", "opening"} /\ writer' \in {"opening", "heading"} /\ ~closed
        /\ sequence' = (IF writer' = "heading" THEN 1 ELSE 0)
        /\ UNCHANGED <<queue, file, last, hand, failed, told, closed, closer>>
    BY <1>0, <1>1 DEF StartOpens, StartOpened, Positions, backlog, owner
  <2>2. EvidenceTypes' /\ Positions'
    BY <1>0, <2>1 DEF EvidenceTypes, Positions
  <2>3. Consecutive'
    BY <1>0, <2>1 DEF Consecutive, FileIsPrefix
  <2>4. Whole'
    BY <1>0, <2>1 DEF Whole, EvidenceTypes, Positions
  <2>5. Ended'
    BY <1>0, <2>1 DEF Ended, Positions
  <2> QED
    BY <2>2, <2>3, <2>4, <2>5 DEF EvidenceIInv
<1>2. CASE StartWritten
  <2>1. /\ writer = "heading" /\ writer' = "getting" /\ ~closed /\ sequence = 1 /\ file' = <<0>>
        /\ queue = << >> /\ last = -1
        /\ UNCHANGED <<sequence, queue, last, hand, failed, told, closed, closer>>
    BY <1>0, <1>2 DEF StartWritten, Positions, backlog, owner
  <2>2. Len(file') = 1 /\ DOMAIN file' = {1} /\ file'[1] = 0 /\ file' \in Seq(Int)
    BY <2>1
  <2>3. EvidenceTypes' /\ Positions'
    BY <1>0, <2>1, <2>2 DEF EvidenceTypes, Positions
  <2>4. Consecutive' /\ Whole'
    BY <1>0, <2>1, <2>2 DEF Consecutive, FileIsPrefix, Whole, Coming
  <2>5. Ended'
    BY <1>0, <2>1 DEF Ended
  <2> QED
    BY <2>3, <2>4, <2>5 DEF EvidenceIInv
<1>3. CASE StartFails
  <2>1. /\ writer \in {"opening", "heading"} /\ writer' = "refused" /\ ~closed /\ last = -1
        /\ file = << >>
        /\ UNCHANGED <<sequence, queue, last, hand, closed, closer>>
        /\ UNCHANGED <<failed, told>> \/ Fail
    BY <1>0, <1>3 DEF StartFails, Positions, backlog
  <2>2. /\ file' \in Seq(Int) /\ Len(file') \in {0, 1} /\ DOMAIN file' = 1 .. Len(file')
        /\ \A i \in DOMAIN file' : i = 1 /\ writer = "heading" /\ file'[i] \in {0, Torn}
        /\ Len(file') = 1 => writer = "heading"
    <3>1. Torn \in Int
      BY DEF Torn
    <3>2. ASSUME NEW x \in Int, file' = <<x>>
          PROVE  file' \in Seq(Int) /\ Len(file') = 1 /\ DOMAIN file' = {1} /\ file'[1] = x
      BY <3>2
    <3>3. CASE file' = << >>
      BY <3>3
    <3>4. CASE writer = "heading" /\ file' = <<0>>
      BY <3>2, <3>4
    <3>5. CASE writer = "heading" /\ file' = <<Torn>>
      BY <3>1, <3>2, <3>5
    <3> QED
      BY <1>3, <2>1, <3>3, <3>4, <3>5 DEF StartFails
  <2>3. EvidenceTypes'
    <3>1. file' \in Seq(Int) /\ told' \in Nat
      BY <1>0, <2>1, <2>2 DEF EvidenceTypes, Fail
    <3> QED
      BY <1>0, <2>1, <3>1 DEF EvidenceTypes
  <2>4. Positions'
    BY <1>0, <2>1 DEF Positions
  <2>5. Consecutive'
    BY <1>0, <2>1, <2>2 DEF Consecutive, FileIsPrefix
  <2>6. Whole'
    BY <1>0, <2>1, <2>2 DEF Whole, EvidenceTypes, Positions
  <2>7. Ended'
    BY <1>0, <2>1 DEF Ended, Fail
  <2> QED
    BY <2>3, <2>4, <2>5, <2>6, <2>7 DEF EvidenceIInv
<1> QED
  BY <1>1, <1>2, <1>3

LEMMA TakesStep ==
    ASSUME EvidenceIInv, WriterTakes
    PROVE  EvidenceIInv'
<1>0. EvidenceTypes /\ Positions /\ Consecutive /\ Whole /\ Ended
  BY DEF EvidenceIInv
<1> USE DEF Before, Serving
<1>1. queue \in Seq(Item) /\ queue # << >> /\ sequence \in Nat /\ Len(file) \in Nat
  BY <1>0 DEF EvidenceTypes, WriterTakes
<1>2. /\ queue' \in Seq(Item) /\ Len(queue') = Len(queue) - 1 /\ Len(queue) \in Nat /\ Len(queue) > 0
      /\ \A i \in 1 .. Len(queue') : i + 1 \in 1 .. Len(queue) /\ queue'[i] = queue[i + 1]
      /\ Head(queue) = queue[1] /\ Head(queue) \in Item
  <2>1. queue' = Tail(queue)
    BY DEF WriterTakes
  <2> QED
    BY <1>1, <2>1, Taken
<1>3. writer = "getting" /\ UNCHANGED <<sequence, file, last, failed, told, closed, closer>>
  BY DEF WriterTakes, owner
<1>4. EvidenceTypes'
  BY <1>0, <1>2, <1>3 DEF EvidenceTypes, WriterTakes
<1>5. Ended'
  BY <1>0, <1>3 DEF Ended, Positions
<1>6. /\ closed => queue[Len(queue)] = None
      /\ \A i \in 1 .. Len(queue) : queue[i] = None => closed /\ i = Len(queue)
  BY <1>0, <1>3 DEF Positions
<1>7. CASE queue[1] = None
  <2>1. Len(queue) = 1 /\ closed /\ writer' = "closing"
    <3>1. Len(queue) = 1 /\ closed
      BY <1>2, <1>6, <1>7
    <3> QED
      BY <1>2, <1>7, <3>1 DEF WriterTakes
  <2>2. ~failed => Len(file) = sequence /\ sequence > 0 /\ \A i \in DOMAIN file : file[i] = i - 1
    BY <1>0, <1>1, <1>3, <2>1 DEF Whole, Coming, Consecutive, Held
  <2>3. Positions' /\ Whole'
    BY <1>0, <1>3, <2>1, <2>2 DEF Positions, Whole
  <2>4. Consecutive'
    BY <1>0, <1>3, <2>1 DEF Consecutive, FileIsPrefix
  <2> QED
    BY <1>4, <1>5, <2>3, <2>4 DEF EvidenceIInv
<1>8. CASE queue[1] # None
  <2>1. writer' = "writing" /\ hand' = queue[1] /\ Held = 0 /\ Held' = 1
    BY <1>2, <1>3, <1>8 DEF Held, WriterTakes
  <2>2. Positions'
    <3>1. closed => Len(queue) > 1
      BY <1>2, <1>6, <1>8
    <3>2. closed => Len(queue') > 0 /\ queue'[Len(queue')] = None
      BY <1>2, <1>6, <3>1
    <3>3. \A i \in 1 .. Len(queue') : queue'[i] = None => closed /\ i = Len(queue')
      BY <1>2, <1>3, <1>6
    <3> QED
      BY <1>0, <1>3, <2>1, <3>2, <3>3 DEF Positions
  <2>3. Consecutive'
    <3>1. hand'.record = Len(file)
      BY <1>0, <1>1, <1>2, <1>3, <1>8, <2>1 DEF Consecutive
    <3>2. \A i \in 1 .. Len(queue') : queue'[i] # None => queue'[i].record = Len(file) + 1 + i - 1
      BY <1>0, <1>1, <1>2, <1>3, <2>1 DEF Consecutive
    <3> QED
      BY <1>0, <1>3, <2>1, <3>1, <3>2 DEF Consecutive, FileIsPrefix
  <2>4. Whole'
    <3>1. Coming' = Coming /\ Coming \in Int
      BY <1>2, <1>3, <2>1 DEF Coming
    <3>2. writer' = "writing" /\ UNCHANGED <<file, sequence, failed>> /\ writer = "getting"
      BY <1>3, <2>1
    <3> QED
      BY <1>0, <1>1, <3>1, <3>2 DEF Whole
  <2> QED
    BY <1>4, <1>5, <2>2, <2>3, <2>4 DEF EvidenceIInv
<1> QED
  BY <1>7, <1>8

LEMMA WritesStep ==
    ASSUME EvidenceIInv, WriterWrites \/ WriterFails
    PROVE  EvidenceIInv'
<1>0. EvidenceTypes /\ Positions /\ Consecutive /\ Whole /\ Ended
  BY DEF EvidenceIInv
<1> USE DEF Before, Serving
<1>1. /\ writer = "writing" /\ hand.record = Len(file) /\ hand' = None
      /\ writer' \in {"getting", "closing"}
      /\ UNCHANGED <<sequence, queue, last, closed, closer>>
  BY <1>0 DEF WriterWrites, WriterFails, Consecutive, backlog, owner
<1>2. /\ file \in Seq(Int) /\ Len(file) \in Nat /\ hand.record \in Int /\ Len(queue) \in Nat /\ sequence \in Nat
      /\ None \in Item /\ Torn \in Int /\ DOMAIN file = 1 .. Len(file)
  BY <1>0 DEF EvidenceTypes, Item, None, Torn
<1>3. /\ \A i \in DOMAIN file : file[i] = i - 1
      /\ Len(file) + Coming <= sequence
      /\ ~failed => Len(file) + Coming = sequence
      /\ sequence > 0
  BY <1>0, <1>1 DEF Consecutive, Whole
<1>4. Len(file) + 1 <= sequence
  <2>1. Coming >= 1
    BY <1>0, <1>1, <1>2 DEF Coming, Held, Positions
  <2> QED
    BY <1>2, <1>3, <2>1 DEF Coming, Held
<1>5. CASE WriterWrites
  <2>1. /\ file' = Append(file, hand.record) /\ UNCHANGED <<failed, told>>
        /\ writer' = IF failed THEN "closing" ELSE "getting"
    BY <1>5 DEF WriterWrites, owner
  <2>2. /\ file' \in Seq(Int) /\ Len(file') = Len(file) + 1 /\ DOMAIN file' = 1 .. Len(file')
        /\ \A i \in DOMAIN file' : file'[i] = i - 1
    BY <1>1, <1>2, <1>3, <2>1, Written
  <2>3. EvidenceTypes'
    BY <1>0, <1>1, <1>2, <2>1, <2>2 DEF EvidenceTypes
  <2>4. Positions'
    BY <1>0, <1>1, <2>1 DEF Positions
  <2>5. Consecutive'
    <3>1. Held = 1 /\ (writer' = "getting" => Held' = 0)
      BY <1>1 DEF Held
    <3>2. \A i \in 1 .. Len(queue) : queue[i] # None => queue[i].record = Len(file) + 1 + i - 1
      BY <1>0, <1>1, <3>1 DEF Consecutive
    <3>3. queue' = queue /\ Len(file') = Len(file) + 1
      BY <1>1, <2>2
    <3>4. writer' = "getting" => \A i \in 1 .. Len(queue') :
              queue'[i] # None => queue'[i].record = Len(file') + Held' + i - 1
      BY <1>2, <3>1, <3>2, <3>3
    <3> QED
      BY <1>1, <2>2, <3>4 DEF Consecutive, FileIsPrefix
  <2>6. Whole'
    <3>1. writer' = "getting" => Len(file') + Coming' = Len(file) + Coming
      BY <1>1, <1>2, <2>2 DEF Coming, Held
    <3> QED
      BY <1>1, <1>3, <1>4, <2>1, <2>2, <3>1 DEF Whole
  <2>7. Ended'
    BY <1>0, <1>1, <2>1 DEF Ended
  <2> QED
    BY <2>3, <2>4, <2>5, <2>6, <2>7 DEF EvidenceIInv
<1>6. CASE WriterFails
  <2>1. /\ file' \in {file, Append(file, Torn)} /\ writer' = "closing" /\ Fail
    BY <1>6 DEF WriterFails
  <2>2. /\ file' \in Seq(Int) /\ Len(file') \in Nat /\ Len(file') <= Len(file) + 1 /\ DOMAIN file' = 1 .. Len(file')
        /\ \A i \in DOMAIN file' : file'[i] = i - 1 \/ (file'[i] = Torn /\ i = Len(file'))
    <3>1. CASE file' = file
      BY <1>2, <1>3, <3>1
    <3>2. CASE file' = Append(file, Torn)
      <4>1. /\ file' \in Seq(Int) /\ Len(file') = Len(file) + 1 /\ DOMAIN file' = 1 .. Len(file) + 1
            /\ \A i \in DOMAIN file : file'[i] = file[i]
            /\ file'[Len(file) + 1] = Torn
        BY <1>2, <3>2, Written
      <4>2. ASSUME NEW i \in DOMAIN file'
            PROVE  file'[i] = i - 1 \/ (file'[i] = Torn /\ i = Len(file'))
        <5>1. CASE i \in DOMAIN file
          BY <1>3, <4>1, <5>1
        <5>2. CASE i = Len(file) + 1
          BY <4>1, <5>2
        <5> QED
          BY <1>2, <4>1, <5>1, <5>2
      <4> QED
        BY <1>2, <4>1, <4>2
    <3> QED
      BY <2>1, <3>1, <3>2
  <2>3. failed' /\ told' = IF failed THEN told ELSE told + 1
    BY <2>1 DEF Fail
  <2>4. EvidenceTypes'
    <3>1. told' \in Nat
      BY <1>0, <2>3 DEF EvidenceTypes
    <3> QED
      BY <1>0, <1>1, <1>2, <2>1, <2>2, <3>1 DEF EvidenceTypes
  <2>5. Positions' /\ Consecutive'
    BY <1>0, <1>1, <2>1, <2>2, <2>3 DEF Positions, Consecutive, FileIsPrefix
  <2>6. Whole'
    <3>1. Len(file') <= sequence
      BY <1>2, <1>4, <2>2
    <3> QED
      BY <1>1, <2>1, <2>3, <3>1 DEF Whole
  <2>7. Ended'
    BY <1>0, <1>1, <2>1, <2>3 DEF Ended
  <2> QED
    BY <2>4, <2>5, <2>6, <2>7 DEF EvidenceIInv
<1> QED
  BY <1>5, <1>6

LEMMA EndsStep ==
    ASSUME EvidenceIInv, WriterEnds \/ CloseEnds
    PROVE  EvidenceIInv'
<1>0. EvidenceTypes /\ Positions /\ Consecutive /\ Whole /\ Ended
  BY DEF EvidenceIInv
<1> USE DEF Before, Serving
<1>1. CASE WriterEnds
  <2>1. /\ writer = "closing" /\ writer' = "done" /\ queue' = << >>
        /\ UNCHANGED <<sequence, file, last, hand, closed, closer>>
        /\ Fail \/ UNCHANGED <<failed, told>>
    BY <1>1 DEF WriterEnds
  <2>2. EvidenceTypes'
    BY <1>0, <2>1 DEF EvidenceTypes, Fail
  <2>3. Positions' /\ Consecutive'
    BY <1>0, <2>1 DEF Positions, Consecutive, FileIsPrefix, Fail
  <2>4. Whole'
    BY <1>0, <2>1 DEF Whole, Fail
  <2>5. Ended'
    BY <1>0, <2>1 DEF Ended, Fail
  <2> QED
    BY <2>2, <2>3, <2>4, <2>5 DEF EvidenceIInv
<1>2. CASE CloseEnds
  <2>1. /\ closer = "joining" /\ writer \in {"new", "refused", "done"}
        /\ closer' = IF failed THEN "incomplete" ELSE "complete"
        /\ UNCHANGED <<sequence, queue, file, last, writer, hand, failed, told, closed>>
    BY <1>2 DEF CloseEnds, CloseVerdict, backlog, owner
  <2>2. EvidenceTypes' /\ Positions'
    BY <1>0, <2>1 DEF EvidenceTypes, Positions
  <2>3. Consecutive'
    BY <1>0, <2>1 DEF Consecutive, FileIsPrefix, Held
  <2>4. Whole'
    BY <1>0, <2>1 DEF Whole
  <2>5. Ended'
    BY <1>0, <2>1 DEF Ended
  <2> QED
    BY <2>2, <2>3, <2>4, <2>5 DEF EvidenceIInv
<1> QED
  BY <1>1, <1>2

(* Behind what was queued comes capture_end, and None.                     *)
LEMMA CloseStep ==
    ASSUME EvidenceIInv, NEW size \in Sizes, CloseStarts(size)
    PROVE  EvidenceIInv'
<1>0. EvidenceTypes /\ Positions /\ Consecutive /\ Whole /\ Ended
  BY DEF EvidenceIInv
<1> DEFINE item == [record |-> sequence, size |-> size]
           ends == writer \notin {"new", "refused"} /\ ~failed
<1> USE DEF Before, Serving
<1>1. /\ ~closed /\ closed' /\ writer \notin {"opening", "heading"} /\ closer' = "joining"
      /\ UNCHANGED <<file, writer, hand>> /\ Held' = Held
  BY DEF CloseStarts, Held
<1>2. /\ item \in Item /\ item # None /\ item.record = sequence /\ None \in Item
      /\ queue \in Seq(Item) /\ Len(queue) \in Nat /\ sequence \in Nat /\ Len(file) \in Nat /\ Held \in {0, 1}
  BY <1>0, CaptureAssumption DEF EvidenceTypes, Item, None, Held
<1>3. \/ /\ ends /\ sequence' = sequence + 1 /\ last' = sequence /\ UNCHANGED <<failed, told>>
         /\ queue' = Append(Append(queue, item), None)
      \/ ends /\ sequence' = sequence + 1 /\ last' = last /\ Fail /\ queue' = Append(queue, None)
      \/ ~ends /\ UNCHANGED <<sequence, last, failed, told>> /\ queue' = Append(queue, None)
  BY DEF CloseStarts, Woken
<1>4. last = -1
  BY <1>0, <1>1 DEF Ended
<1>5. ends => writer \in Serving
  BY <1>0, <1>1 DEF Positions, EvidenceTypes
<1>6. writer \in Serving =>
          /\ \A i \in 1 .. Len(queue) : queue[i] # None /\ queue[i].record = Len(file) + Held + i - 1
          /\ Len(file) + Held + Len(queue) <= sequence
          /\ ~failed => Len(file) + Held + Len(queue) = sequence
          /\ sequence > 0
  BY <1>0, <1>1, <1>2 DEF Positions, Consecutive, Whole, Coming
<1>7. CASE queue' = Append(queue, None)
  <2>1. /\ queue' \in Seq(Item) /\ Len(queue') = Len(queue) + 1 /\ queue'[Len(queue) + 1] = None
        /\ \A i \in 1 .. Len(queue) : queue'[i] = queue[i]
    BY <1>2, <1>7, Queued
  <2>2. sequence' \in Nat /\ sequence <= sequence' /\ (UNCHANGED <<failed, told>> \/ Fail) /\ UNCHANGED last
        /\ (~failed' => ~ends /\ ~failed /\ UNCHANGED sequence)
    BY <1>2, <1>3, <1>7 DEF Fail
  <2>3. EvidenceTypes'
    BY <1>0, <1>1, <2>1, <2>2 DEF EvidenceTypes, Fail
  <2>4. Positions'
    <3>1. writer = "new" => UNCHANGED <<sequence, last>>
      BY <1>3
    <3>2. writer \in Serving => \A i \in 1 .. Len(queue') : queue'[i] = None => i = Len(queue')
      BY <1>2, <1>6, <2>1
    <3> QED
      BY <1>0, <1>1, <1>2, <2>1, <3>1, <3>2 DEF Positions
  <2>5. Consecutive'
    BY <1>0, <1>1, <1>2, <1>6, <2>1 DEF Consecutive, FileIsPrefix
  <2>6. Whole'
    BY <1>0, <1>1, <1>2, <1>6, <2>1, <2>2 DEF Whole, Coming
  <2>7. Ended'
    BY <1>0, <1>1, <1>4, <2>2 DEF Ended, Fail
  <2> QED
    BY <2>3, <2>4, <2>5, <2>6, <2>7 DEF EvidenceIInv
<1>8. CASE queue' = Append(Append(queue, item), None) /\ ends
  <2>1. /\ queue' \in Seq(Item) /\ Len(queue') = Len(queue) + 2
        /\ queue'[Len(queue) + 1] = item /\ queue'[Len(queue) + 2] = None
        /\ \A i \in 1 .. Len(queue) : queue'[i] = queue[i]
    <3>1. /\ Append(queue, item) \in Seq(Item) /\ Len(Append(queue, item)) = Len(queue) + 1
          /\ Append(queue, item)[Len(queue) + 1] = item
          /\ \A i \in 1 .. Len(queue) : Append(queue, item)[i] = queue[i]
      BY <1>2, Queued
    <3> HIDE DEF item
    <3>2. /\ queue' \in Seq(Item) /\ Len(queue') = Len(queue) + 2 /\ queue'[Len(queue) + 2] = None
          /\ \A i \in 1 .. Len(queue) + 1 : queue'[i] = Append(queue, item)[i]
      BY <1>2, <1>8, <3>1, Queued
    <3> QED
      BY <1>2, <3>1, <3>2
  <2>2. sequence' = sequence + 1 /\ last' = sequence /\ UNCHANGED <<failed,
                                                                    told>> /\ writer \in Serving
    <3>1. queue' # Append(queue, None)
      BY <1>2, <2>1, Queued
    <3> QED
      BY <1>3, <1>5, <1>8, <3>1
  <2>3. EvidenceTypes'
    BY <1>0, <1>1, <1>2, <2>1, <2>2 DEF EvidenceTypes
  <2>4. Positions'
    <3>1. \A i \in 1 .. Len(queue') : queue'[i] = None => i = Len(queue')
      BY <1>2, <1>6, <2>1, <2>2
    <3> QED
      BY <1>1, <1>2, <2>1, <2>2, <3>1 DEF Positions
  <2>5. Consecutive'
    <3>1. \A i \in 1 .. Len(queue') : queue'[i] # None
          => queue'[i].record = Len(file) + Held + i - 1
      BY <1>2, <1>6, <1>8, <2>1, <2>2
    <3> QED
      BY <1>0, <1>1, <2>2, <3>1 DEF Consecutive, FileIsPrefix
  <2>6. Whole'
    BY <1>0, <1>1, <1>2, <1>6, <1>8, <2>1, <2>2 DEF Whole, Coming
  <2>7. Ended'
    BY <1>0, <1>1, <1>2, <2>2 DEF Ended
  <2> QED
    BY <2>3, <2>4, <2>5, <2>6, <2>7 DEF EvidenceIInv
<1> QED
  BY <1>3, <1>7, <1>8

LEMMA EvidenceStep ==
    ASSUME EvidenceIInv, [TransportNext]_transportVars
    PROVE  EvidenceIInv'
<1>1. CASE UNCHANGED captureVars
  BY <1>1 DEF captureVars, backlog, owner, EvidenceIInv, EvidenceTypes, Positions, Consecutive,
     FileIsPrefix, Whole, Coming,
     Ended, Held
<1> QED
  BY <1>1, CaptureMoves, StartStep, RecordStep, CloseStep, TakesStep, WritesStep, EndsStep
     DEF CaptureMove

--------------------------------------------------------------------------------
(* Sums over a queue                                                       *)

(* Every set of natural numbers that is not empty has a least element.     *)
LEMMA LeastNumber ==
    ASSUME NEW S, S \subseteq Nat, S # {}
    PROVE  \E x \in S : \A y \in S : ~(y < x)
<1> DEFINE Below(x) == S \cap 0 .. x
           Initials == {Below(x) : x \in S}
<1>1. Initials \subseteq FiniteSubsetsOf(Nat) /\ Initials # {}
  <2>1. ASSUME NEW x \in S
        PROVE  Below(x) \subseteq Nat /\ IsFiniteSet(Below(x))
    <3>1. IsFiniteSet(0 .. x)
      BY FS_Interval
    <3>2. Below(x) \subseteq 0 .. x
      OBVIOUS
    <3> QED
      BY <3>1, <3>2, FS_Subset
  <2> QED
    BY <2>1, Zenon DEF FiniteSubsetsOf
<1>2. PICK A \in Initials : \A B \in Initials : <<B, A>> \notin StrictSubsetOrdering(Nat)
  <2> HIDE DEF Initials
  <2> QED
    BY <1>1, FS_StrictSubsetOrderingWellFounded, WFMin, Zenon
<1>3. PICK x \in S : A = Below(x)
  OBVIOUS
<1>4. ASSUME NEW y \in S, y < x
      PROVE  FALSE
  <2>1. Below(y) \subseteq Below(x) /\ x \in Below(x) /\ x \notin Below(y)
    BY <1>4, <1>3
  <2>2. <<Below(y), A>> \in StrictSubsetOrdering(Nat)
    BY <2>1, <1>3 DEF StrictSubsetOrdering
  <2> QED
    BY <1>2, <2>2
<1> QED
  BY <1>4

(* What a queue may hold, and the sums over its beginnings.                *)
Sized == [record : Int, size : Nat]

Sums(f, m, items) ==
    f \in [0 .. m -> Nat] /\ f[0] = 0 /\ \A n \in 1 .. m : f[n] = f[n - 1] + items[n].size

LEMMA SizesNatural == \A items \in Seq(Sized) : \A n \in 1 .. Len(items) : items[n].size \in Nat
<1>1. \A item \in Sized : item.size \in Nat
  BY DEF Sized
<1> QED
  BY <1>1

LEMMA SumsExist ==
    ASSUME NEW items \in Seq(Sized)
    PROVE  \E f : Sums(f, Len(items), items)
<1> DEFINE Without == {m \in 0 .. Len(items) : ~\E f : Sums(f, m, items)}
<1> SUFFICES ASSUME Without # {} PROVE FALSE
  <2>1. Len(items) \in 0 .. Len(items)
    OBVIOUS
  <2> QED
    BY <2>1, Zenon
<1>1. PICK m \in Without : \A k \in Without : ~(k < m)
  <2>1. Without \subseteq Nat
    OBVIOUS
  <2> HIDE DEF Without
  <2> QED
    BY <2>1, LeastNumber
<1>2. m # 0
  <2>1. Sums([n \in 0 .. 0 |-> 0], 0, items)
    BY DEF Sums
  <2> QED
    BY <2>1
<1>3. m \in 1 .. Len(items) /\ m - 1 \in 0 .. Len(items) /\ m - 1 \notin Without
  BY <1>1, <1>2
<1>4. PICK f : Sums(f, m - 1, items)
  BY <1>3
<1> DEFINE g == [n \in 0 .. m |-> IF n = m THEN f[m - 1] + items[m].size ELSE f[n]]
<1>5. Sums(g, m, items)
  <2>1. f \in [0 .. m - 1 -> Nat] /\ items[m].size \in Nat
    BY <1>3, <1>4, SizesNatural DEF Sums
  <2>2. g \in [0 .. m -> Nat] /\ g[m] = f[m - 1] + items[m].size /\ \A n \in 0 .. m - 1 : g[n] = f[n]
    BY <1>3, <2>1
  <2> HIDE DEF g
  <2>3. g[0] = 0
    BY <1>3, <1>4, <2>2 DEF Sums
  <2>4. ASSUME NEW n \in 1 .. m
        PROVE  g[n] = g[n - 1] + items[n].size
    <3>1. g[n - 1] = f[n - 1]
      BY <1>3, <2>2, <2>4
    <3>2. n # m => g[n] = f[n] /\ f[n] = f[n - 1] + items[n].size
      BY <1>3, <1>4, <2>2, <2>4 DEF Sums
    <3> QED
      BY <2>2, <3>1, <3>2
  <2> QED
    BY <2>2, <2>3, <2>4 DEF Sums
<1> QED
  BY <1>5

LEMMA SumIs ==
    ASSUME NEW items \in Seq(Sized), NEW f, Sums(f, Len(items), items)
    PROVE  SumOfSizes(items) = f[Len(items)]
<1> DEFINE Sum(g) == g = [n \in 0 .. Len(items) |-> IF n = 0 THEN 0 ELSE g[n - 1] + items[n].size]
           sum == CHOOSE g : Sum(g)
<1>1. SumOfSizes(items) = sum[Len(items)]
  BY Zenon DEF SumOfSizes
<1>2. Sum(f)
  <2>1. \A n \in 0 .. Len(items) : f[n] = IF n = 0 THEN 0 ELSE f[n - 1] + items[n].size
    BY DEF Sums
  <2>2. f = [n \in 0 .. Len(items) |-> f[n]]
    BY DEF Sums
  <2> QED
    BY <2>1, <2>2
<1>3. Sum(sum)
  <2> HIDE DEF Sum
  <2> QED
    BY <1>2
<1>4. \A n \in 0 .. Len(items) : sum[n] = IF n = 0 THEN 0 ELSE sum[n - 1] + items[n].size
  <2> HIDE DEF sum
  <2> QED
    BY <1>3
<1> HIDE DEF sum
<1> DEFINE Apart == {n \in 0 .. Len(items) : sum[n] # f[n]}
<1>5. Apart = {}
  <2> SUFFICES ASSUME Apart # {} PROVE FALSE
    OBVIOUS
  <2>1. PICK m \in Apart : \A k \in Apart : ~(k < m)
    <3>1. Apart \subseteq Nat
      OBVIOUS
    <3> HIDE DEF Apart
    <3> QED
      BY <3>1, LeastNumber
  <2>2. m # 0
    BY <1>4 DEF Sums
  <2>3. m \in 1 .. Len(items) /\ m - 1 \in 0 .. Len(items) /\ m - 1 \notin Apart
    BY <2>1, <2>2
  <2>4. sum[m] = sum[m - 1] + items[m].size /\ sum[m - 1] = f[m - 1]
    BY <1>4, <2>3
  <2> QED
    BY <2>3, <2>4 DEF Sums
<1>6. Len(items) \in 0 .. Len(items)
  OBVIOUS
<1> QED
  BY <1>1, <1>5, <1>6

(* What is appended is added, what is taken is taken off.                  *)
LEMMA SumAppend ==
    ASSUME NEW items \in Seq(Sized), NEW item \in Sized
    PROVE  SumOfSizes(Append(items, item)) = SumOfSizes(items) + item.size
<1>1. PICK f : Sums(f, Len(items), items)
  BY SumsExist
<1> DEFINE all == Append(items, item)
           g == [n \in 0 .. Len(items) + 1 |->
                    IF n = Len(items) + 1 THEN f[Len(items)] + item.size ELSE f[n]]
<1>2. /\ all \in Seq(Sized) /\ Len(all) = Len(items) + 1 /\ all[Len(items) + 1] = item
      /\ \A n \in 1 .. Len(items) : all[n] = items[n]
      /\ item.size \in Nat
  BY DEF Sized
<1>3. Sums(g, Len(all), all)
  <2>1. f \in [0 .. Len(items) -> Nat]
    BY <1>1 DEF Sums
  <2>2. /\ g \in [0 .. Len(items) + 1 -> Nat] /\ g[Len(items) + 1] = f[Len(items)] + item.size
        /\ \A n \in 0 .. Len(items) : g[n] = f[n]
    BY <1>2, <2>1
  <2> HIDE DEF g, all
  <2>3. g[0] = 0
    BY <1>1, <2>2 DEF Sums
  <2>4. ASSUME NEW n \in 1 .. Len(items) + 1
        PROVE  g[n] = g[n - 1] + all[n].size
    <3>1. g[n - 1] = f[n - 1]
      BY <2>2, <2>4
    <3>2. n # Len(items) + 1 => g[n] = f[n] /\ f[n] = f[n - 1] + all[n].size
      BY <1>1, <1>2, <2>2, <2>4 DEF Sums
    <3> QED
      BY <1>2, <2>2, <3>1, <3>2
  <2> QED
    BY <1>2, <2>2, <2>3, <2>4 DEF Sums
<1>4. SumOfSizes(all) = g[Len(items) + 1]
  <2> HIDE DEF g, all
  <2> QED
    BY <1>2, <1>3, SumIs
<1> QED
  BY <1>1, <1>4, SumIs

LEMMA SumTail ==
    ASSUME NEW items \in Seq(Sized), items # << >>
    PROVE  SumOfSizes(items) = Head(items).size + SumOfSizes(Tail(items))
<1> DEFINE rest == Tail(items)
           first == Head(items).size
<1>1. /\ rest \in Seq(Sized) /\ Len(items) = Len(rest) + 1 /\ first = items[1].size /\ first \in Nat
      /\ \A n \in 1 .. Len(rest) : rest[n] = items[n + 1]
  <2>1. /\ rest \in Seq(Sized) /\ Len(items) = Len(rest) + 1 /\ first = items[1].size
        /\ \A n \in 1 .. Len(rest) : rest[n] = items[n + 1]
    OBVIOUS
  <2> QED
    BY <2>1, SizesNatural
<1>2. PICK f : Sums(f, Len(rest), rest)
  BY <1>1, SumsExist
<1> HIDE DEF rest, first
<1> DEFINE g == [n \in 0 .. Len(items) |-> IF n = 0 THEN 0 ELSE first + f[n - 1]]
<1>3. Sums(g, Len(items), items)
  <2>1. f \in [0 .. Len(rest) -> Nat] /\ Len(rest) \in Nat
    BY <1>1, <1>2 DEF Sums
  <2>2. /\ g \in [0 .. Len(items) -> Nat] /\ g[0] = 0
        /\ \A n \in 1 .. Len(items) : g[n] = first + f[n - 1]
    BY <1>1, <2>1
  <2> HIDE DEF g
  <2>3. ASSUME NEW n \in 1 .. Len(items)
        PROVE  g[n] = g[n - 1] + items[n].size
    <3>1. CASE n = 1
      <4>1. f[0] = 0
        BY <1>2 DEF Sums
      <4>2. g[1] = first + f[0] /\ g[0] = 0 /\ items[1].size = first
        BY <1>1, <2>2, <3>1
      <4> QED
        BY <1>1, <3>1, <4>1, <4>2
    <3>2. CASE n # 1
      <4>1. n - 1 \in 1 .. Len(rest) /\ rest[n - 1] = items[n] /\ n - 1 \in 1 .. Len(items)
        BY <1>1, <2>1, <3>2
      <4>2. f[n - 1] = f[n - 2] + items[n].size
        BY <1>2, <4>1 DEF Sums
      <4>3. g[n] = first + f[n - 1] /\ g[n - 1] = first + f[n - 2]
        BY <2>2, <4>1
      <4>4. f[n - 2] \in Nat /\ items[n].size \in Nat
        BY <2>1, <4>1, SizesNatural
      <4> QED
        BY <1>1, <4>2, <4>3, <4>4
    <3> QED
      BY <3>1, <3>2
  <2> QED
    BY <2>2, <2>3 DEF Sums
<1>4. SumOfSizes(items) = first + f[Len(rest)]
  <2>1. Len(items) \in 0 .. Len(items) /\ Len(items) # 0 /\ Len(items) - 1 = Len(rest)
    BY <1>1
  <2>2. g[Len(items)] = first + f[Len(rest)]
    BY <2>1
  <2> HIDE DEF g
  <2> QED
    BY <1>3, <2>2, SumIs
<1>5. SumOfSizes(rest) = f[Len(rest)]
  BY <1>1, <1>2, SumIs
<1> QED
  BY <1>4, <1>5 DEF rest, first

LEMMA SumNatural ==
    ASSUME NEW items \in Seq(Sized)
    PROVE  SumOfSizes(items) \in Nat /\ (items = << >> => SumOfSizes(items) = 0)
<1>1. PICK f : Sums(f, Len(items), items)
  BY SumsExist
<1>2. Len(items) \in 0 .. Len(items) /\ (items = << >> => Len(items) = 0)
  OBVIOUS
<1> QED
  BY <1>1, <1>2, SumIs DEF Sums

--------------------------------------------------------------------------------
(* The counts                                                              *)

Entries == Items \cup {None}

(* The types of the capture within the bound of the model.                 *)
CaptureTyped ==
    /\ sequence <= MaxSequence + 1 /\ (~closed => sequence <= MaxSequence)
    /\ queue \in Seq(Entries) /\ hand \in Entries
    /\ file \in Seq((0 .. MaxSequence) \cup {Torn}) /\ last \in -1 .. MaxSequence
    /\ closer \in {"idle", "joining", "complete", "incomplete"}

(* What is counted is in the queue or in hand, None apart.                 *)
Counts ==
    /\ bytes \in Nat /\ records \in Nat
    /\ bytes <= MaxPendingBytes /\ records <= MaxPendingRecords
    /\ writer \in Before => bytes = 0 /\ records = 0
    /\ hand = None <=> writer # "writing"
    /\ writer \in Serving => bytes = SumOfSizes(queue) + hand.size /\ records = Coming

CountsIInv == CaptureTyped /\ Counts

LEMMA CaptureBounds ==
    /\ MaxSequence \in Nat /\ MaxSequence > 0
    /\ \A size \in Sizes : size \in Nat
    /\ MaxPendingBytes \in Nat /\ MaxPendingRecords \in Nat
BY CaptureAssumption

LEMMA EntrySizes ==
    /\ None \in Entries /\ None.size = 0 /\ Entries \subseteq Sized
    /\ \A item \in Entries : item \in Sized /\ item.size \in Nat /\ (item # None => item.record \in 0 .. MaxSequence)
    /\ Seq(Entries) \subseteq Seq(Sized)
    /\ \A n \in 0 .. MaxSequence, size \in Sizes :
           [record |-> n, size |-> size] \in Entries /\ [record |-> n, size |-> size] # None
<1>1. None \in Entries /\ None.size = 0 /\ None \in Sized
  BY DEF Entries, None, Sized
<1>2. ASSUME NEW item \in Items
      PROVE  item \in Sized /\ item.size \in Nat /\ item.record \in 0 .. MaxSequence
  <2>1. item.record \in 0 .. MaxSequence /\ item.size \in Sizes
    BY DEF Items
  <2>2. item = [record |-> item.record, size |-> item.size]
    BY DEF Items
  <2>3. item.record \in Int /\ item.size \in Nat
    BY <2>1, CaptureBounds
  <2>4. [record |-> item.record, size |-> item.size] \in Sized
    BY <2>3 DEF Sized
  <2> QED
    BY <2>1, <2>2, <2>3, <2>4
<1>3. Entries \subseteq Sized
  BY <1>1, <1>2 DEF Entries
<1>4. \A n \in 0 .. MaxSequence, size \in Sizes :
          [record |-> n, size |-> size] \in Entries /\ [record |-> n, size |-> size] # None
  BY DEF Entries, Items, None
<1>5. Seq(Entries) \subseteq Seq(Sized)
  BY <1>3
<1> QED
  BY <1>1, <1>2, <1>3, <1>4, <1>5 DEF Entries

LEMMA Enqueued ==
    ASSUME NEW items \in Seq(Entries), NEW item \in Entries
    PROVE  /\ Append(items, item) \in Seq(Entries) /\ Len(Append(items, item)) = Len(items) + 1
           /\ SumOfSizes(Append(items, item)) = SumOfSizes(items) + item.size
           /\ SumOfSizes(items) \in Nat /\ Len(items) \in Nat
<1>1. items \in Seq(Sized) /\ item \in Sized
  BY EntrySizes
<1> QED
  BY <1>1, SumAppend, SumNatural

LEMMA Dequeued ==
    ASSUME NEW items \in Seq(Entries), items # << >>
    PROVE  /\ Tail(items) \in Seq(Entries) /\ Head(items) \in Entries
           /\ Len(Tail(items)) = Len(items) - 1 /\ Len(items) \in Nat
           /\ SumOfSizes(items) = Head(items).size + SumOfSizes(Tail(items))
           /\ SumOfSizes(Tail(items)) \in Nat
<1>1. items \in Seq(Sized) /\ Tail(items) \in Seq(Sized)
  BY EntrySizes
<1>2. /\ Tail(items) \in Seq(Entries) /\ Head(items) \in Entries
      /\ Len(Tail(items)) = Len(items) - 1 /\ Len(items) \in Nat
  OBVIOUS
<1>3. SumOfSizes(items) = Head(items).size + SumOfSizes(Tail(items))
  BY <1>1, SumTail
<1>4. SumOfSizes(Tail(items)) \in Nat
  BY <1>1, SumNatural
<1> QED
  BY <1>2, <1>3, <1>4

LEMMA StartCounts ==
    ASSUME EvidenceIInv, CountsIInv, StartOpens \/ StartOpened \/ StartWritten \/ StartFails
    PROVE  CountsIInv'
<1>0. EvidenceTypes /\ Positions /\ Whole /\ CaptureTyped /\ Counts
  BY DEF EvidenceIInv, CountsIInv
<1>1. /\ UNCHANGED <<queue, bytes, records, last, hand, closed, closer>>
      /\ writer \in Before /\ ~closed /\ writer' # "writing" /\ queue = << >>
      /\ writer' \in Serving => file' = Append(file, 0) /\ UNCHANGED sequence
  BY <1>0 DEF StartOpens, StartOpened, StartWritten, StartFails, Positions, Before, Serving,
     backlog,
     owner
<1>2. /\ sequence' \in {sequence, sequence + 1}
      /\ sequence' # sequence => sequence = 0
      /\ file' \in {file, Append(file, 0), <<0>>, <<Torn>>}
  BY <1>0 DEF StartOpens, StartOpened, StartWritten, StartFails, Positions, Before
<1>3. CaptureTyped'
  <2>1. sequence' <= MaxSequence
    BY <1>0, <1>1, <1>2, CaptureBounds DEF CaptureTyped, EvidenceTypes
  <2>2. file' \in Seq((0 .. MaxSequence) \cup {Torn})
    <3>1. 0 \in 0 .. MaxSequence
      BY CaptureBounds
    <3> DEFINE Line == (0 .. MaxSequence) \cup {Torn}
    <3>2. file \in Seq(Line) /\ 0 \in Line /\ Torn \in Line
      BY <1>0, <3>1 DEF CaptureTyped
    <3> HIDE DEF Line
    <3>3. Append(file, 0) \in Seq(Line) /\ <<0>> \in Seq(Line) /\ <<Torn>> \in Seq(Line)
      BY <3>2
    <3>4. file' \in Seq(Line)
      BY <1>2, <3>2, <3>3
    <3> QED
      BY <3>4 DEF Line
  <2>3. sequence' <= MaxSequence + 1
    BY <1>0, <1>2, <2>1, CaptureBounds DEF EvidenceTypes
  <2> QED
    BY <1>0, <1>1, <2>1, <2>2, <2>3 DEF CaptureTyped
<1>4. Counts'
  <2>1. SumOfSizes(queue) = 0 /\ queue' = queue /\ Len(queue) = 0
    <3>1. queue \in Seq(Sized)
      BY <1>0, EntrySizes DEF CaptureTyped
    <3> QED
      BY <1>1, <3>1, SumNatural
  <2>2. hand = None /\ hand.size = 0 /\ bytes = 0 /\ records = 0
    BY <1>0, <1>1, EntrySizes DEF Counts, Before
  <2> QED
    BY <1>0, <1>1, <2>1, <2>2 DEF Counts, Coming, Held, Before, Serving
<1> QED
  BY <1>3, <1>4 DEF CountsIInv

LEMMA RecordCounts ==
    ASSUME EvidenceIInv, CountsIInv, NEW size \in Sizes, Record(size)
    PROVE  CountsIInv'
<1>0. EvidenceTypes /\ Positions /\ CaptureTyped /\ Counts
  BY DEF EvidenceIInv, CountsIInv
<1> DEFINE item == [record |-> sequence, size |-> size]
<1>1. /\ UNCHANGED <<file, last, writer, hand, closed, closer>> /\ ~closed
      /\ sequence < MaxSequence /\ sequence' = sequence + 1 /\ writer \notin Before
      /\ \/ UNCHANGED <<queue, bytes, records>>
         \/ /\ queue' = Append(queue, item) /\ bytes' = bytes + size /\ records' = records + 1
            /\ bytes' <= MaxPendingBytes /\ records' <= MaxPendingRecords
  BY <1>0, CaptureBounds DEF Record, Take, Fits, Counted, backlog, Before, Counts
<1>2. sequence \in Nat /\ sequence \in 0 .. MaxSequence /\ size \in Nat
  BY <1>0, <1>1, CaptureBounds DEF EvidenceTypes
<1>3. CaptureTyped'
  <2>1. queue' \in Seq(Entries)
    BY <1>0, <1>1, <1>2, EntrySizes, Enqueued DEF CaptureTyped
  <2> QED
    BY <1>0, <1>1, <1>2, <2>1, CaptureBounds DEF CaptureTyped
<1>4. Counts'
  <2>1. CASE UNCHANGED <<queue, bytes, records>>
    BY <1>0, <1>1, <2>1 DEF Counts, Coming, Held
  <2>2. CASE /\ queue' = Append(queue, item) /\ bytes' = bytes + size /\ records' = records + 1
             /\ bytes' <= MaxPendingBytes /\ records' <= MaxPendingRecords
    <3>1. item \in Entries /\ queue \in Seq(Entries) /\ item.size = size
      BY <1>0, <1>2, EntrySizes DEF CaptureTyped
    <3>2. /\ SumOfSizes(queue') = SumOfSizes(queue) + size /\ Len(queue') = Len(queue) + 1
          /\ SumOfSizes(queue) \in Nat /\ Len(queue) \in Nat
      BY <2>2, <3>1, Enqueued
    <3>3. hand.size \in Nat
      BY <1>0, EntrySizes DEF CaptureTyped
    <3> HIDE DEF item
    <3> QED
      BY <1>0, <1>1, <1>2, <2>2, <3>2, <3>3 DEF Counts, Coming, Held
  <2> QED
    BY <1>1, <2>1, <2>2
<1> QED
  BY <1>3, <1>4 DEF CountsIInv

LEMMA CloseCounts ==
    ASSUME EvidenceIInv, CountsIInv, NEW size \in Sizes, CloseStarts(size)
    PROVE  CountsIInv'
<1>0. EvidenceTypes /\ Positions /\ CaptureTyped /\ Counts
  BY DEF EvidenceIInv, CountsIInv
<1> DEFINE item == [record |-> sequence, size |-> size]
           Ends == /\ writer \notin {"new", "refused"} /\ sequence' = sequence + 1 /\ last' = sequence
                   /\ queue' = Append(Append(queue, item), None)
                   /\ bytes' = bytes + size /\ records' = records + 1
                   /\ bytes' <= MaxPendingBytes /\ records' <= MaxPendingRecords
<1>1. /\ UNCHANGED <<file, writer, hand>> /\ ~closed /\ closed' /\ closer' = "joining"
      /\ writer \notin {"opening", "heading"}
      /\ \/ Ends
         \/ /\ queue' = Append(queue, None) /\ UNCHANGED <<bytes, records, last>>
            /\ sequence' \in {sequence, sequence + 1}
  BY <1>0, CaptureBounds DEF CloseStarts, Woken, Fits, Counted, Counts
<1>2. /\ sequence \in 0 .. MaxSequence /\ size \in Nat /\ queue \in Seq(Entries) /\ None \in Entries
      /\ item \in Entries /\ item.size = size /\ hand.size \in Nat /\ None.size = 0
  BY <1>0, <1>1, EntrySizes, CaptureBounds DEF EvidenceTypes, CaptureTyped
<1> HIDE DEF item
<1>3. CaptureTyped'
  <2>1. queue' \in Seq(Entries)
    BY <1>1, <1>2, Enqueued
  <2>2. last' \in -1 .. MaxSequence /\ sequence' <= MaxSequence + 1
    BY <1>0, <1>1, <1>2, CaptureBounds DEF CaptureTyped
  <2> QED
    BY <1>0, <1>1, <2>1, <2>2 DEF CaptureTyped
<1>4. Counts'
  <2>1. CASE Ends
    <3>1. Append(queue, item) \in Seq(Entries)
      BY <1>2, Enqueued
    <3>2. /\ SumOfSizes(Append(queue, item)) = SumOfSizes(queue) + size
          /\ Len(Append(queue, item)) = Len(queue) + 1
          /\ SumOfSizes(queue) \in Nat /\ Len(queue) \in Nat
      BY <1>2, Enqueued
    <3>3. /\ SumOfSizes(queue') = SumOfSizes(Append(queue, item)) + 0
          /\ Len(queue') = Len(Append(queue, item)) + 1
      BY <1>2, <2>1, <3>1, Enqueued
    <3>4. SumOfSizes(queue') = SumOfSizes(queue) + size /\ Len(queue') = Len(queue) + 2
      BY <1>2, <3>2, <3>3
    <3>5. /\ writer \in Serving => records' = Coming'
      BY <1>0, <1>1, <2>1, <3>2, <3>4 DEF Counts, Coming, Held
    <3>6. bytes' \in Nat /\ records' \in Nat
      BY <1>0, <1>2, <2>1 DEF Counts
    <3>7. writer \in Serving => bytes' = SumOfSizes(queue') + hand'.size
      <4>1. ASSUME writer \in Serving
            PROVE  bytes = SumOfSizes(queue) + hand.size
        BY <1>0, <4>1 DEF Counts
      <4>2. bytes' = bytes + size /\ hand' = hand
        BY <1>1, <2>1
      <4>3. bytes \in Nat
        BY <1>0 DEF Counts
      <4> QED
        BY <1>2, <3>2, <3>4, <4>1, <4>2, <4>3
    <3> QED
      BY <1>0, <1>1, <2>1, <3>5, <3>6, <3>7 DEF Counts, Before
  <2>2. CASE queue' = Append(queue, None) /\ UNCHANGED <<bytes, records>>
    <3>1. /\ SumOfSizes(queue') = SumOfSizes(queue) + 0 /\ Len(queue') = Len(queue) + 1
          /\ SumOfSizes(queue) \in Nat /\ Len(queue) \in Nat
      BY <1>2, <2>2, Enqueued
    <3> QED
      BY <1>0, <1>1, <1>2, <2>2, <3>1 DEF Counts, Coming, Held, Before
  <2> QED
    BY <1>1, <2>1, <2>2
<1> QED
  BY <1>3, <1>4 DEF CountsIInv

LEMMA WriterCounts ==
    ASSUME EvidenceIInv, CountsIInv,
           WriterTakes \/ WriterWrites \/ WriterFails \/ WriterEnds \/ CloseEnds
    PROVE  CountsIInv'
<1>0. EvidenceTypes /\ Positions /\ CaptureTyped /\ Counts
  BY DEF EvidenceIInv, CountsIInv
<1>1. CASE WriterTakes
  <2>1. /\ writer = "getting" /\ queue # << >> /\ queue' = Tail(queue)
        /\ UNCHANGED <<sequence, bytes, records, file, last, closed, closer>>
        /\ \/ Head(queue) = None /\ writer' = "closing" /\ hand' = hand
           \/ Head(queue) # None /\ writer' = "writing" /\ hand' = Head(queue)
    BY <1>1 DEF WriterTakes, owner
  <2>2. /\ queue' \in Seq(Entries) /\ Head(queue) \in Entries /\ Len(queue') = Len(queue) - 1
        /\ Len(queue) \in Nat
        /\ SumOfSizes(queue) = Head(queue).size + SumOfSizes(queue') /\ SumOfSizes(queue') \in Nat
    BY <1>0, <2>1, Dequeued DEF CaptureTyped
  <2>3. hand = None /\ hand.size = 0 /\ Head(queue).size \in Nat
    BY <1>0, <2>1, <2>2, EntrySizes DEF Counts
  <2>4. CaptureTyped'
    BY <1>0, <2>1, <2>2 DEF CaptureTyped
  <2>5. Counts'
    <3>1. bytes = SumOfSizes(queue) /\ records = Coming
      <4>1. SumOfSizes(queue) \in Nat
        BY <2>2, <2>3
      <4>2. bytes = SumOfSizes(queue) + hand.size /\ records = Coming
        BY <1>0, <2>1 DEF Counts, Serving
      <4> QED
        BY <2>3, <4>1, <4>2
    <3>2. CASE writer' = "closing"
      BY <1>0, <2>1, <3>2 DEF Counts, Before, Serving
    <3>3. CASE writer' = "writing"
      <4>0. hand' = Head(queue) /\ bytes' = bytes /\ records' = records /\ closed' = closed
        BY <2>1, <3>3
      <4>1. bytes' = SumOfSizes(queue') + hand'.size
        BY <2>2, <2>3, <3>1, <4>0
      <4>2. records' = Coming'
        <5>1. Coming = Len(queue) - (IF closed THEN 1 ELSE 0)
          BY <2>1, <2>2 DEF Coming, Held
        <5>2. Coming' = Len(queue) - (IF closed THEN 1 ELSE 0)
          BY <2>2, <3>3, <4>0 DEF Coming, Held
        <5> QED
          BY <3>1, <4>0, <5>1, <5>2
      <4> QED
        BY <1>0, <2>1, <3>3, <4>1, <4>2 DEF Counts, Before
    <3> QED
      BY <2>1, <3>2, <3>3
  <2> QED
    BY <2>4, <2>5 DEF CountsIInv
<1>2. CASE WriterWrites
  <2>1. /\ writer = "writing" /\ file' = Append(file, hand.record) /\ hand' = None
        /\ bytes' = bytes - hand.size /\ records' = records - 1 /\ writer' \in {"closing", "getting"}
        /\ UNCHANGED <<sequence, queue, last, closed, closer>>
    BY <1>2 DEF WriterWrites, owner
  <2>2. /\ hand # None /\ hand.record \in 0 .. MaxSequence /\ hand.size \in Nat
        /\ None \in Entries /\ None.size = 0
    BY <1>0, <2>1, EntrySizes DEF Counts, CaptureTyped
  <2>3. SumOfSizes(queue) \in Nat /\ Len(queue) \in Nat
    BY <1>0, EntrySizes, SumNatural DEF CaptureTyped
  <2>4. CaptureTyped'
    <3>1. file' \in Seq((0 .. MaxSequence) \cup {Torn})
      BY <1>0, <2>1, <2>2 DEF CaptureTyped
    <3> QED
      BY <1>0, <2>1, <2>2, <3>1 DEF CaptureTyped
  <2>5. Counts'
    <3>1. bytes = SumOfSizes(queue) + hand.size /\ records = Coming
      BY <1>0, <2>1 DEF Counts, Serving
    <3>2. Coming = Len(queue) + 1 - (IF closed THEN 1 ELSE 0) /\ (closed => Len(queue) > 0)
      BY <1>0, <2>1, <2>3 DEF Coming, Held, Positions, Serving
    <3>3. bytes' = SumOfSizes(queue) /\ records' = Len(queue) - (IF closed THEN 1 ELSE 0)
      BY <2>1, <2>2, <2>3, <3>1, <3>2
    <3>4. bytes' \in Nat /\ records' \in Nat /\ bytes' <= bytes /\ records' <= records
      BY <2>1, <2>2, <2>3, <3>1, <3>2, <3>3
    <3>5. writer' \in Serving => bytes' = SumOfSizes(queue') + hand'.size /\ records' = Coming'
      <4>1. queue' = queue /\ closed' = closed /\ hand'.size = 0
        BY <2>1, <2>2
      <4>2. writer' \in Serving => Coming' = Len(queue) - (IF closed THEN 1 ELSE 0)
        BY <2>1, <2>3, <4>1 DEF Coming, Held, Serving
      <4> QED
        BY <2>3, <3>3, <4>1, <4>2
    <3> QED
      BY <1>0, <2>1, <3>4, <3>5, CaptureBounds DEF Counts, Before
  <2> QED
    BY <2>4, <2>5 DEF CountsIInv
<1>3. CASE WriterFails
  <2>1. /\ writer = "writing" /\ file' \in {file, Append(file, Torn)} /\ hand' = None /\ writer' = "closing"
        /\ UNCHANGED <<sequence, queue, bytes, records, last, closed, closer>>
    BY <1>3 DEF WriterFails, backlog
  <2>2. CaptureTyped'
    <3>1. file' \in Seq((0 .. MaxSequence) \cup {Torn})
      BY <1>0, <2>1 DEF CaptureTyped
    <3> QED
      BY <1>0, <2>1, <3>1, EntrySizes DEF CaptureTyped
  <2>3. Counts'
    BY <1>0, <2>1 DEF Counts, Before, Serving
  <2> QED
    BY <2>2, <2>3 DEF CountsIInv
<1>4. CASE WriterEnds
  <2>1. /\ writer = "closing" /\ writer' = "done" /\ queue' = << >> /\ bytes' = 0 /\ records' = 0
        /\ UNCHANGED <<sequence, file, last, hand, closed, closer>>
    BY <1>4 DEF WriterEnds
  <2>2. CaptureTyped'
    BY <1>0, <2>1 DEF CaptureTyped
  <2>3. Counts'
    BY <1>0, <2>1, CaptureBounds DEF Counts, Before, Serving
  <2> QED
    BY <2>2, <2>3 DEF CountsIInv
<1>5. CASE CloseEnds
  <2>1. /\ UNCHANGED <<sequence, queue, bytes, records, file, last, writer, hand, closed>>
        /\ closer' \in {"complete", "incomplete"}
    BY <1>5 DEF CloseEnds, CloseVerdict, backlog, owner
  <2>2. CaptureTyped'
    BY <1>0, <2>1 DEF CaptureTyped
  <2>3. Counts'
    BY <1>0, <2>1 DEF Counts, Before, Serving, Coming, Held
  <2> QED
    BY <2>2, <2>3 DEF CountsIInv
<1> QED
  BY <1>1, <1>2, <1>3, <1>4, <1>5

LEMMA CountsStep ==
    ASSUME EvidenceIInv, CountsIInv, [TransportNext]_transportVars
    PROVE  CountsIInv'
<1>1. CASE UNCHANGED captureVars
  BY <1>1 DEF captureVars, backlog, owner, CountsIInv, CaptureTyped, Counts, Coming, Held
<1> QED
  BY <1>1, CaptureMoves, StartCounts, RecordCounts, CloseCounts, WriterCounts DEF CaptureMove

(* The limits hold, and what is counted is what is still to be written.    *)
LEMMA PendingExact ==
    ASSUME EvidenceIInv, CountsIInv
    PROVE  PendingIsExact
<1>1. bytes <= MaxPendingBytes /\ records <= MaxPendingRecords
  BY DEF CountsIInv, Counts
<1>2. ASSUME writer \in Serving
      PROVE  Cardinality(RecordsOf(queue)) = Len(queue) - (IF closed THEN 1 ELSE 0)
  <2>1. queue \in Seq(Entries) /\ Len(queue) \in Nat /\ DOMAIN queue = 1 .. Len(queue)
    BY DEF CountsIInv, CaptureTyped
  <2> DEFINE size == IF closed THEN Len(queue) - 1 ELSE Len(queue)
  <2>2. /\ closed => Len(queue) > 0 /\ queue[Len(queue)] = None
        /\ ~closed => \A i \in 1 .. Len(queue) : queue[i] # None
        /\ \A i \in 1 .. Len(queue) : queue[i] = None => i = Len(queue)
    BY <1>2 DEF EvidenceIInv, Positions
  <2>3. RecordsOf(queue) = 1 .. size
    <3>1. CASE closed
      <4>1. size = Len(queue) - 1 /\ queue[Len(queue)] = None /\ Len(queue) > 0
        BY <2>2, <3>1
      <4> HIDE DEF size
      <4>2. \A i \in 1 .. Len(queue) : queue[i] # None <=> i \in 1 .. size
        <5>1. Len(queue) \in Nat
          BY <2>1
        <5>2. \A i \in 1 .. Len(queue) : queue[i] = None <=> i = Len(queue)
          BY <2>2, <4>1
        <5> QED
          BY <4>1, <5>1, <5>2
      <4>3. 1 .. size \subseteq 1 .. Len(queue)
        BY <2>1, <4>1
      <4> QED
        BY <2>1, <4>2, <4>3 DEF RecordsOf
    <3>2. CASE ~closed
      BY <2>1, <2>2, <3>2 DEF RecordsOf
    <3> QED
      BY <3>1, <3>2
  <2>4. size \in Nat
    <3>1. CASE closed
      <4>1. Len(queue) > 0 /\ Len(queue) \in Nat
        BY <2>1, <2>2, <3>1
      <4>2. Len(queue) - 1 \in Nat
        BY <4>1
      <4> QED
        BY <3>1, <4>2
    <3>2. CASE ~closed
      BY <2>1, <3>2
    <3> QED
      BY <3>1, <3>2
  <2>5. Cardinality(1 .. size) = size
    <3> HIDE DEF size
    <3> QED
      BY <2>4, FS_Interval
  <2> QED
    BY <2>1, <2>3, <2>5
<1>3. ASSUME writer \in Serving
      PROVE  /\ bytes = SumOfSizes(queue) + hand.size
             /\ records = Cardinality(RecordsOf(queue)) + (IF hand = None THEN 0 ELSE 1)
  <2>1. Len(queue) \in Nat
    BY DEF CountsIInv, CaptureTyped
  <2> QED
    BY <1>2, <1>3, <2>1 DEF CountsIInv, Counts, Coming, Held, Serving
<1> QED
  BY <1>1, <1>3 DEF PendingIsExact, Serving

--------------------------------------------------------------------------------
(* The line of the writers                                                 *)

InLine == {"waiting", "writing"}

(* A sender is in the line once, while it waits for the lock or holds it,  *)
(* and only the first can be in the middle of its frame.                   *)
OneWriter ==
    /\ \A i \in 1 .. Len(line) : at[line[i]] \in InLine
    /\ \A i, j \in 1 .. Len(line) : line[i] = line[j] => i = j
    /\ \A s \in Senders : at[s] = "writing" => Len(line) > 0 /\ s = line[1]

LineIInv == line \in Seq(Senders) /\ OneWriter

(* What a step does to the line.                                           *)
StaysOut == \E s \in Senders, place \in Places \ InLine :
    at[s] \notin InLine /\ at' = [at EXCEPT ![s] = place] /\ UNCHANGED line

Joins == \E s \in Senders :
    at[s] \notin InLine /\ at' = [at EXCEPT ![s] = "waiting"] /\ line' = Append(line, s)

BeginsFrame == \E s \in Senders :
    /\ line # << >> /\ s = Head(line)
    /\ at' = [at EXCEPT ![s] = "writing"] /\ UNCHANGED line

GetsOut == \E s \in Senders, place \in Places \ InLine :
    at' = [at EXCEPT ![s] = place] /\ Leaves(s)

LineMove == UNCHANGED <<at, line>> \/ StaysOut \/ Joins \/ BeginsFrame \/ GetsOut

LEMMA LineMoves ==
    ASSUME [TransportNext]_transportVars
    PROVE  LineMove
<1> USE DEF LineMove, Moves
<1>1. /\ Requests \subseteq Senders /\ Callbacks \subseteq Senders /\ Note \in Senders
      /\ Controls \subseteq Requests /\ Prompts \subseteq Requests
  BY DEF Senders, Requests
<1>2. /\ "waits" \in Places \ InLine /\ "ended" \in Places \ InLine /\ "left" \in Places \ InLine
      /\ "working" \in Places \ InLine /\ "answering" \in Places \ InLine
      /\ "idle" \notin InLine
  BY DEF Places, InLine
<1>3. ASSUME NEW r \in Requests, ControlGivesUp(r) \/ WaiterLeaves(r) \/ WaiterReturns(r)
      PROVE  StaysOut
  BY <1>1, <1>2, <1>3 DEF ControlGivesUp, WaiterLeaves, WaiterReturns, StaysOut
<1>4. ASSUME NEW r \in Requests, Requests_(r)
      PROVE  Joins
  BY <1>1, <1>2, <1>4 DEF Requests_, Joins
<1>5. ASSUME NEW s \in Senders, Sends(s)
      PROVE  Joins \/ StaysOut
  <2>1. at[s] \notin InLine
    BY <1>5 DEF Sends, InLine
  <2> QED
    BY <1>2, <1>5, <2>1 DEF Sends, Joins, StaysOut
<1>6. ASSUME NEW s \in Senders, SendBegins(s)
      PROVE  BeginsFrame \/ GetsOut
  BY <1>2, <1>6 DEF SendBegins, Holds, BeginsFrame, GetsOut
<1>7. ASSUME NEW s \in Senders,
             SendRefused(s) \/ SendEnds(s) \/ SendGivesUp(s) \/ CallerCancels(s) \/ CallbackCancelled(s)
      PROVE  GetsOut
  BY <1>2, <1>7 DEF SendRefused, SendEnds, SendGivesUp, CallerCancels, CallbackCancelled,
     SendCancelled, GetsOut
<1>8. ASSUME NEW k \in Callbacks, AdmitCallback(k) \/ WorkEnds(k)
      PROVE  UNCHANGED <<at, line>> \/ StaysOut
  BY <1>1, <1>2, <1>8 DEF AdmitCallback, WorkEnds, Fresh, StaysOut
<1>9. CASE \/ Start \/ StderrEnds \/ RootExits \/ CaptureWrites \/ OwnerAborts \/ ExpectExit
           \/ Stops \/ StopStep
  BY <1>9 DEF Start, CaptureStarts, CaptureStartGoesOn, CaptureStartFails, Spawns, SpawnThread,
     CancelStart, StartEnds, StderrEnds, RootExits, CaptureWrites, OwnerAborts, ExpectExit, Stops,
     StopStep, StopJoins, StopTree, StopClosesCapture, StopEnds, sendVars
<1>10. CASE AdmitNotification \/ AdmitRogue \/ StreamEnds \/ UNCHANGED transportVars
  BY <1>10 DEF AdmitNotification, AdmitRogue, StreamEnds, sendVars, transportVars
<1>11. ASSUME NEW r \in Requests, AdmitAnswer(r)
       PROVE  LineMove
  BY <1>11 DEF AdmitAnswer, sendVars
<1>12. CASE Send
  BY <1>3, <1>4, <1>5, <1>6, <1>7, <1>12 DEF Send
<1>13. CASE Read
  BY <1>8, <1>10, <1>11, <1>13 DEF Read
<1> QED
  BY <1>1, <1>7, <1>8, <1>9, <1>10, <1>12, <1>13 DEF TransportNext

(* Who leaves is the only one that does, wherever it was in the line.      *)
LEMMA Left ==
    ASSUME NEW items \in Seq(Senders), NEW i \in 1 .. Len(items)
    PROVE  LET rest == SubSeq(items, 1, i - 1) \o SubSeq(items, i + 1, Len(items))
           IN  /\ rest \in Seq(Senders) /\ Len(rest) = Len(items) - 1
               /\ \A j \in 1 .. Len(rest) : rest[j] = items[IF j < i THEN j ELSE j + 1]
<1> DEFINE before == SubSeq(items, 1, i - 1)
           behind == SubSeq(items, i + 1, Len(items))
           rest == before \o behind
<1>1. Len(items) \in Nat /\ i \in Nat /\ 1 <= i /\ i <= Len(items)
  OBVIOUS
<1>2. before \in Seq(Senders) /\ Len(before) = i - 1 /\ \A j \in 1 .. i - 1 : before[j] = items[j]
  BY <1>1
<1>3. /\ behind \in Seq(Senders) /\ Len(behind) = Len(items) - i
      /\ \A j \in 1 .. Len(items) - i : behind[j] = items[i + j]
  BY <1>1
<1>4. /\ rest \in Seq(Senders) /\ Len(rest) = Len(before) + Len(behind)
      /\ \A j \in 1 .. Len(rest) :
             rest[j] = IF j <= Len(before) THEN before[j] ELSE behind[j - Len(before)]
  <2>1. before \in Seq(Senders) /\ behind \in Seq(Senders)
    BY <1>2, <1>3
  <2> HIDE DEF before, behind
  <2> QED
    BY <2>1
<1> HIDE DEF before, behind, rest
<1>5. Len(rest) = Len(items) - 1
  BY <1>1, <1>2, <1>3, <1>4
<1>6. ASSUME NEW j \in 1 .. Len(rest)
      PROVE  rest[j] = items[IF j < i THEN j ELSE j + 1]
  <2>1. CASE j < i
    <3>1. j \in 1 .. i - 1 /\ j <= Len(before)
      BY <1>1, <1>2, <1>5, <2>1
    <3>2. rest[j] = before[j] /\ before[j] = items[j]
      BY <1>2, <1>4, <3>1
    <3> QED
      BY <2>1, <3>2
  <2>2. CASE ~(j < i)
    <3>1. j \in Nat /\ i <= j /\ j <= Len(items) - 1
      BY <1>1, <1>5, <2>2
    <3>2. j - (i - 1) \in 1 .. Len(items) - i /\ i + (j - (i - 1)) = j + 1 /\ ~(j <= i - 1)
      BY <1>1, <3>1
    <3>3. rest[j] = behind[j - (i - 1)]
      BY <1>2, <1>4, <3>2
    <3>4. behind[j - (i - 1)] = items[i + (j - (i - 1))]
      BY <1>3, <3>2
    <3> QED
      BY <2>2, <3>2, <3>3, <3>4
  <2> QED
    BY <2>1, <2>2
<1> QED
  BY <1>4, <1>5, <1>6 DEF before, behind, rest

LEMMA LineStep ==
    ASSUME StateTypes, LineIInv, [TransportNext]_transportVars
    PROVE  LineIInv'
<1>0. at \in [Senders -> Places] /\ line \in Seq(Senders) /\ Len(line) \in Nat /\ OneWriter
  BY DEF StateTypes, LineIInv
<1>1. CASE UNCHANGED <<at, line>>
  BY <1>0, <1>1 DEF LineIInv, OneWriter
<1>2. CASE StaysOut
  <2> PICK s \in Senders, place \in Places \ InLine :
           at[s] \notin InLine /\ at' = [at EXCEPT ![s] = place] /\ line' = line
    BY <1>2 DEF StaysOut
  <2>1. at'[s] = place /\ \A o \in Senders : o # s => at'[o] = at[o]
    BY <1>0
  <2>2. \A i \in 1 .. Len(line) : line[i] \in Senders /\ line[i] # s
    BY <1>0 DEF OneWriter
  <2> QED
    BY <1>0, <2>1, <2>2 DEF LineIInv, OneWriter, InLine
<1>3. CASE Joins
  <2> PICK s \in Senders :
           at[s] \notin InLine /\ at' = [at EXCEPT ![s] = "waiting"] /\ line' = Append(line, s)
    BY <1>3 DEF Joins
  <2>1. at'[s] = "waiting" /\ \A o \in Senders : o # s => at'[o] = at[o]
    BY <1>0
  <2>2. \A i \in 1 .. Len(line) : line[i] \in Senders /\ line[i] # s
    BY <1>0 DEF OneWriter
  <2>3. /\ line' \in Seq(Senders) /\ Len(line') = Len(line) + 1 /\ line'[Len(line) + 1] = s
        /\ \A i \in 1 .. Len(line) : line'[i] = line[i]
    BY <1>0
  <2>4. \A i \in 1 .. Len(line') : i \in 1 .. Len(line) \/ i = Len(line) + 1
    BY <1>0, <2>3
  <2>5. \A i \in 1 .. Len(line') : at'[line'[i]] \in InLine
    BY <1>0, <2>1, <2>2, <2>3, <2>4 DEF OneWriter, InLine
  <2>6. \A i, j \in 1 .. Len(line') : line'[i] = line'[j] => i = j
    BY <1>0, <2>2, <2>3, <2>4 DEF OneWriter
  <2>7. \A o \in Senders : at'[o] = "writing" => Len(line') > 0 /\ o = line'[1]
    BY <1>0, <2>1, <2>3 DEF OneWriter
  <2> QED
    BY <2>3, <2>5, <2>6, <2>7 DEF LineIInv, OneWriter
<1>4. CASE BeginsFrame
  <2> PICK s \in Senders :
           line # << >> /\ s = Head(line) /\ at' = [at EXCEPT ![s] = "writing"] /\ line' = line
    BY <1>4 DEF BeginsFrame
  <2>1. at'[s] = "writing" /\ \A o \in Senders : o # s => at'[o] = at[o]
    BY <1>0
  <2>2. Len(line) > 0 /\ s = line[1]
    BY <1>0
  <2>3. \A i \in 1 .. Len(line) : line[i] \in Senders
    BY <1>0
  <2> QED
    BY <1>0, <2>1, <2>2, <2>3 DEF LineIInv, OneWriter, InLine
<1>5. CASE GetsOut
  <2> PICK s \in Senders, place \in Places \ InLine : at' = [at EXCEPT ![s] = place] /\ Leaves(s)
    BY <1>5 DEF GetsOut
  <2>1. at'[s] = place /\ \A o \in Senders : o # s => at'[o] = at[o]
    BY <1>0
  <2>2. CASE (\A i \in 1 .. Len(line) : line[i] # s) /\ line' = line
    <3>1. \A i \in 1 .. Len(line) : line[i] \in Senders
      BY <1>0
    <3> QED
      BY <1>0, <2>1, <2>2, <3>1 DEF LineIInv, OneWriter, InLine
  <2>3. CASE \E i \in 1 .. Len(line) :
                 line[i] = s /\ line' = SubSeq(line, 1, i - 1) \o SubSeq(line, i + 1, Len(line))
    <3>1. PICK i \in 1 .. Len(line) :
             line[i] = s /\ line' = SubSeq(line, 1, i - 1) \o SubSeq(line, i + 1, Len(line))
      BY <2>3
    <3> DEFINE from(j) == IF j < i THEN j ELSE j + 1
    <3>3. /\ line' \in Seq(Senders) /\ Len(line') = Len(line) - 1
          /\ \A j \in 1 .. Len(line') : line'[j] = line[from(j)]
      BY <1>0, <3>1, Left
    <3>2. i \in Nat /\ 1 <= i /\ i <= Len(line) /\ Len(line) \in Nat /\ Len(line') = Len(line) - 1
      BY <1>0, <3>3
    <3>4. ASSUME NEW j \in 1 .. Len(line')
          PROVE  from(j) \in 1 .. Len(line) /\ from(j) # i
      BY <3>2
    <3>5. ASSUME NEW j \in 1 .. Len(line'), NEW k \in 1 .. Len(line'), from(j) = from(k)
          PROVE  j = k
      BY <3>2, <3>5
    <3> HIDE DEF from
    <3>6. \A j \in 1 .. Len(line) : line[j] \in Senders /\ (j # i => line[j] # s)
      BY <1>0, <3>1 DEF OneWriter
    <3>7. \A j \in 1 .. Len(line') : at'[line'[j]] \in InLine
      <4>1. ASSUME NEW j \in 1 .. Len(line')
            PROVE  at'[line'[j]] = at[line[from(j)]] /\ from(j) \in 1 .. Len(line)
        BY <2>1, <3>3, <3>4, <3>6
      <4> QED
        BY <1>0, <4>1 DEF OneWriter
    <3>8. \A j, k \in 1 .. Len(line') : line'[j] = line'[k] => j = k
      <4>1. ASSUME NEW j \in 1 .. Len(line'), NEW k \in 1 .. Len(line'), line'[j] = line'[k]
            PROVE  j = k
        <5>1. line[from(j)] = line[from(k)] /\ from(j) \in 1 .. Len(line) /\ from(k) \in 1 .. Len(line)
          BY <3>3, <3>4, <4>1
        <5>2. from(j) = from(k)
          BY <1>0, <5>1 DEF OneWriter
        <5> QED
          BY <3>5, <5>2
      <4> QED
        BY <4>1
    <3>9. ASSUME NEW o \in Senders, at'[o] = "writing"
          PROVE  Len(line') > 0 /\ o = line'[1]
      <4>1. o # s /\ at[o] = "writing"
        BY <2>1, <3>9 DEF InLine
      <4>2. Len(line) > 0 /\ o = line[1] /\ i # 1
        BY <1>0, <3>1, <4>1 DEF OneWriter
      <4>3. Len(line') > 0 /\ 1 < i
        BY <3>2, <4>2
      <4>4. from(1) = 1
        BY <4>3 DEF from
      <4>5. 1 \in 1 .. Len(line')
        BY <3>2, <4>3
      <4>6. line'[1] = line[1]
        BY <3>3, <4>4, <4>5
      <4> QED
        BY <4>2, <4>3, <4>6
    <3> QED
      BY <3>3, <3>7, <3>8, <3>9 DEF LineIInv, OneWriter
  <2> QED
    BY <2>2, <2>3 DEF Leaves
<1> QED
  BY <1>1, <1>2, <1>3, <1>4, <1>5, LineMoves DEF LineMove

--------------------------------------------------------------------------------
(* The flags and the modes                                                 *)

Flags ==
    /\ captured \in BOOLEAN /\ process \in BOOLEAN /\ failure \in BOOLEAN
    /\ expected \in BOOLEAN /\ errors \in BOOLEAN /\ unjust \in BOOLEAN

CaptureFlags == failed \in BOOLEAN /\ closed \in BOOLEAN

Modes ==
    /\ torn \in {"no", "given_up", "cancelled"}
    /\ reader \in {"none", "reading", "ended"} /\ drain \in {"none", "reading", "ended"}

LEMMA CaptureFlagsStep == ASSUME CaptureFlags, [TransportNext]_transportVars PROVE CaptureFlags'
<1> USE DEF CaptureFlags
<1>1. CASE UNCHANGED captureVars
  BY <1>1, Zenon DEF captureVars, owner
<1>2. CASE StartOpens \/ StartOpened \/ StartWritten \/ StartFails
  BY <1>2, Zenon DEF StartOpens, StartOpened, StartWritten, StartFails, Fail, owner
<1>3. ASSUME NEW size \in Sizes, Record(size) \/ CloseStarts(size)
      PROVE  CaptureFlags'
  BY <1>3, Zenon DEF Record, Take, CloseStarts, Fail
<1>4. CASE WriterTakes \/ WriterWrites \/ WriterFails \/ WriterEnds \/ CloseEnds
  BY <1>4, Zenon DEF WriterTakes, WriterWrites, WriterFails, WriterEnds, CloseEnds, Fail, owner
<1> QED
  BY <1>1, <1>2, <1>3, <1>4, CaptureMoves, Zenon DEF CaptureMove

LEMMA RejectsFlags ==
    ASSUME unjust \in BOOLEAN, NEW honest, Rejects(honest)
    PROVE  unjust' \in BOOLEAN
BY Zenon DEF Rejects

LEMMA FlagsStep == ASSUME Flags, [TransportNext]_transportVars PROVE Flags'
<1> USE DEF Flags
<1>1. failure' \in BOOLEAN
  BY GateMoves, Zenon DEF gateVars, Abort, Requests_, Answers, Stops
<1>2. CASE CaptureStarts \/ CaptureStartGoesOn \/ CaptureStartFails \/ Spawns \/ SpawnThread
  BY <1>1, <1>2, Zenon DEF CaptureStarts, CaptureStartGoesOn, CaptureStartFails, Spawns,
     SpawnThread,
     startVars, stopVars
<1>3. CASE CancelStart \/ StartEnds \/ Stops
  BY <1>1, <1>3, Zenon DEF CancelStart, StartEnds, Stops, StopBegins, startVars, stopVars
<1>4. ASSUME NEW r \in Requests,
             ControlGivesUp(r) \/ WaiterLeaves(r) \/ WaiterReturns(r) \/ Requests_(r)
      PROVE  Flags'
  BY <1>1, <1>4, Zenon DEF ControlGivesUp, WaiterLeaves, WaiterReturns, Requests_, QuietSend,
     startVars, stopVars
<1>5. ASSUME NEW s \in Senders, \/ Sends(s) \/ SendRefused(s) \/ SendBegins(s) \/ SendEnds(s)
                                \/ SendGivesUp(s) \/ CallerCancels(s) \/ CallbackCancelled(s)
      PROVE  Flags'
  BY <1>1, <1>5, Zenon DEF Sends, SendRefused, SendBegins, SendEnds, SendGivesUp, CallerCancels,
     CallbackCancelled, QuietSend, startVars, stopVars
<1>6. ASSUME NEW r \in Requests, AdmitAnswer(r)
      PROVE  Flags'
  BY <1>1, <1>6, RejectsFlags, Zenon DEF AdmitAnswer, QuietRead, startVars, stopVars
<1>7. ASSUME NEW k \in Callbacks, AdmitCallback(k) \/ WorkEnds(k)
      PROVE  Flags'
  BY <1>1, <1>7, RejectsFlags, Zenon DEF AdmitCallback, WorkEnds, QuietRead, QuietSend, startVars,
     stopVars
<1>8. CASE AdmitNotification \/ AdmitRogue \/ StreamEnds
  BY <1>1, <1>8, RejectsFlags, Zenon DEF AdmitNotification, AdmitRogue, StreamEnds, QuietRead,
     startVars, stopVars
<1>9. CASE StderrEnds \/ RootExits \/ CaptureWrites \/ OwnerAborts \/ ExpectExit
  BY <1>1, <1>9, Zenon DEF StderrEnds, RootExits, CaptureWrites, OwnerAborts, ExpectExit, startVars,
     stopVars
<1>10. CASE StopJoins \/ StopTree \/ StopClosesCapture \/ StopEnds
  BY <1>1, <1>10, Zenon DEF StopJoins, StopTree, StopClosesCapture, StopEnds, startVars, stopVars
<1>11. CASE UNCHANGED transportVars
  BY <1>1, <1>11, Zenon DEF transportVars, startVars, stopVars
<1>12. Callbacks \subseteq Senders
  BY DEF Senders
<1> HIDE DEF Flags
<1>13. CASE Send
  BY <1>4, <1>5, <1>13 DEF Send
<1>14. CASE Read
  BY <1>6, <1>7, <1>8, <1>14 DEF Read
<1>15. CASE Start \/ StopStep
  BY <1>2, <1>3, <1>10, <1>15 DEF Start, StopStep
<1> QED
  BY <1>3, <1>5, <1>7, <1>9, <1>11, <1>12, <1>13, <1>14, <1>15 DEF TransportNext

LEMMA ModesStep == ASSUME Modes, [TransportNext]_transportVars PROVE Modes'
<1> USE DEF Modes
<1>1. CASE \/ CaptureStarts \/ CaptureStartGoesOn \/ CaptureStartFails \/ Spawns \/ SpawnThread
           \/ CancelStart \/ StartEnds \/ Stops \/ StderrEnds \/ RootExits \/ CaptureWrites
           \/ OwnerAborts \/ ExpectExit
  BY <1>1 DEF CaptureStarts, CaptureStartGoesOn, CaptureStartFails, Spawns, SpawnThread,
     CancelStart,
     StartEnds, Stops, StderrEnds, RootExits, CaptureWrites, OwnerAborts, ExpectExit, sendVars,
         readVars
<1>2. ASSUME NEW r \in Requests,
             \/ ControlGivesUp(r) \/ WaiterLeaves(r) \/ WaiterReturns(r) \/ Requests_(r)
             \/ AdmitAnswer(r)
      PROVE  Modes'
  BY <1>2 DEF ControlGivesUp, WaiterLeaves, WaiterReturns, Requests_, QuietSend, AdmitAnswer,
     Rejects,
     QuietRead, sendVars, readVars
<1>3. ASSUME NEW s \in Senders, \/ Sends(s) \/ SendRefused(s) \/ SendBegins(s) \/ SendEnds(s)
                                \/ SendGivesUp(s) \/ CallerCancels(s) \/ CallbackCancelled(s)
      PROVE  Modes'
  BY <1>3 DEF Sends, SendRefused, SendBegins, SendEnds, SendGivesUp, CallerCancels,
     CallbackCancelled, SendCancelled, QuietSend, readVars
<1>4. ASSUME NEW k \in Callbacks, AdmitCallback(k) \/ WorkEnds(k)
      PROVE  Modes'
  BY <1>4 DEF AdmitCallback, WorkEnds, Rejects, QuietRead, QuietSend, readVars
<1>5. CASE AdmitNotification \/ AdmitRogue \/ StreamEnds
  BY <1>5 DEF AdmitNotification, AdmitRogue, StreamEnds, Rejects, QuietRead, sendVars
<1>6. CASE StopJoins \/ StopTree \/ StopClosesCapture \/ StopEnds \/ UNCHANGED transportVars
  BY <1>6 DEF StopJoins, StopTree, StopClosesCapture, StopEnds, transportVars, sendVars, readVars
<1> HIDE DEF Modes
<1>7. Callbacks \subseteq Senders
  BY DEF Senders
<1>8. CASE Send
  BY <1>2, <1>3, <1>8 DEF Send
<1>9. CASE Read
  BY <1>2, <1>4, <1>5, <1>9 DEF Read
<1>10. CASE Start \/ StopStep
  BY <1>1, <1>6, <1>10 DEF Start, StopStep
<1> QED
  BY <1>1, <1>3, <1>4, <1>6, <1>7, <1>8, <1>9, <1>10 DEF TransportNext

--------------------------------------------------------------------------------
(* The theorems                                                            *)

LEMMA Inductive == TransportSpec => []TransportIInv
<1>1. TransportInit => TransportIInv
  <2> SUFFICES ASSUME TransportInit PROVE TransportIInv
    OBVIOUS
  <2>1. StateTypes
    BY DEF TransportInit, StateTypes, Places
  <2>2. Starting
    BY DEF TransportInit, CaptureInit, Starting, stopping
  <2>3. Futures
    BY DEF TransportInit, Futures, Senders
  <2>4. Stopping
    BY DEF TransportInit, Stopping, stopping
  <2>5. HonestServerKept /\ RevocationIsComplete
    BY DEF TransportInit, HonestServerKept, RevocationIsComplete, stopping
  <2> QED
    BY <2>1, <2>2, <2>3, <2>4, <2>5 DEF TransportIInv
<1>2. TransportIInv /\ [TransportNext]_transportVars => TransportIInv'
  BY TypesStep, StartingStep, FuturesStep, StoppingStep, HonestStep, RevocationStep
     DEF TransportIInv
<1> QED
  BY <1>1, <1>2, PTL DEF TransportSpec

(* Continuity is never lost over a message that an honest server may send: *)
(* not over an answer that comes after its waiter was cancelled, and not   *)
(* over a callback within the limit (wait, _read_loop, _admit).            *)
THEOREM HonestKept == TransportSpec => []HonestServerKept
<1>1. TransportIInv => HonestServerKept
  BY DEF TransportIInv
<1> QED
  BY <1>1, Inductive, PTL

(* A revoked generation has told its owners once and leaves no request     *)
(* that could still wait; and a stop that has ended leaves no effect, no   *)
(* reader and, unless it raised, no process (abort, stop, _stop_owned).    *)
THEOREM NothingLeftBehind == TransportSpec => []NothingLeft
<1>1. TransportIInv => NothingLeft
  BY DEF TransportIInv, NothingLeft, StopLeavesNothing, Stopping
<1> QED
  BY <1>1, Inductive, PTL

LEMMA BoundedInductive == TransportSpec => []BoundedIInv
<1>1. TransportInit => BoundedIInv
  <2> SUFFICES ASSUME TransportInit PROVE BoundedIInv
    OBVIOUS
  <2>1. Used = {} /\ InFlight = {}
    BY DEF TransportInit, Used, InFlight, Senders
  <2> QED
    BY <2>1, FS_EmptySet, TransportAssumption DEF BoundedIInv, CallbacksBounded
<1>2. TransportIInv => StateTypes
  BY DEF TransportIInv
<1>3. StateTypes /\ BoundedIInv /\ [TransportNext]_transportVars => BoundedIInv'
  BY BoundedStep
<1> QED
  BY <1>1, <1>2, <1>3, Inductive, PTL DEF TransportSpec

(* The callbacks under way are within the limit on them, and those of the  *)
(* generation within theirs, whatever the server asks for (_admit).        *)
THEOREM CallbacksWithinBounds == TransportSpec => []CallbacksBounded
<1>1. BoundedIInv => CallbacksBounded
  BY DEF BoundedIInv
<1> QED
  BY <1>1, BoundedInductive, PTL

LEMMA EvidenceInductive == TransportSpec => []EvidenceIInv
<1>1. TransportInit => EvidenceIInv
  <2> SUFFICES ASSUME TransportInit PROVE EvidenceIInv
    OBVIOUS
  <2> USE DEF TransportInit, CaptureInit, Before, Serving
  <2>1. EvidenceTypes
    BY DEF EvidenceTypes, None, Item
  <2>2. Positions /\ Consecutive
    BY DEF Positions, Consecutive, FileIsPrefix
  <2>3. Whole /\ Ended
    BY DEF Whole, Ended
  <2> QED
    BY <2>1, <2>2, <2>3 DEF EvidenceIInv
<1>2. EvidenceIInv /\ [TransportNext]_transportVars => EvidenceIInv'
  BY EvidenceStep
<1> QED
  BY <1>1, <1>2, PTL DEF TransportSpec

(* The file of a raw event capture, the queue and the limits apart, agrees *)
(* with what is said of it: a capture_end on disk means that every record  *)
(* is there, a close that does not raise that it is, and whatever is lost  *)
(* is told to the owner, once (record, _run, close, _fail).                *)
THEOREM EvidenceTruthful == TransportSpec => []EvidenceIsTruthful
<1>1. EvidenceIInv => EvidenceIsTruthful
  <2> SUFFICES ASSUME EvidenceIInv PROVE EvidenceIsTruthful
    OBVIOUS
  <2>1. EvidenceTypes /\ Consecutive /\ Whole /\ Ended
    BY DEF EvidenceIInv
  <2>2. Len(file) \in Nat /\ sequence \in Nat /\ last \in Int
    BY <2>1 DEF EvidenceTypes
  <2>3. DOMAIN file = 1 .. Len(file)
    BY <2>1 DEF EvidenceTypes
  <2>4. ASSUME last # -1, last + 1 \in DOMAIN file
        PROVE  Len(file) = sequence
    <3>1. last = sequence - 1 /\ Len(file) <= sequence
      BY <2>1, <2>4 DEF Ended, Whole
    <3>2. last + 1 <= Len(file)
      BY <2>2, <2>3, <2>4
    <3> QED
      BY <2>2, <3>1, <3>2
  <2>5. ASSUME closer = "complete", writer = "done"
        PROVE  last # -1 /\ last + 1 = Len(file) /\ file[last + 1] = last
    BY <2>1, <2>2, <2>3, <2>5 DEF Ended, Whole, Serving
  <2>6. OwnerToldOnce
    <3>1. told = IF failed THEN 1 ELSE 0
      BY <2>1 DEF Ended
    <3>2. writer = "done" /\ ~failed => Len(file) = sequence
      BY <2>1 DEF Whole
    <3>3. writer = "done" /\ Len(file) < sequence => failed
      BY <2>2, <3>2
    <3> QED
      BY <3>1, <3>3 DEF OwnerToldOnce
  <2> QED
    BY <2>4, <2>5, <2>6 DEF EvidenceIsTruthful, EndMeansComplete
<1> QED
  BY <1>1, EvidenceInductive, PTL

(* The file is a prefix of what was observed, in order and without a gap,  *)
(* with at most one torn line at its end (record, _run).                   *)
THEOREM FileHasNoGap == TransportSpec => []FileIsPrefix
<1>1. EvidenceIInv => FileIsPrefix
  BY DEF EvidenceIInv, Consecutive
<1> QED
  BY <1>1, EvidenceInductive, PTL

(* Everything that is proved to hold of a state.                           *)
WholeIInv == CountsIInv /\ LineIInv /\ CaptureFlags /\ Flags /\ Modes

LEMMA WholeInductive == TransportSpec
    => [](TransportIInv /\ EvidenceIInv /\ BoundedIInv /\ WholeIInv)
<1>1. TransportInit => WholeIInv
  <2> SUFFICES ASSUME TransportInit PROVE WholeIInv
    OBVIOUS
  <2> USE DEF TransportInit, CaptureInit
  <2>1. CaptureTyped
    BY CaptureBounds, EntrySizes DEF CaptureTyped
  <2>2. Counts
    BY CaptureBounds DEF Counts, Before, Serving
  <2>3. LineIInv
    BY DEF LineIInv, OneWriter
  <2>4. CaptureFlags /\ Flags /\ Modes
    BY DEF CaptureFlags, Flags, Modes
  <2> QED
    BY <2>1, <2>2, <2>3, <2>4 DEF WholeIInv, CountsIInv
<1>2. TransportIInv /\ EvidenceIInv /\ WholeIInv /\ [TransportNext]_transportVars => WholeIInv'
  BY CountsStep, LineStep, CaptureFlagsStep, FlagsStep, ModesStep DEF WholeIInv, TransportIInv
<1> QED
  BY <1>1, <1>2, Inductive, EvidenceInductive, BoundedInductive, PTL DEF TransportSpec

(* The state of the transport and of its capture: callbacks within both    *)
(* bounds, a file without gaps, and limits on what is pending that hold    *)
(* because what is counted is what is queued or in hand (_admit, record,   *)
(* _run).                                                                  *)
THEOREM TransportWell == TransportSpec => []TransportInv
<1>1. TransportIInv /\ EvidenceIInv /\ BoundedIInv /\ WholeIInv => TransportInv
  <2> SUFFICES ASSUME TransportIInv, EvidenceIInv, BoundedIInv, WholeIInv PROVE TransportInv
    OBVIOUS
  <2>1. TransportTypeOK
    <3>1. called \in Nat
      BY DEF TransportIInv, RevocationIsComplete
    <3>2. /\ captured \in BOOLEAN /\ process \in BOOLEAN /\ failure \in BOOLEAN
          /\ expected \in BOOLEAN /\ errors \in BOOLEAN /\ unjust \in BOOLEAN
      BY Zenon DEF WholeIInv, Flags
    <3>3. /\ life \in {"new", "capturing", "spawning", "recovering", "running", "refused"}
          /\ child \in {"none", "spawning", "absent", "running", "exited", "dead", "closed"}
          /\ pending \subseteq Requests /\ arrived \subseteq Requests /\ joined \subseteq Callbacks
          /\ future \in [Requests -> {"none", "open", "answered", "failed"}]
          /\ at \in [Senders -> {"idle", "working", "answering", "waiting", "writing", "waits",
                                 "left", "ended"}]
          /\ cleanup \in {"idle", "callbacks", "tree", "capture", "closing", "stopped", "failed"}
      BY DEF TransportIInv, StateTypes, Places
    <3>4. line \in Seq(Senders) /\ Modes
      BY DEF WholeIInv, LineIInv
    <3> QED
      BY <3>1, <3>2, <3>3, <3>4, Zenon DEF TransportTypeOK, Modes
  <2>2. CaptureTypeOK
    <3>1. CaptureTyped /\ EvidenceTypes /\ Counts
      BY DEF WholeIInv, CountsIInv, EvidenceIInv
    <3>2. sequence \in 0 .. MaxSequence + 1
      BY <3>1, CaptureBounds DEF CaptureTyped, EvidenceTypes
    <3>3. failed \in BOOLEAN /\ closed \in BOOLEAN
      BY Zenon DEF WholeIInv, CaptureFlags
    <3> QED
      BY <3>1, <3>2, <3>3, Zenon DEF CaptureTypeOK, CaptureTyped, Entries, EvidenceTypes, Counts
  <2>3. FileIsPrefix /\ PendingIsExact
    BY PendingExact DEF EvidenceIInv, Consecutive, WholeIInv
  <2> QED
    BY <2>1, <2>2, <2>3 DEF TransportInv, CaptureInv, BoundedIInv, CallbacksBounded
<1> QED
  BY <1>1, WholeInductive, PTL

(* Only the sender at the head of the line can be in the middle of its     *)
(* frame, however senders are refused, give up or are cancelled, and none  *)
(* is in the line twice (_write_lock, _send).                              *)
THEOREM FramesOneByOne == TransportSpec => []OneWriter
<1>1. WholeIInv => OneWriter
  BY DEF WholeIInv, LineIInv
<1> QED
  BY <1>1, WholeInductive, PTL
================================================================================
