----------------------------- MODULE NativeTransport ----------------------------
(***************************************************************************)
(* One process generation of the language server (NativeTransport in       *)
(* native_transport.py): its start, the frames its senders write one after *)
(* another, the messages its reader admits, the callbacks it runs, and the *)
(* stop that joins all of them; with the raw event capture it observes     *)
(* frames through when it is given a file for it.                          *)
(*                                                                         *)
(* A step is what a task does between two suspensions.  A finite call of   *)
(* the process adapter is one step: _io joins its thread before anything   *)
(* else of its task happens.  A message is honest if a server that keeps   *)
(* the protocol could send it.                                             *)
(***************************************************************************)
EXTENDS RawEventCapture, FiniteSets

CONSTANTS
    Controls,      \* requests made with request, which bounds its wait
    Prompts,       \* requests made with reserve, dispatch and wait
    Note,          \* a notification of the client
    Callbacks,     \* identities of server requests, taken in order
    MaxCallbacks,  \* _max_callbacks
    MaxLifetime    \* callbacks of one generation: 65536

Requests == Controls \cup Prompts
Senders == Requests \cup Callbacks \cup {Note}

ASSUME TransportAssumption ==
    /\ Controls \cap Prompts = {} /\ Callbacks \cap Requests = {}
    /\ Note \notin Requests \cup Callbacks
    /\ Callbacks \subseteq Nat
    /\ MaxCallbacks \in Nat /\ MaxLifetime \in Nat

VARIABLES
    captured,  \* whether a raw_event_file was given
    life,      \* where start is, or how it ended
    child,     \* the server process, which a thread spawns
    process,   \* _process is set
    failure,   \* _failure is set
    called,    \* calls of the handlers of on_transport_closed
    expected,  \* _expected_exit
    pending,   \* _pending
    future,    \* of each request
    at,        \* where each sender suspends
    line,      \* _write_lock: its holder, and who waits for it in order
    arrived,   \* history: requests whose frame is whole
    torn,      \* history: whether a frame was left incomplete, and by whom
    reader,    \* _read_loop and _drain_stderr
    drain,
    cleanup,   \* where _stop_owned is, or how it ended
    joined,    \* the callbacks it gathers
    errors,    \* whether a step of it raised
    unjust     \* history: continuity was lost over an honest message

startVars == <<captured, life, child, process>>
gateVars == <<failure, called, pending, future>>
sendVars == <<at, line, arrived, torn>>
readVars == <<reader, drain>>
stopVars == <<cleanup, joined, errors>>
transportVars == <<captureVars, startVars, gateVars, expected, sendVars, readVars, stopVars, unjust>>

TransportTypeOK ==
    /\ captured \in BOOLEAN /\ process \in BOOLEAN /\ failure \in BOOLEAN
    /\ expected \in BOOLEAN /\ errors \in BOOLEAN /\ unjust \in BOOLEAN
    /\ life \in {"new", "capturing", "spawning", "recovering", "running", "refused"}
    /\ child \in {"none", "spawning", "absent", "running", "exited", "dead", "closed"}
    /\ called \in Nat
    /\ pending \subseteq Requests /\ arrived \subseteq Requests /\ joined \subseteq Callbacks
    /\ future \in [Requests -> {"none", "open", "answered", "failed"}]
    /\ at \in [Senders -> {"idle", "working", "answering", "waiting", "writing", "waits",
                           "left", "ended"}]
    /\ line \in Seq(Senders)
    /\ torn \in {"no", "given_up", "cancelled"}
    /\ reader \in {"none", "reading", "ended"} /\ drain \in {"none", "reading", "ended"}
    /\ cleanup \in {"idle", "callbacks", "tree", "capture", "closing", "stopped", "failed"}

TransportInit ==
    /\ CaptureInit
    /\ captured \in BOOLEAN
    /\ life = "new" /\ child = "none" /\ process = FALSE
    /\ failure = FALSE /\ called = 0 /\ expected = FALSE
    /\ pending = {} /\ future = [r \in Requests |-> "none"]
    /\ at = [s \in Senders |-> "idle"] /\ line = << >>
    /\ arrived = {} /\ torn = "no"
    /\ reader = "none" /\ drain = "none"
    /\ cleanup = "idle" /\ joined = {} /\ errors = FALSE
    /\ unjust = FALSE

stopping == cleanup # "idle"
IsOpen == process /\ child # "closed" /\ ~failure /\ ~stopping

InFlight == {k \in Callbacks : at[k] \notin {"idle", "ended"}}
Used == {k \in Callbacks : at[k] # "idle"}

--------------------------------------------------------------------------------
(* Shared pieces                                                           *)

(* Every request that is not answered fails, whoever waits for it.         *)
FailPending ==
    /\ pending' = {}
    /\ future' = [r \in Requests |-> IF future[r] = "open" THEN "failed" ELSE future[r]]

(* abort: the generation is revoked once, and its owners are told.         *)
Revokes == ~failure /\ ~stopping

Abort ==
    IF Revokes
    THEN failure' = TRUE /\ called' = called + 1 /\ FailPending
    ELSE UNCHANGED gateVars

(* A step may abort; so may the capture, for what it observes in the step. *)
Observing == told' # told

AbortsIf(condition) == IF condition \/ Observing THEN Abort ELSE UNCHANGED gateVars

Observed ==
    IF captured /\ ~failed /\ ~closed /\ writer \notin {"new", "opening", "heading", "refused"}
    THEN \E size \in Sizes : Record(size)
    ELSE UNCHANGED captureVars

(* record raises for a capture that has failed, or that fails by it.       *)
Unrecorded == captured /\ failed'

(* Bound of the model: a captured frame needs a place in the sequence.     *)
Outbound == {s \in Senders : at[s] \in {"working", "answering", "waiting"}}
RoomFor(frames) == captured => sequence + Cardinality(Outbound) + frames <= MaxSequence

--------------------------------------------------------------------------------
(* start                                                                   *)

(* The stop of a start that failed; start itself or its caller calls it.   *)
StopBegins ==
    /\ cleanup' = "callbacks"
    /\ joined' = InFlight
    /\ UNCHANGED errors

CaptureStarts ==
    /\ life = "new" /\ captured
    /\ StartOpens
    /\ life' = "capturing"
    /\ UNCHANGED <<captured, child, process, gateVars, expected, sendVars, readVars, stopVars, unjust>>

CaptureStartGoesOn ==
    /\ StartOpened \/ StartWritten
    /\ UNCHANGED <<startVars, gateVars, expected, sendVars, readVars, stopVars, unjust>>

CaptureStartFails ==
    /\ StartFails
    /\ AbortsIf(FALSE)
    /\ life' = "refused"
    /\ UNCHANGED <<captured, child, process, expected, sendVars, readVars, stopVars, unjust>>

Spawns ==
    /\ \/ life = "new" /\ ~captured
       \/ life = "capturing" /\ writer \notin {"opening", "heading"}
    /\ life' = "spawning" /\ child' = "spawning"
    /\ UNCHANGED <<captureVars, captured, process, gateVars, expected, sendVars, readVars,
                   stopVars, unjust>>

SpawnThread ==
    /\ child = "spawning"
    /\ child' \in {"running", "absent"}
    /\ UNCHANGED <<captureVars, captured, life, process, gateVars, expected, sendVars, readVars,
                   stopVars, unjust>>

StartCancelled_Unjoined == "refused"

(* A start that is cancelled waits for the process all the same.           *)
StartCancelled == "recovering"

CancelStart ==
    /\ life = "spawning"
    /\ life' = StartCancelled
    /\ IF life' = "refused" THEN StopBegins ELSE UNCHANGED stopVars
    /\ UNCHANGED <<captureVars, captured, child, process, gateVars, expected, sendVars, readVars,
                   unjust>>

StartEnds ==
    /\ life \in {"spawning", "recovering"} /\ child # "spawning"
    /\ process' = (child # "absent")
    /\ IF process' /\ life = "spawning"
       THEN /\ life' = "running" /\ reader' = "reading" /\ drain' = "reading"
            /\ UNCHANGED stopVars
       ELSE /\ life' = "refused"
            /\ IF process' \/ life = "spawning" THEN StopBegins ELSE UNCHANGED stopVars
            /\ UNCHANGED readVars
    /\ UNCHANGED <<captureVars, captured, child, gateVars, expected, sendVars, unjust>>

--------------------------------------------------------------------------------
(* Senders                                                                 *)

Moves(s, place) == at' = [at EXCEPT ![s] = place]

(* A sender is in the line once, or not at all.                            *)
Leaves(s) ==
    \/ (\A i \in 1 .. Len(line) : line[i] # s) /\ UNCHANGED line
    \/ \E i \in 1 .. Len(line) :
           line[i] = s /\ line' = SubSeq(line, 1, i - 1) \o SubSeq(line, i + 1, Len(line))

QuietSend == UNCHANGED <<startVars, expected, readVars, stopVars, unjust>>

(* reserve and dispatch: no caller suspends between the two.  The requests *)
(* are within the limit of a frame, which is far above that of a prompt.   *)
Requests_(r) ==
    /\ at[r] = "idle" /\ IsOpen /\ RoomFor(1)
    /\ pending' = pending \cup {r}
    /\ future' = [future EXCEPT ![r] = "open"]
    /\ Moves(r, "waiting")
    /\ line' = Append(line, r)
    /\ UNCHANGED <<captureVars, failure, called, arrived, torn>>
    /\ QuietSend

(* notify, or the reply of a callback whose work is done.  A reply that is *)
(* too long for a frame is not sent, and _callback_done aborts.            *)
Sends(s) ==
    /\ \/ s = Note /\ at[s] = "idle" /\ process /\ RoomFor(1)
       \/ at[s] = "answering"
    /\ \/ Moves(s, "waiting") /\ line' = Append(line, s) /\ UNCHANGED gateVars
       \/ s \in Callbacks /\ Moves(s, "ended") /\ Abort /\ UNCHANGED line
    /\ UNCHANGED <<captureVars, arrived, torn>>
    /\ QuietSend

Holds(s, place) == line # << >> /\ s = Head(line) /\ at[s] = place

(* What is left of a sender whose _send raised: a callback that fails      *)
(* aborts the generation, a request leaves that to its caller.             *)
SendRefused(s) ==
    /\ Holds(s, "waiting")
    /\ failure \/ stopping
    /\ Moves(s, "ended") /\ Leaves(s)
    /\ UNCHANGED <<captureVars, gateVars, arrived, torn>>
    /\ QuietSend

SendBegins(s) ==
    /\ Holds(s, "waiting")
    /\ ~failure /\ ~stopping
    /\ Observed /\ AbortsIf(FALSE)
    /\ IF Unrecorded THEN Moves(s, "ended") /\ Leaves(s) ELSE Moves(s, "writing") /\ UNCHANGED line
    /\ UNCHANGED <<arrived, torn>>
    /\ QuietSend

SendEnds(s) ==
    /\ Holds(s, "writing")
    /\ child \in {"running", "exited"}
    /\ Moves(s, IF s \in Requests THEN "waits" ELSE "ended") /\ Leaves(s)
    /\ arrived' = arrived \cup ({s} \cap Requests)
    /\ UNCHANGED <<captureVars, gateVars, torn>>
    /\ QuietSend

(* The deadline of the write passes, or the pipe fails.  A count that _send*)
(* would not believe is returned by none of the three process adapters.    *)
SendGivesUp(s) ==
    /\ Holds(s, "writing")
    /\ Moves(s, "ended") /\ Leaves(s)
    /\ torn' = "given_up"
    /\ UNCHANGED <<captureVars, arrived>>
    /\ AbortsIf(TRUE)
    /\ QuietSend

(* A sender is cancelled, mid-frame too: it leaves the lock to the next.   *)
(* The caller of a request aborts, that of the others need not.            *)
SendCancelled(s) ==
    /\ at[s] \in {"working", "answering", "waiting", "writing"}
    /\ Moves(s, "ended") /\ Leaves(s)
    /\ torn' = IF at[s] = "writing" THEN "cancelled" ELSE torn
    /\ UNCHANGED <<captureVars, arrived>>
    /\ AbortsIf(s \in Requests)

CallerCancels(s) ==
    /\ s \in Requests \cup {Note} /\ SendCancelled(s)
    /\ QuietSend

--------------------------------------------------------------------------------
(* Waiters                                                                 *)

(* request: its timeout, or its cancellation, loses continuity.            *)
ControlGivesUp(r) ==
    /\ r \in Controls /\ at[r] = "waits" /\ future[r] = "open"
    /\ Moves(r, "ended")
    /\ Abort
    /\ UNCHANGED <<captureVars, line, arrived, torn>>
    /\ QuietSend

Forgotten_Waiter(r) == {r}

(* wait: a cancelled waiter does not discard the response identity.        *)
Forgotten(r) == {}

WaiterLeaves(r) ==
    /\ r \in Prompts /\ at[r] = "waits" /\ future[r] = "open"
    /\ Moves(r, "left")
    /\ pending' = pending \ Forgotten(r)
    /\ UNCHANGED <<captureVars, failure, called, future, line, arrived, torn>>
    /\ QuietSend

WaiterReturns(r) ==
    /\ at[r] = "waits" /\ future[r] # "open"
    /\ Moves(r, "ended")
    /\ UNCHANGED <<captureVars, gateVars, line, arrived, torn>>
    /\ QuietSend

--------------------------------------------------------------------------------
(* The reader                                                              *)

Admits == reader = "reading" /\ child \in {"running", "exited"} /\ RoomFor(1)

QuietRead == UNCHANGED <<startVars, expected, drain, stopVars>>

(* _read_loop ends on what it cannot admit; that revokes the generation    *)
(* unless it is being stopped or its exit was asked for.                   *)
Rejects(honest) ==
    /\ reader' = "ended"
    /\ AbortsIf(~expected)
    /\ unjust' = (unjust \/ (honest /\ Revokes /\ ~expected))

AdmitNotification ==
    /\ Admits
    /\ Observed
    /\ IF Unrecorded THEN Rejects(FALSE) ELSE UNCHANGED <<gateVars, reader, unjust>>
    /\ UNCHANGED sendVars
    /\ QuietRead

(* A malformed message, one a handler refuses, or an answer nobody asked   *)
(* for; and the end of the stream, or a root that exited.                  *)
AdmitRogue ==
    /\ Admits
    /\ Observed
    /\ Rejects(FALSE)
    /\ UNCHANGED sendVars
    /\ QuietRead

StreamEnds ==
    /\ reader = "reading"
    /\ UNCHANGED <<captureVars, sendVars>>
    /\ Rejects(FALSE)
    /\ QuietRead

Answers(r) ==
    /\ future' = [future EXCEPT ![r] = "answered"]
    /\ pending' = pending \ {r}
    /\ UNCHANGED <<failure, called>>

(* The server answers a request it was sent.                               *)
AdmitAnswer(r) ==
    /\ Admits
    /\ r \in arrived /\ future[r] # "answered"
    /\ Observed
    /\ IF r \in pending /\ ~Unrecorded
       THEN Answers(r) /\ UNCHANGED <<reader, unjust>>
       ELSE Rejects(~Unrecorded)
    /\ UNCHANGED sendVars
    /\ QuietRead

(* The tasks that count against the limit: those that are not done.        *)
Unfinished == InFlight

(* The client starts no effect for a generation that is lost or stopping.  *)
Fresh(k) == at[k] = "idle" /\ \A other \in Callbacks : other < k => at[other] # "idle"

CallbackFits_OffByOne == Cardinality(Unfinished) <= MaxCallbacks

CallbackFits == Cardinality(Unfinished) < MaxCallbacks

AdmitCallback(k) ==
    /\ Admits
    /\ Fresh(k) /\ RoomFor(2)
    /\ Observed
    /\ IF CallbackFits /\ Cardinality(Used) < MaxLifetime /\ ~Unrecorded
       THEN /\ \/ Moves(k, "answering")
               \/ ~failure /\ ~stopping /\ Moves(k, "working")
            /\ UNCHANGED <<gateVars, reader, unjust>>
       ELSE /\ Rejects(/\ Cardinality(InFlight) < MaxCallbacks /\ Cardinality(Used) < MaxLifetime
                       /\ ~Unrecorded)
            /\ UNCHANGED at
    /\ UNCHANGED <<line, arrived, torn>>
    /\ QuietRead

--------------------------------------------------------------------------------
(* Callbacks, the standard error stream, and the process                   *)

(* The work of a callback returns, or it raises and _callback_done aborts. *)
WorkEnds(k) ==
    /\ at[k] = "working"
    /\ \/ Moves(k, "answering") /\ UNCHANGED gateVars
       \/ Moves(k, "ended") /\ Abort
    /\ UNCHANGED <<captureVars, line, arrived, torn>>
    /\ QuietSend

(* Cancelled by settle_callbacks, whose own waiter was, or by the stop.    *)
CallbackCancelled(k) ==
    /\ k \in Callbacks /\ SendCancelled(k)
    /\ QuietSend

StderrEnds ==
    /\ drain = "reading"
    /\ drain' = "ended"
    /\ Abort \/ UNCHANGED gateVars
    /\ UNCHANGED <<captureVars, startVars, expected, sendVars, reader, stopVars, unjust>>

RootExits ==
    /\ child = "running"
    /\ child' = "exited"
    /\ UNCHANGED <<captureVars, captured, life, process, gateVars, expected, sendVars, readVars,
                   stopVars, unjust>>

(* A writer of the capture that fails aborts.                              *)
CaptureWrites ==
    /\ captured
    /\ WriterStep
    /\ AbortsIf(FALSE)
    /\ UNCHANGED <<startVars, expected, sendVars, readVars, stopVars, unjust>>

--------------------------------------------------------------------------------
(* The owner                                                               *)

OwnerAborts ==
    /\ life = "running" /\ Revokes
    /\ Abort
    /\ UNCHANGED <<captureVars, startVars, expected, sendVars, readVars, stopVars, unjust>>

(* The client asked the server to shut down, and it said it would.         *)
ExpectExit ==
    /\ IsOpen /\ ~expected
    /\ \E r \in Controls : future[r] = "answered" /\ at[r] = "ended"
    /\ expected' = TRUE
    /\ UNCHANGED <<captureVars, startVars, gateVars, sendVars, readVars, stopVars, unjust>>

Stops ==
    /\ life \in {"running", "refused"} /\ cleanup = "idle"
    /\ StopBegins
    /\ FailPending
    /\ UNCHANGED <<captureVars, startVars, failure, called, expected, sendVars, readVars, unjust>>

(* The gathered callbacks have ended; the readers are cancelled and joined.*)
CallbacksJoined == \A k \in joined : at[k] = "ended"

StopJoins ==
    /\ cleanup = "callbacks"
    /\ CallbacksJoined
    /\ cleanup' = "tree"
    /\ reader' = "ended" /\ drain' = "ended"
    /\ UNCHANGED <<captureVars, startVars, gateVars, expected, sendVars, joined, errors, unjust>>

(* The process tree is stopped, awaited for ten seconds and closed; what   *)
(* raises is kept until the capture is closed too.                         *)
StopTree ==
    /\ cleanup = "tree"
    /\ cleanup' = "capture"
    /\ \/ ~process /\ UNCHANGED <<child, errors>>
       \/ process /\ child' = "closed" /\ UNCHANGED errors
       \/ process /\ child' \in {child, "dead"} /\ errors' = TRUE
    /\ UNCHANGED <<captureVars, captured, life, process, gateVars, expected, sendVars, readVars,
                   joined, unjust>>

StopClosesCapture ==
    /\ cleanup = "capture"
    /\ cleanup' = "closing"
    /\ IF captured THEN \E size \in Sizes : CloseStarts(size) ELSE UNCHANGED captureVars
    /\ UNCHANGED <<startVars, gateVars, expected, sendVars, readVars, joined, errors, unjust>>

StopEnds ==
    /\ cleanup = "closing"
    /\ IF captured THEN CloseEnds ELSE UNCHANGED captureVars
    /\ errors' = (errors \/ closer' = "incomplete")
    /\ cleanup' = IF errors' THEN "failed" ELSE "stopped"
    /\ UNCHANGED <<startVars, gateVars, expected, sendVars, readVars, joined, unjust>>

--------------------------------------------------------------------------------
Start == CaptureStarts \/ CaptureStartGoesOn \/ CaptureStartFails \/ Spawns \/ SpawnThread
         \/ CancelStart \/ StartEnds

Send ==
    \/ \E r \in Requests : Requests_(r) \/ ControlGivesUp(r) \/ WaiterLeaves(r) \/ WaiterReturns(r)
    \/ \E s \in Senders : \/ Sends(s) \/ SendRefused(s) \/ SendBegins(s) \/ SendEnds(s)
                          \/ SendGivesUp(s) \/ CallerCancels(s)

Read == AdmitNotification \/ AdmitRogue \/ StreamEnds
        \/ (\E r \in Requests : AdmitAnswer(r)) \/ (\E k \in Callbacks : AdmitCallback(k))

StopStep == StopJoins \/ StopTree \/ StopClosesCapture \/ StopEnds

TransportNext ==
    \/ Start \/ Send \/ Read
    \/ \E k \in Callbacks : WorkEnds(k) \/ CallbackCancelled(k)
    \/ StderrEnds \/ RootExits \/ CaptureWrites
    \/ OwnerAborts \/ ExpectExit \/ Stops \/ StopStep

TransportSpec == TransportInit /\ [][TransportNext]_transportVars

(* Tasks resume, finite writes and waits end, and a callback that the stop *)
(* cancelled ends: its effect joins its worker (WorkspaceTools).           *)
FairTransport ==
    /\ TransportSpec
    /\ WF_transportVars(Start) /\ WF_transportVars(StopStep) /\ WF_transportVars(CaptureWrites)
    /\ \A k \in Callbacks : WF_transportVars(k \in joined /\ CallbackCancelled(k))
    /\ \A r \in Controls :
           /\ WF_transportVars(ControlGivesUp(r)) /\ WF_transportVars(WaiterReturns(r))
    /\ \A s \in Senders :
           WF_transportVars(SendRefused(s) \/ SendBegins(s) \/ SendEnds(s) \/ SendGivesUp(s))

--------------------------------------------------------------------------------
(* Properties                                                              *)

(* The state invariant of the transport: types, those of the capture, and  *)
(* callbacks within both bounds (_admit).                                  *)
TransportInv ==
    /\ TransportTypeOK /\ CaptureInv
    /\ Cardinality(InFlight) <= MaxCallbacks /\ Cardinality(Used) <= MaxLifetime

(* The generation is revoked at most once and its owners told exactly then,*)
(* a revoked or stopping one has no request that could still wait, and a   *)
(* frame that the transport gave up was its last (abort, _send).           *)
RevocationIsComplete ==
    /\ called = (IF failure THEN 1 ELSE 0)
    /\ failure \/ stopping => pending = {} /\ \A r \in Requests : future[r] # "open"
    /\ torn = "given_up" => failure \/ stopping

(* Continuity is never lost over a message of an honest server: not over   *)
(* the late answer of a waiter that was cancelled, and not over a callback *)
(* when earlier ones are done (wait, _admit).                              *)
HonestServerKept == ~unjust

(* When stop has ended, no effect of a callback is under way and no reader *)
(* reads; and if it did not raise, no process is left (stop, start).       *)
StopLeavesNothing ==
    cleanup \in {"stopped", "failed"} =>
        /\ \A k \in Callbacks : at[k] # "working"
        /\ reader # "reading" /\ drain # "reading"
        /\ cleanup = "stopped" => child \in {"none", "absent", "closed"}

(* Nothing is left behind a revocation or a stop (the two above).          *)
NothingLeft == RevocationIsComplete /\ StopLeavesNothing

(* Every stop ends, and so does every control request.                     *)
TransportSettles ==
    /\ stopping ~> cleanup \in {"stopped", "failed"}
    /\ \A r \in Controls : at[r] # "idle" ~> at[r] = "ended"
================================================================================
