# A verification project for Meadow Bridge

Meadow Bridge (`src/src/meadow_bridge`) runs a native language server as an owned
child process and offers its conversations to callers over a small HTTP protocol:
create a session, prompt it, cancel a prompt, retire a session, and ask what became
of an operation. The promise is at-most-once work with truthful outcomes: an
operation id is used once, a prompt is dispatched at most once, and an outcome other
than `in_doubt` is published only when every effect the prompt owned has settled.
When the bridge can no longer know, it gives the whole *continuity generation* up
and says `in_doubt`.

This directory holds TLA+ modules translated from that source, configurations that
model-check them with TLC, and proofs that TLAPS checks.

## Inventory

| component | state | operations | interacts with |
|---|---|---|---|
| `direct_state.py` | operation records, sessions, the ledger | `admit`, `get`, `set_terminal` | the direct service |
| `direct_service.py` | one generation (ledger, sessions, `prompt_lock`, reservations, tasks, collectors), `_available`, `_shutdown_owner`, `_shutdown_done` | `admit_create/prompt/cancel/retire`, `_execute_*`, `_settle_*`, `_quarantine_uncertain`, `mark_generation_lost` | HTTP handlers call it, it calls the native client, `__main__` tells it of a lost child |
| `direct_protocol.py` | none (models, limits) | validation, digests | server and service |
| `direct_server.py` | none of its own | one route per operation | service |
| `native_client.py` | logical sessions, the active turn, its cancellation, the cleanup task | `run_turn`, `cancel_session`, `retire_session`, `stop`, callbacks, progress | transport, workspace tools |
| `native_transport.py` | pending requests, callbacks, the reader, the failure | `reserve`, `dispatch`, `wait`, `abort`, `stop` | child process, raw capture |
| `workspace_tools.py` | one active operation and its stop event | `execute`, `cancel`, `close`, file batches | owned commands, the file system |
| `owned_commands.py` | one active command, `_closed`, `_failure` | `execute`, `cancel`, `close` | a process tree |
| `_owned_command_*.py` | a process group, a guardian, a job object | `stop`, `tree_stopped`, `poll`, `close` | the operating system |
| `raw_events.py` | a bounded queue and its writer | `start`, `record`, `close` | transport |
| `__main__.py` | the loss task, `shutting_down`, readiness metadata | `main`, `run`, `_owned_child_closed` | all of the above |
| `discovery.py` | candidates and their versions; a probe process and its reader thread | `find_binary`, `admit_compatible_binary`, `_read_bounded_version_output` | `__main__`, candidate binaries |
| `config.py`, `copilot_auth.py`, `permission_*.py`, `application_policy.py`, `json_types.py` | none that lives | pure decisions and file reading | start-up, workspace tools |

What is hard here:

* **Interleaving.** Everything runs on one asyncio loop, but a prompt task, its
  native turn, a deadline, any number of cancellations, a retirement, the loss of
  the child and the shutdown all meet between awaits.
* **Cancellation that does not stop anything.** A task that joins a submitted effect
  or the owned cleanup swallows or defers its `CancelledError`; what it does next
  was written for a task that had not been cancelled.
* **Uncertainty.** A timeout, a failed send, a mismatched terminal or a failed
  cleanup ends the generation. Outcomes must be published last, once, and never
  with more certainty than the cleanup gives.
* **Bounds.** The queue, the ledger and the session map are bounded for the whole
  generation; a reservation is released from two places. Callbacks are bounded in
  flight and over a generation, the raw capture by records and by bytes.
* **Ownership.** Start-up, a spawn and a cleanup consist of many calls, any of which
  can fail or be cancelled; whatever was made until then must still be closed.

Correctness, component by component. *Ledger*: an id is admitted once, a terminal
outcome is final, the capacity holds. *Service*: a session owns at most one
unsettled operation; the queue bound is exact; prompts are serialized; stable
instructions are sent once; a session that failed is not reused; a cancelled prompt
is not reported completed; nothing is published before the owned cleanup ends; every
operation is answered. *Native client*: a turn returns only when its terminal
response, its progress, its callbacks and its effects have settled. *Transport*:
responses are matched once, callbacks are joined, continuity ends once. *Workspace
tools and commands*: a submitted effect is always joined and always reported.
*Raw capture*: evidence is complete or its owner is told. *Lifecycle*: readiness is
published only for a live child and removed on every way out. *Discovery*: only an
admitted version is started, and a probe leaves nothing behind.

## Modules

| module | models | role |
|---|---|---|
| `DirectState` | `direct_state.py`, `DirectLimits` | identities, requests, states, what the ledger decides; no variables |
| `DirectService` | `direct_service.py` with the loss and shutdown callers of `__main__.py`; the native client enters as an `INSTANCE` of `NativeContract` | the core model |
| `NativeContract` | what the service relies on behind `NativeSessionClient` | the contract between the two models, with actions of the owner and of the client |
| `NativeTurn` | `native_client.py`: a turn, its messages, tool calls, cancellations and cleanup, with what it sees of the transport and of the tools | the native client in detail |
| `NativeTurnContract` | the refinement mapping | `NativeTurn` implements `NativeContract` |
| `OperationLedger` | what a caller relies on | abstract specification |
| `DirectServiceLedger` | the refinement mapping | `DirectService` implements `OperationLedger` |
| `NativeTransport` | `native_transport.py`: start, frames, requests, the reader, callbacks, abort, stop | extends `RawEventCapture`, which it records into |
| `RawEventCapture` | `raw_events.py` | the bounded queue, its writer and its close |
| `WorkspaceTools` | `execute`, `cancel`, `close` of `workspace_tools.py` and of `owned_commands.py` | who joins whose effect |
| `WorkspaceFiles` | `_file_batch`, `_publish` of `workspace_tools.py` | the worker thread of a file batch, beside other writers |
| `WorkspaceEffects` | `worker` and `stopped` of `WorkspaceTools` | composes the two above |
| `OwnedCommand` | `_run` of `owned_commands.py`, `_owned_command_linux.py` | the worker thread of a command; extends `CommandGuardian` |
| `CommandGuardian` | `_owned_command_linux_guardian.py` and the kernel as it uses it | the private subreaper of a command |
| `CommandLoop` | what `_run` asks of any process | shared by the two below |
| `DarwinCommand` | `_owned_command_posix.py` | a command as a process group |
| `WindowsCommand` | `_owned_command_windows.py` | a command as a job object, with its handles |
| `VersionProbe` | the probe of `discovery.py` | a probing thread, a reader thread and a binary that does what it likes |
| `ProcessOwners` | | chooses one of the three above, and states their fairness |
| `BinaryDiscovery` | candidates, admission and selection of `discovery.py` | extended by `BridgeLifecycle` |
| `BridgeLifecycle` | `main` and `run` of `__main__.py`, `NativeClient.start` | one process of the bridge from its options to its exit |
| `DirectServiceProofs`, `DirectServiceOutcomeProofs` | theorems about `DirectService`, the second also about `DirectServiceLedger` | TLAPS |
| `NativeTurnProofs`, `NativeTransportProofs` | theorems about `NativeTurn` with `NativeTurnContract`, `NativeTransport` with `RawEventCapture` | TLAPS |
| `WorkspaceEffectsProofs`, `OwnedCommandProofs`, `ProcessOwnersProofs` | theorems about `WorkspaceEffects`, `OwnedCommand` with `CommandGuardian`, `ProcessOwners` | TLAPS |
| `BridgeLifecycleProofs` | theorems about `BridgeLifecycle` with `BinaryDiscovery` | TLAPS |
| `MC...` | | symmetry, constraints and inputs for TLC |

The layers meet in these places. `DirectService` is checked against `NativeContract`
and `NativeTurn` implements it. `NativeTurn` takes of the tools that a call ends, or
fails with its process left, and that a join lasts as long as the effect, which is
what `WorkspaceEffects` shows. `WorkspaceTools` takes of the thread of a command that
it ends, which `OwnedCommand` shows on Linux and `ProcessOwners` on the other
platforms; the thread of a file batch is `WorkspaceFiles`, step by step.
`NativeTransport` takes of a cancelled callback that it ends, for the same reason.
`BridgeLifecycle` sees the client, the service and the HTTP server as `run` does: as
something that is started, lost, closed or failed. Nothing makes the loss of a
generation end there: `BridgeEnds` states it as a premise, and `service_loss` shows that
it may not hold.

### How `DirectService` corresponds to the code

A step is what a task does between two points where it really suspends.
`_state_lock` guards bodies that contain no suspension, so it is never contended and
is not modelled; `prompt_lock` is held across a native turn and is `fifo`, its holder
first. `pc[o]` is where the one task of operation `o` suspends:

| `pc` | the task awaits |
|---|---|
| `waiting` | `prompt_lock` (a prompt) |
| `running` | its shielded collector, until the deadline |
| `scheduled` | its first step (cancel, retire, the loss task) |
| `sending`, `stopping` | inside `NativeClient.cancel_session`: the effect and the turn, or `stop()` |
| `grace` | the turn (deadline) or the target's `done` (cancel), until the grace timer |
| `retiring` | `NativeClient.retire_session` |
| `closing`, `cleaning` | as shutdown owner: the gather, then `NativeClient.stop()` |
| `joining` | `_shutdown_done` |

`cancelled` holds the tasks that `mark_generation_lost` has cancelled and that have
not met their `CancelledError`; `interrupted` the same for collectors. `collector[o]`
is the native turn: live (`running`, `stopping`), a terminal, or an exception
(`unsettled`, `error`, `aborted`). `effect` holds the turns with an unsettled
workspace effect, `cleanup` is the one task behind `NativeClient.stop`. `verdict` is
the outcome that `_quarantine_uncertain` defers for its own record. Each action
names the handler it translates; `TakeOver`, `Join`, `Quarantine`, `LeaveLost`,
`Release` and `SendFrom` are the shared pieces of the handlers.

Choices a reader should know:

* One generation. After `mark_generation_lost` the code installs a fresh generation
  that no call can reach, because `_available` stays false.
* A replay of an identical request, and a conflicting one, change nothing: they are
  stuttering steps. Request content is one record per id, so the digest comparison is
  equality.
* `CREATING` is never observable, since `admit_create` does not suspend.
* Prompt phases after the first (`invocation`, `correction`, `continuation`) are one
  `later` phase; which invocation a delta names is data.
* `MaxQueuedPrompts` bounds the queue with the arithmetic of `admit_prompt`.
* Timers may fire at any time: a deadline may expire when the result is already
  there, a grace period may end when the target settles in the same turn of the loop.
* Effects of a turn are one token: at least one effect is unsettled.
* A completion may always turn out not to match its session (`_normalize_result`
  raises), and then quarantines the generation as one that does not match a cancellation
  does (`MismatchedTerminal`).
* A collector that is cancelled while it is already in `stop()` raises
  `CancelledError` after a cleanup that settled, and the failure of the cleanup
  otherwise; one that is joining an effect for its own cancellation absorbs it.
* The service steps and the steps of the client interleave: each step of the client
  in `Next` is one of `NativeContract` together with `NativeMoves`, which says what
  the service notices of it (the loss task is scheduled when continuity ends).
* `RetireFails` and `RetireCancelled` treat every retirement that suspends as one
  that has a conversation to destroy; a session without one does not suspend.

### How `NativeTurn` corresponds to the code

`phase[t]` is where the task of `run_turn` suspends: `prompting` (its request, until
the prompt's timeout), `signalling` (its own `_signal_cancel`), `acknowledging` (the
request again), `joining` (`context.cancellation`), `settling` (`settle_callbacks`),
`checking` and `checked` (`_check_mcp`), `stopping` (`stop()`), then an outcome.
`signal[s]` is where each `_signal_cancel` suspends: of the turn itself, of the
scheduled task (`Scheduled`) and of the callers of `cancel_session`. `calls[k]` is a
tool call: queued on `effect_lock`, running, being answered, answered; `raised` when
its callback fails, `lost` when the tool itself raised and its process may still
run, `dropped` when the transport's `stop` cancelled it. `queue` is `effect_lock`.

* The reader admits a message only where `_notification`, `_callback` or
  `_terminal_rpc` accept it; everything they refuse, and the end of the stream, is
  `ReaderFails`. An abort by anybody else leaves the reader running, as in the code.
* What a message says is reduced to what changes control: whether its evidence still
  fits (`cut`), whether an end gives a cancellation reason or an error, whether the
  answer is a result or an error. A call is either answered at once (a confirmation,
  arguments that do not decode) or queues an effect.
* `bound` is the binding of the session. Before `begin` it is the previous turn's,
  which is what a report or an end is compared with.
* An interruption that reaches a turn while it joins an effect is absorbed
  (`WorkspaceTools._settle`); the join is resumed only after that.
* Two timing facts are in guards: the exchange of `_check_mcp`, and the thread that
  stops the child, outlast the wake-up of a task whose effect has ended.
* Callers of `cancel_session` are not themselves cancelled here; `DirectService` has
  that. Allocation and retirement have no state a turn can race with, since a turn's
  session cannot be retired while it is active.

`NativeTurnContract` maps `phase` to the contract's `collector`, and a turn owns an
effect while a call runs or while the turn's own cancellation still joins it. With
it, what `service_*` shows for the contract holds for this client.

### How `NativeTransport` and `RawEventCapture` correspond to the code

`life` is where `start` suspends (the capture's start, the thread that spawns the
child, the recovery of a child that was spawned for a cancelled start), `cleanup`
where `_stop_owned` does (the callbacks it gathers, the readers, the process tree, the
capture). `pending` and `future` are `_pending` and its futures; `at[s]` is where a
sender is: a callback is `working`, then `answering`; whoever sends is `waiting` for
`_write_lock` or `writing` its frame; a request then `waits` for its response, and is
`left` by a waiter that was cancelled. `line` is `_write_lock`, its holder first. `IsOpen` is the property `is_open`. `writer` is where `start`, and then
the task `_run`, of the capture suspend; `hand` is the item that `_run` has taken from
the queue and not yet written, which is still counted in `bytes` and `records`.

* A message is *honest* if a server that keeps the protocol could send it then; the
  reader is offered those, dishonest ones of any kind (`AdmitRogue`), and the end of
  the stream. `unjust` remembers that continuity was lost over an honest one.
* Identifiers of callbacks are used in order, and a rogue message may repeat one.
* Any step that sends or receives may be observed by the capture, which may then
  overflow and abort the generation (`AbortsIf`); what a capture that failed does not
  take is neither written nor admitted (`Unrecorded`).
* A task that is cancelled while its frame is written leaves a torn frame with the
  generation still open (`torn = "cancelled"`). The code does this, its peer then
  breaks the protocol, and the property about torn frames speaks of the frames that
  the transport itself gave up.
* `stop` gathers the callbacks it finds; one that the reader admits afterwards is not
  gathered. The reader goes on after an abort. Both are in the model.
* A child that a cancelled start no longer owns a handle of may still be reaped by the
  interpreter later; that is not modelled.

### How `WorkspaceEffects` corresponds to the code

In `WorkspaceTools`, `place[t]` is where the task of an `execute`, a `cancel` or the
`close` waits: `waiting` (`execute`, for its shielded `_execute_owned`), `stopping`
(inside `OwnedCommands.cancel`, which joins the command's thread), `settling`
(`WorkspaceTools._settle`), `closing` (inside `OwnedCommands.close`). `inner[o]` is
`_execute_owned`: `admitting` until its thread starts (the admission of a command's
directory suspends), `running` while the thread does, then a result with its effects,
an empty one, or an exception. `active` and `command` are the two `_active` fields,
`closed` and `retired` the two `_closed`, `failed` the `_failure` of the commands.

* The `_settle` loops swallow every cancellation of a task that joins, so a second
  cancellation is a stuttering step; so is a cancellation of the caller of `close`.
* `OwnedCommands.execute` awaits its thread before anybody else does and is resumed
  first; `ShellOver` says so.
* That the loop is torn down and cancels inner tasks itself is not modelled.

In `WorkspaceFiles`, a content is the part that an edit names, and the rest, which it
must leave alone. An item is read, staged, published by `link` (a creation) or, after
a comparison, by `rename` (an edit), and unstaged; `place` is between two of the file
operations, each of which may fail. The decision on a path, encodings and size limits
are the one refusal `PathRefused`. A call's items are all creations or all edits, and
two names can be links to one path. Between the comparison and the rename another
writer can get in; then a receipt names a content the edit did not replace. The
receipt property therefore speaks of paths and of what was written, not of what was
replaced.

`WorkspaceEffects` joins the two: the thread of the file operation takes the steps of
the batch, ends when the batch does, and the event the batch looks at is set by the
very tasks that cancel, close or are cancelled (`stopped`).

### How `OwnedCommand` and `CommandGuardian` correspond to the code

`guardian` is where the helper is: `watching` (its `select`), `cleanup` and `stop`
(each calls `settled`, whose loop is `SweepRoot` and `SweepMembers`, one child a
step), `pinning` (the `_observe` in `stop`), `killing` (`killpg`), then its exit.
`Members` are processes in the order of their birth; a process forks, exits, reaps
its children, leaves the group (`setsid`), and its number, once the group is empty,
may name a foreign group. `Sweep` is the 64 of `settled`.

`worker` is where `_run` is in its loop: `reading` (selector and `poll`), `judging`
(the first reason to stop), `asking` (`tree_stopped`), `finally`.

* The kernel is modelled as the guardian uses it; `setpgid` back into the group is
  not, nor are ptrace and namespaces. `Contained` says that no process of the command
  has left its group. The properties of the guardian are conditioned on it, because
  without it they do not hold: a child of a process that called `setsid` can be in
  the group without being a child of the guardian, and the guardian reports a settled
  group that still has this member. It was reproduced on Linux. The code promises
  process groups, not containment, so it is an observation and not a finding.
* `OwnedInit` starts with a guardian that has started the command. A constructor that
  fails before is not modelled, and `tree_stopped`'s two polls are one.
* Output is whether both pipes were read to their end. Since a process outside the
  group may hold them, `eof` may come at any time, and need not come.

### How `ProcessOwners` corresponds to the code

`CommandLoop` has what `OwnedCommands._run` does with any process: `creating` (the
constructor), `loop` and `finally` (each polls, stops and closes), then its end.

*Darwin*: `adapter` is where `PosixCommand.__init__` is, or the state of the object;
`stopAt` lies between the system calls of `stop`: it lists the other members of the
group, observes the root without reaping it, and signals the group. The root stays a
zombie until `close`, so that its number cannot be reused; `foreign` says that it was.
`ObservedRoot` reaps nothing. The `ECHILD` branch of `stop` cannot be reached from a
correct state. When the bridge dies nothing kills the group: there is no property that
says otherwise.

*Windows*: `spawn` walks through `_spawn` call by call, any of which may fail;
`opened` are the handles open in the kernel, `kept` those the object remembers. A
process belongs to the job from its creation, in a suspended state (`Assigned`).
Closing the last handle of the job kills its processes, also when the bridge dies.
`close_stdin` is not used on this platform. If the handle of the job was released and
another was not, a later `close` cannot ask the job whether the tree has stopped and
keeps the rest for good: the error was reported, and the property asks no more.

*Probe*: `probe` is where the probing thread is, `reader` the reader thread, which
takes `Limit + 1` bytes at most; processes write, fork, close the pipe, leave the
group or exit as they like. On Windows the tree of a process that has exited cannot be
found any more, which the property says. That a group number is reused between the
reaping of the leader and the last `killpg` (discovery.py:125) is not modelled.

### How `BridgeLifecycle` and `BinaryDiscovery` correspond to the code

`phase` is where `main` or `run` is: choosing (`options`, `discovery`, `inspection`,
`configuration`), `admission` (run's own probe of the binary), `starting`
(`NativeClient.start`), `binding` (`server.startup`), `waiting` (`asyncio.wait`),
`losing` (the loss task), `leaving` (the server task), and the steps of the finally
clause: `watchers`, `collecting`, `settling`, `unbinding`, `stopping`. `raising` is
what unwinds `run`, `errors` is `cleanup_errors`.

* `NativeClient.start` is its requests in order (`StartRequests`, `answered`); a
  response that start does not accept, a failed send, the deadline and an interrupt
  all end in `StartStops`, and the client stops itself before `run` unwinds.
* The child may exit and the transport close at any time. `early` remembers that this
  was before the metadata file could be written.
* The metadata file is written by a rename; a failure of any step leaves what was
  there. It may be there from a bridge that was killed (`stale`): no code removes or
  distrusts that one, so no property speaks of it. While the cleanup runs the file
  still says `ready`, although the docstring of `_write_metadata_file` says that its
  existence means an accepting server; it goes after `server.shutdown`, and the
  property says `until the cleanup`.
* After a quarantine the file stays until a signal, and the loss of a child while
  serving ends in exit code 0. Both are what the code does.
* Before the handlers are installed SIGTERM kills; so does a second interrupt during
  an early cleanup. Both are `BridgeKilled`.
* A path of `BinaryDiscovery` is canonical; a line of the process list resolves to
  one. Names, the text of process lists and the parsing of versions are data. A probe
  is one step that tells the version installed at that time or, since it has a
  deadline, none; installations change between two steps (`Upgrades`).

## Runs

| run | question | bounds | states |
|---|---|---|---|
| `service_safety` | does every interleaving keep the invariants and action properties? | 5 operations, 2 sessions, a queue of 1 | 600,750 |
| `service_live` | is every admitted operation answered, and is the service a ledger? | 4 operations of 5 ids, 2 sessions, a queue of 1 | 171,286 |
| `service_loss` | does a lost generation finish its shutdown? | 3 operations, 1 session | violated |
| `turn_safety` | does a turn settle everything it started, keep the contract, and leave nothing to the next? | 2 turns, 2 tool calls, 1 caller of `cancel_session` | 1,007,289 |
| `turn_live` | does every turn and every `cancel_session` end? | 1 turn, 1 call, 1 caller | 172,173 |
| `turn_overflow` | does cut evidence always settle the turn? | 1 turn, 1 call, 1 caller | violated |
| `workspace` | is every effect joined, told of and over when somebody says so? | a command, a batch of 1 or 2 files on 2 paths, a `cancel`, a `close`, 1 foreign write | 909,034 |
| `command` | do results and failures speak of a settled tree, and does the command end? | 3 processes, sweeps of 2 | 219,220 |
| `guardian_sweep` | is a settled group ever given up? | 4 processes, sweeps of 1 | violated |
| `transport` | is continuity lost only for a reason, and is nothing left behind? | a control request, a prompt, a notification, 3 callbacks of which 1 in flight and 2 in all; a queue of 2 records or 3 bytes | 292,131 |
| `owners` | is every process and handle owned at each step, without a guardian? | 3 processes of a command, 2 of a probe, an output limit of 2 bytes | 17,045 |
| `bridge` | is readiness truthful, is a loss answered, does the cleanup reach everything, and does the bridge end? | 2 paths, 3 versions, 1 upgrade | 649,112 |

Five operations on two sessions are enough for a create, a prompt that runs, one that
queues behind it or follows it in the same session, and two that cancel or retire
them, which is every pair of handlers that share a session or the queue, plus a
third that meets both; with a queue of one, the third prompt meets the bound.
`service_live` has one id more than its ledger holds, so its refinement sits on the
edge of the capacity. Operation and session ids are interchangeable: `service_safety`
uses symmetry, the liveness runs let callers take ids in order (`IdsInOrder`), which
cuts only renamings and only admissions, which no fairness promises. `service_live`
also lets creations come before other work (`CreationsFirst`): a creation is answered
in the step that admits it, and `service_safety` has the others. Deadlock checking
is off where the system really stops: after a shutdown, when a command, a batch, a
generation or a bridge is over, and because callers need not call.

Two tool calls are enough for one that runs and one that waits for `effect_lock`
behind it; one caller of `cancel_session` with the turn's own timeout and the
scheduled cancellation makes three parties that cancel at once. A second turn is there
for what it may inherit: it makes one call, and is followed while the client serves
(`SecondTurn`), since no turn starts once the transport is lost or the cleanup began.
An end that carries an error differs from the others in the name of the outcome only:
it is followed in turns of one call (`ErrorWithOneCall`), and `turn_live` leaves it
out (`EndsWithoutError`).

In `workspace` the command comes before the batch, if it comes (`CommandFirst`): a
batch then meets what a command has left, a closed owner included, and the order the
other way round gives the command nothing it could see. `MaxWrites` bounds other
writers: one write at any step of an item. In `command` three processes give a root, a
child and a grandchild, so that an orphan is adopted, and a sweep of two is met exactly
and missed by one. In `transport` at most three senders start (`Traffic`), one when the
capture is on; any three of the six meet, no fairness promises the start of one, and
with a capture the records of notifications from the server do the filling: two of
them fill the queue by number or by size, and one size exceeds the limit by itself.
`MaxSequence` bounds the observed records. In `owners` the output may pass its limit by
two bytes. In `bridge` one version is too old and two differ in their last number, and
`MaxUpgrades` lets one installation change while it is being admitted. At the start the
first path has any version or none and the second the newest or none (`Installation`,
a constraint that only discards initial states), so that each of the two can win the
selection and both can tie.

The properties of `service_safety`:

* `SessionExclusion` - `active_operation_id` is exactly the session's unsettled work,
  through cancelled workers that drain after their session was given to a newer
  prompt.
* `QueueAccounting` - reservations equal the unsettled prompts, although a cancelled
  prompt releases from two places; the negotiated bound follows.
* `ReuseIsJustified` - stable instructions reach the native client once per session,
  and a session whose dispatched prompt did not complete is never ready again.
* `OutcomesAreTruthful` - an outcome other than `in_doubt` means the turn is over and
  owns no effect (`OutcomeMeansSettledEffects`); with what a completed cancellation
  (`CancelReportsSettled`) and a retirement (`RetirementExcludesWork`) imply about
  other operations.
* `DispatchDiscipline` - `run_turn` is called once per operation, for work that is
  still wanted, beside no other turn. The client refuses a second turn, but it is
  the lock that keeps that refusal from ending a generation.
* `CancellationNotOverruled`, `TerminalIsFinal`, `LossPublishesLast` - what a later
  step may never do to an earlier outcome.

`LossPublishesLast` has an exception. The docstring of `mark_generation_lost` says
that outcomes are published after the owned cleanup. When the loss cancels a prompt
whose deadline is joining a tool effect, the execution task and the collector absorb
the cancellation, the turn settles as cancelled, and `timed_out` is published before
the owned cleanup begins. The outcome is true - the effect has settled - and
`LossPublishesLast` says exactly that much.

`service_live` adds `WorkSettles`, which the next section explains, and
`ServiceRefinement`: a caller who forgets sessions, queue and tasks sees an
`OperationLedger`, where an id is admitted once within the capacity, dispatched at
most once and never after it settled, and a revoked generation answers what it owes.

The properties of the `turn` runs:

* `ReturnedTurnIsOver` - when `run_turn` returns, the end, the answer, the turn's own
  cancellation and every tool call have settled, and nothing of it comes back.
* `TurnInv` - after any `_signal_cancel` has returned, no effect of the turn runs, nor
  starts from the queue (`CancelJoinsEffects`); a settled cleanup leaves no effect,
  callback or command that was lost (`CleanupLeavesNothing`).
* `TurnRefinement` - the contract: outcomes only with settled effects, no outcome but
  a cancellation for a turn that was asked to cancel.
* `TurnsDoNotMix` - a second turn starts with nothing of the first pending.
* `EveryoneReturns` - liveness of turns (`TurnsEnd`) and of `cancel_session`
  (`CancelsReturn`); a wait without a timer, or two joins that wait for each other,
  would break it.

`turn_overflow` shows a disagreement with ADR-021, which says that byte overflow
settles the turn: if evidence is cut by the last messages, the server has ended the
turn and cannot acknowledge the cancellation, and the client gives its generation up.
The same model led to a second observation. The refusal of a reused turn identity is
only reached by `begin`, so a later turn without one completes under the identity of
the turn before. Both happen with the repository's test server when it is changed to
send such messages.

The properties of the runs below the client:

* `EffectsSettle` (`workspace`) - an `execute` that is over, cancelled or not, has
  joined its thread, and what the thread did is in its result (`ResultKept`); a
  `cancel` leaves nothing of the operation it was about (`CancelJoins`); after `close`,
  failed or not, nothing runs and nothing can start (`CloseIsFinal`); effects do not
  overlap (`ToolsInv`).
* `ReceiptsAreCommits` (`workspace`) - whatever fails in a batch, its receipts are the
  files it published, and of a call that has returned, all it will ever publish; a
  creation never replaces a file.
* `StopPrevails` (`workspace`) - after the operation was told to stop nothing is
  published that had not passed its last look at the event, and nothing at all once
  its `execute`, a `cancel` of it or `close` has returned.
* `EveryoneReturns` (`workspace`) - every `execute`, `cancel` and `close` ends.
* `SettledMeansGone`, `NeverStrikesForeign` (`command`) - ECHILD proves that the group
  is gone, and `killpg` reaches no other group, for commands that keep their group.
* `EvidenceOfSettlement` (`command`) - a result needs a settled tree and drained pipes
  (`ResultMeansSettled`), a failure a guardian that has ended (`FailureJoinsGuardian`).
* `OrdinaryResultIsOwn` (`command`) - a result that is neither timed out nor cancelled
  is not that of a killed root.
* `DarwinOwnsItsGroup` (`owners`) - only `close` reaps the root, and only when nobody
  is left in its group; no other group is signalled.
* `WindowsOwnsAll` (`owners`) - however far `_spawn` came and whatever fails, in it and
  in its cleanup, an open handle is one the object can still close, none is closed
  twice, and closing the job would end every process of the tree.
* `ProbeIsSound` (`owners`) - a version is read from the whole output of a process that
  exited with zero, and a probe that is over leaves nothing of its group.
* `TreesEnd` (`owners`) - creating, stopping and probing end, and a group of Darwin
  that was killed is closed although a later signal to it is denied.

The properties of `transport`:

* `NothingLeft` - the generation is revoked at most once and its owners are told then;
  a revoked or stopping one has no request that could still wait; a frame the
  transport gave up was its last (`RevocationIsComplete`). When `stop` has ended no
  effect of a callback is under way, and, if it did not raise, no process is left, even
  of a start that was cancelled (`StopLeavesNothing`).
* `HonestServerKept` - a late answer to a cancelled waiter, a callback identity used
  once, and the end of earlier callbacks never count against the server.
* `EvidenceIsTruthful` - a `capture_end` on disk means that every record is there; an
  incomplete file was told of, once.
* `TransportInv` - both bounds of callbacks; the file is a prefix without gaps; the
  counts of the capture are exact with the record in hand.
* `TransportSettles` - every stop and every control request ends.

The properties of `bridge`:

* `ReadinessIsTruthful` - the file is there only while the server accepts connections,
  for a binary that was admitted and a client that completed its handshake, until the
  cleanup, and a bridge that ends takes it away, whatever else of the cleanup fails.
* `LossIsAnswered` - a child that was lost during native or HTTP start-up is never
  reported ready and fails the bridge; a later loss is accounted as one, even when a
  signal overtakes it.
* `CleanupReachesAll` - the end of `run` leaves no owner behind, whichever step of the
  cleanup failed, and a clean exit means that all of them succeeded.
* `OnlyAdmittedStarts` - discovery selects the newest admitted candidate, the first
  path among equals, whatever source named it first; what is started was admitted by
  `run` itself, unless the installation changed after that.
* `BridgeEnds` - a signal, and the loss of the child, end the bridge, unless the loss of
  the generation or an unanswered request holds `run` for good.

`guardian_sweep` shows a fault at a limit. `settled` reaps 64 children and returns
false without asking whether the last one is gone; if the call inside `stop` reaped
exactly the last 64, the `_observe` that follows raises an ECHILD that nobody catches,
the guardian exits with an error, and the owner of the commands is closed for a tree
that has settled. It was reproduced with a shell that leaves 256 background processes.

`TypeOK` and `OwnedTypeOK` are type invariants; those of the other modules are the
first conjuncts of `TurnInv`, `ToolsInv`, `FilesInv`, `TransportInv`, `CaptureInv`,
`DarwinOwnsItsGroup`, `HandlesOwned`, `VersionIsWhole` and `ReadinessIsTruthful`. Every
property has a mutant: an operator such as `Release_EveryTime` is the plausible mistake
that breaks it.

### Fairness and liveness

`WorkSettles` assumes weak fairness of each task step (a task whose wait is over
resumes, and every wait is bounded by a deadline, the grace period or the request
timeout), of the end of effects (file batches end, commands have a timeout and are
killed), of the reaction of a turn to a lost transport or its own cancellation, of
the owner and joiners of a shutdown, of the loss task once it is scheduled, and of
the owned cleanup. A native turn may hang, callers need not call, the child need not
be lost, and no shutdown signal has to come. Under this, admitted work is answered,
except in one situation that the property names: `CircularWait`.

`EveryoneReturns` of `turn_live` assumes weak fairness of the steps of a turn, of its
calls, of the writer, the cleanup and the waiting callers, whose waits have timers
(`timeout_s`, `request_timeout`, `write_timeout`) or join effects that have theirs,
and strong fairness of the join of an effect, which any number of interruptions does
not stop (`while not task.done()`). Messages, callers, and interruptions are free.

Below the client: `FairOwned` lets the worker thread and the guardian run, a killed
process exit, and the wait for the pipes, five seconds, expire although the worker
goes round its loop meanwhile (strong fairness of the step that gives up). The command
itself need not do anything. `FairOwners` assumes the same of the loops of the other
platforms, with zombies that launchd reaps, and lets the probing thread, whose waits
have one deadline, run. `FairEffects` resumes tasks whose wait is over and ends
threads: a command has a timeout and, by `CommandEnds` and `TreesEnd`, ends when told
to or when that passes; a batch has a last item. `EveryoneReturns` of `workspace` says
that again and again no call is under way, which is the end of each of them, since one
that began is never idle again.

`FairTransport` assumes that tasks resume, that calls of the process adapter, writes
and waits with a deadline end, and that a callback the stop has cancelled ends. Nothing
is assumed of the server, of prompts, or of other senders.

`FairBridge` assumes that the event loop runs: that a step of `run`, of its `finally`
clause, or of the loss task that is possible is taken, and that `main_loop` of a server
that was told to exit returns. The child, signals, upgrades, the owner of a loss and the
requests in hand are free. Two awaits of `run` have no deadline, and `BridgeEnds` says
so in its premise, `[]<>~Held`:

* `HeldByLoss`: the loss of the generation, which `run` awaits in the loss task and in
  `mark_generation_lost`. The circular wait of `service_loss` is a loss that never ends.
* `HeldByRequest`: `server.shutdown()`. uvicorn closes its sockets and then waits for
  the requests in hand; the `Config` of `run` sets no `timeout_graceful_shutdown` and
  nothing sets `force_exit`, and a body is awaited without a deadline
  (`RequestBodyLimitMiddleware`). One request whose body never ends keeps `run` there:
  the sockets are closed, the service has settled its native client, and the process
  and its metadata file stay until it is killed, since a second signal only sets an
  event that is set.

With either part left out of `Held`, TLC refutes `BridgeEnds`; the premise has no
part that is not needed.

`service_loss` shows the circular wait. The shutdown owner awaits every execution task
before it sets `_shutdown_done`; a task it cancelled can come back to
`_quarantine_uncertain` and wait for `_shutdown_done`. The shortest trace: a prompt
meets its deadline and sends a cancel that ends in `NativeClient.stop()`; the
transport is lost and the loss task takes over and cancels the prompt's task; the
cleanup fails; `stop()` raises the failure in place of the interruption it had kept;
the task handles it as an ordinary exception, quarantines, and joins the loss that
gathers it. A task that joins a submitted effect in `WorkspaceTools._settle` gets
there without a failed cleanup. ADR-012 says that the loss marks unsettled work
`in_doubt` and stops the proxy.

## Proofs

Every invariant, action property and refinement that a passing run checks is also the
property of a theorem: the run shows it on a small instance, the theorem for every value
of the constants that the named `ASSUME` of the module allows. Each proof has the same
shape: an inductive invariant, one lemma for each conjunct with one step for each action
that can disturb it, and a theorem that puts them together. Where a module has many
actions, a lemma first says which steps change a variable at all and how ("moves"), and
the conjuncts are proved from that.

### The service

`DirectServiceProofs` proves, for any finite sets of operations and sessions and any
limits that `DirectLimits` allows (`IdentityAssumption`, `LimitAssumption`):

* `TypeCorrect` - `Spec => []TypeOK`
* `SessionsExclusive` - `Spec => []SessionExclusion`
* `OutcomesFinal` - `Spec => TerminalIsFinal`
* `DispatchesDisciplined` - `Spec => DispatchDiscipline`
* `CapacityHolds` - `Spec => []LedgerBounded`: the ledger never holds more than its
  capacity

The first four come from one inductive invariant, `IInv`, checked with TLC before it was
proved:

* `TypeOK` is not inductive alone: a task that finishes removes the head of `fifo`,
  so the proof needs that it is there (`LockHeld`: whoever is past `prompt_lock` in an
  available generation is at the head, once, and so is the only one).
* `Fresh` - an id that was never admitted has no task, turn or reservation.
* `Places` - which suspension points go with which kind of operation and which record
  state; an unsettled prompt of an available generation has a task in one of them.
* `Revoked` - in an available generation nothing is cancelled, nobody owns or joins a
  shutdown; afterwards the owner is exactly the task in `closing` or `cleaning`.
* `Alone` - two prompts are not both past the lock while the generation is available.
* `SessionExclusion` itself, which needs `Places` and `Revoked` for the tasks that
  leave in a lost generation.
* `Turns` - a live turn belongs to a prompt that is past the lock.

There is one lemma per conjunct with one step per action, `Inductive` puts them
together, and `OutcomesFinal` and `DispatchesDisciplined` are proved for each step
from `IInv`. `LedgerBounded` is inductive over `TypeOK`: only an admission adds an
id, and `LedgerAdmits` counts them.

`DirectServiceOutcomeProofs` goes on from there to what the outcomes say
(`QueueAccounted`, `ReuseJustified`, `OutcomesTruthful`, `CancellationStands`,
`PublishedAfterCleanup`). An outcome is truthful because of what was true of the turn
long before it was published, so `OutcomeIInv` says that an admitted prompt has a turn
from its dispatch on (`Records`, `Dispatched`), that a waiting cancellation is about a
prompt that was dispatched (`Targets`), what a shutdown has left of tasks, turns and
effects as it goes on (`Gone`), which outcomes only a shutdown can give (`Verdicts`),
when a session can take work (`Reuse`) and when a place of the queue is given back
(`Reserved`). `CancellationStands` and `PublishedAfterCleanup` are about a step from it:
a prompt that was being cancelled is not published as completed, and a loss publishes
last. `ServiceIsLedger` proves `ServiceRefinement`, that the service with all its tasks
is the abstract `OperationLedger`: a lemma for each action of the service says which
action of the ledger it is, or that it stutters.

### A turn of the native client

`NativeTurnProofs` proves, for any sets of turns, tool calls and callers that the
signallers are told apart by (`SignallerAssumption`), `CancellationsJoin`
(`TurnInv`), `ReturnedOver`, `TurnsStayApart` (`TurnsDoNotMix`) and `TurnKeepsContract`
(`TurnRefinement`). The invariant `TurnIInv` is about the turn that was run last:
no other is live (`TurnOwned`), and everything pending belongs to it (`NothingYet`);
the answer comes after the end and is kept (`AnswerLast`); a cancellation is scheduled
exactly if evidence was cut or the end was a cancelled one, and is over when `run_turn`
has joined it (`CancellationScheduled`); each queued call is in the queue once and none
is left after `settle_callbacks` (`CallsSettled`); whoever signals has asked the turn to
cancel (`Asked`); a cleanup in its last steps has closed what could still change
(`CleanupClosed`). The refinement is the assumption of the service about the client, so
`ServiceRefinement` and `TurnRefinement` together say of both what the ledger says.

### The transport and its capture

`NativeTransportProofs` proves, for any requests and callbacks that
`TransportAssumption` tells apart and any limits on callbacks and on what a capture may
have pending (`CaptureAssumption`):

* `HonestKept`, `NothingLeftBehind` - from `TransportIInv`: how far `start` came says
  whether there is a process (`Starting`), an open future is pending and fails with its
  generation (`Futures`), and a stop has joined what its later steps rely on
  (`Stopping`).
* `CallbacksWithinBounds` - from `BoundedIInv`: one admission adds one callback, within
  both limits.
* `EvidenceTruthful`, `FileHasNoGap` - from `EvidenceIInv`: where the writer is says what
  can be on disk and in the queue (`Positions`), lines, the record in hand and the queue
  are consecutive (`Consecutive`), nothing is lost before the capture failed (`Whole`),
  and `capture_end` is the last record (`Ended`).
* `FramesOneByOne` - from `LineIInv`: a sender is in the line of `_write_lock` once, and
  only the first is in the middle of a frame. `Leaves` takes a sender out of the line at
  its position, so the proof can speak of those before and behind it.
* `TransportWell` - `TransportSpec => []TransportInv`, all of the above and that what the
  capture counts as pending is exactly what is queued or in hand (`Counts`). The bytes
  are a sum over a queue of any length, `SumOfSizes`, a recursive function. What is to be
  shown of it (that it is defined at every length, what an append adds and taking the
  head takes off) is shown by a least counterexample: `LeastNumber`, that a nonempty set
  of naturals has a least element, follows from the well-foundedness of the strict
  subset order on finite sets, which the library has as a fact without an operator
  parameter.

### The workspace tools

`WorkspaceEffectsProofs` proves `EffectsJoined`, `ReceiptsTruthful` and `StopsPrevail` for
any commands, file operations and cancels (`ToolsAssumption`) and any finite batches of
any length (`EffectsAssumption`). It has three parts. `ToolsIInv` is about the tasks: the
active operation is the one whose `execute` is not over (`ActiveIsCalled`), a thread runs
only while its operation does (`ThreadsOwned`), a cancel joins the operation it stopped
(`JoinsOwn`) and nothing starts once `close` was called (`ClosingStops`). `BatchIInv` is
about the thread of a batch: one commit for each receipt, and one more between a
publication and its receipt (`Counted`); each receipt says what its commit was (`Told`);
creations are linked and edits renamed (`Kinds`); a stop that comes after the last look
at the stop event leaves that one publication owed (`StopOwed`). `BatchInThread`
relates them: the batch is under way exactly while its thread is, and a stop of the
operation is the event the batch looks at.

### Owned processes

`OwnedCommandProofs` begins with the guardian and proves, for any set of processes, finite or not, and any
limit of a sweep (`GuardianAssumption`): `GuardianTypes`, `GroupsSettle`
(`Spec => []SettledMeansGone`) and `ForeignGroupsSpared`
(`Spec => []NeverStrikesForeign`). That ECHILD means an empty group is not a matter of
one step: a member that the guardian cannot wait for has a living parent, which is an
older member of a group that was kept, and so on down to the oldest member, which
must be a child of the guardian. The invariant therefore says that processes are born
in order (`InOrder`), that a parent other than the guardian lives and is older
(`Lineage`), and, for the signal, that a number is reused only when nobody has it and
that a guardian about to signal has a child that holds it (`Numbered`). `LeastMember`
gives the oldest member, `EchildSettles` is the argument.

It then proves `OwnedImplementsGuardian`, `OwnedSpec => Spec`:
whatever the worker does is, for the guardian, a step of its own specification. So
the theorems above hold beside the worker, and the worker's invariant (`OwnedInv`)
only has to keep what it saw: a guardian that has settled or failed stays so
(`ResultSeen`, `FailureJoinsGuardian`), the code is known only when it was written
(`CodeKnown`), and the root is killed only for a reason that the result names
(`Reasons`, `KilledForReason`). It gives `OwnedTypes`, `ResultsMeanSettled`,
`FailuresJoin` and `OrdinaryResultsOwn`.

`EvidenceSettles` puts `ResultsMeanSettled` and `FailuresJoin` together, as the run
states them.

`ProcessOwnersProofs` is about the owners without a guardian, for any set of processes
(`DarwinAssumption`, `WindowsAssumption`, `ProbeAssumption`; the limits of a probe are any
numbers). The steps of one owner leave the parts of the others alone.

* `GroupOwned` (`DarwinOwnsItsGroup`): an object that was not closed has a leader that was
  not reaped, and only such an object is stopped (`Unreaped`), so a group number that
  passed on (`ForeignLast`) is not signalled, whatever the census says about zombies
  (`StoppedTree`).
* `JobOwned` (`WindowsOwnsAll`): what `_spawn` has made by each of its places, whichever
  call of it fails (`MadeSoFar`), and nobody is born outside the job (`BornIntoJob`).
* `ProbeSound` (`ProbeIsSound`): how the reader can have ended says what it knows of the
  output (`ReaderKnows`), and the probing thread has made sure of each part before it
  goes on (`ProbeKnows`).

### The lifecycle of the bridge

`BridgeLifecycleProofs` proves `Ready`, `LossAnswered`, `CleanupReached` and
`AdmittedStarts` for any installations and versions (`DiscoveryAssumption`) and any number
of upgrades (`LifecycleAssumption`). `RunIInv` says at each place of `run` which owners
exist (`Owners`), what the state of the client says of its child (`ClientKnows`), who
accounts for a loss and what it can still prevent (`LossKnown`), and which owners the
steps of the `finally` clause have settled so far (`Settled`). `StartIInv` is about the
binary: nothing is chosen before it was inspected (`Choosing`), and an admission is as
old as the upgrades that came after it (`AdmissionHolds`). That the newest admitted
installation is selected rests on `KeyOrder`, that tuples of versions are in
lexicographic order.

### What is only model-checked

All inductive invariants were checked with TLC before they were proved. What stays with
TLC:

* Liveness under fairness: `WorkSettles`, `EveryoneReturns`, `BridgeEnds`, `CommandEnds`,
  `TransportSettles` and `TreesEnd`. Fairness is a matter of `ENABLED`, which this prover
  does not expand.
* The three runs that expect a violation: a counterexample needs no proof.
* What depends on the constants of an instance rather than on a step: that the bounds
  are large enough for the interesting cases to happen.

Two definitions of the model are written so that they can be reasoned about: the records
among the pending items are a set (`RecordsOf`) and a sender leaves the line by its
position (`Leaves`), where a filter over the sequence would be a recursive operator that
the prover cannot expand.

## Not modelled, and the plan

* The HTTP layer of `direct_server.py`: parsing, authentication and one call of the
  service per route. It keeps no state of its own; the order of calls is the free order
  of admissions in `DirectService`.
* `direct_protocol.py` beyond its limits and the lifetime of a prompt: the validation
  of request models, digests and the rendering of capabilities are data.
* Permission and application policy, workspace path admission: stateless decisions.
  `PathRefused` and the refused call are their outcomes.
* What responses contain: model catalogues, tool definitions, evidence text.
* Configuration, OAuth credential and log files: read once, before anything runs.
* `find_binary_from_*` and `require_compatible_binary`, which nothing in the bridge
  calls; `parse_copilot_language_server_version` as text.
* Scripts and experiments: they check or drive the bridge and are not part of it.

Four hazards stay observations without a property, or with a weaker one: a later turn
without a `begin` completes under the identity of the turn before; a metadata file left
by a killed bridge is not distrusted by anybody; a group number reused between the
reaping of a probe and its last `killpg`; a frame torn by the cancellation of its
sender.

Checks that the code makes and that cannot fail have no step: the `EBUSY` of `close` on
Darwin (the loop has left a group in which nobody lives who could fork), a count of
written bytes that `_send` does not believe (the three process adapters return none, or
what the kernel wrote), and a request too long for a frame (a prompt may have half a
megabyte, a frame sixteen; the reply of a callback may be too long, and is modelled).

What is left is proof across modules. Each layer takes of the next what a theorem here
states of it, but that is an argument of this file and not a theorem: that the effects
`NativeTurn` starts are those of `WorkspaceTools`, that the command thread of
`WorkspaceTools` is `OwnedCommand`, that the callbacks of `NativeTurn` are frames of
`NativeTransport`. The refinements that are proved (`ServiceIsLedger`,
`TurnKeepsContract`, `OwnedImplementsGuardian`) are the pattern for it.
