----------------------------- MODULE BridgeLifecycle ---------------------------
(***************************************************************************)
(* One process of the bridge (__main__.py): main chooses a binary, run     *)
(* admits it, starts the native client, creates the service, binds the     *)
(* HTTP server, publishes the metadata file and waits; its finally clause  *)
(* settles every owner.  The client, the service and uvicorn are reduced   *)
(* to what run sees of them (NativeTransport, DirectService and OwnedTree  *)
(* have their insides).  An action lies between two awaits of run.         *)
(***************************************************************************)
EXTENDS BinaryDiscovery, FiniteSets

CONSTANT MaxUpgrades  \* bound of the model

ASSUME LifecycleAssumption == MaxUpgrades \in Nat

VARIABLES
    phase,      \* where main or run is
    exit,       \* the exit code, -1 before
    raising,    \* what unwinds run: "no", "error" or "interrupt"
    errors,     \* cleanup_errors, by the step that raised them
    killed,     \* the process died without its finally clause
    signalled,  \* shutdown_event
    admission,  \* the version run admitted, with the upgrades before it
    spawned,    \* the version whose process was started
    child,      \* "none", "running" or "gone"
    client,     \* "new", "starting", "stopping", "ready", "clean" or "failed"
    answered,   \* requests of NativeClient.start that were answered
    noticed,    \* the transport is closed by the loss of the child
    lost,       \* child_lost_event
    early,      \* history: it was set before the bridge was ready
    service,    \* "none", "open", "closing", "closed" or "failed"
    cause,      \* the reason its generation was lost for
    lossTask,   \* generation_loss_task: "none", "running", "done", "failed"
    listening,  \* the sockets of the HTTP server are open
    unanswered, \* they were closed over a request that is not answered yet
    serverTask, \* "none", "running", "done" or "failed"
    metadata,   \* the file: "absent", "stale" (of a killed bridge) or "mine"
    written,    \* metadata_written
    kept        \* the file could not be removed

mainVars == <<phase, exit, raising, errors, killed, signalled>>
childVars == <<admission, spawned, child, client, answered, noticed, lost, early>>
serviceVars == <<service, cause, lossTask>>
serverVars == <<listening, unanswered, serverTask, metadata, written, kept>>
bridgeVars == <<discoveryVars, mainVars, childVars, serviceVars, serverVars>>

(* What NativeClient.start asks, one after another; the MCP catalogue, that *)
(* must be empty, a second time when the tools are registered.             *)
StartRequests == <<"initialize", "mcp/getTools", "copilot/models",
                   "conversation/registerTools", "mcp/getTools">>

Chosen == {"options", "discovery", "inspection", "configuration"}
Cleanup == {"watchers", "collecting", "settling", "unbinding", "stopping"}

shutting_down == phase \in Cleanup \cup {"over"}
Handlers == service # "none"  \* installed by the step that creates it
IsAlive == client = "ready" /\ ~noticed

LifecycleInit ==
    /\ DiscoveryInit
    /\ phase = "options" /\ exit = -1 /\ raising = "no" /\ errors = {}
    /\ killed = FALSE /\ signalled = FALSE
    /\ admission = <<NoVersion, 0>> /\ spawned = NoVersion
    /\ child = "none" /\ client = "new" /\ answered = 0
    /\ noticed = FALSE /\ lost = FALSE /\ early = FALSE
    /\ service = "none" /\ cause = "none" /\ lossTask = "none"
    /\ listening = FALSE /\ unanswered = FALSE /\ serverTask = "none"
    /\ metadata \in {"absent", "stale"} /\ written = FALSE /\ kept = FALSE

QuietMain == UNCHANGED mainVars
QuietBinary == UNCHANGED discoveryVars
QuietChild == UNCHANGED childVars
QuietService == UNCHANGED serviceVars
QuietServer == UNCHANGED serverVars
QuietRun == QuietChild /\ QuietService /\ QuietServer

Goes(place) == phase' = place /\ UNCHANGED <<exit, raising, errors, killed, signalled>>

Exits(code) ==
    /\ phase' = "over" /\ exit' = code
    /\ UNCHANGED <<raising, errors, killed, signalled>>

(* An exception leaves the body of run's try for its finally clause.       *)
Unwinds(why) ==
    /\ phase' = "watchers" /\ raising' = why
    /\ UNCHANGED <<exit, errors, killed, signalled>>

--------------------------------------------------------------------------------
(* main: options, binary, configuration                                    *)

ValidatesOptions ==
    /\ phase = "options"
    /\ Exits(2) \/ Goes("discovery")
    /\ QuietBinary /\ QuietRun

TakesGiven(p) ==
    /\ phase = "discovery" /\ Goes("configuration")
    /\ binary' = p
    /\ UNCHANGED <<installed, upgrades, candidates, inspected>> /\ QuietRun

Discovers ==
    /\ phase = "discovery" /\ Goes("inspection")
    /\ \E first, second \in Queried, onDisk \in Walked : Collects(Listed(first, second), onDisk)
    /\ QuietRun

InspectsNext ==
    /\ phase = "inspection" /\ \E p \in Paths : Inspects(p)
    /\ QuietMain /\ QuietRun

SelectsBest ==
    /\ phase = "inspection" /\ Waiting = {}
    /\ IF Admitted # {} THEN Selects /\ Goes("configuration") ELSE QuietBinary /\ Exits(1)
    /\ QuietRun

(* The configuration, and the credential of an earlier login.  What        *)
(* discovery found is forgotten.                                           *)
Configures ==
    /\ phase = "configuration"
    /\ Goes("admission") \/ Exits(1)
    /\ candidates' = {} /\ inspected' = << >>
    /\ UNCHANGED <<installed, upgrades, binary>> /\ QuietRun

--------------------------------------------------------------------------------
(* run: native start                                                       *)

Readmits_Unchecked == ProbeTells(binary)

Readmits == Admission(binary)

Admits ==
    /\ phase = "admission"
    /\ \E version \in Readmits :
           IF version = NoVersion
           THEN Exits(1) /\ UNCHANGED <<admission, client>>
           ELSE Goes("starting") /\ admission' = <<version, upgrades>> /\ client' = "starting"
    /\ UNCHANGED <<spawned, child, answered, noticed, lost, early>>
    /\ QuietBinary /\ QuietService /\ QuietServer

ChildSpawns ==
    /\ phase = "starting" /\ client = "starting" /\ child = "none"
    /\ installed[binary] # NoVersion
    /\ spawned' = installed[binary] /\ child' = "running"
    /\ UNCHANGED <<admission, client, answered, noticed, lost, early>>
    /\ QuietMain /\ QuietBinary /\ QuietService /\ QuietServer

(* A response that start accepts.                                          *)
RequestAnswered ==
    /\ client = "starting" /\ child # "none" /\ ~noticed
    /\ answered < Len(StartRequests) /\ answered' = answered + 1
    /\ UNCHANGED <<admission, spawned, child, client, noticed, lost, early>>
    /\ QuietMain /\ QuietBinary /\ QuietService /\ QuietServer

Complete == answered = Len(StartRequests)

(* NativeClient.start returns, and what follows has no await before the    *)
(* HTTP server starts.                                                     *)
ClientStarts ==
    /\ phase = "starting" /\ client = "starting" /\ Complete /\ client' = "ready"
    /\ \/ ~lost /\ ~noticed /\ Goes("binding") /\ service' = "open"
       \/ (lost \/ noticed) /\ Unwinds("error") /\ UNCHANGED service
    /\ UNCHANGED <<admission, spawned, child, answered, noticed, lost, early, cause, lossTask>>
    /\ QuietBinary /\ QuietServer

(* The spawn or a request fails, a response is not what start demands, the *)
(* time runs out, or an interrupt cancels it: start stops the client.      *)
StartStops ==
    /\ phase = "starting" /\ client = "starting" /\ client' = "stopping"
    /\ UNCHANGED <<admission, spawned, child, answered, noticed, lost, early>>
    /\ QuietMain /\ QuietBinary /\ QuietService /\ QuietServer

(* stop returns, or raises for what it could not settle.                   *)
ClientStopped ==
    \/ client' = "clean" /\ child' = IF child = "none" THEN "none" ELSE "gone"
    \/ client' = "failed" /\ UNCHANGED child

StartFails ==
    /\ phase = "starting" /\ client = "stopping" /\ ClientStopped
    /\ \E why \in {"error", "interrupt"} : Unwinds(why)
    /\ UNCHANGED <<admission, spawned, answered, noticed, lost, early>>
    /\ QuietBinary /\ QuietService /\ QuietServer

--------------------------------------------------------------------------------
(* The child                                                               *)

ChildExits ==
    /\ child = "running" /\ child' = "gone"
    /\ UNCHANGED <<admission, spawned, client, answered, noticed, lost, early>>
    /\ QuietMain /\ QuietBinary /\ QuietService /\ QuietServer

(* The transport closes, by the exit or by an error of the protocol, and   *)
(* tells its observer (_owned_child_closed).                               *)
LossNoticed ==
    /\ child # "none" /\ client \in {"starting", "stopping", "ready"} /\ ~noticed
    /\ noticed' = TRUE
    /\ IF shutting_down THEN UNCHANGED <<lost, early, lossTask>>
       ELSE /\ lost' = TRUE /\ early' = (phase \in {"starting", "binding"})
            /\ lossTask' = IF service = "none" THEN "none" ELSE "running"
    /\ UNCHANGED <<admission, spawned, child, client, answered, service, cause>>
    /\ QuietMain /\ QuietBinary /\ QuietServer

--------------------------------------------------------------------------------
(* run: HTTP server, metadata file, waiting                                *)

SocketsOpen ==
    /\ phase = "binding" /\ ~listening /\ listening' = TRUE
    /\ UNCHANGED <<unanswered, serverTask, metadata, written, kept>>
    /\ QuietMain /\ QuietBinary /\ QuietChild /\ QuietService

BindingFails ==
    /\ phase = "binding" /\ ~listening /\ Unwinds("error")
    /\ QuietBinary /\ QuietRun

Publishes_Unchecked == TRUE

Publishes == ~lost /\ IsAlive

(* The file is renamed into place, or is as it was if anything fails.      *)
MetadataWritten == metadata' = "mine" /\ written' = TRUE
MetadataAsBefore == UNCHANGED <<metadata, written>>

(* A failure of the removal is logged.                                     *)
MetadataRemoved ==
    \/ metadata' = "absent" /\ UNCHANGED kept
    \/ kept' = TRUE /\ UNCHANGED metadata

(* server.startup returns; --metadata-file is optional.                    *)
ServerStarts ==
    /\ phase = "binding" /\ listening
    /\ IF Publishes
       THEN \/ Goes("waiting") /\ serverTask' = "running"
               /\ (MetadataWritten \/ MetadataAsBefore)
            \/ Unwinds("error") /\ UNCHANGED serverTask /\ MetadataAsBefore
       ELSE Unwinds("error") /\ UNCHANGED serverTask /\ MetadataAsBefore
    /\ UNCHANGED <<listening, unanswered, kept>>
    /\ QuietBinary /\ QuietChild /\ QuietService

ServerEnds ==
    /\ serverTask = "running"
    /\ serverTask' \in {"failed"} \cup (IF phase = "leaving" THEN {"done"} ELSE {})
    /\ UNCHANGED <<listening, unanswered, metadata, written, kept>>
    /\ QuietMain /\ QuietBinary /\ QuietChild /\ QuietService

Watched_Signals == signalled \/ serverTask = "failed"

Watched == signalled \/ lost \/ serverTask = "failed"

(* asyncio.wait returns.  The watcher of the child may still be pending    *)
(* when another one ended it.                                              *)
WaitReturns ==
    /\ phase = "waiting" /\ Watched
    /\ \/ lost /\ Goes("losing")
       \/ (signalled \/ serverTask = "failed") /\ Goes("leaving")
    /\ QuietBinary /\ QuietRun

LossAwaited ==
    /\ phase = "losing"
    /\ \/ lossTask = "done" /\ Goes("leaving")
       \/ lossTask = "failed" /\ Unwinds("error")
    /\ QuietBinary /\ QuietRun

ServerLeft ==
    /\ phase = "leaving"
    /\ \/ serverTask = "done" /\ Unwinds("no")
       \/ serverTask = "failed" /\ Unwinds("error")
    /\ QuietBinary /\ QuietRun

--------------------------------------------------------------------------------
(* The loss of a generation (DirectService): nothing here makes it end     *)

Loses(why) == service' = "closing" /\ cause' = why

LossTaskRuns ==
    /\ lossTask = "running" /\ service = "open" /\ Loses("closed")
    /\ UNCHANGED lossTask
    /\ QuietMain /\ QuietBinary /\ QuietChild /\ QuietServer

(* A prompt whose effects are uncertain quarantines the generation, at any *)
(* time while the server takes requests: also when run is on its way out.  *)
Quarantined ==
    /\ phase # "binding" /\ listening /\ service = "open" /\ Loses("quarantine")
    /\ UNCHANGED lossTask
    /\ QuietMain /\ QuietBinary /\ QuietChild /\ QuietServer

(* The owner of the loss has stopped the client.                           *)
LossSettles ==
    /\ service = "closing" /\ ClientStopped
    /\ service' = IF client' = "clean" THEN "closed" ELSE "failed"
    /\ UNCHANGED <<admission, spawned, answered, noticed, lost, early, cause, lossTask>>
    /\ QuietMain /\ QuietBinary /\ QuietServer

LossTaskEnds ==
    /\ lossTask = "running" /\ service \in {"closed", "failed"}
    /\ lossTask' = IF service = "closed" THEN "done" ELSE "failed"
    /\ UNCHANGED <<service, cause>>
    /\ QuietMain /\ QuietBinary /\ QuietChild /\ QuietServer

--------------------------------------------------------------------------------
(* run: the finally clause                                                 *)

Collecting(step, failed, next) ==
    /\ errors' = IF failed THEN errors \cup {step} ELSE errors
    /\ phase' = next
    /\ UNCHANGED <<exit, raising, killed, signalled>>

(* Watchers, and a server task that still runs, are cancelled and joined.  *)
WatchersJoined ==
    /\ phase = "watchers" /\ Goes("collecting")
    /\ serverTask' = IF serverTask = "running" THEN "done" ELSE serverTask
    /\ UNCHANGED <<listening, unanswered, metadata, written, kept>>
    /\ QuietBinary /\ QuietChild /\ QuietService

LossCollected == lossTask # "running"

CollectsLoss ==
    /\ phase = "collecting" /\ LossCollected
    /\ Collecting("loss", lossTask = "failed", "settling")
    /\ QuietBinary /\ QuietRun

ShutdownLoses ==
    /\ phase = "settling" /\ service = "open" /\ Loses("shutdown")
    /\ UNCHANGED lossTask
    /\ QuietMain /\ QuietBinary /\ QuietChild /\ QuietServer

AfterFailure_Aborts(next) == "stopping"

AfterFailure(next) == next

SettlesService ==
    /\ phase = "settling" /\ service \notin {"open", "closing"}
    /\ Collecting("service", service = "failed",
                  IF service = "failed" THEN AfterFailure("unbinding") ELSE "unbinding")
    /\ QuietBinary /\ QuietRun

ServerAttempted == service # "none"

(* uvicorn closes its sockets first and the connections that are idle; then*)
(* it waits for those with a request in hand, without a limit in its Config.*)
SocketsClose ==
    /\ phase = "unbinding" /\ listening /\ listening' = FALSE
    /\ unanswered' \in BOOLEAN
    /\ UNCHANGED <<serverTask, metadata, written, kept>>
    /\ QuietMain /\ QuietBinary /\ QuietChild /\ QuietService

(* The bodies that were awaited came and were answered, or the connections *)
(* went; it is for the callers to see to it.                               *)
RequestsEnd ==
    /\ unanswered /\ unanswered' = FALSE
    /\ UNCHANGED <<listening, serverTask, metadata, written, kept>>
    /\ QuietMain /\ QuietBinary /\ QuietChild /\ QuietService

Retracts_IfClean(failed) == written /\ ~failed

Retracts(failed) == written

ServerDown(failed) ==
    /\ phase = "unbinding"
    /\ Collecting("server", failed, "stopping")
    /\ IF Retracts(failed) THEN MetadataRemoved ELSE UNCHANGED <<metadata, kept>>
    /\ UNCHANGED <<listening, unanswered, serverTask, written>>
    /\ QuietBinary /\ QuietChild /\ QuietService

(* server.shutdown returns, or was not called; or it raises.               *)
ServerShutDown == ~listening /\ ~unanswered /\ ServerDown(FALSE)

ShutDownRaises == ServerAttempted /\ ServerDown(TRUE)

ExitCode(failed) ==
    CASE failed \/ raising = "error" -> 1
      [] ~failed /\ raising = "interrupt" -> 130
      [] OTHER -> 0

(* client.stop returns what an earlier one did, or does it now; its end is *)
(* the end of run and of the process.                                      *)
ClientStops ==
    /\ phase = "stopping" /\ service # "closing"
    /\ IF client \in {"clean", "failed"} THEN UNCHANGED <<client, child>> ELSE ClientStopped
    /\ errors' = IF client' = "failed" THEN errors \cup {"client"} ELSE errors
    /\ phase' = "over" /\ exit' = ExitCode(errors' # {})
    /\ UNCHANGED <<raising, killed, signalled, admission, spawned, answered, noticed, lost, early>>
    /\ QuietBinary /\ QuietService /\ QuietServer

--------------------------------------------------------------------------------
(* Signals and changes of the installation                                 *)

(* Without handlers an interrupt ends main, and the wait for the admission *)
(* probe; in "starting" it cancels NativeClient.start (StartStops).        *)
Interrupted ==
    /\ phase \in Chosen \cup {"admission"} /\ Exits(130)
    /\ QuietBinary /\ QuietRun

Signals ==
    /\ Handlers /\ phase # "over" /\ ~signalled /\ signalled' = TRUE
    /\ UNCHANGED <<phase, exit, raising, errors, killed>>
    /\ QuietBinary /\ QuietRun

(* A kill at any time, and without handlers also SIGTERM, or a second      *)
(* interrupt, which ends the event loop during the cleanup.                *)
BridgeKilled ==
    /\ phase # "over" /\ phase' = "over" /\ killed' = TRUE
    /\ UNCHANGED <<exit, raising, errors, signalled>>
    /\ QuietBinary /\ QuietRun

Upgrades ==
    /\ upgrades < MaxUpgrades /\ phase \in Chosen \cup {"admission", "starting"}
    /\ \E p \in IF binary = NoPath THEN Paths ELSE {binary} : Upgraded(p)
    /\ QuietMain /\ QuietRun

--------------------------------------------------------------------------------
Chooses ==
    \/ ValidatesOptions \/ \E p \in Paths : TakesGiven(p)
    \/ Discovers \/ InspectsNext \/ SelectsBest \/ Configures

(* What run does by itself, or awaits with a deadline.                     *)
Runs ==
    \/ Admits \/ ClientStarts \/ StartStops \/ StartFails \/ BindingFails \/ ServerStarts
    \/ WaitReturns \/ LossAwaited \/ ServerLeft

LossBegins == LossTaskRuns \/ LossTaskEnds

Finally ==
    \/ WatchersJoined \/ CollectsLoss \/ ShutdownLoses \/ SettlesService
    \/ SocketsClose \/ ServerShutDown \/ ClientStops

Surroundings ==
    \/ ChildSpawns \/ RequestAnswered \/ ChildExits \/ LossNoticed \/ SocketsOpen \/ ServerEnds
    \/ Quarantined \/ LossSettles \/ RequestsEnd \/ ShutDownRaises
    \/ Interrupted \/ Signals \/ BridgeKilled \/ Upgrades

(* A process that is over takes no step.                                   *)
BridgeNext == phase # "over" /\ (Chooses \/ Runs \/ LossBegins \/ Finally \/ Surroundings)

BridgeSpec == LifecycleInit /\ [][BridgeNext]_bridgeVars

(* The event loop runs: a step of run, or of the task of the loss, that is *)
(* possible is taken, and main_loop looks at should_exit.  An await is fair*)
(* only if it has a deadline (the start of the client and its stop) or what*)
(* it awaits is local.  Neither the owner of a loss nor the requests in    *)
(* hand are made to end: no deadline of run is behind either.              *)
FairBridge ==
    /\ BridgeSpec
    /\ WF_bridgeVars(phase # "over" /\ Runs)
    /\ WF_bridgeVars(phase # "over" /\ LossBegins)
    /\ WF_bridgeVars(phase # "over" /\ Finally)
    /\ WF_bridgeVars(phase = "leaving" /\ ServerEnds)

--------------------------------------------------------------------------------
(* Properties                                                              *)

LifecycleTypeOK ==
    /\ DiscoveryTypeOK
    /\ exit \in {-1, 0, 1, 2, 130} /\ raising \in {"no", "error", "interrupt"}
    /\ errors \subseteq {"loss", "service", "server", "client"}
    /\ child \in {"none", "running", "gone"} /\ spawned \in Versions \cup {NoVersion}
    /\ answered \in 0 .. Len(StartRequests)
    /\ service \in {"none", "open", "closing", "closed", "failed"}
    /\ lossTask \in {"none", "running", "done", "failed"}
    /\ (lossTask # "none" => lost /\ service # "none") /\ (lost => noticed)
    /\ metadata = "mine" => written

(* The file of a running bridge is there only while its server accepts     *)
(* connections, its binary was admitted and its native client answered all *)
(* of the handshake, until the cleanup; a bridge that ends takes it away,  *)
(* whatever else of the cleanup fails (run, _remove_metadata_file).        *)
ReadinessIsTruthful ==
    /\ LifecycleTypeOK
    /\ metadata = "mine" =>
           /\ service # "none" /\ admission[1] # NoVersion
           /\ answered = Len(StartRequests)
           /\ ~shutting_down => listening
    /\ phase = "over" /\ ~killed /\ ~kept => metadata # "mine"

(* A child that was lost during native or HTTP startup is never reported   *)
(* ready, and fails the bridge; a later loss is accounted as a loss, even  *)
(* when a signal or the end of the server overtakes it.                    *)
LossIsAnswered ==
    /\ early => ~written /\ exit # 0
    /\ lost /\ service \notin {"none", "open"} => cause # "shutdown"

(* The end of run leaves no owner behind, whichever step of the cleanup    *)
(* failed, and a clean exit means that all of them succeeded.              *)
CleanupReachesAll ==
    phase = "over" /\ ~killed =>
        /\ serverTask # "running" /\ lossTask # "running"
        /\ service \notin {"open", "closing"}
        /\ listening => "server" \in errors
        /\ client \in {"new", "clean", "failed"}
        /\ child = "running" => client = "failed"
        /\ exit = 0 => errors = {} /\ client = "clean"

(* What is started has an admitted version, unless the installation        *)
(* changed after run's own admission: discovery may be long past.          *)
OnlyAdmittedStarts ==
    /\ SelectionIsNewest
    /\ spawned # NoVersion => Enough(spawned) \/ upgrades > admission[2]

(* The two awaits of run without a deadline: of the loss of a generation,  *)
(* whose owner may never come back, and of server.shutdown.                *)
HeldByLoss == service = "closing"
HeldByRequest == phase = "unbinding" /\ unanswered

Held == phase # "over" /\ (HeldByLoss \/ HeldByRequest)

(* A signal or the loss of the child ends the bridge, wherever run is and  *)
(* whatever its cleanup meets, unless one of these two holds it for good   *)
(* (run).  That the loss ends and the requests do is a premise, which the  *)
(* code does not guarantee.                                                *)
BridgeEnds ==
    []<>~Held => (signalled ~> phase = "over") /\ (lost ~> phase = "over")
================================================================================
