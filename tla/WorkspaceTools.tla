----------------------------- MODULE WorkspaceTools ----------------------------
(***************************************************************************)
(* Who waits for whose effect: execute, cancel and close of WorkspaceTools *)
(* (workspace_tools.py) over execute, cancel and close of OwnedCommands    *)
(* (owned_commands.py).  The worker thread of an operation is abstract:    *)
(* OwnedCommand models that of a command, WorkspaceFiles that of files.    *)
(* A task that is cancelled while it settles goes on settling, so a second *)
(* cancellation of it changes nothing here.                                *)
(***************************************************************************)
EXTENDS Naturals, FiniteSets

CONSTANTS
    Commands,   \* operations that run a command
    FileWork,   \* operations that create or edit files
    Cancels,    \* calls of cancel
    Closer,     \* the call of close
    Nobody

Operations == Commands \cup FileWork
Tasks == Operations \cup Cancels \cup {Closer}  \* an operation's task is its execute

ASSUME ToolsAssumption ==
    /\ Commands \cap FileWork = {}
    /\ Cancels \cap (Operations \cup {Closer}) = {} /\ Closer \notin Operations
    /\ Nobody \notin Tasks

VARIABLES
    closed,    \* _closed of the tools
    active,    \* _active of the tools
    stopped,   \* operations whose stop event is set
    inner,     \* _execute_owned of each operation
    worker,    \* its thread
    retired,   \* _closed of the commands
    command,   \* _active of the commands
    failed,    \* whether the commands have a _failure
    place,     \* where each task waits, or how it ended
    task,      \* the operation it has to join
    shell      \* the command it has to join first

toolVars == <<closed, active, stopped, inner, worker, retired, command, failed, place, task, shell>>

Over == {"returned", "cancelled", "raised"}

ToolsTypeOK ==
    /\ closed \in BOOLEAN /\ retired \in BOOLEAN /\ failed \in BOOLEAN
    /\ active \in Operations \cup {Nobody} /\ command \in Commands \cup {Nobody}
    /\ stopped \subseteq Operations
    /\ inner \in [Operations -> {"none", "admitting", "running", "effects", "empty", "raised"}]
    /\ worker \in [Operations -> {"none", "running", "ended", "failed"}]
    /\ place \in [Tasks -> {"idle", "waiting", "stopping", "settling", "closing"} \cup Over]
    /\ task \in [Tasks -> Operations \cup {Nobody}]
    /\ shell \in [Tasks -> Commands \cup {Nobody}]

ToolsInit ==
    /\ closed = FALSE /\ retired = FALSE /\ failed = FALSE
    /\ active = Nobody /\ command = Nobody
    /\ stopped = {}
    /\ inner = [o \in Operations |-> "none"]
    /\ worker = [o \in Operations |-> "none"]
    /\ place = [t \in Tasks |-> "idle"]
    /\ task = [t \in Tasks |-> Nobody]
    /\ shell = [t \in Tasks |-> Nobody]

Running(o) == worker[o] = "running"
Done(o) == inner[o] \in {"effects", "empty", "raised"}

Moves(t, where) == place' = [place EXCEPT ![t] = where]

--------------------------------------------------------------------------------
(* _execute_owned and the threads                                          *)

Finishes(o, how) == inner' = [inner EXCEPT ![o] = how]

Starts(o) ==
    /\ worker' = [worker EXCEPT ![o] = "running"]
    /\ Finishes(o, "running")

(* A command is looked at again after its directory was: it may have been  *)
(* stopped, and the commands may be busy or retired.  A file batch looks   *)
(* at the stop event itself.                                               *)
AdmitCommand(o) ==
    /\ o \in Commands
    /\ \/ Finishes(o, "empty") /\ UNCHANGED <<worker, command>>
       \/ Finishes(o, "raised") /\ UNCHANGED <<worker, command>>
       \/ /\ o \notin stopped /\ ~retired /\ command = Nobody
          /\ Starts(o)
          /\ command' = o

Admit(o) ==
    /\ inner[o] = "admitting"
    /\ AdmitCommand(o) \/ (o \in FileWork /\ Starts(o) /\ UNCHANGED command)
    /\ UNCHANGED <<closed, active, stopped, retired, failed, place, task, shell>>

WorkerEnds(o) ==
    /\ Running(o)
    /\ worker' \in {[worker EXCEPT ![o] = "ended"]}
                   \cup (IF o \in Commands THEN {[worker EXCEPT ![o] = "failed"]} ELSE {})
    /\ UNCHANGED <<closed, active, stopped, inner, retired, command, failed, place, task, shell>>

(* execute of the commands returns, cancelled or not, with the result, or  *)
(* retires the commands with the failure.                                  *)
Collect(o) ==
    /\ inner[o] = "running" /\ ~Running(o)
    /\ Finishes(o, IF worker[o] = "ended" THEN "effects" ELSE "raised")
    /\ command' = IF o \in Commands THEN Nobody ELSE command
    /\ retired' = (retired \/ worker[o] = "failed")
    /\ failed' = (failed \/ worker[o] = "failed")
    /\ UNCHANGED <<closed, active, stopped, worker, place, task, shell>>

--------------------------------------------------------------------------------
(* execute, cancel and close                                               *)

Open == ~closed

Free == active = Nobody

Execute(o) ==
    /\ place[o] = "idle"
    /\ Open /\ Free
    /\ active' = o
    /\ Finishes(o, "admitting")
    /\ Moves(o, "waiting")
    /\ task' = [task EXCEPT ![o] = o]
    /\ UNCHANGED <<closed, stopped, worker, retired, command, failed, shell>>

Ends(t, how) ==
    /\ Moves(t, how)
    /\ active' = IF t \in Operations THEN Nobody ELSE active

(* The caller was not cancelled.                                           *)
ExecuteReturns(o) ==
    /\ place[o] = "waiting" /\ Done(o)
    /\ Ends(o, IF inner[o] = "raised" THEN "raised" ELSE "returned")
    /\ UNCHANGED <<closed, stopped, inner, worker, retired, command, failed, task, shell>>

(* _cancel_owned: the stop event is set, and the command joined if it has  *)
(* been started.                                                           *)
StartsToJoin(t, o) ==
    /\ stopped' = stopped \cup {o}
    /\ task' = [task EXCEPT ![t] = o]
    /\ shell' = [shell EXCEPT ![t] = command]
    /\ Moves(t, IF command = Nobody THEN "settling" ELSE "stopping")

ExecuteCancelled(o) ==
    /\ place[o] = "waiting"
    /\ StartsToJoin(o, o)
    /\ UNCHANGED <<closed, active, inner, worker, retired, command, failed>>

Cancel(t) ==
    /\ place[t] = "idle"
    /\ IF active = Nobody
       THEN Moves(t, "returned") /\ UNCHANGED <<stopped, task, shell>>
       ELSE StartsToJoin(t, active)
    /\ UNCHANGED <<closed, active, inner, worker, retired, command, failed>>

(* close goes on to the commands, whatever its cancel came to: they are    *)
(* retired, and a command that is active by then is joined.                *)
GoesOn(t, how) ==
    IF t = Closer
    THEN /\ retired' = TRUE
         /\ shell' = [shell EXCEPT ![t] = command]
         /\ Moves(t, "closing")
         /\ UNCHANGED active
    ELSE Ends(t, how) /\ UNCHANGED <<retired, shell>>

(* execute of the commands awaits the same thread, and is resumed first.   *)
ShellOver(t) == IF shell[t] = Nobody THEN TRUE ELSE inner[shell[t]] # "running"

ShellJoined(t) ==
    /\ place[t] = "stopping" /\ ShellOver(t)
    /\ IF worker[shell[t]] = "failed"
       THEN GoesOn(t, "raised")
       ELSE Moves(t, "settling") /\ UNCHANGED <<active, retired, shell>>
    /\ UNCHANGED <<closed, stopped, inner, worker, command, failed, task>>

(* _settle of the tools waits for the whole of the operation.              *)
Settled_Worker(o) == ~Running(o)

Settled_Effects(o) == inner[o] \in {"effects", "raised"}

Settled(o) == Done(o)

TaskJoined(t) ==
    /\ place[t] = "settling" /\ Settled(task[t])
    /\ GoesOn(t, IF inner[task[t]] = "raised" THEN "raised"
                 ELSE IF t \in Operations THEN "cancelled" ELSE "returned")
    /\ UNCHANGED <<closed, stopped, inner, worker, command, failed, task>>

Close ==
    /\ place[Closer] = "idle"
    /\ closed' = TRUE
    /\ IF active = Nobody
       THEN GoesOn(Closer, "returned") /\ UNCHANGED <<stopped, task>>
       ELSE StartsToJoin(Closer, active) /\ UNCHANGED <<active, retired>>
    /\ UNCHANGED <<inner, worker, command, failed>>

CloseEnds ==
    /\ place[Closer] = "closing" /\ ShellOver(Closer)
    /\ LET joined == IF task[Closer] = Nobody THEN "none" ELSE inner[task[Closer]]
       IN  Moves(Closer, IF failed \/ joined = "raised" THEN "raised" ELSE "returned")
    /\ UNCHANGED <<closed, active, stopped, inner, worker, retired, command, failed, task, shell>>

--------------------------------------------------------------------------------
ResumesTask ==
    \/ \E o \in Operations : Admit(o) \/ Collect(o) \/ ExecuteReturns(o)
    \/ \E t \in Tasks : ShellJoined(t) \/ TaskJoined(t)
    \/ CloseEnds

CallsTools ==
    \/ \E o \in Operations : Execute(o) \/ ExecuteCancelled(o)
    \/ \E t \in Cancels : Cancel(t)
    \/ Close

ToolsNext == ResumesTask \/ CallsTools \/ \E o \in Operations : WorkerEnds(o)

ToolsSpec == ToolsInit /\ [][ToolsNext]_toolVars

--------------------------------------------------------------------------------
(* Properties                                                              *)

(* When execute is over, cancelled or not, its thread is, and what the     *)
(* thread did is in its result (execute, _cancel_owned, CommandCancelled). *)
ResultKept ==
    \A o \in Operations : place[o] \in Over =>
        /\ Done(o) /\ ~Running(o)
        /\ worker[o] = "ended" => place[o] # "raised" /\ inner[o] = "effects"

(* A cancel that returns leaves nothing of the operation it was about, not *)
(* even one that had not begun (cancel: every owned effect settles).       *)
CancelJoins == \A t \in Cancels : place[t] \in Over => IF task[t] # Nobody THEN Done(task[t]) ELSE TRUE

(* After close, failed or not, no effect is under way and none can start.  *)
CloseIsFinal ==
    place[Closer] \in Over => \A o \in Operations : inner[o] \notin {"admitting", "running"}

(* The effects of a session do not overlap, and the commands are busy      *)
(* exactly while one of them runs (execute).                               *)
OneEffect ==
    /\ Cardinality({o \in Operations : Running(o)}) <= 1
    /\ \A o \in Commands : inner[o] = "running" <=> command = o

(* The state invariant of the tools: types, and one effect at a time       *)
(* (execute of WorkspaceTools and of OwnedCommands).                       *)
ToolsInv == ToolsTypeOK /\ OneEffect

(* Every execute, cancel and close ends: again and again none is under     *)
(* way, and one that began is never idle again (_settle, close).           *)
EveryoneReturns == []<>(\A t \in Tasks : place[t] \in Over \cup {"idle"})
================================================================================
