------------------------------ MODULE WindowsCommand ---------------------------
(***************************************************************************)
(* WindowsCommand (_owned_command_windows.py): a process tree in a job     *)
(* object, and the handles of the job, the process, its first thread and   *)
(* the pipes.  _spawn makes them one after another and any call of it may  *)
(* fail; what was made until then is cleaned up.  A handle is named by the *)
(* variable that holds it; the child's ends of the pipes are in _children. *)
(***************************************************************************)
EXTENDS CommandLoop, Integers, FiniteSets

CONSTANT Tasks  \* processes of the job, in the order they are born

ASSUME WindowsAssumption == Tasks \subseteq Nat \ {0} /\ 1 \in Tasks

Pipes == {"stdin", "stdout", "stderr"}
Child == [stdin |-> "child_stdin", stdout |-> "child_stdout", stderr |-> "child_stderr"]
Children == {Child[pipe] : pipe \in Pipes}
Handles == {"job", "process", "thread"} \cup Pipes \cup Children

VARIABLES
    piped,    \* pipe_input
    task,     \* of each process
    inJob,    \* the processes assigned to the job
    opened,   \* the handles open in the kernel
    kept,     \* the handles the object remembers
    twice,    \* history: a handle that was not open was closed
    spawn,    \* where __init__ is, or how it ended
    unsettled \* whether the cleanup of a failed __init__ raised

jobVars == <<task, inJob>>
handleVars == <<opened, kept, twice>>
windowsVars == <<piped, jobVars, handleVars, spawn, unsettled>>

Places == <<"job", "limits", "stdin", "stdout", "stderr", "attributes", "create", "children",
            "resume", "thread", "ready">>

WindowsTypeOK ==
    /\ piped \in BOOLEAN /\ twice \in BOOLEAN /\ unsettled \in BOOLEAN
    /\ task \in [Tasks -> {"unborn", "suspended", "running", "dying", "exited"}]
    /\ inJob \subseteq Tasks
    /\ opened \subseteq Handles /\ kept \subseteq Handles
    /\ spawn \in {Places[i] : i \in DOMAIN Places} \cup {"stopping", "settling", "closing", "refused"}

WindowsInit ==
    /\ piped \in BOOLEAN
    /\ task = [t \in Tasks |-> "unborn"] /\ inJob = {}
    /\ opened = {} /\ kept = {} /\ twice = FALSE
    /\ spawn = "job" /\ unsettled = FALSE

Active == {t \in inJob : task[t] \in {"suspended", "running", "dying"}}
Killed(tasks) == [t \in Tasks |-> IF t \in tasks THEN "dying" ELSE task[t]]

--------------------------------------------------------------------------------
(* The kernel and the command                                              *)

(* Neither kind of breakaway is enabled: a child is born into the job.     *)
JobForks(t, child) ==
    /\ task[t] = "running" /\ task[child] = "unborn"
    /\ \A other \in Tasks : other < child => task[other] # "unborn"
    /\ task' = [task EXCEPT ![child] = "running"]
    /\ inJob' = IF t \in inJob THEN inJob \cup {child} ELSE inJob
    /\ UNCHANGED <<piped, handleVars, spawn, unsettled, loopVars>>

JobExits(t) ==
    /\ task[t] \in {"running", "dying"}
    /\ task' = [task EXCEPT ![t] = "exited"]
    /\ UNCHANGED <<piped, inJob, handleVars, spawn, unsettled, loopVars>>

(* The last handle of the job is closed: its processes are killed.         *)
KilledOnClose(open) == task' = IF "job" \in opened \ open THEN Killed(Active) ELSE task

--------------------------------------------------------------------------------
(* _spawn                                                                  *)

At(place) == spawn = place
Advances == \E i \in DOMAIN Places : Places[i] = spawn /\ spawn' = Places[i + 1]
Fails == spawn' = "stopping"

Makes(handles) ==
    /\ opened' = opened \cup handles
    /\ kept' = kept \cup handles
    /\ UNCHANGED twice

MakesJob ==
    /\ At("job")
    /\ \/ Makes({"job"}) /\ Advances
       \/ UNCHANGED handleVars /\ Fails
    /\ UNCHANGED <<piped, jobVars, unsettled, loopVars>>

(* Calls that make no handle: the limits of the job, the attribute list    *)
(* with the handles to inherit and the job the process is born into.       *)
Prepares ==
    /\ spawn \in {"limits", "attributes"}
    /\ Advances \/ Fails
    /\ UNCHANGED <<piped, jobVars, handleVars, unsettled, loopVars>>

(* _pipe closes the end it made for itself, or keeps it with the others if *)
(* that fails too.                                                         *)
ParentAfterFailure(pipe) == {{pipe}}

(* _pipe: the parent's end, the child's end, and the connection of both.   *)
MakesPipe ==
    /\ spawn \in Pipes
    /\ LET ends == IF spawn = "stdin" /\ ~piped THEN {Child[spawn]} ELSE {spawn, Child[spawn]}
       IN  \/ Makes(ends) /\ Advances
           \/ UNCHANGED handleVars /\ Fails
           \/ /\ spawn \in ends /\ Fails
              /\ \E child \in {{}, {Child[spawn]}} :
                    \/ Makes(child)
                    \/ /\ opened' = opened \cup child \cup {spawn}
                       /\ \E parent \in ParentAfterFailure(spawn) : kept' = kept \cup child \cup parent
                       /\ UNCHANGED twice
    /\ UNCHANGED <<piped, jobVars, unsettled, loopVars>>

Assigned_Later == {}

(* Atomic assignment: the process never is outside of its job.             *)
Assigned == {1}

MakesProcess ==
    /\ At("create")
    /\ \/ /\ Makes({"process", "thread"}) /\ Advances
          /\ task' = [task EXCEPT ![1] = "suspended"]
          /\ inJob' = Assigned
       \/ UNCHANGED <<jobVars, handleVars>> /\ Fails
    /\ UNCHANGED <<piped, unsettled, loopVars>>

(* CloseHandle on some of the handles that are held: those it fails for    *)
(* stay open, and held.                                                    *)
Releases(handles, failing) ==
    /\ opened' = opened \ (handles \ failing)
    /\ kept' = kept \ (handles \ failing)
    /\ twice' = (twice \/ ~(handles \subseteq opened))
    /\ KilledOnClose(opened')
    /\ UNCHANGED inJob

(* The loop over _children stops at the first that cannot be closed.       *)
ClosesChildren ==
    /\ At("children")
    /\ \/ Releases(Children \cap kept, {}) /\ Advances
       \/ /\ \E closed \in SUBSET (Children \cap kept) :
                 closed # Children \cap kept /\ Releases(closed, {})
          /\ Fails
    /\ UNCHANGED <<piped, unsettled, loopVars>>

(* ResumeThread fails, or finds another suspend count than one.            *)
Resumes ==
    /\ At("resume")
    /\ \/ task' = [task EXCEPT ![1] = "running"] /\ (Advances \/ Fails)
       \/ UNCHANGED task /\ Fails
    /\ UNCHANGED <<piped, inJob, handleVars, unsettled, loopVars>>

ClosesThread ==
    /\ At("thread")
    /\ \/ Releases({"thread"}, {}) /\ Advances
       \/ UNCHANGED <<jobVars, handleVars>> /\ Fails
    /\ phase' = IF spawn' = "ready" THEN "loop" ELSE phase
    /\ UNCHANGED <<piped, unsettled, ending>>

--------------------------------------------------------------------------------
(* stop, tree_stopped, close and the cleanup of a failed __init__          *)

(* The accounting of the job counts who is in it; the root has exited too. *)
JobStopped ==
    IF "job" \in kept
    THEN Active = {} /\ ("process" \in kept => task[1] = "exited")
    ELSE "process" \notin kept

(* _close_all tries each handle once and keeps those it could not close.   *)
ClosesAll(failing) == Releases(kept, failing)

Terminated_Root == {1}

Terminated == Active

(* stop: TerminateJobObject, unless the tree has stopped.                  *)
Terminates ==
    task' = IF JobStopped \/ "job" \notin kept THEN task ELSE Killed(Terminated)

CleanupStops ==
    /\ At("stopping")
    /\ \/ Terminates /\ spawn' = "settling" /\ UNCHANGED unsettled
       \/ UNCHANGED task /\ spawn' = "closing" /\ unsettled' = TRUE
    /\ UNCHANGED <<piped, inJob, handleVars, loopVars>>

(* Its five seconds may pass with the tree still running.                  *)
CleanupSettles ==
    /\ At("settling")
    /\ spawn' = "closing"
    /\ (JobStopped /\ UNCHANGED unsettled) \/ unsettled' = TRUE
    /\ UNCHANGED <<piped, jobVars, handleVars, loopVars>>

CleanupCloses ==
    /\ At("closing")
    /\ \E failing \in SUBSET kept :
           /\ ClosesAll(failing)
           /\ unsettled' = (unsettled \/ failing # {})
    /\ spawn' = "refused" /\ phase' = "raised"
    /\ UNCHANGED <<piped, ending>>

JobStops ==
    /\ At("ready") /\ Stopping
    /\ \/ Terminates /\ UNCHANGED phase
       \/ UNCHANGED task /\ Raises
    /\ UNCHANGED <<piped, inJob, handleVars, spawn, unsettled, ending>>

JobLoopLeft ==
    /\ At("ready") /\ LoopLeft
    /\ UNCHANGED windowsVars

JobCloses ==
    /\ At("ready") /\ phase = "finally" /\ JobStopped
    /\ \E failing \in SUBSET kept :
           /\ ClosesAll(failing)
           /\ phase' = IF failing = {} THEN "closed" ELSE "raised"
    /\ UNCHANGED <<piped, spawn, unsettled, ending>>

(* The bridge is killed: the kernel closes all its handles.                *)
BridgeKilled ==
    /\ phase' = "dead"
    /\ opened' = {} /\ kept' = {}
    /\ KilledOnClose({})
    /\ UNCHANGED <<piped, inJob, twice, spawn, unsettled, ending>>

WindowsSpawn == MakesJob \/ Prepares \/ MakesPipe \/ MakesProcess \/ ClosesChildren \/ Resumes
                \/ ClosesThread \/ CleanupStops \/ CleanupSettles \/ CleanupCloses

WindowsStep == ~LoopOver /\ (WindowsSpawn \/ JobStops \/ JobLoopLeft \/ JobCloses \/ BridgeKilled)

WindowsEnding == At("ready") /\ Ending /\ UNCHANGED windowsVars

WindowsNext ==
    \/ \E t, child \in Tasks : JobForks(t, child)
    \/ \E t \in Tasks : JobExits(t)
    \/ WindowsStep \/ WindowsEnding

--------------------------------------------------------------------------------
(* Properties                                                              *)

(* However far _spawn came and whatever fails in it and in its cleanup, a  *)
(* handle that is open is one the object can still close, and no handle is *)
(* closed twice; without an error of the cleanup none is left.             *)
HandlesOwned ==
    /\ LoopTypeOK /\ WindowsTypeOK
    /\ opened = kept /\ ~twice
    /\ (spawn = "refused" /\ ~unsettled) \/ phase = "closed" => opened = {}

(* No process of the command runs that closing the job would not end, at   *)
(* any step of _spawn; a closed command and one that was refused without   *)
(* an error of the cleanup leave no process (the note on assignment).      *)
JobOwnsItsTree ==
    /\ \A t \in Tasks : task[t] \in {"suspended", "running"} => "job" \in opened
    /\ (spawn = "refused" /\ ~unsettled) \/ phase = "closed" =>
           \A t \in Tasks : task[t] \in {"unborn", "exited"}

(* The object of a command owns all that was made for it, at any step of   *)
(* _spawn and after any failure: handles, and through the job the tree.    *)
WindowsOwnsAll == HandlesOwned /\ JobOwnsItsTree
================================================================================
