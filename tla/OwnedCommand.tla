------------------------------ MODULE OwnedCommand -----------------------------
(***************************************************************************)
(* One command from its owner's side: the worker thread of OwnedCommands   *)
(* (_run in owned_commands.py) drains the pipes, watches the deadline and  *)
(* the stop event, and settles the command through its end of the          *)
(* guardian's pipes (LinuxCommand in _owned_command_linux.py).             *)
(***************************************************************************)
EXTENDS CommandGuardian

VARIABLES
    worker,       \* where _run is, or how it ended
    code,         \* whether the endpoint knows the root's exit code
    eof,          \* whether both pipes were read to their end
    stop,         \* the stop event
    expired,      \* whether the deadline has passed
    stopped,      \* stopped, of _run
    timedOut,     \* timed_out, of _run
    pipeDeadline, \* whether the wait for the pipes has begun
    killed        \* history: the guardian killed the root

workerVars == <<worker, code, eof, stopped, timedOut, pipeDeadline>>
ownedVars == <<vars, workerVars, stop, expired, killed>>

Ended == {"returned", "raised", "dead"}

OwnedTypeOK ==
    /\ TypeOK
    /\ worker \in {"reading", "judging", "asking", "finally"} \cup Ended
    /\ code \in BOOLEAN /\ eof \in BOOLEAN /\ stop \in BOOLEAN /\ expired \in BOOLEAN
    /\ stopped \in BOOLEAN /\ killed \in BOOLEAN
    /\ timedOut \in {FALSE, stopped} /\ pipeDeadline \in {FALSE, stopped}

OwnedInit ==
    /\ Init
    /\ worker = "reading" /\ code = FALSE /\ eof = FALSE
    /\ stop = FALSE /\ expired = FALSE
    /\ stopped = FALSE /\ timedOut = FALSE /\ pipeDeadline = FALSE
    /\ killed = FALSE

(* LinuxCommand.stop                                                       *)
Stop_Unclosed == UNCHANGED lifeline

Stop == lifeline' = FALSE

(* LinuxCommand.poll: the code is known once the guardian wrote it.        *)
Polled == code \/ status

(* _lost_guardian: the guardian has exited, not as it should.              *)
Lost == guardian = "failed"

--------------------------------------------------------------------------------
(* _run                                                                    *)

(* The pipes are read and the root's code polled for.  The pipes end when  *)
(* no process holds them, in the group or out of it.                       *)
WorkerReads ==
    /\ worker = "reading"
    /\ eof' \in {eof, TRUE}
    /\ code' = Polled
    /\ worker' = IF Lost /\ ~code' THEN "finally" ELSE "judging"
    /\ UNCHANGED <<vars, stop, expired, killed, stopped, timedOut, pipeDeadline>>

(* A read raises: the command is given up, and settled all the same.       *)
WorkerFaults ==
    /\ worker = "reading"
    /\ worker' = "finally"
    /\ UNCHANGED <<vars, code, eof, stop, expired, killed, stopped, timedOut, pipeDeadline>>

TimedOut == ~code /\ ~stop /\ expired

StopsOn_Event == code \/ stop

StopsOn == code \/ stop \/ TimedOut

Undecided_Always == TRUE

Undecided == ~stopped

(* The first reason to stop is decided once; the rest is settlement.       *)
WorkerJudges ==
    /\ worker = "judging"
    /\ worker' = "asking"
    /\ IF Undecided
       THEN timedOut' = TimedOut /\ stopped' = StopsOn
       ELSE UNCHANGED <<stopped, timedOut>>
    /\ IF stopped' THEN Stop ELSE UNCHANGED lifeline
    /\ UNCHANGED <<processVars, guardianVars, reused, struck, code, eof, stop, expired, killed,
                   pipeDeadline>>

(* tree_stopped: the guardian exited successfully and the code is there.   *)
TreeStopped_Reported == status

TreeStopped == guardian = "settled" /\ status

(* A result needs a settled tree and drained pipes, for which it waits     *)
(* five seconds at most.                                                   *)
WorkerAsks ==
    /\ worker = "asking"
    /\ code' = IF stopped THEN Polled ELSE code
    /\ \/ ~stopped /\ worker' = "reading" /\ UNCHANGED pipeDeadline
       \/ stopped /\ Lost /\ worker' = "finally" /\ UNCHANGED pipeDeadline
       \/ stopped /\ ~Lost /\ ~TreeStopped /\ worker' = "reading" /\ UNCHANGED pipeDeadline
       \/ stopped /\ TreeStopped /\ eof /\ worker' = "returned" /\ UNCHANGED pipeDeadline
       \/ /\ stopped /\ TreeStopped /\ ~eof
          /\ worker' \in {"reading"} \cup (IF pipeDeadline THEN {"finally"} ELSE {})
          /\ pipeDeadline' = TRUE
    /\ UNCHANGED <<vars, eof, stop, expired, killed, stopped, timedOut>>

(* The finally clause after a failure: stop, and wait for the guardian.    *)
Joined == TreeStopped \/ Lost

WorkerCleans ==
    /\ worker = "finally"
    /\ Stop
    /\ worker' = IF Joined THEN "raised" ELSE "finally"
    /\ UNCHANGED <<processVars, guardianVars, reused, struck, code, eof, stop, expired, killed,
                   stopped, timedOut, pipeDeadline>>

WorkerStep == WorkerReads \/ WorkerFaults \/ WorkerJudges \/ WorkerAsks \/ WorkerCleans

--------------------------------------------------------------------------------
Running == worker \notin Ended

(* cancel or close of OwnedCommands, from the event loop                   *)
Cancelled ==
    /\ Running /\ ~stop
    /\ stop' = TRUE
    /\ UNCHANGED <<vars, workerVars, expired, killed>>

Expires ==
    /\ Running /\ ~expired
    /\ expired' = TRUE
    /\ UNCHANGED <<vars, workerVars, stop, killed>>

(* The bridge is killed: its end of the control pipe is closed with it.    *)
OwnerDies ==
    /\ Running
    /\ worker' = "dead"
    /\ Stop
    /\ UNCHANGED <<processVars, guardianVars, reused, struck, code, eof, stop, expired, killed,
                   stopped, timedOut, pipeDeadline>>

(* A step of the command or its guardian.                                  *)
Below(step) ==
    /\ step
    /\ killed' = (killed \/ (life[Root] = "running" /\ life'[Root] = "dying"))
    /\ UNCHANGED <<workerVars, stop, expired>>

OwnedNext ==
    \/ Below(Command \/ GuardianStep)
    \/ WorkerStep \/ Cancelled \/ Expires \/ OwnerDies

OwnedSpec == OwnedInit /\ [][OwnedNext]_ownedVars

(* The thread and the guardian run; the deadline of the pipes passes.      *)
FairOwned ==
    /\ OwnedSpec
    /\ WF_ownedVars(Below(GuardianStep))
    /\ \A m \in Members : WF_ownedVars(Below(life[m] = "dying" /\ Exits(m)))
    /\ WF_ownedVars(WorkerReads) /\ WF_ownedVars(WorkerJudges) /\ WF_ownedVars(WorkerCleans)
    /\ WF_ownedVars(WorkerAsks) /\ SF_ownedVars(WorkerAsks /\ worker' = "finally")

--------------------------------------------------------------------------------
(* Properties                                                              *)

(* A result is evidence of settlement: no process of a group that was kept *)
(* is left and no output is pending (_run, tree_stopped).                  *)
ResultMeansSettled ==
    worker = "returned" => guardian = "settled" /\ code /\ eof /\ (Contained => Group = {})

(* However a command fails, its owner has joined the guardian before it    *)
(* says so (the finally clause of _run, _lost_guardian).                   *)
FailureJoinsGuardian == worker = "raised" => guardian \in {"settled", "failed"}

(* Whatever a caller is told, result or failure, is told after the         *)
(* settlement it speaks of (the two above).                                *)
EvidenceOfSettlement == ResultMeansSettled /\ FailureJoinsGuardian

(* A result that is neither timed out nor cancelled is the root's own: it  *)
(* was not killed (the first reason to stop is kept, _run).                *)
OrdinaryResultIsOwn ==
    worker = "returned" /\ ~timedOut /\ ~stop => ~killed

(* A cancelled or expired command ends, and so does its guardian, also     *)
(* when the bridge dies meanwhile.                                         *)
CommandEnds ==
    stop \/ expired \/ worker = "dead"
        ~> worker \in Ended /\ guardian \in {"settled", "failed"}
================================================================================
