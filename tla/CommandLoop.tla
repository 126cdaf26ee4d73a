------------------------------ MODULE CommandLoop ------------------------------
(***************************************************************************)
(* What OwnedCommands._run asks of the process it created, whatever the    *)
(* platform: it polls and stops the process in a loop until its tree has   *)
(* stopped, and does so again in a finally clause before it closes it.     *)
(* OwnedCommand models the loop on Linux in full.                          *)
(***************************************************************************)

VARIABLES
    phase,   \* where _run is, or how it ended
    ending   \* the root's exit, the deadline or a cancellation was seen

loopVars == <<phase, ending>>

LoopTypeOK ==
    /\ phase \in {"creating", "loop", "finally", "closed", "raised", "dead"}
    /\ ending \in BOOLEAN

LoopInit == phase = "creating" /\ ending = FALSE

(* stop is called from here on, each time round.                           *)
Ending ==
    /\ phase = "loop" /\ ~ending
    /\ ending' = TRUE
    /\ UNCHANGED phase

Stopping == (phase = "loop" /\ ending) \/ phase = "finally"

(* A call of the process raises: the finally clause tries once more, and   *)
(* what raises there ends _run with a process that is not closed.          *)
Raises ==
    /\ phase' = IF phase = "loop" THEN "finally" ELSE "raised"
    /\ UNCHANGED ending

(* The loop leaves a stopped tree to the finally clause, with its result   *)
(* or because the pipes stay open; or it is left by a read that raises.    *)
LoopLeft ==
    /\ phase = "loop"
    /\ phase' = "finally"
    /\ UNCHANGED ending

LoopOver == phase \in {"closed", "raised", "dead"}
================================================================================
