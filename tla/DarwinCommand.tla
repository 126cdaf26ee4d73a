------------------------------ MODULE DarwinCommand ----------------------------
(***************************************************************************)
(* PosixCommand (_owned_command_posix.py), the process group of a command  *)
(* on Darwin.  There is no guardian: the root is observed without being    *)
(* reaped, so that as a zombie it keeps its process group number, and a    *)
(* census of the group tells when it is alone in it.                       *)
(* The kernel is modelled as the adapter uses it.                          *)
(***************************************************************************)
EXTENDS CommandLoop, Integers

CONSTANT Processes  \* of the command, in the order they are born

ASSUME DarwinAssumption == Processes \subseteq Nat \ {0} /\ 1 \in Processes

Leader == 1

VARIABLES
    darwin,   \* of each process
    inGroup,  \* whether it is in the command's process group
    adapter,  \* where __init__ is, or the state of the object
    stopAt,   \* where stop is
    forced,   \* _force_delivered
    foreign,  \* whether the group number names a foreign group
    hit       \* whether a foreign group was signalled

kernelVars == <<darwin, inGroup, foreign>>
adapterVars == <<adapter, stopAt, forced, hit>>
darwinVars == <<kernelVars, adapterVars>>

DarwinTypeOK ==
    /\ darwin \in [Processes -> {"unborn", "running", "dying", "zombie", "reaped"}]
    /\ inGroup \in [Processes -> BOOLEAN]
    /\ adapter \in {"new", "starting", "failing", "draining", "open", "closed", "refused"}
    /\ stopAt \in {"idle", "observing", "striking"}
    /\ forced \in BOOLEAN /\ foreign \in BOOLEAN /\ hit \in BOOLEAN

DarwinInit ==
    /\ darwin = [p \in Processes |-> "unborn"]
    /\ inGroup = [p \in Processes |-> FALSE]
    /\ adapter = "new" /\ stopAt = "idle" /\ forced = FALSE
    /\ foreign = FALSE /\ hit = FALSE

Living == {p \in Processes : inGroup[p] /\ darwin[p] \in {"running", "dying"}}
Zombies == {p \in Processes : inGroup[p] /\ darwin[p] = "zombie"}

--------------------------------------------------------------------------------
(* The kernel and the command                                              *)

DarwinForks(p, child) ==
    /\ darwin[p] = "running" /\ darwin[child] = "unborn"
    /\ \A other \in Processes : other < child => darwin[other] # "unborn"
    /\ darwin' = [darwin EXCEPT ![child] = "running"]
    /\ inGroup' = [inGroup EXCEPT ![child] = inGroup[p]]
    /\ UNCHANGED <<foreign, adapterVars>>

DarwinExits(p) ==
    /\ darwin[p] \in {"running", "dying"}
    /\ darwin' = [darwin EXCEPT ![p] = "zombie"]
    /\ UNCHANGED <<inGroup, foreign, adapterVars>>

(* A descendant is reaped by its parent or by launchd, the root by wait.   *)
DescendantReaped(p) ==
    /\ p # Leader /\ darwin[p] = "zombie"
    /\ darwin' = [darwin EXCEPT ![p] = "reaped"]
    /\ UNCHANGED <<inGroup, foreign, adapterVars>>

(* setsid, which the group leader may not call.                            *)
DarwinLeaves(p) ==
    /\ p # Leader /\ darwin[p] = "running" /\ inGroup[p]
    /\ inGroup' = [inGroup EXCEPT ![p] = FALSE]
    /\ UNCHANGED <<darwin, foreign, adapterVars>>

GroupReused ==
    /\ darwin[Leader] # "unborn" /\ Living \cup Zombies = {} /\ ~foreign
    /\ foreign' = TRUE
    /\ UNCHANGED <<darwin, inGroup, adapterVars>>

DarwinKernel ==
    \/ \E p, child \in Processes : DarwinForks(p, child)
    \/ \E p \in Processes : DarwinExits(p) \/ DescendantReaped(p) \/ DarwinLeaves(p)
    \/ GroupReused

--------------------------------------------------------------------------------
(* PosixCommand                                                            *)

(* The pipes are made nonblocking before the object is handed out.         *)
DarwinSpawns ==
    /\ adapter = "new"
    /\ \/ /\ adapter' = "starting"
          /\ darwin' = [darwin EXCEPT ![Leader] = "running"]
          /\ inGroup' = [inGroup EXCEPT ![Leader] = TRUE]
       \/ adapter' = "refused" /\ UNCHANGED <<darwin, inGroup>>
    /\ phase' = IF adapter' = "refused" THEN "raised" ELSE phase
    /\ UNCHANGED <<foreign, stopAt, forced, hit, ending>>

DarwinStarted ==
    /\ adapter = "starting"
    /\ \/ adapter' = "open" /\ phase' = "loop"
       \/ adapter' = "failing" /\ UNCHANGED phase
    /\ UNCHANGED <<kernelVars, stopAt, forced, hit, ending>>

(* _observe: waitid with WNOWAIT leaves the root to be waited for.         *)
ObservedRoot == darwin

RootExited == darwin[Leader] \in {"zombie", "reaped"}

(* _other_members: a member that is alive is listed, a zombie may be.      *)
OthersListed(listed) ==
    /\ Living \ {Leader} # {} \/ foreign => listed
    /\ (Living \cup Zombies) \ {Leader} = {} /\ ~foreign => ~listed

DarwinStopped_RootExited(listed) == RootExited

(* tree_stopped, by what the census says.                                  *)
DarwinStopped(listed) == RootExited /\ ~listed

TreeMay(verdict) ==
    \E listed \in BOOLEAN : OthersListed(listed) /\ DarwinStopped(listed) = verdict

(* stop, called by the loop or by an __init__ that fails, looks first.     *)
StopLooks ==
    /\ stopAt = "idle" /\ (adapter = "failing" \/ (adapter = "open" /\ Stopping))
    /\ \/ TreeMay(FALSE) /\ stopAt' = "observing" /\ UNCHANGED adapter
       \/ TreeMay(TRUE) /\ adapter = "failing" /\ adapter' = "draining" /\ UNCHANGED stopAt
    /\ darwin' = ObservedRoot
    /\ UNCHANGED <<inGroup, foreign, forced, hit, loopVars>>

StopRaises ==
    /\ stopAt' = "idle"
    /\ adapter' = IF adapter = "failing" THEN "refused" ELSE adapter
    /\ Raises

(* ECHILD fails closed before numeric signalling.                          *)
StopObserves ==
    /\ stopAt = "observing"
    /\ IF darwin[Leader] = "reaped"
       THEN StopRaises
       ELSE stopAt' = "striking" /\ UNCHANGED <<adapter, loopVars>>
    /\ UNCHANGED <<kernelVars, forced, hit>>

(* A denied signal raises unless the group was killed before.              *)
Denied == ~forced

Struck ==
    /\ stopAt' = "idle"
    /\ adapter' = IF adapter = "failing" THEN "draining" ELSE adapter
    /\ UNCHANGED loopVars

(* killpg: it kills who is alive; a group of zombies is denied or not found.*)
StopStrikes ==
    /\ stopAt = "striking"
    /\ hit' = (hit \/ foreign)
    /\ darwin' = [p \in Processes |-> IF p \in Living THEN "dying" ELSE darwin[p]]
    /\ IF Living # {}
       THEN forced' = TRUE /\ Struck
       ELSE UNCHANGED forced /\ (Struck \/ (Denied /\ StopRaises))
    /\ UNCHANGED <<inGroup, foreign>>

(* The loop sees the tree stopped, or is left by a call that raises.       *)
DarwinLoopLeft ==
    /\ adapter = "open" /\ stopAt = "idle"
    /\ LoopLeft
    /\ darwin' = ObservedRoot
    /\ UNCHANGED <<inGroup, foreign, adapterVars>>

(* close, or __init__ that failed: the root is waited for, which reaps it. *)
(* close looks at the tree once more and would raise EBUSY; but the loop   *)
(* left a group without a living member, which nobody can fork into.       *)
DarwinCloses ==
    /\ stopAt = "idle" /\ TreeMay(TRUE)
    /\ \/ adapter = "open" /\ phase = "finally" /\ adapter' = "closed" /\ phase' = "closed"
       \/ adapter = "draining" /\ adapter' = "refused" /\ phase' = "raised"
    /\ darwin' = [darwin EXCEPT ![Leader] = "reaped"]
    /\ UNCHANGED <<inGroup, foreign, stopAt, forced, hit, ending>>

DarwinStep == DarwinSpawns \/ DarwinStarted \/ StopLooks \/ StopObserves \/ StopStrikes
              \/ DarwinLoopLeft \/ DarwinCloses

DarwinEnding == adapter = "open" /\ Ending /\ UNCHANGED darwinVars

DarwinNext == (DarwinKernel /\ UNCHANGED loopVars) \/ DarwinStep \/ DarwinEnding

--------------------------------------------------------------------------------
(* Properties                                                              *)

(* The group number is the command's own until every member that kept the  *)
(* group is gone: the root is reaped by close alone, which leaves nobody,  *)
(* and no other group is ever signalled (the module's docstring).          *)
DarwinOwnsItsGroup ==
    /\ LoopTypeOK /\ DarwinTypeOK
    /\ darwin[Leader] = "reaped" => adapter \in {"closed", "refused"} /\ Living = {}
    /\ adapter = "closed" => darwin[Leader] = "reaped"
    /\ ~hit

(* A group that was killed is closed: a signal that is denied afterwards   *)
(* keeps nobody from it (stop).                                            *)
ForceSettles == forced ~> darwin[Leader] = "reaped"
================================================================================
