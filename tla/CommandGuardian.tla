---------------------------- MODULE CommandGuardian ----------------------------
(***************************************************************************)
(* The private subreaper of one command on Linux                           *)
(* (_owned_command_linux_guardian.py): it starts the command's root in a   *)
(* process group of its own, reports the root's exit, and when the root    *)
(* exits or its owner lets go it kills and reaps until waitid says ECHILD. *)
(* The kernel's part is modelled as the guardian uses it: processes fork,  *)
(* exit and are reaped by their parent, orphans are adopted by the         *)
(* guardian, and a group number without processes can be given again.      *)
(***************************************************************************)
EXTENDS Integers

CONSTANTS
    Members,   \* processes of the command, in the order they are born
    Sweep      \* children reaped by one call of settled: 64

ASSUME GuardianAssumption ==
    /\ Members \subseteq Nat \ {0} /\ 1 \in Members
    /\ Sweep \in Nat \ {0}

Root == 1
Guardian == 0

VARIABLES
    life,      \* of each process
    parent,    \* who waits for it
    group,     \* whether it is in the command's process group
    guardian,  \* where the guardian is, or how it exited
    swept,     \* children reaped by the present call of settled
    status,    \* whether the exit code of the root was written
    lifeline,  \* whether the owner holds the control pipe open
    reused,    \* whether the group number names a foreign group
    struck     \* whether a foreign group was signalled

processVars == <<life, parent, group>>
guardianVars == <<guardian, swept, status>>
vars == <<processVars, guardianVars, lifeline, reused, struck>>

TypeOK ==
    /\ life \in [Members -> {"unborn", "running", "dying", "zombie", "reaped"}]
    /\ parent \in [Members -> Members \cup {Guardian}]
    /\ group \in [Members -> BOOLEAN]
    /\ guardian \in {"watching", "cleanup", "stop", "pinning", "killing", "settled", "failed"}
    /\ swept \in 0 .. Sweep - 1
    /\ status \in BOOLEAN /\ lifeline \in BOOLEAN
    /\ reused \in BOOLEAN /\ struck \in BOOLEAN

Init ==
    /\ life = [m \in Members |-> IF m = Root THEN "running" ELSE "unborn"]
    /\ parent = [m \in Members |-> Guardian]
    /\ group = [m \in Members |-> m = Root]
    /\ guardian = "watching" /\ swept = 0
    /\ status = FALSE /\ lifeline = TRUE
    /\ reused = FALSE /\ struck = FALSE

Alive(m) == life[m] \in {"running", "dying"}
Exists(m) == Alive(m) \/ life[m] = "zombie"
Group == {m \in Members : group[m] /\ Exists(m)}

(* No process has left the group: none enters it but by a fork.            *)
Contained == \A m \in Members : life[m] # "unborn" => group[m]

(* What waitid(P_PGID) is about: the guardian's own children in the group. *)
Waitable == {m \in Group : parent[m] = Guardian}

--------------------------------------------------------------------------------
(* The kernel and the command                                              *)

Forks(m, child) ==
    /\ life[m] = "running"
    /\ life[child] = "unborn" /\ \A c \in Members : c < child => life[c] # "unborn"
    /\ life' = [life EXCEPT ![child] = "running"]
    /\ parent' = [parent EXCEPT ![child] = m]
    /\ group' = [group EXCEPT ![child] = group[m]]
    /\ UNCHANGED <<guardianVars, lifeline, reused, struck>>

(* The children of a process are adopted before its exit can be seen.      *)
Exits(m) ==
    /\ Alive(m)
    /\ life' = [life EXCEPT ![m] = "zombie"]
    /\ parent' = [c \in Members |-> IF parent[c] = m THEN Guardian ELSE parent[c]]
    /\ UNCHANGED <<group, guardianVars, lifeline, reused, struck>>

Reaps(m, child) ==
    /\ life[m] = "running" /\ parent[child] = m
    /\ life[child] = "zombie"
    /\ life' = [life EXCEPT ![child] = "reaped"]
    /\ UNCHANGED <<parent, group, guardianVars, lifeline, reused, struck>>

(* setsid: not for the root, which leads the session.                      *)
Leaves(m) ==
    /\ m # Root /\ life[m] = "running" /\ group[m]
    /\ group' = [group EXCEPT ![m] = FALSE]
    /\ UNCHANGED <<life, parent, guardianVars, lifeline, reused, struck>>

NumberReused ==
    /\ Group = {} /\ ~reused
    /\ reused' = TRUE
    /\ UNCHANGED <<processVars, guardianVars, lifeline, struck>>

Command ==
    \/ \E m, child \in Members : Forks(m, child) \/ Reaps(m, child)
    \/ \E m \in Members : Exits(m) \/ Leaves(m)
    \/ NumberReused

--------------------------------------------------------------------------------
(* The guardian                                                            *)

(* main: the root exited, or the control pipe is readable.                 *)
Watch ==
    /\ guardian = "watching"
    /\ \/ life[Root] = "zombie" /\ status' = TRUE
       \/ ~lifeline /\ UNCHANGED status
    /\ guardian' = "cleanup"
    /\ UNCHANGED <<processVars, swept, lifeline, reused, struck>>

(* settled returns false: cleanup calls stop, which asks again and goes on.*)
NotSettled ==
    /\ guardian' = IF guardian = "cleanup" THEN "stop" ELSE "pinning"
    /\ swept' = 0

(* waitid raises ECHILD.                                                   *)
Echild_NothingExited == ~\E m \in Waitable : life[m] = "zombie"

Echild == Waitable = {}

(* settled: the root's code is cached and written before it is reaped.     *)
SweepRoot ==
    /\ guardian \in {"cleanup", "stop"} /\ life[Root] # "reaped"
    /\ IF life[Root] = "zombie"
       THEN /\ status' = TRUE
            /\ life' = [life EXCEPT ![Root] = "reaped"]
            /\ UNCHANGED <<guardian, swept>>
       ELSE NotSettled /\ UNCHANGED <<status, life>>
    /\ UNCHANGED <<parent, group, lifeline, reused, struck>>

SweepMembers ==
    /\ guardian \in {"cleanup", "stop"} /\ life[Root] = "reaped"
    /\ \/ Echild /\ guardian' = "settled" /\ UNCHANGED <<swept, life>>
       \/ /\ ~Echild /\ \A m \in Waitable : Alive(m)
          /\ NotSettled /\ UNCHANGED life
       \/ \E m \in Waitable :
              /\ life[m] = "zombie"
              /\ life' = [life EXCEPT ![m] = "reaped"]
              /\ IF swept + 1 = Sweep
                 THEN NotSettled
                 ELSE swept' = swept + 1 /\ UNCHANGED guardian
    /\ UNCHANGED <<parent, group, status, lifeline, reused, struck>>

(* stop looks once more before it signals, and does not catch ECHILD.      *)
Pinned_Assumed == TRUE

Pinned == Waitable # {}

Pin ==
    /\ guardian = "pinning"
    /\ guardian' = IF Pinned THEN "killing" ELSE "failed"
    /\ UNCHANGED <<processVars, swept, status, lifeline, reused, struck>>

Targets == Group

Kill ==
    /\ guardian = "killing"
    /\ guardian' = "cleanup"
    /\ life' = [m \in Members |-> IF m \in Targets /\ Alive(m) THEN "dying" ELSE life[m]]
    /\ struck' = (struck \/ reused)
    /\ UNCHANGED <<parent, group, swept, status, lifeline, reused>>

GuardianStep == Watch \/ SweepRoot \/ SweepMembers \/ Pin \/ Kill

--------------------------------------------------------------------------------
(* The owner stops the command, or is gone: the pipe is closed either way. *)
LetsGo ==
    /\ lifeline
    /\ lifeline' = FALSE
    /\ UNCHANGED <<processVars, guardianVars, reused, struck>>

Next == Command \/ GuardianStep \/ LetsGo

Spec == Init /\ [][Next]_vars

--------------------------------------------------------------------------------
(* Properties                                                              *)

(* A guardian that exits successfully leaves no process of a command that  *)
(* kept its group (settled: ECHILD proves group settlement).  The members  *)
(* it cannot wait for are descendants of a process that left.              *)
SettledMeansGone == guardian = "settled" /\ Contained => Group = {}

(* While the command keeps its group no other is ever signalled (stop: an  *)
(* observed child pins the group number).                                  *)
NeverStrikesForeign == Contained => ~struck

(* A command that keeps its group is settled, and not given up             *)
(* (_Invocation.cleanup).                                                  *)
NeverGivesUp == guardian # "failed"
================================================================================
