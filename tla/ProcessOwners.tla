------------------------------ MODULE ProcessOwners -----------------------------
(***************************************************************************)
(* The owners of a process tree that has no guardian: the command of a     *)
(* platform, which _run creates and drives through one loop, and the probe *)
(* of a binary's version.                                                  *)
(***************************************************************************)
EXTENDS DarwinCommand, WindowsCommand, VersionProbe

VARIABLE kind  \* which of the owners

commandVars == <<loopVars, darwinVars, windowsVars>>
ownerVars == <<kind, commandVars, probeVars>>

OwnersInit ==
    /\ kind \in {"darwin", "win32", "probe"}
    /\ LoopInit /\ DarwinInit /\ WindowsInit /\ ProbeInit
    /\ kind = "win32" \/ ~piped
    /\ kind = "probe" \/ ~windows

OnDarwin(step) == kind = "darwin" /\ step /\ UNCHANGED <<kind, windowsVars, probeVars>>
OnWindows(step) == kind = "win32" /\ step /\ UNCHANGED <<kind, darwinVars, probeVars>>
OfProbe(step) == kind = "probe" /\ step /\ UNCHANGED <<kind, commandVars>>

OwnersNext == OnDarwin(DarwinNext) \/ OnWindows(WindowsNext) \/ OfProbe(ProbeNext)

OwnersSpec == OwnersInit /\ [][OwnersNext]_ownerVars

(* Threads run, killed processes exit, and zombies without a parent are    *)
(* reaped.  A stopped tree ends the loop: its pipes end or their deadline  *)
(* passes.                                                                 *)
FairOwners ==
    /\ OwnersSpec
    /\ WF_ownerVars(OnDarwin(DarwinSpawns \/ DarwinStarted))
    /\ WF_ownerVars(OnDarwin(StopLooks)) /\ WF_ownerVars(OnDarwin(StopObserves))
    /\ WF_ownerVars(OnDarwin(StopStrikes)) /\ WF_ownerVars(OnDarwin(DarwinCloses))
    /\ WF_ownerVars(OnDarwin(ending /\ TreeMay(TRUE) /\ DarwinLoopLeft))
    /\ \A p \in Processes :
           /\ WF_ownerVars(OnDarwin(darwin[p] = "dying" /\ DarwinExits(p) /\ UNCHANGED loopVars))
           /\ WF_ownerVars(OnDarwin(DescendantReaped(p) /\ UNCHANGED loopVars))
    /\ WF_ownerVars(OnWindows(~LoopOver /\ WindowsSpawn))
    /\ WF_ownerVars(OnWindows(JobStops)) /\ WF_ownerVars(OnWindows(JobCloses))
    /\ WF_ownerVars(OnWindows(ending /\ JobStopped /\ JobLoopLeft))
    /\ \A t \in Tasks : WF_ownerVars(OnWindows(task[t] = "dying" /\ JobExits(t)))
    /\ WF_ownerVars(OfProbe(ProbeStep))
    /\ WF_ownerVars(OfProbe(life[1] = "dying" /\ Binary /\ life'[1] = "exited"))

--------------------------------------------------------------------------------
(* Properties                                                              *)

(* Creating a command ends, and so does one that is stopped, whatever it   *)
(* forks and whichever of its calls fail; and so does a probe, whatever    *)
(* the binary does (_run, _cleanup_failed_spawn, _read_stdout).  A group   *)
(* of Darwin that was killed is closed.                                    *)
TreesEnd ==
    /\ kind # "probe" ~> phase # "creating"
    /\ ending ~> LoopOver
    /\ probe # "new" ~> ProbeOver
    /\ ForceSettles
================================================================================
