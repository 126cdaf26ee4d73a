-------------------------- MODULE ProcessOwnersProofs --------------------------
(***************************************************************************)
(* Proofs about the owners of a process tree without a guardian, for any   *)
(* number of processes and any limit of a probe.  The properties are kept  *)
(* by nobody alone: that the group of Darwin is not signalled once it is   *)
(* foreign depends on where stop is, that the handles of Windows own the   *)
(* tree depends on how far _spawn came, and that a version is whole on how *)
(* the reader ended.  Each owner has its part of the invariant, and the    *)
(* steps of the other two leave it alone.                                  *)
(***************************************************************************)
EXTENDS ProcessOwners, TLAPS

--------------------------------------------------------------------------------
(* The inductive invariant                                                 *)

(* Before the leader nobody is born, and the leader never leaves its group.*)
LeaderFirst ==
    /\ darwin[Leader] = "unborn" => \A p \in Processes : darwin[p] = "unborn"
    /\ darwin[Leader] # "unborn" => inGroup[Leader]

(* An object that was not closed has a leader that was not reaped, and     *)
(* only such an object is being stopped.                                   *)
Unreaped ==
    /\ adapter = "new" => darwin[Leader] = "unborn"
    /\ adapter \in {"starting", "failing", "draining", "open"} =>
           darwin[Leader] \in {"running", "dying", "zombie"}
    /\ stopAt # "idle" => adapter \in {"failing", "open"}

(* The group number passes on only after the leader was reaped.            *)
ForeignLast == foreign => darwin[Leader] = "reaped"

DarwinIInv == DarwinOwnsItsGroup /\ LeaderFirst /\ Unreaped /\ ForeignLast

(* Nobody is born before create, or when there is no job left to close     *)
(* while the command still runs; whoever was born is in the job.           *)
BornIntoJob ==
    /\ spawn \in {"job", "limits", "stdin", "stdout", "stderr", "attributes", "create"} =>
           \A t \in Tasks : task[t] = "unborn"
    /\ ~LoopOver /\ "job" \notin opened => \A t \in Tasks : task[t] = "unborn"
    /\ \A t \in Tasks : task[t] # "unborn" => t \in inJob

(* What _spawn has made when it gets to a place, and what its cleanup knows.*)
MadeSoFar ==
    /\ ~LoopOver /\ spawn \in {"limits", "stdin", "stdout", "stderr", "attributes", "create",
                               "children", "resume", "thread", "ready"} => "job" \in opened
    /\ ~LoopOver /\ spawn \in {"children", "resume", "thread"} =>
           "thread" \in opened /\ 1 \in inJob
    /\ spawn = "refused" => LoopOver
    /\ spawn = "closing" /\ ~unsettled => \A t \in Tasks : task[t] \in {"unborn", "exited"}

WindowsIInv == WindowsOwnsAll /\ BornIntoJob /\ MadeSoFar

(* Nobody is born before the probed process, or before it was started.     *)
ProbeFirst ==
    /\ life[1] = "unborn" => \A p \in Probed : life[p] = "unborn"
    /\ probe = "new" => life[1] = "unborn"

(* How the reader can have ended, and what it then knows of the output.    *)
ReaderKnows ==
    /\ taken <= written
    /\ probe = "new" => reader = "none" /\ written = 0 /\ writers = {}
    /\ reader \in {"none", "reading"} => taken <= Limit
    /\ reader = "stopped" => taken > Limit
    /\ reader = "ended" => taken = written /\ taken <= Limit /\ writers = {}

(* What the probing thread has made sure of when it gets to a place.       *)
ProbeKnows ==
    /\ probe = "judging" => ReaderDone
    /\ probe = "reaping" => reader = "ended"
    /\ code => reader = "ended" /\ life[1] = "reaped" /\ exit = "zero"
    /\ probe = "output" => code
    /\ probe = "joining" => life[1] = "reaped"
    /\ probe \in {"closed", "joining", "output", "refused"} /\ ~windows =>
           \A p \in Probed : grouped[p] => life[p] # "running"

ProbeIInv == ProbeIsSound /\ ProbeFirst /\ ReaderKnows /\ ProbeKnows

(* An owner that is not used has not changed anything.                     *)
Unused == kind # "win32" => opened = {} /\ spawn = "job"

OwnersIInv == DarwinIInv /\ WindowsIInv /\ ProbeIInv /\ Unused

--------------------------------------------------------------------------------
(* The command of Darwin                                                   *)

(* A tree that is seen stopped has its leader over and nobody else alive,  *)
(* whatever the census may say about zombies.                              *)
LEMMA StoppedTree ==
    ASSUME DarwinTypeOK, TreeMay(TRUE)
    PROVE  RootExited /\ Living = {} /\ ~foreign
<1>1. PICK listed \in BOOLEAN : OthersListed(listed) /\ DarwinStopped(listed)
  BY Zenon DEF TreeMay
<1>2. RootExited /\ ~listed
  BY <1>1 DEF DarwinStopped
<1>3. Living \ {Leader} = {} /\ ~foreign
  BY <1>1, <1>2 DEF OthersListed
<1> QED
  BY <1>2, <1>3 DEF RootExited, Living, DarwinTypeOK

(* Each step of the kernel, of the command and of its owner keeps the      *)
(* group the command's own until the leader is reaped.                     *)
LEMMA DarwinKeeps ==
    ASSUME DarwinIInv, DarwinNext
    PROVE  DarwinIInv'
<1>0. Leader \in Processes
  BY DarwinAssumption DEF Leader
<1> USE <1>0 DEF DarwinIInv, DarwinOwnsItsGroup, DarwinTypeOK, LoopTypeOK, LeaderFirst, Unreaped,
               ForeignLast, Living, loopVars, kernelVars, adapterVars, darwinVars
<1>1. ASSUME NEW p \in Processes, NEW child \in Processes, DarwinForks(p, child), UNCHANGED loopVars
      PROVE  DarwinIInv'
  BY <1>1 DEF DarwinForks
<1>2. ASSUME NEW p \in Processes, DarwinExits(p), UNCHANGED loopVars
      PROVE  DarwinIInv'
  BY <1>2 DEF DarwinExits
<1>3. ASSUME NEW p \in Processes, DescendantReaped(p), UNCHANGED loopVars
      PROVE  DarwinIInv'
  BY <1>3 DEF DescendantReaped
<1>4. ASSUME NEW p \in Processes, DarwinLeaves(p), UNCHANGED loopVars
      PROVE  DarwinIInv'
  BY <1>4 DEF DarwinLeaves
<1>5. ASSUME GroupReused, UNCHANGED loopVars
      PROVE  DarwinIInv'
  BY <1>5 DEF GroupReused, Zombies
<1>6. ASSUME DarwinSpawns
      PROVE  DarwinIInv'
  BY <1>6 DEF DarwinSpawns
<1>7. ASSUME DarwinStarted
      PROVE  DarwinIInv'
  BY <1>7 DEF DarwinStarted
<1>8. ASSUME StopLooks
      PROVE  DarwinIInv'
  BY <1>8 DEF StopLooks, ObservedRoot
<1>9. ASSUME StopObserves
      PROVE  DarwinIInv'
  BY <1>9 DEF StopObserves, StopRaises, Raises
<1>10. ASSUME StopStrikes
      PROVE  DarwinIInv'
  BY <1>10 DEF StopStrikes, Struck, StopRaises, Raises
<1>11. ASSUME DarwinLoopLeft
      PROVE  DarwinIInv'
  BY <1>11 DEF DarwinLoopLeft, LoopLeft, ObservedRoot
<1>12. ASSUME DarwinCloses
      PROVE  DarwinIInv'
  BY <1>12, StoppedTree DEF DarwinCloses
<1>13. ASSUME DarwinEnding
      PROVE  DarwinIInv'
  BY <1>13 DEF DarwinEnding, Ending
<1> QED
  BY <1>1, <1>2, <1>3, <1>4, <1>5, <1>6, <1>7, <1>8, <1>9, <1>10, <1>11, <1>12, <1>13
     DEF DarwinNext, DarwinKernel, DarwinStep
--------------------------------------------------------------------------------
(* The command of Windows                                                  *)

(* The places of _spawn follow each other in the order of the source.      *)
LEMMA PlaceAfter ==
    ASSUME Advances
    PROVE  /\ spawn \in {"job", "limits", "stdin", "stdout", "stderr", "attributes", "create",
                         "children", "resume", "thread", "ready"}
           /\ spawn = "job" => spawn' = "limits"
           /\ spawn = "limits" => spawn' = "stdin"
           /\ spawn = "stdin" => spawn' = "stdout"
           /\ spawn = "stdout" => spawn' = "stderr"
           /\ spawn = "stderr" => spawn' = "attributes"
           /\ spawn = "attributes" => spawn' = "create"
           /\ spawn = "create" => spawn' = "children"
           /\ spawn = "children" => spawn' = "resume"
           /\ spawn = "resume" => spawn' = "thread"
           /\ spawn = "thread" => spawn' = "ready"
<1>1. PICK i \in DOMAIN Places : Places[i] = spawn /\ spawn' = Places[i + 1]
  BY DEF Advances
<1>2. i \in 1 .. 11
  BY DEF Places
<1>3. \/ i = 1 \/ i = 2 \/ i = 3 \/ i = 4 \/ i = 5 \/ i = 6 \/ i = 7 \/ i = 8 \/ i = 9
      \/ i = 10 \/ i = 11
  BY <1>2
<1> QED
  BY <1>1, <1>3 DEF Places

(* These are all the places there are.                                     *)
LEMMA PlaceNames ==
    {Places[i] : i \in DOMAIN Places}
        = {"job", "limits", "stdin", "stdout", "stderr", "attributes", "create", "children",
           "resume", "thread", "ready"}
<1>1. DOMAIN Places = {1, 2, 3, 4, 5, 6, 7, 8, 9, 10, 11}
  BY DEF Places
<1> QED
  BY <1>1 DEF Places

(* The names of the handles, and which of them the child inherits.         *)
LEMMA HandleNames ==
    /\ {"job", "process", "thread"} \subseteq Handles
    /\ \A pipe \in Pipes : pipe \in Handles /\ Child[pipe] \in Handles
    /\ {"job", "process", "thread"} \cap Children = {}
BY DEF Handles, Children, Child, Pipes

(* Killing some of the processes of the job leaves nobody of them running  *)
(* and brings nobody to life.                                              *)
LEMMA KillingTypes ==
    ASSUME WindowsTypeOK, NEW tasks \in SUBSET Tasks
    PROVE  /\ Killed(tasks) \in [Tasks -> {"unborn", "suspended", "running", "dying", "exited"}]
           /\ \A t \in Tasks : Killed(tasks)[t] = IF t \in tasks THEN "dying" ELSE task[t]
BY DEF Killed, WindowsTypeOK

(* Closing handles ends what runs in the job when the job is one of them.  *)
LEMMA ClosingEnds ==
    ASSUME WindowsTypeOK, BornIntoJob, KilledOnClose(opened')
    PROVE  /\ task' \in [Tasks -> {"unborn", "suspended", "running", "dying", "exited"}]
           /\ \A t \in Tasks : task'[t] = task[t] \/ (task'[t] = "dying" /\ t \in Active)
           /\ "job" \in opened /\ "job" \notin opened' =>
                  \A t \in Tasks : task'[t] \notin {"suspended", "running"}
<1>1. Active \subseteq Tasks
  BY DEF Active, WindowsTypeOK
<1> QED
  BY <1>1, KillingTypes DEF KilledOnClose, WindowsTypeOK, BornIntoJob, Active

(* A job that is stopped leaves nobody of the command alive.               *)
LEMMA StoppedJob ==
    ASSUME WindowsIInv, ~LoopOver, JobStopped
    PROVE  Active = {} /\ \A t \in Tasks : task[t] \in {"unborn", "exited"}
BY DEF WindowsIInv, WindowsOwnsAll, HandlesOwned, WindowsTypeOK, BornIntoJob, JobStopped, Active

(* Each step of _spawn, of the cleanup and of the kernel keeps the object  *)
(* the owner of its handles and of its tree.                               *)
LEMMA WindowsKeeps ==
    ASSUME WindowsIInv, WindowsNext
    PROVE  WindowsIInv'
<1>0. 1 \in Tasks
  BY WindowsAssumption
<1> USE <1>0 DEF WindowsIInv, WindowsOwnsAll, HandlesOwned, JobOwnsItsTree, WindowsTypeOK, LoopTypeOK,
               BornIntoJob, MadeSoFar, LoopOver, At, Fails, loopVars, jobVars, handleVars, windowsVars
<1>1. ASSUME NEW t \in Tasks, NEW child \in Tasks, JobForks(t, child)
      PROVE  WindowsIInv'
  BY <1>1 DEF JobForks
<1>2. ASSUME NEW t \in Tasks, JobExits(t)
      PROVE  WindowsIInv'
  BY <1>2 DEF JobExits
<1>3. ASSUME ~LoopOver, MakesJob
      PROVE  WindowsIInv'
  BY <1>3, PlaceAfter, PlaceNames, HandleNames DEF MakesJob, Makes
<1>4. ASSUME ~LoopOver, Prepares
      PROVE  WindowsIInv'
  <2>1. CASE Advances
    BY <1>4, <2>1, PlaceAfter, PlaceNames DEF Prepares
  <2>2. CASE Fails
    BY <1>4, <2>2 DEF Prepares
  <2> QED
    BY <1>4, <2>1, <2>2 DEF Prepares
<1>5. ASSUME ~LoopOver, MakesPipe
      PROVE  WindowsIInv'
  <2>1. spawn \in Pipes /\ UNCHANGED <<piped, jobVars, unsettled, loopVars, twice>>
    BY <1>5 DEF MakesPipe, Makes
  <2>2. \E made \in SUBSET {spawn, Child[spawn]} :
            opened' = opened \cup made /\ kept' = kept \cup made
    <3> DEFINE ends == IF spawn = "stdin" /\ ~piped THEN {Child[spawn]}
                       ELSE {spawn, Child[spawn]}
    <3>1. ends \in SUBSET {spawn, Child[spawn]}
      OBVIOUS
    <3>2. CASE Makes(ends)
      BY <3>1, <3>2 DEF Makes
    <3>3. CASE UNCHANGED handleVars
      <4> WITNESS {} \in SUBSET {spawn, Child[spawn]}
      <4> QED
        BY <3>3
    <3>4. ASSUME NEW child \in {{}, {Child[spawn]}}, Makes(child)
          PROVE  \E made \in SUBSET {spawn, Child[spawn]} :
                     opened' = opened \cup made /\ kept' = kept \cup made
      BY <3>4 DEF Makes
    <3>5. ASSUME NEW child \in {{}, {Child[spawn]}},
                 opened' = opened \cup child \cup {spawn},
                 kept' = kept \cup child \cup {spawn}
          PROVE  \E made \in SUBSET {spawn, Child[spawn]} :
                     opened' = opened \cup made /\ kept' = kept \cup made
      <4> WITNESS child \cup {spawn} \in SUBSET {spawn, Child[spawn]}
      <4> QED
        BY <3>5
    <3> QED
      BY <1>5, <3>2, <3>3, <3>4, <3>5 DEF MakesPipe, ParentAfterFailure
  <2>3. PICK made \in SUBSET {spawn, Child[spawn]} :
            opened' = opened \cup made /\ kept' = kept \cup made
    BY <2>2
  <2>4. made \subseteq Handles
    BY <2>1, <2>3, HandleNames
  <2>5. CASE Advances
    <3>1. /\ spawn = "stdin" => spawn' = "stdout"
          /\ spawn = "stdout" => spawn' = "stderr"
          /\ spawn = "stderr" => spawn' = "attributes"
      BY <2>5, PlaceAfter
    <3> QED
      BY <1>5, <2>1, <2>3, <2>4, <3>1, PlaceNames DEF Pipes
  <2>6. CASE Fails
    BY <1>5, <2>1, <2>3, <2>4, <2>6 DEF Pipes
  <2> QED
    BY <1>5, <2>5, <2>6 DEF MakesPipe
<1>6. ASSUME ~LoopOver, MakesProcess
      PROVE  WindowsIInv'
  <2>1. spawn = "create" /\ UNCHANGED <<piped, unsettled, loopVars>>
    BY <1>6 DEF MakesProcess
  <2>2. CASE /\ Makes({"process", "thread"}) /\ Advances
             /\ task' = [task EXCEPT ![1] = "suspended"] /\ inJob' = {1}
    <3>1. spawn' = "children"
      BY <2>1, <2>2, PlaceAfter
    <3>2. /\ opened' = opened \cup {"process", "thread"} /\ kept' = kept \cup {"process", "thread"}
          /\ UNCHANGED twice
      BY <2>2 DEF Makes
    <3> QED
      BY <1>6, <2>1, <2>2, <3>1, <3>2, PlaceNames, HandleNames
  <2>3. CASE UNCHANGED <<jobVars, handleVars>> /\ Fails
    BY <1>6, <2>1, <2>3
  <2> QED
    BY <1>6, <2>2, <2>3 DEF MakesProcess, Assigned
<1>7. ASSUME ~LoopOver, ClosesChildren
      PROVE  WindowsIInv'
  <2>1. PICK closed \in SUBSET (Children \cap kept) : Releases(closed, {})
    BY <1>7 DEF ClosesChildren
  <2>2. "job" \notin closed /\ "thread" \notin closed
    BY <2>1, HandleNames
  <2>3. /\ opened' = opened \ closed /\ kept' = kept \ closed /\ twice' = FALSE
        /\ UNCHANGED jobVars
    BY <2>1, <2>2 DEF Releases, KilledOnClose
  <2>4. spawn = "children" /\ UNCHANGED <<piped, unsettled, loopVars>>
    BY <1>7 DEF ClosesChildren
  <2>5. CASE Advances
    <3>1. spawn' = "resume"
      BY <2>4, <2>5, PlaceAfter
    <3> QED
      BY <1>7, <2>2, <2>3, <2>4, <3>1, PlaceNames
  <2>6. CASE Fails
    BY <1>7, <2>2, <2>3, <2>4, <2>6
  <2> QED
    BY <1>7, <2>5, <2>6 DEF ClosesChildren
<1>8. ASSUME ~LoopOver, Resumes
      PROVE  WindowsIInv'
  <2>1. CASE Advances
    BY <1>8, <2>1, PlaceAfter, PlaceNames DEF Resumes
  <2>2. CASE Fails
    BY <1>8, <2>2 DEF Resumes
  <2> QED
    BY <1>8, <2>1, <2>2 DEF Resumes
<1>9. ASSUME ~LoopOver, ClosesThread
      PROVE  WindowsIInv'
  BY <1>9, PlaceAfter, PlaceNames DEF ClosesThread, Releases, KilledOnClose
<1>10. ASSUME ~LoopOver, CleanupStops
      PROVE  WindowsIInv'
  BY <1>10 DEF CleanupStops, Terminates, Terminated, Killed, Active
<1>11. ASSUME ~LoopOver, CleanupSettles
      PROVE  WindowsIInv'
  BY <1>11, StoppedJob DEF CleanupSettles
<1>12. ASSUME ~LoopOver, CleanupCloses
      PROVE  WindowsIInv'
  BY <1>12, ClosingEnds DEF CleanupCloses, ClosesAll, Releases, Active
<1>13. ASSUME ~LoopOver, JobStops
      PROVE  WindowsIInv'
  BY <1>13 DEF JobStops, Terminates, Terminated, Killed, Active, Raises, Stopping
<1>14. ASSUME ~LoopOver, JobLoopLeft
      PROVE  WindowsIInv'
  BY <1>14 DEF JobLoopLeft, LoopLeft
<1>15. ASSUME ~LoopOver, JobCloses
      PROVE  WindowsIInv'
  BY <1>15, StoppedJob, ClosingEnds DEF JobCloses, ClosesAll, Releases, Active
<1>16. ASSUME ~LoopOver, BridgeKilled
      PROVE  WindowsIInv'
  <2>1. KilledOnClose(opened')
    BY <1>16 DEF BridgeKilled, KilledOnClose
  <2> QED
    BY <1>16, <2>1, ClosingEnds DEF BridgeKilled, Active
<1>17. ASSUME WindowsEnding
      PROVE  WindowsIInv'
  BY <1>17 DEF WindowsEnding, Ending
<1> QED
  BY <1>1, <1>2, <1>3, <1>4, <1>5, <1>6, <1>7, <1>8, <1>9, <1>10, <1>11, <1>12, <1>13, <1>14,
     <1>15, <1>16, <1>17 DEF WindowsNext, WindowsStep, WindowsSpawn
--------------------------------------------------------------------------------
(* The probe of a binary                                                   *)

(* What the binary does: it forks, writes, closes its pipe, leaves the     *)
(* group and exits, and changes nothing that the probe has made sure of.   *)
LEMMA BinaryKeeps ==
    ASSUME ProbeIInv, Binary
    PROVE  ProbeIInv'
<1>0. 1 \in Probed /\ Limit \in Nat \ {0} /\ MaxOutput \in Nat
  BY ProbeAssumption
<1> USE <1>0 DEF ProbeIInv, ProbeIsSound, VersionIsWhole, ProbeLeavesNothing, ProbeTypeOK, ProbeOver,
               ProbeFirst, ReaderKnows, ProbeKnows, ReaderDone, Up, probeThreadVars
<1>1. ASSUME NEW p \in Probed, NEW child \in Probed, ProbeForks(p, child),
             UNCHANGED <<windows, probeThreadVars>>
      PROVE  ProbeIInv'
  BY <1>1 DEF ProbeForks
<1>2. ASSUME NEW p \in Probed, ProbeWrites(p), UNCHANGED <<windows, probeThreadVars>>
      PROVE  ProbeIInv'
  BY <1>2 DEF ProbeWrites
<1>3. ASSUME NEW p \in Probed, ProbeClosesPipe(p), UNCHANGED <<windows, probeThreadVars>>
      PROVE  ProbeIInv'
  BY <1>3 DEF ProbeClosesPipe
<1>4. ASSUME NEW p \in Probed, ProbeLeavesGroup(p), UNCHANGED <<windows, probeThreadVars>>
      PROVE  ProbeIInv'
  BY <1>4 DEF ProbeLeavesGroup
<1>5. ASSUME NEW p \in Probed, ProbeExits(p), UNCHANGED <<windows, probeThreadVars>>
      PROVE  ProbeIInv'
  BY <1>5 DEF ProbeExits
<1> QED
  BY <1>1, <1>2, <1>3, <1>4, <1>5 DEF Binary

(* The reader ends at the end of the pipe or past the limit, and takes     *)
(* nothing that was not written.                                           *)
LEMMA ReaderKeeps ==
    ASSUME ProbeIInv, ReaderReads
    PROVE  ProbeIInv'
<1>0. 1 \in Probed /\ Limit \in Nat \ {0} /\ MaxOutput \in Nat
  BY ProbeAssumption
<1> USE <1>0 DEF ProbeIInv, ProbeIsSound, VersionIsWhole, ProbeLeavesNothing, ProbeTypeOK, ProbeOver,
               ProbeFirst, ReaderKnows, ProbeKnows, ReaderDone, probeProcessVars
<1>1. ASSUME NEW bytes \in 1 .. Least(Room, written - taken), reader = "reading",
             taken' = taken + bytes,
             reader' = IF taken' > Limit THEN "stopped" ELSE "reading",
             UNCHANGED <<windows, probeProcessVars, probe, code>>
      PROVE  ProbeIInv'
  <2>1. bytes \in Nat /\ taken' <= written /\ taken' <= Limit + 1 /\ taken' \in Nat
    BY <1>1 DEF Least, Room
  <2> QED
    BY <1>1, <2>1
<1>2. ASSUME reader = "reading", Room = 0 \/ (written = taken /\ writers = {}),
             reader' = "ended", UNCHANGED <<taken, windows, probeProcessVars, probe, code>>
      PROVE  ProbeIInv'
  BY <1>2 DEF Room
<1>3. ASSUME reader = "reading", reader' = "failed",
             UNCHANGED <<taken, windows, probeProcessVars, probe, code>>
      PROVE  ProbeIInv'
  BY <1>3
<1> QED
  BY <1>1, <1>2, <1>3 DEF ReaderReads

(* The probing thread goes on only with what it has made sure of.          *)
LEMMA ProberKeeps ==
    ASSUME ProbeIInv, ProbeStep
    PROVE  ProbeIInv'
<1>0. 1 \in Probed /\ Limit \in Nat \ {0} /\ MaxOutput \in Nat
  BY ProbeAssumption
<1> USE <1>0 DEF ProbeIInv, ProbeIsSound, VersionIsWhole, ProbeLeavesNothing, ProbeTypeOK, ProbeOver,
               ProbeFirst, ReaderKnows, ProbeKnows, ReaderDone, Goes, Waits, LeaderOver
<1>1. ASSUME ProbeSpawns
      PROVE  ProbeIInv'
  BY <1>1 DEF ProbeSpawns
<1>2. ASSUME AwaitsReader
      PROVE  ProbeIInv'
  BY <1>2 DEF AwaitsReader
<1>3. ASSUME Judges
      PROVE  ProbeIInv'
  BY <1>3 DEF Judges
<1>4. ASSUME AwaitsProcess
      PROVE  ProbeIInv'
  <2>1. CASE Waits("reaping", "killing")
    BY <2>1
  <2>2. CASE /\ probe = "reaping" /\ life[1] = "exited" /\ Goes("closing")
             /\ life' = [life EXCEPT ![1] = "reaped"] /\ code' = (exit = "zero")
             /\ UNCHANGED <<writers, reader>>
    <3>1. code' \in BOOLEAN /\ (code' => exit = "zero")
      BY <2>2
    <3> QED
      BY <2>2, <3>1
  <2> QED
    BY <1>4, <2>1, <2>2 DEF AwaitsProcess
<1>5. ASSUME ProbeKills("killing", "killed")
      PROVE  ProbeIInv'
  BY <1>5 DEF ProbeKills, KillFinds, Up
<1>6. ASSUME ProbeReaps("killed", "closing")
      PROVE  ProbeIInv'
  BY <1>6 DEF ProbeReaps
<1>7. ASSUME TerminatesAtEnd
      PROVE  ProbeIInv'
  BY <1>7 DEF TerminatesAtEnd, ProbeKills, KillFinds, Up
<1>8. ASSUME ProbeReaps("closed", "joining")
      PROVE  ProbeIInv'
  BY <1>8 DEF ProbeReaps
<1>9. ASSUME Joins
      PROVE  ProbeIInv'
  BY <1>9 DEF Joins
<1> QED
  BY <1>1, <1>2, <1>3, <1>4, <1>5, <1>6, <1>7, <1>8, <1>9 DEF ProbeStep

--------------------------------------------------------------------------------
(* All the owners                                                          *)

(* The invariant holds before any of them was started,                     *)
LEMMA OwnersStart == OwnersInit => OwnersIInv
<1> SUFFICES ASSUME OwnersInit PROVE OwnersIInv
  OBVIOUS
<1> USE DEF OwnersInit, LoopInit, DarwinInit, WindowsInit, ProbeInit
<1>1. Leader \in Processes /\ 1 \in Probed /\ Limit \in Nat /\ MaxOutput \in Nat
  BY DarwinAssumption, ProbeAssumption DEF Leader
<1>2. DarwinIInv
  BY <1>1 DEF DarwinIInv, DarwinOwnsItsGroup, DarwinTypeOK, LoopTypeOK, LeaderFirst, Unreaped,
              ForeignLast, Living
<1>3. WindowsIInv
  BY PlaceNames DEF WindowsIInv, WindowsOwnsAll, HandlesOwned, JobOwnsItsTree, WindowsTypeOK,
              LoopTypeOK, BornIntoJob, MadeSoFar, LoopOver
<1>4. ProbeIInv
  <2>1. ProbeTypeOK
    <3>1. windows \in BOOLEAN /\ code \in BOOLEAN
      OBVIOUS
    <3>2. life \in [Probed -> {"unborn", "running", "dying", "exited", "reaped"}]
      OBVIOUS
    <3>3. grouped \in [Probed -> BOOLEAN]
      OBVIOUS
    <3>4. writers \subseteq Probed /\ written \in 0 .. MaxOutput /\ taken \in 0 .. Limit + 1
      BY <1>1
    <3> QED
      BY <3>1, <3>2, <3>3, <3>4 DEF ProbeTypeOK
  <2> QED
    BY <1>1, <2>1 DEF ProbeIInv, ProbeIsSound, VersionIsWhole, ProbeLeavesNothing, ProbeOver,
              ProbeFirst, ReaderKnows, ProbeKnows, ReaderDone
<1> QED
  BY <1>2, <1>3, <1>4 DEF OwnersIInv, Unused

(* a step of one owner leaves the parts of the others as they were,        *)
LEMMA OwnersStep == OwnersIInv /\ [OwnersNext]_ownerVars => OwnersIInv'
<1> SUFFICES ASSUME OwnersIInv, [OwnersNext]_ownerVars
             PROVE  OwnersIInv'
  OBVIOUS
<1>0. DarwinIInv /\ WindowsIInv /\ ProbeIInv /\ Unused
  BY DEF OwnersIInv
<1>1. ASSUME UNCHANGED <<loopVars, darwinVars>>
      PROVE  DarwinIInv'
  BY <1>0, <1>1 DEF DarwinIInv, DarwinOwnsItsGroup, DarwinTypeOK, LoopTypeOK, LeaderFirst, Unreaped,
              ForeignLast, Living, loopVars, darwinVars, kernelVars, adapterVars
<1>2. ASSUME UNCHANGED <<loopVars, windowsVars>>
      PROVE  WindowsIInv'
  BY <1>0, <1>2 DEF WindowsIInv, WindowsOwnsAll, HandlesOwned, JobOwnsItsTree, WindowsTypeOK,
              LoopTypeOK, BornIntoJob, MadeSoFar, LoopOver, loopVars, windowsVars, jobVars,
              handleVars
<1>3. ASSUME UNCHANGED probeVars
      PROVE  ProbeIInv'
  BY <1>0, <1>3 DEF ProbeIInv, ProbeIsSound, VersionIsWhole, ProbeLeavesNothing, ProbeTypeOK, ProbeOver,
              ProbeFirst, ReaderKnows, ProbeKnows, ReaderDone, probeVars, probeProcessVars,
              probeThreadVars
<1>4. CASE OnDarwin(DarwinNext)
  <2>1. DarwinIInv'
    BY <1>0, <1>4, DarwinKeeps DEF OnDarwin
  <2>2. WindowsIInv'
    <3>1. opened = {} /\ spawn = "job" /\ UNCHANGED windowsVars
      BY <1>0, <1>4 DEF OnDarwin, Unused
    <3>2. LoopTypeOK'
      BY <2>1 DEF DarwinIInv, DarwinOwnsItsGroup
    <3> QED
      BY <1>0, <3>1, <3>2 DEF WindowsIInv, WindowsOwnsAll, HandlesOwned, JobOwnsItsTree, WindowsTypeOK,
              BornIntoJob, MadeSoFar, windowsVars, jobVars, handleVars
  <2>3. ProbeIInv' /\ Unused'
    BY <1>0, <1>3, <1>4 DEF OnDarwin, Unused, windowsVars, handleVars
  <2> QED
    BY <2>1, <2>2, <2>3 DEF OwnersIInv
<1>5. CASE OnWindows(WindowsNext)
  <2>1. WindowsIInv'
    BY <1>0, <1>5, WindowsKeeps DEF OnWindows
  <2>2. DarwinIInv'
    <3>1. LoopTypeOK' /\ UNCHANGED darwinVars
      BY <1>5, <2>1 DEF WindowsIInv, WindowsOwnsAll, HandlesOwned, OnWindows
    <3> QED
      BY <1>0, <3>1 DEF DarwinIInv, DarwinOwnsItsGroup, DarwinTypeOK, LeaderFirst, Unreaped,
              ForeignLast, Living, darwinVars, kernelVars, adapterVars
  <2>3. ProbeIInv' /\ Unused'
    BY <1>0, <1>3, <1>5 DEF OnWindows, Unused
  <2> QED
    BY <2>1, <2>2, <2>3 DEF OwnersIInv
<1>6. CASE OfProbe(ProbeNext)
  <2>1. ProbeIInv'
    BY <1>0, <1>6, BinaryKeeps, ReaderKeeps, ProberKeeps DEF OfProbe, ProbeNext
  <2>2. DarwinIInv' /\ WindowsIInv' /\ Unused'
    BY <1>0, <1>1, <1>2, <1>6 DEF OfProbe, commandVars, Unused, windowsVars, handleVars
  <2> QED
    BY <2>1, <2>2 DEF OwnersIInv
<1>7. CASE UNCHANGED ownerVars
  BY <1>0, <1>1, <1>2, <1>3, <1>7 DEF ownerVars, commandVars, OwnersIInv, Unused, windowsVars, handleVars
<1> QED
  BY <1>4, <1>5, <1>6, <1>7 DEF OwnersNext

(* hence it holds throughout.                                              *)
LEMMA OwnersInductive == OwnersSpec => []OwnersIInv
BY OwnersStart, OwnersStep, PTL DEF OwnersSpec

(* For any number of processes that fork, leave the group and exit when    *)
(* they like: on Darwin the leader of the group is reaped by close alone,  *)
(* when nobody of the group is left alive, and a number that has become    *)
(* that of a foreign group is never signalled (PosixCommand).              *)
THEOREM GroupOwned == OwnersSpec => []DarwinOwnsItsGroup
<1>1. OwnersIInv => DarwinOwnsItsGroup
  BY DEF OwnersIInv, DarwinIInv
<1> QED
  BY <1>1, OwnersInductive, PTL

(* For any number of processes and whatever call of _spawn or of its       *)
(* cleanup fails: on Windows every open handle is one the object can still *)
(* close, none is closed twice, and no process runs outside of a job that  *)
(* ends it; what was closed without an error leaves neither (_spawn,       *)
(* _cleanup_failed_spawn, close).                                          *)
THEOREM JobOwned == OwnersSpec => []WindowsOwnsAll
<1>1. OwnersIInv => WindowsOwnsAll
  BY DEF OwnersIInv, WindowsIInv
<1> QED
  BY <1>1, OwnersInductive, PTL

(* For any number of processes, any limit and any amount of output: a      *)
(* version is the whole output, within the limit, of a process that exited *)
(* with zero, and a probe that is over has reaped its process and, where   *)
(* there are process groups, left none of its group running                *)
(* (_read_bounded_version_output).                                         *)
THEOREM ProbeSound == OwnersSpec => []ProbeIsSound
<1>1. OwnersIInv => ProbeIsSound
  BY DEF OwnersIInv, ProbeIInv
<1> QED
  BY <1>1, OwnersInductive, PTL
================================================================================
