------------------------- MODULE WorkspaceEffectsProofs ------------------------
(***************************************************************************)
(* Proofs about WorkspaceEffects for any sets of commands, file operations,*)
(* cancels, paths and batches, and any number of writes by others: whoever *)
(* returns has joined the effect, receipts are what was published, and     *)
(* nothing is published after a stop that the batch could see.             *)
(***************************************************************************)
EXTENDS WorkspaceEffects, TLAPS, FiniteSetTheorems

--------------------------------------------------------------------------------
(* The inductive invariant of the tools                                    *)

UnderWay == {"admitting", "running"}

Joining == {"waiting", "stopping", "settling"}

(* The active operation is the one whose execute is not over; no other is  *)
(* under way.                                                              *)
ActiveIsCalled ==
    /\ \A o \in Operations : place[o] \in Joining => active = o /\ task[o] = o
    /\ \A o \in Operations : active = o => place[o] \in Joining
    /\ \A o \in Operations : place[o] = "idle" <=> inner[o] = "none"
    /\ \A o \in Operations : inner[o] \in UnderWay => active = o

(* A thread runs only while its operation does, and says how it ended.     *)
ThreadsOwned ==
    /\ \A o \in Operations : inner[o] \in {"none", "admitting", "empty"} => worker[o] = "none"
    /\ \A o \in Operations : inner[o] = "running" => worker[o] # "none"
    /\ \A o \in Operations : inner[o] = "effects" => worker[o] = "ended"
    /\ \A o \in Operations : inner[o] = "raised" => worker[o] \in {"none", "failed"}
    /\ \A o \in Commands : inner[o] = "running" <=> command = o

(* Who joins a command joins the operation it belongs to.                  *)
JoinsOwn ==
    /\ \A t \in Tasks : place[t] \in {"stopping", "settling"} =>
           task[t] \in Operations /\ inner[task[t]] # "none"
    /\ \A t \in Tasks : place[t] = "stopping" => shell[t] = task[t] /\ shell[t] \in Commands
    /\ \A t \in Tasks : place[t] = "closing" => t = Closer
    /\ \A t \in Tasks : place[t] = "idle" => task[t] = Nobody

(* Once close was called nothing starts, and what close joins is all that  *)
(* can be under way.                                                       *)
ClosingStops ==
    /\ place[Closer] # "idle" => closed
    /\ place[Closer] \in {"stopping", "settling"} =>
           \A o \in Operations : inner[o] \in UnderWay => o = task[Closer]
    /\ place[Closer] \in {"closing"} \cup Over =>
           \A o \in Operations : inner[o] \notin UnderWay

(* The types but for the flags, which are Boolean.                         *)
ToolTypes ==
    /\ active \in Operations \cup {Nobody} /\ command \in Commands \cup {Nobody}
    /\ stopped \subseteq Operations
    /\ inner \in [Operations -> {"none", "admitting", "running", "effects", "empty", "raised"}]
    /\ worker \in [Operations -> {"none", "running", "ended", "failed"}]
    /\ place \in [Tasks -> {"idle", "waiting", "stopping", "settling", "closing"} \cup Over]
    /\ task \in [Tasks -> Operations \cup {Nobody}]
    /\ shell \in [Tasks -> Commands \cup {Nobody}]

ToolFlags == closed \in BOOLEAN /\ retired \in BOOLEAN /\ failed \in BOOLEAN

ToolRest == ActiveIsCalled /\ ThreadsOwned /\ JoinsOwn /\ ClosingStops /\ ResultKept /\ CancelJoins

ToolsIInv == ToolTypes /\ ToolRest

--------------------------------------------------------------------------------
(* The inductive invariant of the batch                                    *)

InItem == {"staging", "staged", "linking", "comparing", "renaming", "published", "abandoning"}

(* One commit for each receipt and each item before the one under way.     *)
Counted ==
    /\ at \in InItem => next <= Len(batch)
    /\ Len(commits) = Len(receipts) + (IF at = "published" THEN 1 ELSE 0)
    /\ at # "done" => Len(receipts) = next - 1

(* A receipt says what its commit was; the commit under way is known.      *)
Told ==
    /\ \A i \in 1 .. Len(receipts) :
           receipts[i].path = commits[i].path /\ receipts[i].after = commits[i].after
    /\ at = "published" =>
           /\ commits[next].path = batch[next].path
           /\ commits[next].after = Batch!After(batch[next], before)

(* Creations are linked, edits are renamed.                                *)
Kinds ==
    /\ at = "linking" => batch[next].creates
    /\ at \in {"comparing", "renaming"} => ~batch[next].creates

(* A stop that comes between the last look at it and the commit is owed.   *)
StopOwed == stop /\ at \in {"linking", "renaming"} => owed

(* The thread of the file operation is where its batch is, and the stop    *)
(* event of the operation is the one the batch looks at.                   *)
BatchInThread ==
    /\ worker[File] = "none" => at = "item"
    /\ worker[File] \in {"ended", "failed"} => at = "done"
    /\ File \in stopped /\ at # "done" => stop

BatchTypes ==
    /\ batch \in Batches /\ next \in 1 .. Len(batch) + 1
    /\ disk \in [Paths -> Batch!Contents \cup {Batch!Absent}]
    /\ at \in {"item", "done"} \cup InItem
    /\ before \in Batch!Contents \cup {Batch!Absent}
    /\ litter \in 0 .. 1
    /\ staged => at \notin {"item", "staging", "done"}
    /\ failure \in Batch!Failures
    /\ receipts \in Seq(Batch!Commits) /\ commits \in Seq(Batch!Commits)
    /\ writes \in 0 .. MaxWrites

BatchFlags == staged \in BOOLEAN /\ stop \in BOOLEAN /\ owed \in BOOLEAN

BatchRest == Counted /\ Told /\ Kinds /\ StopOwed /\ Batch!CreationKeepsFiles

BatchIInv == BatchTypes /\ BatchRest

--------------------------------------------------------------------------------
(* The tools                                                               *)

LEMMA Roles ==
    /\ Nobody \notin Tasks /\ Closer \in Tasks /\ Operations \subseteq Tasks /\ Cancels \subseteq Tasks
    /\ Commands \subseteq Operations /\ FileWork \subseteq Operations
    /\ \A o \in Commands : o \notin FileWork
    /\ \A o \in Operations : o # Closer /\ o \notin Cancels
    /\ Closer \notin Cancels /\ Nobody \notin Operations /\ Nobody \notin Commands
BY ToolsAssumption DEF Operations, Tasks

LEMMA ToolFlagsStep == ASSUME ToolFlags, [ToolsNext]_toolVars PROVE ToolFlags'
<1> USE DEF ToolFlags
<1>1. CASE ResumesTask
  BY <1>1, Zenon DEF ResumesTask, Admit, Collect, ExecuteReturns, ShellJoined, TaskJoined,
     CloseEnds, GoesOn
<1>2. CASE CallsTools
  BY <1>2, Zenon DEF CallsTools, Execute, ExecuteCancelled, Cancel, Close, GoesOn
<1>3. CASE \E o \in Operations : WorkerEnds(o)
  BY <1>3, Zenon DEF WorkerEnds
<1>4. CASE UNCHANGED toolVars
  BY <1>4, Zenon DEF toolVars
<1> QED
  BY <1>1, <1>2, <1>3, <1>4 DEF ToolsNext

LEMMA AdmitStep ==
    ASSUME ToolTypes, ToolRest, NEW o \in Operations, Admit(o)
    PROVE  ToolTypes' /\ ToolRest'
<1> USE Roles
<1>1. PICK how \in {"empty", "raised", "running"} :
          /\ inner[o] = "admitting" /\ inner' = [inner EXCEPT ![o] = how]
          /\ UNCHANGED <<closed, active, stopped, place, task, shell>>
          /\ \/ how # "running" /\ UNCHANGED <<worker, command>>
             \/ /\ how = "running" /\ worker' = [worker EXCEPT ![o] = "running"]
                /\ \/ o \in Commands /\ command = Nobody /\ command' = o
                   \/ o \in FileWork /\ UNCHANGED command
  BY DEF Admit, AdmitCommand, Starts, Finishes
<1>2. ToolTypes'
  BY <1>1 DEF ToolTypes
<1>3. active = o /\ place[o] # "idle" /\ worker[o] = "none"
  BY <1>1 DEF ToolRest, ActiveIsCalled, ThreadsOwned, UnderWay
<1>4. ActiveIsCalled'
  BY <1>1, <1>3 DEF ToolTypes, ToolRest, ActiveIsCalled, UnderWay
<1>5. ThreadsOwned'
  BY <1>1, <1>3 DEF ToolTypes, ToolRest, ThreadsOwned
<1>6. JoinsOwn'
  BY <1>1 DEF ToolTypes, ToolRest, JoinsOwn
<1>7. ClosingStops'
  BY <1>1 DEF ToolTypes, ToolRest, ClosingStops, UnderWay
<1>8. ResultKept' /\ CancelJoins'
  BY <1>1, <1>3 DEF ToolTypes, ToolRest, ResultKept, CancelJoins, Done, Running
<1> QED
  BY <1>2, <1>4, <1>5, <1>6, <1>7, <1>8 DEF ToolRest

LEMMA ThreadStep ==
    ASSUME ToolTypes, ToolRest, NEW o \in Operations, WorkerEnds(o)
    PROVE  ToolTypes' /\ ToolRest'
<1> USE Roles
<1>1. PICK how \in {"ended", "failed"} :
          /\ worker[o] = "running" /\ worker' = [worker EXCEPT ![o] = how]
          /\ UNCHANGED <<closed, active, stopped, inner, command, place, task, shell>>
  BY DEF WorkerEnds, Running
<1>2. ToolTypes'
  BY <1>1 DEF ToolTypes
<1>3. inner[o] = "running"
  BY <1>1 DEF ToolTypes, ToolRest, ThreadsOwned
<1>4. ActiveIsCalled' /\ JoinsOwn' /\ ClosingStops'
  BY <1>1 DEF ToolRest, ActiveIsCalled, JoinsOwn, ClosingStops
<1>5. ThreadsOwned'
  BY <1>1, <1>3 DEF ToolTypes, ToolRest, ThreadsOwned
<1>6. ResultKept' /\ CancelJoins'
  BY <1>1, <1>3 DEF ToolTypes, ToolRest, ResultKept, CancelJoins, Done, Running
<1> QED
  BY <1>2, <1>4, <1>5, <1>6 DEF ToolRest

LEMMA CollectStep ==
    ASSUME ToolTypes, ToolRest, NEW o \in Operations, Collect(o)
    PROVE  ToolTypes' /\ ToolRest'
<1> USE Roles
<1>1. PICK how \in {"effects", "raised"} :
          /\ inner[o] = "running" /\ inner' = [inner EXCEPT ![o] = how]
          /\ worker[o] # "running" /\ how = (IF worker[o] = "ended" THEN "effects" ELSE "raised")
          /\ command' = (IF o \in Commands THEN Nobody ELSE command)
          /\ UNCHANGED <<closed, active, stopped, worker, place, task, shell>>
  BY DEF Collect, Finishes, Running
<1>2. ToolTypes'
  BY <1>1 DEF ToolTypes
<1>3. /\ active = o /\ place[o] # "idle" /\ worker[o] # "none"
      /\ how = "effects" => worker[o] = "ended"
      /\ how = "raised" => worker[o] = "failed"
  BY <1>1 DEF ToolTypes, ToolRest, ActiveIsCalled, ThreadsOwned, UnderWay
<1>4. ActiveIsCalled'
  BY <1>1, <1>3 DEF ToolTypes, ToolRest, ActiveIsCalled, UnderWay
<1>5. ThreadsOwned'
  BY <1>1, <1>3 DEF ToolTypes, ToolRest, ThreadsOwned
<1>6. JoinsOwn'
  BY <1>1 DEF ToolTypes, ToolRest, JoinsOwn
<1>7. ClosingStops'
  BY <1>1 DEF ToolTypes, ToolRest, ClosingStops, UnderWay
<1>8. ResultKept' /\ CancelJoins'
  BY <1>1, <1>3 DEF ToolTypes, ToolRest, ResultKept, CancelJoins, Done, Running
<1> QED
  BY <1>2, <1>4, <1>5, <1>6, <1>7, <1>8 DEF ToolRest

LEMMA ExecuteStep ==
    ASSUME ToolTypes, ToolRest, NEW o \in Operations, Execute(o)
    PROVE  ToolTypes' /\ ToolRest'
<1> USE Roles
<1>1. /\ place[o] = "idle" /\ ~closed /\ active = Nobody
      /\ active' = o /\ inner' = [inner EXCEPT ![o] = "admitting"]
      /\ place' = [place EXCEPT ![o] = "waiting"] /\ task' = [task EXCEPT ![o] = o]
      /\ UNCHANGED <<closed, stopped, worker, command, shell>>
  BY DEF Execute, Open, Free, Finishes, Moves
<1>2. ToolTypes'
  BY <1>1 DEF ToolTypes
<1>3. inner[o] = "none" /\ worker[o] = "none" /\ \A other \in Operations : inner[other] \notin UnderWay
  BY <1>1 DEF ToolRest, ActiveIsCalled, ThreadsOwned, UnderWay
<1>4. ActiveIsCalled'
  BY <1>1, <1>3 DEF ToolTypes, ToolRest, ActiveIsCalled, UnderWay, Joining
<1>5. ThreadsOwned'
  BY <1>1, <1>3 DEF ToolTypes, ToolRest, ThreadsOwned
<1>6. JoinsOwn'
  BY <1>1 DEF ToolTypes, ToolRest, JoinsOwn
<1>7. ClosingStops'
  BY <1>1 DEF ToolTypes, ToolRest, ClosingStops, UnderWay, Over
<1>8. ResultKept'
  BY <1>1 DEF ToolTypes, ToolRest, ResultKept, Done, Running, Over
<1>9. CancelJoins'
  BY <1>1, <1>3 DEF ToolTypes, ToolRest, CancelJoins, Done
<1> QED
  BY <1>2, <1>4, <1>5, <1>6, <1>7, <1>8, <1>9 DEF ToolRest

LEMMA ReturnsStep ==
    ASSUME ToolTypes, ToolRest, NEW o \in Operations, ExecuteReturns(o)
    PROVE  ToolTypes' /\ ToolRest'
<1> USE Roles
<1>1. PICK how \in {"raised", "returned"} :
          /\ place[o] = "waiting" /\ inner[o] \in {"effects", "empty", "raised"}
          /\ how = "raised" <=> inner[o] = "raised"
          /\ active' = Nobody /\ place' = [place EXCEPT ![o] = how]
          /\ UNCHANGED <<closed, stopped, inner, worker, command, task, shell>>
  BY DEF ExecuteReturns, Ends, Moves, Done
<1>2. ToolTypes'
  BY <1>1 DEF ToolTypes, Over
<1>3. active = o
  BY <1>1 DEF ToolRest, ActiveIsCalled, Joining
<1>4. ActiveIsCalled'
  BY <1>1, <1>3 DEF ToolTypes, ToolRest, ActiveIsCalled, UnderWay, Joining
<1>5. ThreadsOwned' /\ ClosingStops' /\ CancelJoins'
  BY <1>1 DEF ToolTypes, ToolRest, ThreadsOwned, ClosingStops, CancelJoins, Done
<1>6. JoinsOwn'
  BY <1>1 DEF ToolTypes, ToolRest, JoinsOwn
<1>7. ResultKept'
  BY <1>1 DEF ToolTypes, ToolRest, ResultKept, ThreadsOwned, Done, Running
<1> QED
  BY <1>2, <1>4, <1>5, <1>6, <1>7 DEF ToolRest

(* Whoever starts to join the active operation joins the one that runs.    *)
LEMMA JoinStep ==
    ASSUME ToolTypes, ToolRest, NEW t \in Tasks, NEW o \in Operations, active = o,
           \/ t = o /\ place[t] = "waiting"
           \/ t \in Cancels \cup {Closer} /\ place[t] = "idle",
           StartsToJoin(t, o), t = Closer => closed', closed => closed',
           UNCHANGED <<active, inner, worker, command>>
    PROVE  ToolTypes' /\ ToolRest'
<1> USE Roles
<1>1. PICK where \in {"settling", "stopping"} :
          /\ place' = [place EXCEPT ![t] = where] /\ stopped' = stopped \cup {o}
          /\ task' = [task EXCEPT ![t] = o] /\ shell' = [shell EXCEPT ![t] = command]
          /\ where = "stopping" => command # Nobody
  BY DEF StartsToJoin, Moves
<1>2. ToolTypes'
  BY <1>1 DEF ToolTypes
<1>3. /\ inner[o] # "none" /\ \A other \in Operations : inner[other] \in UnderWay => other = o
      /\ command # Nobody => command = o
  BY DEF ToolTypes, ToolRest, ActiveIsCalled, ThreadsOwned, UnderWay, Joining
<1>4. t \in Operations => t = o
  OBVIOUS
<1>5. ActiveIsCalled'
  BY <1>1, <1>3, <1>4 DEF ToolTypes, ToolRest, ActiveIsCalled, Joining
<1>6. ThreadsOwned'
  BY DEF ToolRest, ThreadsOwned
<1>7. JoinsOwn'
  <2>1. command # Nobody => command \in Commands
    BY DEF ToolTypes
  <2> QED
    BY <1>1, <1>3, <2>1 DEF ToolTypes, ToolRest, JoinsOwn
<1>8. ClosingStops'
  BY <1>1, <1>3 DEF ToolTypes, ToolRest, ClosingStops, Over
<1>9. ResultKept' /\ CancelJoins'
  BY <1>1 DEF ToolTypes, ToolRest, ResultKept, CancelJoins, Done, Running, Over
<1> QED
  BY <1>2, <1>5, <1>6, <1>7, <1>8, <1>9 DEF ToolRest

(* A task whose join is over, with the operation it joined done, ends or   *)
(* goes on to the commands.                                                *)
LEMMA JoinedStep ==
    ASSUME ToolTypes, ToolRest, NEW t \in Tasks, NEW how \in Over,
           place[t] \in {"stopping", "settling"}, Done(task[t]),
           how = "raised" <=> inner[task[t]] = "raised", GoesOn(t, how),
           UNCHANGED <<closed, stopped, inner, worker, command, task>>
    PROVE  ToolTypes' /\ ToolRest'
<1> USE Roles
<1>1. task[t] \in Operations /\ (t \in Operations => task[t] = t /\ active = t)
  BY DEF ToolRest, JoinsOwn, ActiveIsCalled, Joining
<1>2. CASE t = Closer
  <2>1. /\ place' = [place EXCEPT ![t] = "closing"] /\ shell' = [shell EXCEPT ![t] = command]
        /\ UNCHANGED active
    BY <1>2 DEF GoesOn, Moves
  <2>2. ToolTypes'
    BY <2>1 DEF ToolTypes
  <2>3. \A o \in Operations : inner[o] \notin UnderWay
    BY <1>2 DEF ToolRest, ClosingStops, Done, UnderWay
  <2>4. ActiveIsCalled' /\ ThreadsOwned'
    BY <1>2, <2>1 DEF ToolTypes, ToolRest, ActiveIsCalled, ThreadsOwned
  <2>5. JoinsOwn'
    BY <1>2, <2>1 DEF ToolTypes, ToolRest, JoinsOwn
  <2>6. ClosingStops'
    BY <1>2, <2>1, <2>3 DEF ToolTypes, ToolRest, ClosingStops
  <2>7. ResultKept' /\ CancelJoins'
    BY <1>2, <2>1 DEF ToolTypes, ToolRest, ResultKept, CancelJoins, Done, Running
  <2> QED
    BY <2>2, <2>4, <2>5, <2>6, <2>7 DEF ToolRest
<1>3. CASE t # Closer
  <2>1. /\ place' = [place EXCEPT ![t] = how] /\ UNCHANGED shell
        /\ active' = (IF t \in Operations THEN Nobody ELSE active)
    BY <1>3 DEF GoesOn, Ends, Moves
  <2>2. ToolTypes'
    BY <2>1 DEF ToolTypes
  <2>3. ActiveIsCalled'
    BY <1>1, <2>1 DEF ToolTypes, ToolRest, ActiveIsCalled, Done, UnderWay, Over, Joining
  <2>4. ThreadsOwned' /\ ClosingStops'
    BY <1>3, <2>1 DEF ToolTypes, ToolRest, ThreadsOwned, ClosingStops
  <2>5. JoinsOwn'
    BY <2>1 DEF ToolTypes, ToolRest, JoinsOwn, Over
  <2>6. ResultKept'
    BY <1>1, <2>1 DEF ToolTypes, ToolRest, ResultKept, ThreadsOwned, Done, Running
  <2>7. CancelJoins'
    BY <1>1, <2>1 DEF ToolTypes, ToolRest, CancelJoins, Done
  <2> QED
    BY <2>2, <2>3, <2>4, <2>5, <2>6, <2>7 DEF ToolRest
<1> QED
  BY <1>2, <1>3

LEMMA ShellStep ==
    ASSUME ToolTypes, ToolRest, NEW t \in Tasks, ShellJoined(t)
    PROVE  ToolTypes' /\ ToolRest'
<1> USE Roles
<1>1. shell[t] = task[t] /\ task[t] \in Commands /\ inner[task[t]] # "running" /\ inner[task[t]] # "none"
      /\ place[t] = "stopping" /\ UNCHANGED <<closed, stopped, inner, worker, command, task>>
  BY DEF ShellJoined, ShellOver, ToolRest, JoinsOwn
<1>2. CASE worker[shell[t]] = "failed"
  <2>1. inner[task[t]] = "raised"
    BY <1>1, <1>2 DEF ToolTypes, ToolRest, ThreadsOwned
  <2> QED
    BY <1>1, <1>2, <2>1, JoinedStep DEF ShellJoined, Done, Over
<1>3. CASE worker[shell[t]] # "failed"
  <2>1. place' = [place EXCEPT ![t] = "settling"] /\ UNCHANGED <<active, shell>>
    BY <1>3 DEF ShellJoined, Moves
  <2>2. ToolTypes'
    BY <1>1, <2>1 DEF ToolTypes
  <2>3. ActiveIsCalled' /\ ThreadsOwned'
    BY <1>1, <2>1 DEF ToolTypes, ToolRest, ActiveIsCalled, ThreadsOwned, Joining
  <2>4. JoinsOwn'
    BY <1>1, <2>1 DEF ToolTypes, ToolRest, JoinsOwn
  <2>5. ClosingStops'
    BY <1>1, <2>1 DEF ToolTypes, ToolRest, ClosingStops, Over
  <2>6. ResultKept' /\ CancelJoins'
    BY <1>1, <2>1 DEF ToolTypes, ToolRest, ResultKept, CancelJoins, Done, Running, Over
  <2> QED
    BY <2>2, <2>3, <2>4, <2>5, <2>6 DEF ToolRest
<1> QED
  BY <1>2, <1>3

LEMMA TaskStep ==
    ASSUME ToolTypes, ToolRest, NEW t \in Tasks, TaskJoined(t)
    PROVE  ToolTypes' /\ ToolRest'
<1> DEFINE how == IF inner[task[t]] = "raised" THEN "raised"
                  ELSE IF t \in Operations THEN "cancelled" ELSE "returned"
<1>1. how \in Over /\ (how = "raised" <=> inner[task[t]] = "raised") /\ GoesOn(t, how)
  BY DEF TaskJoined, Over
<1> HIDE DEF how
<1> QED
  BY <1>1, JoinedStep DEF TaskJoined, Settled

(* A cancel that finds nothing is over; a close that finds nothing retires *)
(* the commands; and a close that has retired them waits for the last one. *)
LEMMA NothingToJoinStep ==
    ASSUME ToolTypes, ToolRest,
           \/ \E t \in Cancels : Cancel(t) /\ active = Nobody
           \/ Close /\ active = Nobody
           \/ CloseEnds
    PROVE  ToolTypes' /\ ToolRest'
<1> USE Roles
<1>1. PICK t \in Cancels \cup {Closer}, where \in {"closing", "returned", "raised"} :
          /\ place' = [place EXCEPT ![t] = where]
          /\ UNCHANGED <<active, stopped, inner, worker, command, task>>
          /\ \/ t \in Cancels /\ place[t] = "idle" /\ where = "returned" /\ UNCHANGED <<closed,
                                                                                        shell>>
             \/ /\ t = Closer /\ place[t] = "idle" /\ where = "closing" /\ active = Nobody /\ closed'
                /\ shell' = [shell EXCEPT ![t] = command]
             \/ /\ t = Closer /\ place[t] = "closing" /\ where \in {"returned", "raised"}
                /\ UNCHANGED <<closed, shell>>
  BY DEF Cancel, Close, CloseEnds, GoesOn, Moves
<1>2. ToolTypes'
  BY <1>1 DEF ToolTypes, Over
<1>3. \A o \in Operations : place'[o] = place[o]
  BY <1>1 DEF ToolTypes
<1>4. ActiveIsCalled' /\ ThreadsOwned'
  BY <1>1, <1>3 DEF ToolRest, ActiveIsCalled, ThreadsOwned
<1>5. JoinsOwn'
  BY <1>1 DEF ToolTypes, ToolRest, JoinsOwn
<1>6. ClosingStops'
  BY <1>1 DEF ToolTypes, ToolRest, ClosingStops, ActiveIsCalled, Over
<1>7. ResultKept'
  BY <1>1, <1>3 DEF ToolRest, ResultKept, Done, Running
<1>8. CancelJoins'
  BY <1>1 DEF ToolTypes, ToolRest, CancelJoins, Done, JoinsOwn, Over
<1> QED
  BY <1>2, <1>4, <1>5, <1>6, <1>7, <1>8 DEF ToolRest

LEMMA ToolsStep == ASSUME ToolsIInv, [ToolsNext]_toolVars PROVE ToolsIInv'
<1> USE DEF ToolsIInv
<1>1. ASSUME NEW o \in Operations,
             Admit(o) \/ Collect(o) \/ ExecuteReturns(o) \/ WorkerEnds(o) \/ Execute(o)
      PROVE  ToolsIInv'
  BY <1>1, AdmitStep, CollectStep, ReturnsStep, ThreadStep, ExecuteStep
<1>2. ASSUME NEW t \in Tasks, ShellJoined(t) \/ TaskJoined(t)
      PROVE  ToolsIInv'
  BY <1>2, ShellStep, TaskStep
<1>3. ASSUME NEW o \in Operations, ExecuteCancelled(o)
      PROVE  ToolsIInv'
  <2>1. active = o
    BY <1>3 DEF ExecuteCancelled, ToolRest, ActiveIsCalled, Joining
  <2>2. /\ o \in Tasks /\ place[o] = "waiting" /\ StartsToJoin(o, o) /\ o # Closer
        /\ UNCHANGED <<closed, active, inner, worker, command>>
    BY <1>3, Roles DEF ExecuteCancelled
  <2>3. ToolTypes' /\ ToolRest'
    BY <2>1, <2>2, JoinStep
  <2> QED
    BY <2>3
<1>4. ASSUME NEW t \in Cancels, Cancel(t)
      PROVE  ToolsIInv'
  <2>1. CASE active = Nobody
    BY <1>4, <2>1, NothingToJoinStep
  <2>2. CASE active # Nobody
    <3>1. active \in Operations
      BY <2>2 DEF ToolTypes
    <3> QED
      BY <1>4, <2>2, <3>1, Roles, JoinStep DEF Cancel
  <2> QED
    BY <2>1, <2>2
<1>5. CASE Close
  <2>1. CASE active = Nobody
    BY <1>5, <2>1, NothingToJoinStep
  <2>2. CASE active # Nobody
    <3>1. active \in Operations
      BY <2>2 DEF ToolTypes
    <3> QED
      BY <1>5, <2>2, <3>1, Roles, JoinStep DEF Close
  <2> QED
    BY <2>1, <2>2
<1>6. CASE CloseEnds
  BY <1>6, NothingToJoinStep
<1>7. CASE UNCHANGED toolVars
  <2> USE <1>7 DEF toolVars, ToolRest
  <2>1. ToolTypes'
    BY DEF ToolTypes
  <2>2. ActiveIsCalled' /\ ThreadsOwned' /\ JoinsOwn' /\ ClosingStops'
    BY DEF ActiveIsCalled, ThreadsOwned, JoinsOwn, ClosingStops
  <2>3. ResultKept' /\ CancelJoins'
    BY DEF ResultKept, CancelJoins, Done, Running
  <2> QED
    BY <2>1, <2>2, <2>3
<1> HIDE DEF ToolsIInv
<1> QED
  BY <1>1, <1>2, <1>3, <1>4, <1>5, <1>6, <1>7 DEF ToolsNext, ResumesTask, CallsTools

(* The batch and other writers leave the tools alone.                      *)
LEMMA EffectsAreTools == [EffectsNext]_effectVars => [ToolsNext]_toolVars
BY DEF EffectsNext, WithStop, ThreadEnds, BatchStep, OthersWrite, ToolsNext, effectVars

LEMMA ToolsInductive == EffectsSpec => []ToolsIInv /\ []ToolFlags
<1>1. ToolsInit => ToolsIInv /\ ToolFlags
  <2> SUFFICES ASSUME ToolsInit PROVE ToolsIInv /\ ToolFlags
    OBVIOUS
  <2> USE Roles DEF ToolsInit
  <2>1. ToolTypes
    BY DEF ToolTypes
  <2>2. ActiveIsCalled /\ ThreadsOwned
    BY DEF ActiveIsCalled, ThreadsOwned, Joining, UnderWay
  <2>3. JoinsOwn /\ ClosingStops
    BY DEF JoinsOwn, ClosingStops, Over
  <2>4. ResultKept /\ CancelJoins
    BY DEF ResultKept, CancelJoins, Over
  <2>5. ToolFlags
    BY Zenon DEF ToolFlags
  <2> QED
    BY <2>1, <2>2, <2>3, <2>4, <2>5 DEF ToolsIInv, ToolRest
<1>2. ToolsIInv /\ [EffectsNext]_effectVars => ToolsIInv'
  BY EffectsAreTools, ToolsStep
<1>3. ToolFlags /\ [EffectsNext]_effectVars => ToolFlags'
  BY EffectsAreTools, ToolFlagsStep
<1> QED
  BY <1>1, <1>2, <1>3, PTL DEF EffectsSpec, EffectsInit

(* Whatever is cancelled, denied or fails, and whenever close is called:   *)
(* when execute is over its thread is, and its result is what the thread   *)
(* did; a cancel leaves nothing of the operation it was about; after close *)
(* nothing runs and nothing can start; effects do not overlap (execute,    *)
(* cancel, close, _cancel_owned, _settle).                                 *)
THEOREM EffectsJoined == EffectsSpec => []EffectsSettle
<1>1. ToolsIInv /\ ToolFlags => EffectsSettle
  <2> SUFFICES ASSUME ToolsIInv, ToolFlags PROVE EffectsSettle
    OBVIOUS
  <2> USE DEF ToolsIInv, ToolRest
  <2>1. ToolsTypeOK
    BY DEF ToolTypes, ToolFlags, ToolsTypeOK
  <2>2. OneEffect
    <3> DEFINE R == {o \in Operations : Running(o)}
    <3>1. R = {} \/ \E o \in Operations : R = {o}
      <4>1. \A o \in R : active = o
        BY DEF ToolTypes, ThreadsOwned, ActiveIsCalled, UnderWay, Running
      <4> QED
        BY <4>1
    <3>2. Cardinality(R) <= 1
      <4> HIDE DEF R
      <4>1. CASE R = {}
        BY <4>1, FS_EmptySet
      <4>2. ASSUME NEW o \in Operations, R = {o}
            PROVE  Cardinality(R) <= 1
        <5>1. Cardinality({o}) = 1
          BY FS_Singleton
        <5> QED
          BY <4>2, <5>1
      <4> QED
        BY <3>1, <4>1, <4>2
    <3> QED
      BY <3>2 DEF OneEffect, ThreadsOwned
  <2>3. CloseIsFinal
    BY DEF ClosingStops, CloseIsFinal, UnderWay
  <2> QED
    BY <2>1, <2>2, <2>3 DEF EffectsSettle, ToolsInv
<1> QED
  BY <1>1, ToolsInductive, PTL

--------------------------------------------------------------------------------
(* The batch                                                               *)

LEMMA BatchFlagsStep == ASSUME BatchFlags, [EffectsNext]_effectVars PROVE BatchFlags'
<1> USE DEF BatchFlags, filesVars, Batch!call
<1>1. CASE Batch!Worker
  BY <1>1, Zenon DEF Batch!Worker, Batch!NoMoreItems, Batch!ReadItem, Batch!Stage, Batch!Publish,
     Batch!Link,
     Batch!Compare, Batch!Rename, Batch!Unstage, Batch!UnstageAbandoned, Batch!Abandon, Batch!GoOn,
     Batch!Commit
<1>2. CASE Batch!Cancelled
  <2>1. owed' \in BOOLEAN
    BY <1>2 DEF Batch!Cancelled
  <2> QED
    BY <1>2, <2>1, Zenon DEF Batch!Cancelled
<1>3. ASSUME NEW path, Batch!OtherWrites(path)
      PROVE  BatchFlags'
  BY <1>3, Zenon DEF Batch!OtherWrites
<1>4. CASE UNCHANGED filesVars
  BY <1>4, Zenon
<1> QED
  BY <1>1, <1>2, <1>3, <1>4 DEF EffectsNext, WithStop, BatchStep, OthersWrite, effectVars

(* The item under way is one of the batch, and what it makes is a content. *)
LEMMA ItemIs ==
    ASSUME BatchTypes, next <= Len(batch)
    PROVE  /\ batch \in Seq(Batch!Items) /\ Len(batch) \in Nat /\ next \in Nat
           /\ batch[next] \in Batch!Items
           /\ Batch!After(batch[next], before) \in Batch!Contents
<1>1. batch \in Seq(Batch!Items)
  BY EffectsAssumption DEF BatchTypes, Batch!Items
<1>2. Len(batch) \in Nat /\ next \in Nat /\ batch[next] \in Batch!Items
  BY <1>1 DEF BatchTypes
<1>3. Batch!After(batch[next], before) \in Batch!Contents
  <2>1. 0 \in 0 .. MaxWrites
    BY EffectsAssumption
  <2>2. [part |-> "old", rest |-> 0] \in Batch!Contents
    BY <2>1 DEF Batch!Contents
  <2>3. before.rest \in 0 .. MaxWrites /\ [before EXCEPT !.part = "new"] = [part |-> "new", rest |-> before.rest]
    BY <2>1 DEF BatchTypes, Batch!Contents, Batch!Absent
  <2>4. [part |-> "new", rest |-> before.rest] \in Batch!Contents
    BY <2>3 DEF Batch!Contents
  <2> QED
    BY <2>2, <2>3, <2>4 DEF Batch!After
<1> QED
  BY <1>1, <1>2, <1>3

(* Where nothing is published and no receipt is given.                     *)
LEMMA WaitsStep ==
    ASSUME BatchRest, UNCHANGED <<batch, next, receipts, commits>>,
           at # "published", at' # "published", at = "done" => at' = "done",
           at' \in InItem => next <= Len(batch), Kinds', StopOwed'
    PROVE  BatchRest'
<1>1. Counted'
  BY DEF BatchRest, Counted
<1>2. Told' /\ Batch!CreationKeepsFiles'
  BY DEF BatchRest, Told, Batch!CreationKeepsFiles
<1> QED
  BY <1>1, <1>2 DEF BatchRest

LEMMA BeginsStep ==
    ASSUME BatchTypes, BatchRest, Batch!NoMoreItems \/ Batch!ReadItem \/ Batch!Stage
    PROVE  BatchTypes' /\ BatchRest'
<1>1. /\ at \in {"item", "staging"} /\ at' \in {"done", "staging", "staged"}
      /\ at' \in {"staging", "staged"} => next <= Len(batch)
      /\ failure' \in Batch!Failures /\ before' \in Batch!Contents \cup {Batch!Absent}
      /\ staged' => at' = "staged"
      /\ UNCHANGED <<batch, next, receipts, commits, disk, litter, stop, owed, writes>>
  <2>1. CASE Batch!NoMoreItems
    BY <2>1 DEF Batch!NoMoreItems, Batch!Ends, Batch!Failures, BatchTypes
  <2>2. CASE Batch!ReadItem
    <3>1. batch[next] \in Batch!Items
      BY <2>2, ItemIs DEF Batch!ReadItem
    <3>2. disk[batch[next].path] \in Batch!Contents \cup {Batch!Absent}
      BY <3>1 DEF BatchTypes, Batch!Items
    <3> QED
      BY <2>2, <3>2 DEF Batch!ReadItem, Batch!Ends, Batch!PathRefused, Batch!Failures, Batch!item,
         BatchTypes
  <2>3. CASE Batch!Stage
    BY <2>3 DEF Batch!Stage, Batch!Ends, Batch!call, Batch!Failures, BatchTypes, BatchRest, Counted,
       InItem
  <2> QED
    BY <2>1, <2>2, <2>3
<1>2. BatchTypes'
  BY <1>1 DEF BatchTypes, InItem
<1>3. Kinds' /\ StopOwed'
  BY <1>1 DEF Kinds, StopOwed
<1>4. at' \in InItem => next <= Len(batch)
  BY <1>1 DEF InItem
<1>5. BatchRest'
  BY <1>1, <1>3, <1>4, WaitsStep
<1> QED
  BY <1>2, <1>5

(* What is given up has only its staging file left.                        *)
LEMMA AbandonStep ==
    ASSUME BatchTypes, BatchRest, NEW why \in Batch!Failures, Batch!Abandon(why),
           at \in {"staged", "linking", "comparing", "renaming"}, UNCHANGED <<litter, stop, writes>>
    PROVE  BatchTypes' /\ BatchRest'
<1>1. /\ at' = "abandoning" /\ failure' = why
      /\ UNCHANGED <<batch, next, before, receipts, disk, staged, commits>>
  BY DEF Batch!Abandon
<1>2. BatchTypes'
  BY <1>1 DEF BatchTypes, InItem
<1>3. next <= Len(batch)
  BY DEF BatchRest, Counted, InItem
<1>4. BatchRest'
  BY <1>1, <1>3, WaitsStep DEF Kinds, StopOwed
<1> QED
  BY <1>2, <1>4

(* The worker goes on to the commit only past a look at the stop event.    *)
LEMMA GoOnStep ==
    ASSUME BatchTypes, BatchRest, NEW where \in {"linking", "comparing", "renaming"},
           Batch!GoOn(where),
           at \in {"staged", "comparing"}, ~stop,
           IF batch[next].creates THEN where = "linking" ELSE where # "linking",
           UNCHANGED <<litter, stop, writes>>
    PROVE  BatchTypes' /\ BatchRest'
<1>1. /\ at' = where
      /\ UNCHANGED <<batch, next, before, receipts, failure, disk, staged, commits>>
  BY DEF Batch!GoOn, Batch!call
<1>2. BatchTypes'
  BY <1>1 DEF BatchTypes, InItem
<1>3. next <= Len(batch)
  BY DEF BatchRest, Counted, InItem
<1>4. Kinds' /\ StopOwed'
  BY <1>1 DEF Kinds, StopOwed
<1>5. BatchRest'
  BY <1>1, <1>3, <1>4, WaitsStep
<1> QED
  BY <1>2, <1>5

(* A commit is the one of its item; a creation found nothing there.        *)
LEMMA CommitStep ==
    ASSUME BatchTypes, BatchRest, Batch!Commit, at \in {"linking", "renaming"},
           at = "linking" => Batch!Linkable, staged' => staged, UNCHANGED <<litter, stop, writes>>
    PROVE  BatchTypes' /\ BatchRest'
<1> DEFINE made == Batch!After(batch[next], before)
           entry == [path |-> batch[next].path, over |-> disk[batch[next].path], after |-> made]
<1>1. next <= Len(batch) /\ Len(commits) = next - 1 /\ Len(receipts) = next - 1
  BY DEF BatchTypes, BatchRest, Counted, InItem
<1>2. batch[next].path \in Paths /\ made \in Batch!Contents /\ next \in Nat
  BY <1>1, ItemIs DEF Batch!Items
<1>3. /\ disk' = [disk EXCEPT ![batch[next].path] = made] /\ commits' = Append(commits, entry)
      /\ at' = "published" /\ UNCHANGED <<batch, next, before, failure, receipts>>
      /\ at = "linking" => entry.over = Batch!Absent
  BY DEF Batch!Commit, Batch!call, Batch!item, Batch!Linkable
<1>4. entry \in Batch!Commits
  BY <1>2 DEF BatchTypes, Batch!Commits
<1>5. entry.path = batch[next].path /\ entry.after = made
  OBVIOUS
<1> HIDE DEF made, entry
<1>6. /\ commits \in Seq(Batch!Commits) /\ commits' \in Seq(Batch!Commits) /\ Len(commits') = next
      /\ commits'[next] = entry /\ \A i \in 1 .. next - 1 : commits'[i] = commits[i]
  BY <1>1, <1>2, <1>3, <1>4 DEF BatchTypes
<1>7. BatchTypes'
  BY <1>2, <1>3, <1>6 DEF BatchTypes, InItem
<1>8. Counted'
  BY <1>1, <1>2, <1>3, <1>6 DEF Counted
<1>9. Told'
  BY <1>1, <1>3, <1>5, <1>6 DEF BatchRest, Told, made
<1>10. Kinds' /\ StopOwed'
  BY <1>3 DEF Kinds, StopOwed
<1>11. Batch!CreationKeepsFiles'
  <2>1. batch[next].creates => entry.over = Batch!Absent
    BY <1>3 DEF BatchRest, Kinds
  <2>2. \A i \in 1 .. next - 1 : batch[i].creates => commits[i].over = Batch!Absent
    BY <1>1, <1>6 DEF BatchRest, Batch!CreationKeepsFiles
  <2> QED
    BY <1>2, <1>3, <1>6, <2>1, <2>2 DEF Batch!CreationKeepsFiles
<1> QED
  BY <1>7, <1>8, <1>9, <1>10, <1>11 DEF BatchRest

(* A published item is told of, whatever becomes of its staging file.      *)
LEMMA ReceiptStep ==
    ASSUME BatchTypes, BatchRest, Batch!Unstage
    PROVE  BatchTypes' /\ BatchRest'
<1> DEFINE made == Batch!After(batch[next], before)
           entry == [path |-> batch[next].path, over |-> before, after |-> made]
<1>1. next <= Len(batch) /\ Len(commits) = next /\ Len(receipts) = next - 1
  BY DEF BatchTypes, BatchRest, Counted, InItem, Batch!Unstage
<1>2. /\ batch[next].path \in Paths /\ made \in Batch!Contents /\ next \in Nat /\ Len(batch) \in Nat
  BY <1>1, ItemIs DEF Batch!Items
<1>3. /\ at = "published" /\ ~staged' /\ receipts' = Append(receipts, entry)
      /\ \/ at' = "item" /\ next' = next + 1 /\ UNCHANGED <<litter, failure>>
         \/ at' = "done" /\ next' = next /\ failure' = "staging_cleanup_failed" /\ litter' = 1
      /\ UNCHANGED <<batch, before, disk, commits, stop, owed, writes>>
  BY DEF Batch!Unstage, Batch!Receipted, Batch!CleanupOutcome, Batch!item
<1>4. entry \in Batch!Commits
  BY <1>2 DEF BatchTypes, Batch!Commits
<1>5. entry.path = batch[next].path /\ entry.after = made
  OBVIOUS
<1> HIDE DEF made, entry
<1>6. /\ receipts \in Seq(Batch!Commits) /\ receipts' \in Seq(Batch!Commits) /\ Len(receipts') = next
      /\ receipts'[next] = entry /\ \A i \in 1 .. next - 1 : receipts'[i] = receipts[i]
  BY <1>1, <1>2, <1>3, <1>4 DEF BatchTypes
<1>7. BatchTypes'
  BY <1>1, <1>2, <1>3, <1>6 DEF BatchTypes, InItem, Batch!Failures
<1>8. Counted'
  BY <1>1, <1>2, <1>3, <1>6 DEF Counted, InItem
<1>9. Told'
  <2>1. commits[next].path = entry.path /\ commits[next].after = entry.after
    BY <1>3, <1>5 DEF BatchRest, Told, made
  <2>2. \A i \in 1 .. next - 1 : receipts'[i].path = commits[i].path /\ receipts'[i].after = commits[i].after
    BY <1>1, <1>6 DEF BatchRest, Told
  <2> QED
    BY <1>2, <1>3, <1>6, <2>1, <2>2 DEF Told
<1>10. Kinds' /\ StopOwed' /\ Batch!CreationKeepsFiles'
  BY <1>3 DEF BatchRest, Kinds, StopOwed, Batch!CreationKeepsFiles
<1> QED
  BY <1>7, <1>8, <1>9, <1>10 DEF BatchRest

LEMMA UnstageStep ==
    ASSUME BatchTypes, BatchRest, Batch!UnstageAbandoned
    PROVE  BatchTypes' /\ BatchRest'
<1>1. /\ at = "abandoning" /\ at' = "done" /\ ~staged' /\ failure' \in {failure, "filesystem_error"}
      /\ litter' \in {litter, 1}
      /\ UNCHANGED <<batch, next, before, receipts, disk, commits, stop, owed, writes>>
  BY DEF Batch!UnstageAbandoned
<1>2. BatchTypes'
  BY <1>1 DEF BatchTypes, Batch!Failures
<1>3. BatchRest'
  BY <1>1, WaitsStep DEF Kinds, StopOwed, InItem
<1> QED
  BY <1>2, <1>3

LEMMA WorkerStep ==
    ASSUME BatchTypes, BatchRest, Batch!Worker
    PROVE  BatchTypes' /\ BatchRest'
<1> USE DEF Batch!item, Batch!Failures
<1>1. CASE Batch!NoMoreItems \/ Batch!ReadItem \/ Batch!Stage
  BY <1>1, BeginsStep
<1>2. CASE Batch!Publish
  <2>1. CASE ~stop /\ Batch!GoOn(IF batch[next].creates THEN "linking" ELSE "comparing")
    BY <1>2, <2>1, GoOnStep DEF Batch!Publish
  <2> QED
    BY <1>2, <2>1, AbandonStep DEF Batch!Publish
<1>3. CASE Batch!Link
  <2>1. CASE Batch!Linkable /\ Batch!Commit /\ UNCHANGED staged
    BY <1>3, <2>1, CommitStep DEF Batch!Link
  <2> QED
    BY <1>3, <2>1, AbandonStep DEF Batch!Link
<1>4. CASE Batch!Compare
  <2>1. CASE ~stop /\ Batch!GoOn("renaming")
    BY <1>4, <2>1, GoOnStep DEF Batch!Compare, BatchRest, Kinds
  <2> QED
    BY <1>4, <2>1, AbandonStep DEF Batch!Compare, Batch!StillWanted
<1>5. CASE Batch!Rename
  <2>1. CASE Batch!Commit /\ ~staged'
    BY <1>5, <2>1, CommitStep DEF Batch!Rename
  <2> QED
    BY <1>5, <2>1, AbandonStep DEF Batch!Rename
<1>6. CASE Batch!Unstage \/ Batch!UnstageAbandoned
  BY <1>6, ReceiptStep, UnstageStep
<1> QED
  BY <1>1, <1>2, <1>3, <1>4, <1>5, <1>6 DEF Batch!Worker

(* What others do to the batch: a stop, and writes beside it.              *)
LEMMA BesideStep ==
    ASSUME BatchTypes, BatchRest, Batch!Cancelled \/ \E path \in Paths : Batch!OtherWrites(path)
    PROVE  BatchTypes' /\ BatchRest'
<1> USE DEF Batch!call
<1>1. UNCHANGED <<batch, next, before, failure, receipts, at, staged, litter, commits>>
  BY DEF Batch!Cancelled, Batch!OtherWrites
<1>2. disk' \in [Paths -> Batch!Contents \cup {Batch!Absent}] /\ writes' \in 0 .. MaxWrites
  <2>1. CASE Batch!Cancelled
    BY <2>1 DEF Batch!Cancelled, BatchTypes
  <2>2. ASSUME NEW path \in Paths, Batch!OtherWrites(path)
        PROVE  disk' \in [Paths -> Batch!Contents \cup {Batch!Absent}] /\ writes' \in 0 .. MaxWrites
    <3>1. writes' = writes + 1 /\ writes' \in 0 .. MaxWrites
      BY <2>2, EffectsAssumption DEF Batch!OtherWrites, BatchTypes
    <3>2. PICK content \in {Batch!Absent} \cup [part : {"old", "new"}, rest : {writes + 1}] :
              disk' = [disk EXCEPT ![path] = content]
      BY <2>2 DEF Batch!OtherWrites
    <3>3. content \in Batch!Contents \cup {Batch!Absent}
      BY <3>1, <3>2 DEF Batch!Contents
    <3> QED
      BY <3>1, <3>2, <3>3 DEF BatchTypes
  <2> QED
    BY <2>1, <2>2
<1>3. BatchTypes'
  BY <1>1, <1>2 DEF BatchTypes
<1>4. Counted' /\ Told' /\ Kinds' /\ Batch!CreationKeepsFiles'
  BY <1>1 DEF BatchRest, Counted, Told, Kinds, Batch!CreationKeepsFiles
<1>5. StopOwed'
  <2>1. CASE Batch!Cancelled
    BY <2>1 DEF Batch!Cancelled, StopOwed
  <2>2. CASE \E path \in Paths : Batch!OtherWrites(path)
    BY <2>2 DEF Batch!OtherWrites, BatchRest, StopOwed
  <2> QED
    BY <2>1, <2>2
<1> QED
  BY <1>3, <1>4, <1>5 DEF BatchRest

LEMMA BatchStays ==
    ASSUME BatchTypes, BatchRest, UNCHANGED filesVars
    PROVE  BatchTypes' /\ BatchRest'
<1> USE DEF filesVars
<1>1. BatchTypes'
  BY DEF BatchTypes
<1>2. BatchRest'
  BY DEF BatchRest, Counted, Told, Kinds, StopOwed, Batch!CreationKeepsFiles
<1> QED
  BY <1>1, <1>2

LEMMA BatchIStep == ASSUME BatchIInv, [EffectsNext]_effectVars PROVE BatchIInv'
<1>1. Batch!Worker \/ Batch!Cancelled \/ (\E path \in Paths : Batch!OtherWrites(path)) \/ UNCHANGED filesVars
  BY DEF EffectsNext, WithStop, BatchStep, OthersWrite, effectVars
<1> QED
  BY <1>1, WorkerStep, BesideStep, BatchStays DEF BatchIInv

--------------------------------------------------------------------------------
(* Both together                                                           *)

(* A step of the tools moves the batch only by the stop event.             *)
LEMMA ToolsMoveBatch ==
    ASSUME NEW step, WithStop(step)
    PROVE  /\ UNCHANGED <<at, commits>> /\ (stop => stop')
           /\ File \in stopped' \ stopped /\ at # "done" => stop'
BY DEF WithStop, StopsBatch, Batch!Cancelled, Batch!call, filesVars

LEMMA InThreadStep ==
    ASSUME ToolsIInv, BatchIInv, BatchInThread, [EffectsNext]_effectVars
    PROVE  BatchInThread'
<1> USE Roles, EffectsAssumption DEF ToolsIInv, BatchIInv
<1>1. CASE BatchStep
  <2>1. worker[File] = "running" /\ UNCHANGED <<worker, stopped>>
    BY <1>1 DEF BatchStep, Running, toolVars
  <2>2. at' # "done" => at # "done"
    BY <1>1 DEF BatchStep, Batch!Worker, Batch!NoMoreItems, Batch!ReadItem, Batch!Stage,
       Batch!Publish, Batch!Link,
       Batch!Compare, Batch!Rename, Batch!Unstage, Batch!UnstageAbandoned
  <2>3. UNCHANGED stop
    BY <1>1 DEF BatchStep, Batch!Worker, Batch!NoMoreItems, Batch!ReadItem, Batch!Stage,
       Batch!Publish, Batch!Link,
       Batch!Compare, Batch!Rename, Batch!Unstage, Batch!UnstageAbandoned
  <2> QED
    BY <2>1, <2>2, <2>3 DEF BatchInThread
<1>2. ASSUME NEW path \in Paths, OthersWrite(path)
      PROVE  BatchInThread'
  BY <1>2 DEF OthersWrite, Batch!OtherWrites, BatchInThread, toolVars
<1>3. CASE WithStop(ThreadEnds)
  <2>1. PICK o \in Operations : Returned(o) /\ WorkerEnds(o)
    BY <1>3 DEF WithStop, ThreadEnds
  <2>2. /\ o = File => at = "done"
        /\ o # File => worker'[File] = worker[File]
        /\ UNCHANGED stopped
    BY <2>1 DEF Returned, WorkerEnds, ToolTypes
  <2> QED
    BY <1>3, <2>1, <2>2, ToolsMoveBatch DEF BatchInThread, WorkerEnds, ToolTypes
<1>4. CASE WithStop(ResumesTask) \/ WithStop(CallsTools)
  <2>1. worker'[File] = worker[File] \/ (worker[File] = "none" /\ worker'[File] = "running")
    <3>1. CASE \E o \in Operations : Admit(o)
      <4>1. PICK o \in Operations : Admit(o)
        BY <3>1
      <4>2. worker[o] = "none"
        BY <4>1 DEF Admit, ToolRest, ThreadsOwned
      <4>3. UNCHANGED worker \/ worker' = [worker EXCEPT ![o] = "running"]
        BY <4>1 DEF Admit, AdmitCommand, Starts
      <4> QED
        BY <4>2, <4>3 DEF ToolTypes
    <3>2. CASE ~\E o \in Operations : Admit(o)
      BY <1>4, <3>2 DEF WithStop, ResumesTask, CallsTools, Collect, ExecuteReturns, ShellJoined,
         TaskJoined,
         CloseEnds, Execute, ExecuteCancelled, Cancel, Close
    <3> QED
      BY <3>1, <3>2
  <2> QED
    BY <1>4, <2>1, ToolsMoveBatch DEF BatchInThread
<1>5. CASE UNCHANGED effectVars
  BY <1>5 DEF BatchInThread, effectVars, toolVars, filesVars
<1> QED
  BY <1>1, <1>2, <1>3, <1>4, <1>5 DEF EffectsNext

LEMMA BatchInductive == EffectsSpec => []BatchIInv /\ []BatchFlags /\ []BatchInThread
<1>1. EffectsInit => BatchIInv /\ BatchFlags /\ BatchInThread
  <2> SUFFICES ASSUME EffectsInit PROVE BatchIInv /\ BatchFlags /\ BatchInThread
    OBVIOUS
  <2> USE EffectsAssumption, Roles DEF EffectsInit, ToolsInit, Batch!FilesInit
  <2>1. Len(batch) \in Nat
    BY DEF BatchIInv
  <2>2. BatchTypes
    BY <2>1 DEF BatchTypes, Batch!Contents, Batch!Absent, Batch!Failures
  <2>3. Counted /\ Told /\ Kinds /\ StopOwed /\ Batch!CreationKeepsFiles
    BY DEF Counted, Told, Kinds, StopOwed, InItem, Batch!CreationKeepsFiles
  <2>4. BatchFlags
    BY Zenon DEF BatchFlags
  <2>5. BatchInThread
    BY DEF BatchInThread
  <2> QED
    BY <2>2, <2>3, <2>4, <2>5 DEF BatchIInv, BatchRest
<1>2. BatchIInv /\ [EffectsNext]_effectVars => BatchIInv'
  BY BatchIStep
<1>3. BatchFlags /\ [EffectsNext]_effectVars => BatchFlags'
  BY BatchFlagsStep
<1>4. ToolsIInv /\ BatchIInv /\ BatchInThread /\ [EffectsNext]_effectVars => BatchInThread'
  BY InThreadStep
<1> QED
  BY <1>1, <1>2, <1>3, <1>4, ToolsInductive, PTL DEF EffectsSpec

(* Whatever fails in a batch, its receipts are the files it published, in  *)
(* order; of a call that has returned, all it will ever publish, with no   *)
(* staging file left; and a creation never replaced a file (_file_batch,   *)
(* _publish).                                                              *)
THEOREM ReceiptsTruthful == EffectsSpec => []ReceiptsAreCommits
<1>1. ToolsIInv /\ BatchIInv /\ BatchFlags /\ BatchInThread => ReceiptsAreCommits
  <2> SUFFICES ASSUME ToolsIInv, BatchIInv, BatchFlags, BatchInThread PROVE ReceiptsAreCommits
    OBVIOUS
  <2>1. Batch!FilesInv
    <3>1. at \in {"item", "staging", "staged", "linking", "comparing", "renaming", "published",
                  "abandoning", "done"}
      BY DEF BatchIInv, BatchTypes, InItem
    <3>2. Batch!FilesTypeOK
      BY <3>1 DEF BatchIInv, BatchTypes, BatchFlags, Batch!FilesTypeOK
    <3> QED
      BY <3>2 DEF BatchIInv, BatchRest, Batch!FilesInv
  <2>2. ASSUME at \in {"item", "done"}
        PROVE  Batch!Published(receipts) = Batch!Published(commits)
    <3>1. receipts \in Seq(Batch!Commits) /\ commits \in Seq(Batch!Commits) /\ Len(commits) = Len(receipts)
      BY <2>2 DEF BatchIInv, BatchTypes, BatchRest, Counted
    <3>2. DOMAIN receipts = DOMAIN commits /\ DOMAIN receipts = 1 .. Len(receipts)
      BY <3>1
    <3>3. \A i \in DOMAIN receipts : receipts[i].path = commits[i].path /\ receipts[i].after = commits[i].after
      BY <3>2 DEF BatchIInv, BatchRest, Told
    <3> QED
      BY <3>2, <3>3 DEF Batch!Published
  <2>3. ASSUME place[File] \in Over
        PROVE  at \in {"item", "done"} /\ ~staged
    <3>1. worker[File] # "running" /\ worker[File] \in {"none", "running", "ended", "failed"}
      BY <2>3, EffectsAssumption, Roles DEF ToolsIInv, ToolTypes, ToolRest, ResultKept, Running
    <3> QED
      BY <3>1 DEF BatchInThread, BatchIInv, BatchTypes
  <2> QED
    BY <2>1, <2>2, <2>3 DEF ReceiptsAreCommits, Batch!ReceiptsAreCommits
<1> QED
  BY <1>1, ToolsInductive, BatchInductive, PTL

(* After the operation was told to stop only that is published which had   *)
(* passed its last look at the stop event; and nothing at all once its     *)
(* execute, a cancel of it or close has returned (_publish, _settle).      *)
THEOREM StopsPrevail == EffectsSpec => StopPrevails
<1> DEFINE Stopped == /\ File \in stopped => owed
                      /\ place[File] \notin Over /\ place[Closer] \notin Over
                      /\ \A t \in Cancels : task[t] = File => place[t] \notin Over
<1>1. ASSUME ToolsIInv, BatchIInv, BatchInThread, BatchStep, commits' # commits
      PROVE  Stopped
  <2> USE <1>1, EffectsAssumption, Roles DEF ToolsIInv, ToolRest
  <2>1. worker[File] = "running" /\ inner[File] = "running"
    BY DEF BatchStep, Running, ToolTypes, ThreadsOwned
  <2>2. at \in {"linking", "renaming"}
    BY DEF BatchStep, Batch!Worker, Batch!NoMoreItems, Batch!ReadItem, Batch!Stage, Batch!Publish,
       Batch!Link,
       Batch!Compare, Batch!Rename, Batch!Unstage, Batch!UnstageAbandoned, Batch!Abandon, Batch!GoOn
  <2>3. File \in stopped => owed
    BY <2>2 DEF BatchIInv, BatchRest, StopOwed, BatchInThread
  <2>4. place[File] \notin Over
    BY <2>1 DEF ResultKept, Done
  <2>5. place[Closer] \notin Over
    BY <2>1 DEF ClosingStops, UnderWay
  <2>6. ASSUME NEW t \in Cancels, task[t] = File
        PROVE  place[t] \notin Over
    BY <2>1, <2>6 DEF CancelJoins, Done
  <2> QED
    BY <2>3, <2>4, <2>5, <2>6
<1>2. [EffectsNext]_effectVars => UNCHANGED commits \/ BatchStep
  <2>1. ASSUME NEW path \in Paths, OthersWrite(path)
        PROVE  UNCHANGED commits
    BY <2>1 DEF OthersWrite, Batch!OtherWrites
  <2> QED
    BY <2>1, ToolsMoveBatch DEF EffectsNext, effectVars, filesVars
<1>3. ToolsIInv /\ BatchIInv /\ BatchInThread /\ [EffectsNext]_effectVars
        => [commits' # commits => Stopped]_effectVars
  BY <1>1, <1>2
<1>4. [][commits' # commits => Stopped]_effectVars => StopPrevails
  BY DEF StopPrevails
<1> HIDE DEF Stopped
<1> QED
  BY <1>3, <1>4, ToolsInductive, BatchInductive, PTL DEF EffectsSpec
================================================================================
