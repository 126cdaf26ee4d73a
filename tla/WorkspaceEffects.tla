---------------------------- MODULE WorkspaceEffects ---------------------------
(***************************************************************************)
(* The tools of a session with the effect of their file operation: its     *)
(* worker thread (worker of WorkspaceTools) runs _file_batch               *)
(* (WorkspaceFiles), and its stop event (stopped) is the one the batch     *)
(* looks at, set by whoever cancels, closes or is cancelled.               *)
(***************************************************************************)
EXTENDS WorkspaceTools, Sequences

CONSTANTS
    File,     \* the operation of the batch
    Paths, Batches, MaxWrites

ASSUME EffectsAssumption ==
    /\ File \in FileWork /\ MaxWrites \in Nat
    /\ Batches \subseteq Seq([path : Paths, creates : BOOLEAN])

VARIABLES
    batch, disk, next, at, before, staged, litter, failure, receipts, commits, stop, owed,
    writes

filesVars == <<batch, next, before, failure, receipts, disk, at, staged, litter, commits, stop,
               owed, writes>>
effectVars == <<toolVars, filesVars>>

Batch == INSTANCE WorkspaceFiles WITH place <- at

EffectsInit == ToolsInit /\ Batch!FilesInit

(* The thread of the file operation.                                       *)
BatchStep == Running(File) /\ Batch!Worker /\ UNCHANGED toolVars

(* A thread ends when its function returns.                                *)
Returned(o) == o = File => at = "done"

StopsBatch == File \in stopped' \ stopped /\ at # "done"

WithStop(step) ==
    /\ step
    /\ IF StopsBatch THEN Batch!Cancelled ELSE UNCHANGED filesVars

ThreadEnds == \E o \in Operations : Returned(o) /\ WorkerEnds(o)

(* Before and after the batch other writers make no difference to it.      *)
OthersWrite(path) ==
    /\ Running(File) /\ at # "done"
    /\ Batch!OtherWrites(path) /\ UNCHANGED toolVars

EffectsNext ==
    \/ WithStop(ResumesTask) \/ WithStop(CallsTools) \/ WithStop(ThreadEnds)
    \/ BatchStep
    \/ \E path \in Paths : OthersWrite(path)

EffectsSpec == EffectsInit /\ [][EffectsNext]_effectVars

(* Tasks are resumed, a file batch has a last item, and the thread of a    *)
(* command that was told to stop, or reached its deadline, ends            *)
(* (CommandEnds of OwnedCommand).                                          *)
FairEffects ==
    /\ EffectsSpec
    /\ WF_effectVars(BatchStep)
    /\ WF_effectVars(WithStop(ResumesTask \/ ThreadEnds))

--------------------------------------------------------------------------------
(* Properties                                                              *)

(* What a caller is told: when execute is over its thread is and its       *)
(* result is kept; a cancel leaves nothing of the operation it was about;  *)
(* effects do not overlap (execute, cancel, _settle).                      *)
EffectsSettle == ToolsInv /\ ResultKept /\ CancelJoins /\ CloseIsFinal

(* The receipts of a batch are what it published, and of a call that       *)
(* returned, all it will ever publish (_file_batch).                       *)
ReceiptsAreCommits ==
    /\ Batch!FilesInv
    /\ Batch!ReceiptsAreCommits
    /\ place[File] \in Over =>
           Batch!Published(receipts) = Batch!Published(commits) /\ ~staged

(* Nothing is published once the operation was told to stop, but past the  *)
(* last look at the event; nothing at all once its execute, a cancel of it *)
(* or close returned (cancel: every owned effect settles).                 *)
StopPrevails ==
    [][commits' # commits =>
          /\ File \in stopped => owed
          /\ place[File] \notin Over /\ place[Closer] \notin Over
          /\ \A t \in Cancels : task[t] = File => place[t] \notin Over]_effectVars
================================================================================
