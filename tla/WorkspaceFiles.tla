----------------------------- MODULE WorkspaceFiles ----------------------------
(***************************************************************************)
(* One call of workspace_create_files or workspace_edit_files              *)
(* (_file_batch and _publish in workspace_tools.py), in a worker thread,   *)
(* beside a canceller that sets its stop event and other writers of the    *)
(* workspace.  The content of a file is the part an edit names and the     *)
(* rest of it, which the edit must leave alone.                            *)
(***************************************************************************)
EXTENDS Integers, Sequences

CONSTANTS
    Paths,
    Batches,   \* the file lists of the calls considered
    MaxWrites  \* bound of the model: steps of other writers

Absent == [part |-> "none", rest |-> 0]
Contents == [part : {"old", "new"}, rest : 0 .. MaxWrites]

(* What one item makes of what it read; an edit needs its context.         *)
Items == [path : Paths, creates : BOOLEAN]
After(item, before) ==
    IF item.creates THEN [part |-> "old", rest |-> 0] ELSE [before EXCEPT !.part = "new"]

VARIABLES
    batch,     \* operation.files
    disk,      \* the content of each path
    next,      \* the item under way
    place,     \* where the worker is in _file_batch and _publish
    before,    \* what the item read
    staged,    \* whether its staging file exists
    litter,    \* staging files nobody will remove
    failure,   \* the ToolFailure of the call
    receipts,  \* of the call
    commits,   \* history: what really was published, over what
    stop,      \* the stop event
    owed,      \* history: stop came after the last look at it
    writes     \* steps of other writers

item == batch[next]
call == <<batch, next, before, failure, receipts>>
filesVars == <<call, disk, place, staged, litter, commits, stop, owed, writes>>

Commits == [path : Paths, over : Contents \cup {Absent}, after : Contents]
Failures == {"none", "cancelled", "precondition", "context_changed", "filesystem_error",
             "staging_cleanup_failed"}

FilesTypeOK ==
    /\ batch \in Batches /\ next \in 1 .. Len(batch) + 1
    /\ disk \in [Paths -> Contents \cup {Absent}]
    /\ place \in {"item", "staging", "staged", "linking", "comparing", "renaming", "published",
                  "abandoning", "done"}
    /\ before \in Contents \cup {Absent}
    /\ staged \in BOOLEAN /\ litter \in 0 .. 1
    /\ staged => place \notin {"item", "staging", "done"}
    /\ failure \in Failures
    /\ receipts \in Seq(Commits) /\ commits \in Seq(Commits)
    /\ stop \in BOOLEAN /\ owed \in BOOLEAN /\ writes \in 0 .. MaxWrites

FilesInit ==
    /\ batch \in Batches
    /\ disk \in [Paths -> {Absent, [part |-> "old", rest |-> 0]}]
    /\ next = 1 /\ place = "item"
    /\ before = Absent
    /\ staged = FALSE /\ litter = 0
    /\ failure = "none"
    /\ receipts = << >> /\ commits = << >>
    /\ stop = FALSE /\ owed = FALSE /\ writes = 0

--------------------------------------------------------------------------------
(* _file_batch returns with the receipts it has.                           *)
Ends(why) ==
    /\ failure' = why
    /\ place' = "done"
    /\ UNCHANGED <<batch, next, before, receipts>>

(* The call is stopped before the item, or its files are done.             *)
NoMoreItems ==
    /\ place = "item"
    /\ \/ next > Len(batch) /\ Ends("none")
       \/ next <= Len(batch) /\ stop /\ Ends("cancelled")
    /\ UNCHANGED <<disk, staged, litter, commits, stop, owed, writes>>

(* The preconditions: creation of a path without a file, an edit whose     *)
(* context the file has.                                                   *)
Admitted(content) == IF item.creates THEN content = Absent ELSE content.part = "old"

(* _admit_path: the path is outside the workspace, or has no directory.    *)
PathRefused == Ends("precondition")

ReadItem ==
    /\ place = "item" /\ next <= Len(batch) /\ ~stop
    /\ \/ /\ Admitted(disk[item.path])
          /\ before' = disk[item.path]
          /\ place' = "staging"
          /\ UNCHANGED <<batch, next, failure, receipts>>
       \/ ~Admitted(disk[item.path]) /\ Ends("precondition")
       \/ PathRefused \/ Ends("filesystem_error")
    /\ UNCHANGED <<disk, staged, litter, commits, stop, owed, writes>>

(* _publish: the staging file is written and synchronised.                 *)
Stage ==
    /\ place = "staging"
    /\ \/ stop /\ Ends("cancelled") /\ UNCHANGED staged
       \/ ~stop /\ Ends("filesystem_error") /\ UNCHANGED staged
       \/ ~stop /\ staged' = TRUE /\ place' = "staged" /\ UNCHANGED call
    /\ UNCHANGED <<disk, litter, commits, stop, owed, writes>>

(* Nothing is published; the staging file has still to be removed.         *)
Abandon(why) ==
    /\ place' = "abandoning"
    /\ failure' = why
    /\ UNCHANGED <<batch, next, before, receipts, disk, staged, commits, owed>>

GoOn(where) ==
    /\ place' = where
    /\ UNCHANGED <<call, disk, staged, commits, owed>>

Commit ==
    /\ disk' = [disk EXCEPT ![item.path] = After(item, before)]
    /\ commits' = Append(commits, [path |-> item.path, over |-> disk[item.path],
                                   after |-> After(item, before)])
    /\ owed' = FALSE
    /\ place' = "published"
    /\ UNCHANGED call

(* The last look at the stop event before a creation.                      *)
Publish ==
    /\ place = "staged"
    /\ \/ stop /\ Abandon("cancelled")
       \/ Abandon("filesystem_error")
       \/ ~stop /\ GoOn(IF item.creates THEN "linking" ELSE "comparing")
    /\ UNCHANGED <<litter, stop, writes>>

(* link creates a name and never replaces one.                             *)
Linkable == disk[item.path] = Absent

Link ==
    /\ place = "linking"
    /\ \/ Linkable /\ Commit /\ UNCHANGED staged
       \/ ~Linkable /\ Abandon("precondition")
       \/ Abandon("filesystem_error")
    /\ UNCHANGED <<litter, stop, writes>>

StillWanted_Assumed == TRUE

StillWanted == ~stop

(* An edit reads the file again, and looks at the stop event again, before *)
(* it renames the staging file over it.                                    *)
Compare ==
    /\ place = "comparing"
    /\ \/ disk[item.path] # before /\ Abandon("context_changed")
       \/ disk[item.path] = before /\ ~StillWanted /\ Abandon("cancelled")
       \/ Abandon("filesystem_error")
       \/ disk[item.path] = before /\ StillWanted /\ GoOn("renaming")
    /\ UNCHANGED <<litter, stop, writes>>

Rename ==
    /\ place = "renaming"
    /\ \/ Commit /\ staged' = FALSE
       \/ Abandon("filesystem_error")
    /\ UNCHANGED <<litter, stop, writes>>

(* The receipt tells what the item read and wrote.  A committed file whose *)
(* staging link stays is an error after its receipt.                       *)
CleanupOutcome_Unreceipted == receipts

Receipted == Append(receipts, [path |-> item.path, over |-> before, after |-> After(item, before)])

CleanupOutcome == Receipted

Unstage ==
    /\ place = "published"
    /\ staged' = FALSE
    /\ \/ /\ receipts' = Receipted
          /\ next' = next + 1
          /\ place' = "item"
          /\ UNCHANGED <<litter, failure>>
       \/ /\ staged
          /\ receipts' = CleanupOutcome
          /\ failure' = "staging_cleanup_failed"
          /\ place' = "done"
          /\ litter' = 1
          /\ UNCHANGED next
    /\ UNCHANGED <<batch, before, disk, commits, stop, owed, writes>>

UnstageAbandoned ==
    /\ place = "abandoning"
    /\ staged' = FALSE
    /\ place' = "done"
    /\ \/ UNCHANGED <<failure, litter>>
       \/ failure' = "filesystem_error" /\ litter' = 1
    /\ UNCHANGED <<batch, next, before, receipts, disk, commits, stop, owed, writes>>

Worker ==
    \/ NoMoreItems \/ ReadItem \/ Stage \/ Publish \/ Link \/ Compare \/ Rename
    \/ Unstage \/ UnstageAbandoned

--------------------------------------------------------------------------------
(* cancel of WorkspaceTools, and the timeout or cancellation of its caller *)
Cancelled ==
    /\ ~stop /\ place # "done"
    /\ stop' = TRUE
    /\ owed' = (place \in {"linking", "renaming"})
    /\ UNCHANGED <<call, disk, place, staged, litter, commits, writes>>

(* A command, an editor or the user writes or removes a file.              *)
OtherWrites(path) ==
    /\ writes < MaxWrites
    /\ writes' = writes + 1
    /\ disk' \in {[disk EXCEPT ![path] = content] :
                     content \in {Absent} \cup [part : {"old", "new"}, rest : {writes + 1}]}
    /\ UNCHANGED <<call, place, staged, litter, commits, stop, owed>>

FilesNext == Worker \/ Cancelled \/ \E path \in Paths : OtherWrites(path)

FilesSpec == FilesInit /\ [][FilesNext]_filesVars

--------------------------------------------------------------------------------
(* Properties                                                              *)

Published(items) == [i \in DOMAIN items |-> [path |-> items[i].path, after |-> items[i].after]]

(* The result of a call, of a failed or cancelled one too, tells of every  *)
(* file it published, in order, and of no other (FileOutcome, _file_batch; *)
(* docs/native-ide-implementation-plan.md: partial effects are reported).  *)
ReceiptsAreCommits == place \in {"item", "done"} => Published(receipts) = Published(commits)

(* A creation never replaces a file, whoever made it and when (_publish).  *)
CreationKeepsFiles ==
    \A i \in DOMAIN commits : batch[i].creates => commits[i].over = Absent

(* The state invariant of a batch: types, and creations that kept files    *)
(* (_file_batch, _publish).                                                *)
FilesInv == FilesTypeOK /\ CreationKeepsFiles
================================================================================
