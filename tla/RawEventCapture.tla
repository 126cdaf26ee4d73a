---------------------------- MODULE RawEventCapture ----------------------------
(***************************************************************************)
(* RawEventCapture (raw_events.py): the transport observes messages on the *)
(* event loop, record puts them in a bounded queue, one writer task writes *)
(* them from a thread, close joins it.  A record is its sequence number,   *)
(* which is also the position of its line in a complete file.              *)
(***************************************************************************)
EXTENDS Integers, FiniteSets, Sequences

CONSTANTS
    Sizes,              \* the sizes a serialized record may have
    MaxPendingBytes,    \* RawEventCapture.MAX_PENDING_BYTES
    MaxPendingRecords,  \* RawEventCapture.MAX_PENDING_RECORDS
    MaxSequence         \* bound of the model: records of one capture

ASSUME CaptureAssumption ==
    /\ Sizes \subseteq Nat \ {0}
    /\ MaxPendingBytes \in Nat
    /\ MaxPendingRecords \in Nat
    /\ MaxSequence \in Nat \ {0}

VARIABLES
    sequence,  \* _sequence: records observed so far
    queue,     \* _queue: records with their sizes, and the None of close
    bytes,     \* _pending_bytes
    records,   \* _pending_records
    file,      \* the lines on disk
    last,      \* the sequence number of capture_end
    writer,    \* where start and then _run suspend
    hand,      \* the item _run took from the queue
    failed,    \* _failed
    told,      \* calls of on_failure
    closed,    \* _closed
    closer     \* where close suspends, or how it ended

backlog == <<queue, bytes, records>>
owner == <<failed, told, closed>>
captureVars == <<sequence, backlog, file, last, writer, hand, owner, closer>>

None == [record |-> -1, size |-> 0]
Torn == -1  \* a line of which only a part was written

Items == [record : 0 .. MaxSequence, size : Sizes]

CaptureTypeOK ==
    /\ sequence \in 0 .. MaxSequence + 1
    /\ queue \in Seq(Items \cup {None})
    /\ bytes \in Nat /\ records \in Nat
    /\ file \in Seq(0 .. MaxSequence \cup {Torn})
    /\ last \in -1 .. MaxSequence
    /\ writer \in {"new", "opening", "heading", "getting", "writing", "closing", "done",
                   "refused"}
    /\ hand \in Items \cup {None}
    /\ failed \in BOOLEAN /\ told \in Nat /\ closed \in BOOLEAN
    /\ closer \in {"idle", "joining", "complete", "incomplete"}

CaptureInit ==
    /\ sequence = 0
    /\ queue = << >>
    /\ bytes = 0 /\ records = 0
    /\ file = << >>
    /\ last = -1
    /\ writer = "new"
    /\ hand = None
    /\ failed = FALSE /\ told = 0 /\ closed = FALSE
    /\ closer = "idle"

(* _fail: the owner is told once that evidence is incomplete.              *)
Fail == failed' = TRUE /\ told' = IF failed THEN told ELSE told + 1

--------------------------------------------------------------------------------
(* start                                                                   *)

StartOpens ==
    /\ writer = "new" /\ ~closed
    /\ writer' = "opening"
    /\ UNCHANGED <<sequence, backlog, file, last, hand, owner, closer>>

(* The destination was opened: capture_start is the first record.          *)
StartOpened ==
    /\ writer = "opening"
    /\ writer' = "heading"
    /\ sequence' = sequence + 1
    /\ UNCHANGED <<backlog, file, last, hand, owner, closer>>

StartWritten ==
    /\ writer = "heading"
    /\ writer' = "getting"
    /\ file' = Append(file, 0)
    /\ UNCHANGED <<sequence, backlog, last, hand, owner, closer>>

(* start raises.  Cancelled, it has not failed, and its write may be done; *)
(* it joins the thread either way.                                         *)
StartFails ==
    /\ writer \in {"opening", "heading"}
    /\ writer' = "refused"
    /\ \/ Fail /\ file' \in {file} \cup (IF writer = "heading" THEN {<<Torn>>} ELSE {})
       \/ /\ file' \in {file} \cup (IF writer = "heading" THEN {<<0>>} ELSE {})
          /\ UNCHANGED <<failed, told>>
    /\ UNCHANGED <<sequence, backlog, last, hand, closed, closer>>

--------------------------------------------------------------------------------
(* record                                                                  *)

(* What is pending with one more record; its size is that of its encoding. *)
Counted(size) == bytes + size

Fits(size) == Counted(size) <= MaxPendingBytes /\ records < MaxPendingRecords

(* A record past a limit has been observed but is lost: the capture fails. *)
Take(size) ==
    /\ sequence' = sequence + 1
    /\ IF Fits(size)
       THEN /\ bytes' = Counted(size)
            /\ records' = records + 1
            /\ queue' = Append(queue, [record |-> sequence, size |-> size])
            /\ UNCHANGED <<failed, told>>
       ELSE Fail /\ UNCHANGED <<backlog>>

(* The transport observes a message; it is open only while start and close *)
(* are not under way.                                                      *)
Record(size) ==
    /\ writer \notin {"new", "opening", "heading", "refused"}
    /\ ~failed /\ ~closed
    /\ sequence < MaxSequence
    /\ Take(size)
    /\ UNCHANGED <<file, last, writer, hand, closed, closer>>

--------------------------------------------------------------------------------
(* _run                                                                    *)

(* A getter that already waits takes an item even if the capture fails     *)
(* before it is resumed.                                                   *)
WriterTakes ==
    /\ writer = "getting"
    /\ queue # << >>
    /\ queue' = Tail(queue)
    /\ IF Head(queue) = None
       THEN writer' = "closing" /\ UNCHANGED hand
       ELSE writer' = "writing" /\ hand' = Head(queue)
    /\ UNCHANGED <<sequence, bytes, records, file, last, owner, closer>>

WriterWrites ==
    /\ writer = "writing"
    /\ file' = Append(file, hand.record)
    /\ bytes' = bytes - hand.size
    /\ records' = records - 1
    /\ writer' = IF failed THEN "closing" ELSE "getting"
    /\ hand' = None
    /\ UNCHANGED <<sequence, queue, last, owner, closer>>

(* A write that raises ends the loop.                                      *)
WriterFails ==
    /\ writer = "writing"
    /\ file' \in {file, Append(file, Torn)}
    /\ writer' = "closing"
    /\ hand' = None
    /\ Fail
    /\ UNCHANGED <<sequence, backlog, last, closed, closer>>

(* The finally clause: what is still queued is dropped, the file closed.   *)
WriterEnds ==
    /\ writer = "closing"
    /\ writer' = "done"
    /\ queue' = << >>
    /\ bytes' = 0 /\ records' = 0
    /\ Fail \/ UNCHANGED <<failed, told>>
    /\ UNCHANGED <<sequence, file, last, hand, closed, closer>>

--------------------------------------------------------------------------------
(* close, by the cleanup of the transport, which nobody cancels            *)

(* None wakes a writer that waits, one of a failed capture too.            *)
Woken_Healthy(items) == IF failed THEN items ELSE Append(items, None)

Woken(items) == Append(items, None)

(* capture_end goes through the queue like any record, None behind it.     *)
CloseStarts(size) ==
    /\ ~closed
    /\ closed' = TRUE
    /\ writer \notin {"opening", "heading"}
    /\ closer' = "joining"
    /\ IF writer \notin {"new", "refused"} /\ ~failed
       THEN /\ sequence' = sequence + 1
            /\ IF Fits(size)
               THEN /\ bytes' = Counted(size)
                    /\ records' = records + 1
                    /\ queue' = Woken(Append(queue, [record |-> sequence, size |-> size]))
                    /\ last' = sequence
                    /\ UNCHANGED <<failed, told>>
               ELSE /\ Fail
                    /\ queue' = Woken(queue)
                    /\ UNCHANGED <<bytes, records, last>>
       ELSE /\ queue' = Woken(queue)
            /\ UNCHANGED <<sequence, bytes, records, last, failed, told>>
    /\ UNCHANGED <<file, writer, hand>>

CloseVerdict_Ended == "complete"

CloseVerdict == IF failed THEN "incomplete" ELSE "complete"

CloseEnds ==
    /\ closer = "joining"
    /\ writer \in {"new", "refused", "done"}
    /\ closer' = CloseVerdict
    /\ UNCHANGED <<sequence, backlog, file, last, writer, hand, owner>>

WriterStep == WriterTakes \/ WriterWrites \/ WriterFails \/ WriterEnds

--------------------------------------------------------------------------------
(* Properties                                                              *)

(* The file is always a prefix of what was observed, in order and without  *)
(* a gap, with at most one torn line at its end (record, _run).            *)
FileIsPrefix ==
    \A i \in DOMAIN file : file[i] = i - 1 \/ (file[i] = Torn /\ i = Len(file))

(* A capture_end on disk means that every observed record is there, and a  *)
(* close that does not raise means that it is on disk (README, raw event   *)
(* diagnostics).                                                           *)
EndMeansComplete ==
    /\ last # -1 /\ last + 1 \in DOMAIN file /\ file[last + 1] = last
           => Len(file) = sequence
    /\ closer = "complete" /\ writer = "done"
           => last # -1 /\ last + 1 = Len(file) /\ file[last + 1] = last

SumOfSizes(items) ==
    LET sum[n \in 0 .. Len(items)] == IF n = 0 THEN 0 ELSE sum[n - 1] + items[n].size
    IN  sum[Len(items)]

RecordsOf(items) == {i \in DOMAIN items : items[i] # None}

(* The limits hold with the record in hand counted, and only what _run has *)
(* finished with is taken off the count (record, _run).                    *)
PendingIsExact ==
    /\ bytes <= MaxPendingBytes /\ records <= MaxPendingRecords
    /\ writer \in {"getting", "writing"} =>
           /\ bytes = SumOfSizes(queue) + hand.size
           /\ records = Cardinality(RecordsOf(queue)) + (IF hand = None THEN 0 ELSE 1)

(* The state invariant of the capture: types, a file without gaps, and     *)
(* counts that are exact (record, _run).                                   *)
CaptureInv == CaptureTypeOK /\ FileIsPrefix /\ PendingIsExact

(* Whatever goes wrong with the evidence, the owner is told, and once.     *)
OwnerToldOnce ==
    /\ told <= 1
    /\ writer = "done" /\ Len(file) < sequence => told = 1

(* What is on disk, what close says and what the owner was told agree on   *)
(* whether the evidence is complete (the two above).                       *)
EvidenceIsTruthful == EndMeansComplete /\ OwnerToldOnce
================================================================================
