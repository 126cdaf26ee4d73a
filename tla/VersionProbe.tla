------------------------------- MODULE VersionProbe ----------------------------
(***************************************************************************)
(* _read_bounded_version_output (discovery.py): a candidate binary is run  *)
(* with --version before it is trusted with anything.  A reader thread     *)
(* takes at most one byte more than the limit from its pipe; the probing   *)
(* thread waits for the reader and then for the process, both within one   *)
(* deadline, and terminates the process tree however the probe ends.       *)
(* The binary may do anything: fork, leave its group, keep the pipe open.  *)
(***************************************************************************)
EXTENDS Integers

CONSTANTS
    Probed,    \* processes of the probe, in the order they are born
    Limit,     \* _VERSION_OUTPUT_LIMIT_BYTES: 256
    MaxOutput  \* bound of the model: bytes that are written

ASSUME ProbeAssumption ==
    /\ Probed \subseteq Nat \ {0} /\ 1 \in Probed
    /\ Limit \in Nat \ {0} /\ MaxOutput \in Nat

VARIABLES
    windows,  \* whether the platform is Windows
    life,     \* of each process
    grouped,  \* whether it is in the process group of the probe
    writers,  \* the processes that hold the pipe open for writing
    exit,     \* the exit code of the first process
    written,  \* bytes written to the pipe
    taken,    \* bytes in output
    reader,   \* where the reader thread is, or how it ended
    probe,    \* where the probing thread is, or how it ended
    code      \* whether wait returned zero

probeProcessVars == <<life, grouped, writers, exit, written>>
probeThreadVars == <<taken, reader, probe, code>>
probeVars == <<windows, probeProcessVars, probeThreadVars>>

ProbeOver == probe \in {"output", "refused"}

ProbeTypeOK ==
    /\ windows \in BOOLEAN /\ code \in BOOLEAN
    /\ life \in [Probed -> {"unborn", "running", "dying", "exited", "reaped"}]
    /\ grouped \in [Probed -> BOOLEAN]
    /\ writers \subseteq Probed
    /\ exit \in {"zero", "other"}
    /\ written \in 0 .. MaxOutput /\ taken \in 0 .. Limit + 1
    /\ reader \in {"none", "reading", "ended", "stopped", "failed"}
    /\ probe \in {"new", "waiting", "judging", "reaping", "killing", "killed", "closing",
                  "closed", "joining", "output", "refused"}

ProbeInit ==
    /\ windows \in BOOLEAN
    /\ life = [p \in Probed |-> "unborn"] /\ grouped = [p \in Probed |-> TRUE]
    /\ writers = {} /\ exit = "zero" /\ written = 0
    /\ taken = 0 /\ reader = "none"
    /\ probe = "new" /\ code = FALSE

Up == {p \in Probed : life[p] \in {"running", "dying"}}
LeaderOver == life[1] \in {"exited", "reaped"}

--------------------------------------------------------------------------------
(* The binary                                                              *)

ProbeForks(p, child) ==
    /\ life[p] = "running" /\ life[child] = "unborn"
    /\ \A other \in Probed : other < child => life[other] # "unborn"
    /\ life' = [life EXCEPT ![child] = "running"]
    /\ grouped' = [grouped EXCEPT ![child] = grouped[p]]
    /\ writers' = IF p \in writers THEN writers \cup {child} ELSE writers
    /\ UNCHANGED <<exit, written>>

ProbeWrites(p) ==
    /\ life[p] = "running" /\ p \in writers /\ written < MaxOutput
    /\ written' = written + 1
    /\ UNCHANGED <<life, grouped, writers, exit>>

ProbeClosesPipe(p) ==
    /\ life[p] = "running" /\ p \in writers
    /\ writers' = writers \ {p}
    /\ UNCHANGED <<life, grouped, exit, written>>

ProbeLeavesGroup(p) ==
    /\ p # 1 /\ life[p] = "running" /\ grouped[p]
    /\ grouped' = [grouped EXCEPT ![p] = FALSE]
    /\ UNCHANGED <<life, writers, exit, written>>

ProbeExits(p) ==
    /\ p \in Up
    /\ life' = [life EXCEPT ![p] = "exited"]
    /\ writers' = writers \ {p}
    /\ exit' \in IF p # 1 THEN {exit} ELSE IF life[p] = "dying" THEN {"other"} ELSE {"zero", "other"}
    /\ UNCHANGED <<grouped, written>>

Binary ==
    /\ \/ \E p, child \in Probed : ProbeForks(p, child)
       \/ \E p \in Probed : \/ ProbeWrites(p) \/ ProbeClosesPipe(p) \/ ProbeLeavesGroup(p)
                            \/ ProbeExits(p)
    /\ UNCHANGED <<windows, probeThreadVars>>

--------------------------------------------------------------------------------
(* _read_stdout                                                            *)

Room_Limit == Limit - taken

(* What one more read may return: a byte past the limit tells too much.    *)
Room == Limit + 1 - taken

Least(a, b) == IF a < b THEN a ELSE b

ReaderReads ==
    /\ reader = "reading"
    /\ \/ \E bytes \in 1 .. Least(Room, written - taken) :
              /\ taken' = taken + bytes
              /\ reader' = IF taken' > Limit THEN "stopped" ELSE "reading"
       \/ /\ Room = 0 \/ (written = taken /\ writers = {})
          /\ reader' = "ended"
          /\ UNCHANGED taken
       \/ reader' = "failed" /\ UNCHANGED taken
    /\ UNCHANGED <<windows, probeProcessVars, probe, code>>

--------------------------------------------------------------------------------
(* _read_bounded_version_output                                            *)

Goes(place) ==
    /\ probe' = place
    /\ UNCHANGED <<windows, grouped, exit, written, taken>>

ProbeSpawns ==
    /\ probe = "new"
    /\ \/ /\ Goes("waiting")
          /\ life' = [life EXCEPT ![1] = "running"] /\ writers' = {1} /\ reader' = "reading"
       \/ Goes("refused") /\ UNCHANGED <<life, writers, reader>>
    /\ UNCHANGED code

Waits(here, there) ==
    /\ probe = here /\ Goes(there)
    /\ UNCHANGED <<life, writers, reader, code>>

ReaderDone == reader \in {"ended", "stopped", "failed"}

(* The reader is done, or the deadline passes.                             *)
AwaitsReader == (ReaderDone /\ Waits("waiting", "judging")) \/ Waits("waiting", "killing")

Judges ==
    IF taken > Limit \/ reader = "failed"
    THEN Waits("judging", "killing")
    ELSE Waits("judging", "reaping")

AwaitsProcess ==
    \/ Waits("reaping", "killing")
    \/ /\ probe = "reaping" /\ life[1] = "exited"
       /\ Goes("closing")
       /\ life' = [life EXCEPT ![1] = "reaped"]
       /\ code' = (exit = "zero")
       /\ UNCHANGED <<writers, reader>>

(* killpg; or taskkill, which finds the tree by its first process and may  *)
(* not be there, and then kill.                                            *)
KillFinds == {p \in Up : IF windows THEN ~LeaderOver ELSE grouped[p]}

ProbeKills(here, there) ==
    /\ probe = here /\ Goes(there)
    /\ \E found \in {KillFinds} \cup (IF windows THEN {KillFinds \cap {1}} ELSE {}) :
           life' = [p \in Probed |-> IF p \in found THEN "dying" ELSE life[p]]
    /\ UNCHANGED <<writers, reader, code>>

(* wait, after which the process is killed once more if it takes too long. *)
ProbeReaps(here, there) ==
    /\ probe = here /\ LeaderOver /\ Goes(there)
    /\ life' = [life EXCEPT ![1] = "reaped"]
    /\ UNCHANGED <<writers, reader, code>>

(* The finally clause; it gives the reader a second.                       *)
TerminatesAtEnd == ProbeKills("closing", "closed")

Joins == Waits("joining", IF code THEN "output" ELSE "refused")

ProbeStep ==
    \/ ProbeSpawns \/ AwaitsReader \/ Judges \/ AwaitsProcess
    \/ ProbeKills("killing", "killed") \/ ProbeReaps("killed", "closing")
    \/ TerminatesAtEnd \/ ProbeReaps("closed", "joining") \/ Joins

ProbeNext == Binary \/ ReaderReads \/ ProbeStep

--------------------------------------------------------------------------------
(* Properties                                                              *)

(* A version is read from the whole output of a process that exited with   *)
(* zero: all that was written, within the limit, to the end of the pipe    *)
(* (_read_bounded_version_output).                                         *)
VersionIsWhole ==
    /\ ProbeTypeOK
    /\ probe = "output" =>
           /\ taken = written /\ taken <= Limit /\ writers = {}
           /\ life[1] = "reaped" /\ exit = "zero"

(* A probe that is over has reaped its process and left nothing that will  *)
(* not die of the group it started in (_terminate_probe_process_group).    *)
(* On Windows the tree of a process that has exited cannot be found.       *)
ProbeLeavesNothing ==
    ProbeOver =>
        /\ life[1] \in {"unborn", "reaped"}
        /\ ~windows => \A p \in Probed : grouped[p] => life[p] # "running"

(* What a probe tells and what it leaves (the two above).                  *)
ProbeIsSound == VersionIsWhole /\ ProbeLeavesNothing
================================================================================
