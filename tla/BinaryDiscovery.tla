----------------------------- MODULE BinaryDiscovery ---------------------------
(***************************************************************************)
(* Which language server is started (discovery.py): candidates from the    *)
(* running processes and from the data directory of the IDEs are probed    *)
(* one after another, and the newest admitted one is selected.  A probe    *)
(* takes time (VersionProbe), and installations change while it runs; here *)
(* it is one step that tells the version installed at its time, or none.   *)
(* A path is a number, in the order of path names; a line of the process   *)
(* list has the path it resolves to, and whether its name is the language  *)
(* server's.                                                               *)
(***************************************************************************)
EXTENDS Integers, Sequences

CONSTANTS
    Paths,     \* canonical paths that may be candidates
    Versions,  \* MAJOR.MINOR.PATCH of a language server
    Minimum    \* MIN_COPILOT_LANGUAGE_SERVER_VERSION

ASSUME DiscoveryAssumption ==
    /\ Paths \subseteq Nat \ {0}
    /\ Versions \subseteq Nat \X Nat \X Nat
    /\ Minimum \in Nat \X Nat \X Nat

NoVersion == <<0, 0, 0>>  \* not a file, not executable, or not a version
NoPath == 0

VARIABLES
    installed,   \* the version at each path
    upgrades,    \* bound of the model: changes of an installation
    candidates,  \* paths that were collected
    inspected,   \* those that were probed, with the version admitted
    binary       \* the path that was given or selected

discoveryVars == <<installed, upgrades, candidates, inspected, binary>>

DiscoveryTypeOK ==
    /\ installed \in [Paths -> Versions \cup {NoVersion}]
    /\ upgrades \in Nat
    /\ candidates \subseteq Paths
    /\ DOMAIN inspected \subseteq candidates
    /\ \A p \in DOMAIN inspected : inspected[p] \in Versions \cup {NoVersion}
    /\ binary \in Paths \cup {NoPath}

DiscoveryInit ==
    /\ installed \in [Paths -> Versions \cup {NoVersion}]
    /\ upgrades = 0
    /\ candidates = {} /\ inspected = << >>
    /\ binary = NoPath

(* Tuples are compared by their first difference.                          *)
Precedes(a, b) ==
    \E i \in 1 .. Len(a) : a[i] < b[i] /\ \A j \in 1 .. i - 1 : a[j] = b[j]

--------------------------------------------------------------------------------
(* An installation changes.                                                *)
Upgraded(p) ==
    /\ installed' \in {[installed EXCEPT ![p] = v] : v \in Versions \cup {NoVersion}}
    /\ installed' # installed
    /\ upgrades' = upgrades + 1
    /\ UNCHANGED <<candidates, inspected, binary>>

(* _inspect_binary: what an admitted version is.                           *)
Enough(version) == version # NoVersion /\ ~Precedes(version, Minimum)

(* A probe may fail for a binary that is in order: it has a deadline.      *)
ProbeTells(p) == {installed[p], NoVersion}
Admission(p) == {IF Enough(v) THEN v ELSE NoVersion : v \in ProbeTells(p)}

Lines == [path : Paths, named : BOOLEAN]

(* What a query of the process list prints; nothing if it fails or runs    *)
(* out of time.                                                            *)
Queried == SUBSET Lines

(* The named executables below the data directory that can be read.        *)
Walked == SUBSET Paths

(* The processes of a platform: a second query is made only where there is *)
(* one, and only if the first failed or found nothing.                     *)
Listed(first, second) == IF first # {} THEN first ELSE second

NamedPaths(lines) == {line.path : line \in {l \in lines : l.named}}

(* find_binary joins both sources before it selects.                       *)
Collects(lines, onDisk) ==
    /\ candidates' = NamedPaths(lines) \cup onDisk
    /\ UNCHANGED <<installed, upgrades, inspected, binary>>

Waiting == candidates \ DOMAIN inspected

(* _select_best_binary probes in the order of the paths.                   *)
Inspects(p) ==
    /\ p \in Waiting /\ \A other \in Waiting : p <= other
    /\ \E version \in Admission(p) :
           inspected' = [q \in DOMAIN inspected \cup {p} |-> IF q = p THEN version ELSE inspected[q]]
    /\ UNCHANGED <<installed, upgrades, candidates, binary>>

Admitted == {p \in DOMAIN inspected : inspected[p] # NoVersion}

Key(p) == <<-inspected[p][1], -inspected[p][2], -inspected[p][3], p>>

Selects ==
    /\ binary' = CHOOSE p \in Admitted : \A q \in Admitted \ {p} : Precedes(Key(p), Key(q))
    /\ UNCHANGED <<installed, upgrades, candidates, inspected>>

--------------------------------------------------------------------------------
(* Properties                                                              *)

(* What discovery selects was collected and admitted, none that was        *)
(* admitted is newer, and of equals it is the first path, whatever source  *)
(* named them first (find_binary).                                         *)
SelectionIsNewest ==
    candidates # {} /\ binary # NoPath =>
        /\ binary \in Admitted
        /\ \A p \in Admitted :
               /\ ~Precedes(inspected[binary], inspected[p])
               /\ inspected[p] = inspected[binary] => binary <= p
================================================================================
