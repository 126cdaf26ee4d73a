-------------------------- MODULE OwnedCommandProofs ---------------------------
(***************************************************************************)
(* Proofs about CommandGuardian and OwnedCommand for any set of processes, *)
(* finite or not, and any limit of a sweep.                                *)
(*                                                                         *)
(* That ECHILD proves settlement is an argument about the whole tree of    *)
(* processes: a member of the group that the guardian cannot wait for has  *)
(* a living parent, which is an older member of a group that was kept; so  *)
(* the oldest member is always a child of the guardian.                    *)
(*                                                                         *)
(* The guardian of a command is that one whatever the worker does, so what *)
(* is proved of it holds beside the worker; and a guardian that has exited *)
(* has exited for good, so what the worker saw of it is still so when the  *)
(* result is used.                                                         *)
(***************************************************************************)
EXTENDS OwnedCommand, TLAPS, FiniteSetTheorems

--------------------------------------------------------------------------------
(* The inductive invariant of the guardian                                 *)

(* Processes are born in order.                                            *)
Born(m) == life[m] # "unborn"

InOrder == \A m, c \in Members : Born(m) /\ c < m => Born(c)

(* A process is adopted by the guardian, or is waited for by a living one  *)
(* that is older.                                                          *)
Lineage ==
    \A m \in Members : Exists(m) /\ parent[m] # Guardian =>
        Alive(parent[m]) /\ parent[m] < m

(* A number is reused when no process has it, and the guardian signals     *)
(* while it has a child that has it.                                       *)
Numbered ==
    /\ reused => Group = {}
    /\ Contained /\ guardian = "killing" => Waitable # {}

IInv ==
    /\ TypeOK
    /\ InOrder
    /\ Lineage
    /\ Numbered
    /\ SettledMeansGone
    /\ NeverStrikesForeign

--------------------------------------------------------------------------------
(* Every set of natural numbers that is not empty has a least element.     *)
LEMMA LeastMember ==
    ASSUME NEW S, S \subseteq Nat, S # {}
    PROVE  \E x \in S : \A y \in S : ~(y < x)
<1> DEFINE UpTo(x) == S \cap 0 .. x
           Initials == {UpTo(x) : x \in S}
<1>1. Initials \subseteq FiniteSubsetsOf(Nat) /\ Initials # {}
  <2>1. ASSUME NEW x \in S
        PROVE  UpTo(x) \subseteq Nat /\ IsFiniteSet(UpTo(x))
    <3>1. IsFiniteSet(0 .. x)
      BY FS_Interval
    <3>2. UpTo(x) \subseteq 0 .. x
      OBVIOUS
    <3> QED
      BY <3>1, <3>2, FS_Subset
  <2> QED
    BY <2>1, Zenon DEF FiniteSubsetsOf
<1>2. PICK A \in Initials : \A B \in Initials : <<B, A>> \notin StrictSubsetOrdering(Nat)
  <2> HIDE DEF Initials
  <2> QED
    BY <1>1, FS_StrictSubsetOrderingWellFounded, WFMin, Zenon
<1>3. PICK x \in S : A = UpTo(x)
  OBVIOUS
<1>4. ASSUME NEW y \in S, y < x
      PROVE  FALSE
  <2>1. UpTo(y) \subseteq UpTo(x) /\ x \in UpTo(x) /\ x \notin UpTo(y)
    BY <1>4, <1>3
  <2>2. <<UpTo(y), A>> \in StrictSubsetOrdering(Nat)
    BY <2>1, <1>3 DEF StrictSubsetOrdering
  <2> QED
    BY <1>2, <2>2
<1> QED
  BY <1>4

(* ECHILD proves settlement: without a child to wait for, no process of a  *)
(* group that was kept is left.                                            *)
LEMMA EchildSettles ==
    ASSUME IInv, Contained, Waitable = {}
    PROVE  Group = {}
<1> SUFFICES ASSUME Group # {}
             PROVE  FALSE
  OBVIOUS
<1>1. Group \subseteq Nat
  BY GuardianAssumption DEF Group
<1>2. PICK m \in Group : \A c \in Group : ~(c < m)
  BY <1>1, LeastMember
<1>3. m \in Members /\ Exists(m) /\ parent[m] # Guardian
  BY <1>2 DEF Group, Waitable
<1>4. parent[m] \in Members /\ Alive(parent[m]) /\ parent[m] < m
  BY <1>3 DEF IInv, TypeOK, Lineage
<1>5. parent[m] \in Group
  BY <1>4 DEF Group, Exists, Alive, Contained
<1> QED
  BY <1>2, <1>4, <1>5

--------------------------------------------------------------------------------
(* What the constants give.                                                *)
LEMMA Constants ==
    /\ Root \in Members /\ Guardian \notin Members
    /\ 0 \in 0 .. Sweep - 1
    /\ \A n \in 0 .. Sweep - 1 : n + 1 # Sweep => n + 1 \in 0 .. Sweep - 1
BY GuardianAssumption DEF Root, Guardian

LEMMA InitHolds == Init => IInv
<1> SUFFICES ASSUME Init
             PROVE  IInv
  OBVIOUS
<1> USE Constants DEF Init
<1>1. TypeOK
  BY DEF TypeOK
<1>2. InOrder
  BY GuardianAssumption DEF InOrder, Born, Root
<1> QED
  BY <1>1, <1>2 DEF IInv, Lineage, Numbered, SettledMeansGone, NeverStrikesForeign

LEMMA TypeStep == TypeOK /\ [Next]_vars => TypeOK'
<1> SUFFICES ASSUME TypeOK, [Next]_vars
             PROVE  TypeOK'
  OBVIOUS
<1> USE Constants DEF TypeOK
<1>1. ASSUME NEW m \in Members, NEW child \in Members, Forks(m, child) \/ Reaps(m, child)
      PROVE  TypeOK'
  BY <1>1 DEF Forks, Reaps, guardianVars
<1>2. ASSUME NEW m \in Members, Exits(m) \/ Leaves(m)
      PROVE  TypeOK'
  BY <1>2 DEF Exits, Leaves, guardianVars
<1>3. CASE NumberReused \/ LetsGo \/ UNCHANGED vars
  BY <1>3 DEF NumberReused, LetsGo, vars, processVars, guardianVars
<1>4. CASE Watch \/ Pin \/ Kill
  BY <1>4 DEF Watch, Pin, Kill, processVars
<1>5. CASE SweepRoot
  BY <1>5 DEF SweepRoot, NotSettled
<1>6. CASE SweepMembers
  <2>1. CASE guardian' = "settled" /\ UNCHANGED <<swept, life>>
    BY <1>6, <2>1 DEF SweepMembers
  <2>2. CASE NotSettled /\ UNCHANGED life
    BY <1>6, <2>2 DEF SweepMembers, NotSettled
  <2>3. CASE \E m \in Waitable :
                 /\ life' = [life EXCEPT ![m] = "reaped"]
                 /\ IF swept + 1 = Sweep THEN NotSettled ELSE swept' = swept + 1 /\ UNCHANGED guardian
    BY <1>6, <2>3 DEF SweepMembers, NotSettled
  <2> QED
    BY <1>6, <2>1, <2>2, <2>3 DEF SweepMembers
<1> QED
  BY <1>1, <1>2, <1>3, <1>4, <1>5, <1>6 DEF Next, Command, GuardianStep

(* No step makes a process again what it was before its birth.             *)
LEMMA InOrderStep == TypeOK /\ InOrder /\ [Next]_vars => InOrder'
<1> SUFFICES ASSUME TypeOK, InOrder, [Next]_vars
             PROVE  InOrder'
  OBVIOUS
<1> USE Constants DEF TypeOK
<1>1. ASSUME NEW m \in Members, NEW child \in Members, Forks(m, child)
      PROVE  InOrder'
  <2>1. \A c \in Members : Born(c)' <=> Born(c) \/ c = child
    BY <1>1 DEF Forks, Born
  <2>2. \A c \in Members : c < child => Born(c)
    BY <1>1 DEF Forks, Born
  <2> QED
    BY <2>1, <2>2 DEF InOrder
<1>2. ASSUME \A c \in Members : Born(c)' <=> Born(c)
      PROVE  InOrder'
  BY <1>2 DEF InOrder
<1>3. ASSUME NEW m \in Members, NEW child \in Members, Reaps(m, child)
      PROVE  InOrder'
  BY <1>3, <1>2 DEF Reaps, Born
<1>4. ASSUME NEW m \in Members, Exits(m) \/ Leaves(m)
      PROVE  InOrder'
  BY <1>4, <1>2 DEF Exits, Leaves, Alive, Born
<1>5. CASE NumberReused \/ LetsGo \/ Watch \/ Pin \/ UNCHANGED vars
  BY <1>5, <1>2 DEF NumberReused, LetsGo, Watch, Pin, vars, processVars, Born
<1>6. CASE SweepRoot \/ Kill
  BY <1>6, <1>2 DEF SweepRoot, Kill, Alive, Born
<1>7. CASE SweepMembers
  BY <1>7, <1>2 DEF SweepMembers, Waitable, Group, Born
<1> QED
  BY <1>1, <1>3, <1>4, <1>5, <1>6, <1>7 DEF Next, Command, GuardianStep

(* A living parent is not reaped, and when it exits its children are the   *)
(* guardian's.                                                             *)
LEMMA LineageStep == TypeOK /\ InOrder /\ Lineage /\ [Next]_vars => Lineage'
<1> SUFFICES ASSUME TypeOK, InOrder, Lineage, [Next]_vars,
                    NEW c \in Members, Exists(c)', parent'[c] # Guardian
             PROVE  life'[parent'[c]] \in {"running", "dying"} /\ parent'[c] < c
  BY DEF Lineage, Alive
<1> USE Constants DEF TypeOK
<1>1. ASSUME NEW m \in Members, NEW child \in Members, Forks(m, child)
      PROVE  life'[parent'[c]] \in {"running", "dying"} /\ parent'[c] < c
  <2>1. CASE c = child
    <3>1. parent'[c] = m /\ life'[m] = "running"
      BY <1>1, <2>1 DEF Forks, Alive
    <3>2. ~(child < m) /\ m # child
      BY <1>1 DEF Forks, InOrder, Born
    <3> QED
      BY <2>1, <3>1, <3>2, GuardianAssumption
  <2>2. CASE c # child
    <3>1. parent'[c] = parent[c] /\ Exists(c)
      BY <1>1, <2>2 DEF Forks, Exists, Alive
    <3>2. parent[c] \in Members /\ Alive(parent[c]) /\ parent[c] < c
      BY <3>1 DEF Lineage
    <3>3. life'[parent[c]] = life[parent[c]]
      BY <1>1, <3>2 DEF Forks, Alive
    <3> QED
      BY <3>1, <3>2, <3>3 DEF Alive
  <2> QED
    BY <2>1, <2>2
<1>2. ASSUME NEW m \in Members, Exits(m)
      PROVE  life'[parent'[c]] \in {"running", "dying"} /\ parent'[c] < c
  <2>1. parent'[c] = parent[c] /\ parent[c] # m /\ Exists(c)
    BY <1>2 DEF Exits, Exists, Alive
  <2> QED
    BY <1>2, <2>1 DEF Exits, Lineage, Alive
<1>3. ASSUME parent' = parent,
             \A x \in Members : Exists(x)' => Exists(x),
             \A x \in Members : Alive(x) => Alive(x)'
      PROVE  life'[parent'[c]] \in {"running", "dying"} /\ parent'[c] < c
  BY <1>3 DEF Lineage, Alive
<1>4. ASSUME NEW m \in Members, NEW child \in Members, Reaps(m, child)
      PROVE  life'[parent'[c]] \in {"running", "dying"} /\ parent'[c] < c
  BY <1>4, <1>3 DEF Reaps, Exists, Alive
<1>5. ASSUME NEW m \in Members, Leaves(m)
      PROVE  life'[parent'[c]] \in {"running", "dying"} /\ parent'[c] < c
  BY <1>5, <1>3 DEF Leaves, Exists, Alive
<1>6. CASE NumberReused \/ LetsGo \/ Watch \/ Pin \/ UNCHANGED vars
  BY <1>6, <1>3 DEF NumberReused, LetsGo, Watch, Pin, vars, processVars, Exists, Alive
<1>7. CASE SweepRoot \/ Kill
  BY <1>7, <1>3 DEF SweepRoot, Kill, Exists, Alive
<1>8. CASE SweepMembers
  BY <1>8, <1>3 DEF SweepMembers, Waitable, Group, Exists, Alive
<1> QED
  BY <1>1, <1>2, <1>4, <1>5, <1>6, <1>7, <1>8 DEF Next, Command, GuardianStep

(* A group without processes stays without: only its own members fork into *)
(* it.                                                                     *)
LEMMA EmptyStays == TypeOK /\ Group = {} /\ [Next]_vars => Group' = {}
<1> SUFFICES ASSUME TypeOK, Group = {}, [Next]_vars,
                    NEW c \in Members, group'[c], Exists(c)'
             PROVE  FALSE
  BY DEF Group
<1>1. ~(group[c] /\ Exists(c))
  BY DEF Group
<1> USE Constants DEF TypeOK
<1>2. ASSUME NEW m \in Members, NEW child \in Members, Forks(m, child)
      PROVE  FALSE
  <2>1. ~group[m]
    BY <1>2 DEF Forks, Group, Exists, Alive
  <2> QED
    BY <1>1, <1>2, <2>1 DEF Forks, Exists, Alive
<1>3. ASSUME NEW m \in Members, NEW child \in Members, Reaps(m, child)
      PROVE  FALSE
  BY <1>1, <1>3 DEF Reaps, Exists, Alive
<1>4. ASSUME NEW m \in Members, Exits(m) \/ Leaves(m)
      PROVE  FALSE
  BY <1>1, <1>4 DEF Exits, Leaves, Exists, Alive
<1>5. CASE NumberReused \/ LetsGo \/ Watch \/ Pin \/ UNCHANGED vars
  BY <1>1, <1>5 DEF NumberReused, LetsGo, Watch, Pin, vars, processVars, Exists, Alive
<1>6. CASE SweepRoot \/ Kill
  BY <1>1, <1>6 DEF SweepRoot, Kill, Exists, Alive
<1>7. CASE SweepMembers
  BY <1>1, <1>7 DEF SweepMembers, Waitable, Group, Exists, Alive
<1> QED
  BY <1>2, <1>3, <1>4, <1>5, <1>6, <1>7 DEF Next, Command, GuardianStep

(* A group that was left is not kept again.                                *)
LEMMA ContainedBefore == TypeOK /\ [Next]_vars /\ Contained' => Contained
<1> SUFFICES ASSUME TypeOK, [Next]_vars, Contained',
                    NEW c \in Members, life[c] # "unborn"
             PROVE  group[c]
  BY DEF Contained
<1> USE Constants DEF TypeOK
<1>1. ASSUME NEW m \in Members, NEW child \in Members, Forks(m, child) \/ Reaps(m, child)
      PROVE  group[c]
  BY <1>1 DEF Forks, Reaps, Contained
<1>2. ASSUME NEW m \in Members, Exits(m) \/ Leaves(m)
      PROVE  group[c]
  BY <1>2 DEF Exits, Leaves, Alive, Contained
<1>3. CASE NumberReused \/ LetsGo \/ Watch \/ Pin \/ UNCHANGED vars
  BY <1>3 DEF NumberReused, LetsGo, Watch, Pin, vars, processVars, Contained
<1>4. CASE SweepRoot \/ Kill
  BY <1>4 DEF SweepRoot, Kill, Alive, Contained
<1>5. CASE SweepMembers
  BY <1>5 DEF SweepMembers, Waitable, Group, Contained
<1> QED
  BY <1>1, <1>2, <1>3, <1>4, <1>5 DEF Next, Command, GuardianStep

(* A child of the guardian stays one until the guardian reaps it, also     *)
(* when it exits: while the guardian goes to its signal the number is held.*)
LEMMA PinHolds ==
    ASSUME IInv, [Next]_vars, Contained', guardian = "killing", guardian' = "killing"
    PROVE  (Waitable # {})'
<1>1. Contained
  BY ContainedBefore DEF IInv
<1>2. PICK w \in Members : group[w] /\ Exists(w) /\ parent[w] = Guardian
  BY <1>1 DEF IInv, Numbered, Waitable, Group
<1> SUFFICES group'[w] /\ Exists(w)' /\ parent'[w] = Guardian
  BY DEF Waitable, Group
<1> USE Constants DEF IInv, TypeOK
<1>3. ASSUME NEW m \in Members, NEW child \in Members, Forks(m, child) \/ Reaps(m, child)
      PROVE  group'[w] /\ Exists(w)' /\ parent'[w] = Guardian
  BY <1>2, <1>3 DEF Forks, Reaps, Exists, Alive
<1>4. ASSUME NEW m \in Members, Exits(m)
      PROVE  group'[w] /\ Exists(w)' /\ parent'[w] = Guardian
  BY <1>2, <1>4 DEF Exits, Exists, Alive
<1>5. ASSUME NEW m \in Members
      PROVE  ~Leaves(m)
  BY DEF Leaves, Contained
<1>6. CASE NumberReused \/ LetsGo \/ UNCHANGED vars
  BY <1>2, <1>6 DEF NumberReused, LetsGo, vars, processVars, Exists, Alive
<1>7. ~GuardianStep
  BY DEF GuardianStep, Watch, SweepRoot, SweepMembers, Pin, Kill
<1> QED
  BY <1>3, <1>4, <1>5, <1>6, <1>7 DEF Next, Command

LEMMA NumberedStep == IInv /\ [Next]_vars => Numbered'
<1> SUFFICES ASSUME IInv, [Next]_vars
             PROVE  Numbered'
  OBVIOUS
<1>1. reused' => Group' = {}
  <2>1. reused' => Group = {}
    <3>1. CASE NumberReused
      BY <3>1 DEF NumberReused
    <3>2. CASE ~NumberReused
      <4>1. UNCHANGED reused
        BY <3>2 DEF Next, Command, GuardianStep, Forks, Reaps, Exits, Leaves, Watch, SweepRoot,
             SweepMembers, Pin, Kill, LetsGo, vars
      <4> QED
        BY <4>1 DEF IInv, Numbered
    <3> QED
      BY <3>1, <3>2
  <2> QED
    BY <2>1, EmptyStays DEF IInv
<1>2. ASSUME Contained', guardian' = "killing"
      PROVE  (Waitable # {})'
  <2>1. CASE guardian = "killing"
    BY <1>2, <2>1, PinHolds
  <2>2. CASE guardian # "killing"
    <3>1. Pin
      BY <1>2, <2>2 DEF Next, Command, GuardianStep, Forks, Reaps, Exits, Leaves, NumberReused,
           Watch, SweepRoot, SweepMembers, NotSettled, Kill, LetsGo, vars, guardianVars
    <3>2. Waitable # {}
      BY <1>2, <3>1 DEF Pin, Pinned
    <3>3. UNCHANGED processVars
      BY <3>1 DEF Pin
    <3> QED
      BY <3>2, <3>3 DEF Waitable, Group, Exists, Alive, processVars
  <2> QED
    BY <2>1, <2>2
<1> QED
  BY <1>1, <1>2 DEF Numbered

LEMMA SettledStep == IInv /\ [Next]_vars => SettledMeansGone'
<1> SUFFICES ASSUME IInv, [Next]_vars, Contained', guardian' = "settled"
             PROVE  Group' = {}
  BY DEF SettledMeansGone
<1>1. Contained
  BY ContainedBefore DEF IInv
<1>2. Group = {}
  <2>1. CASE guardian = "settled"
    BY <1>1, <2>1 DEF IInv, SettledMeansGone
  <2>2. CASE guardian # "settled"
    <3>1. SweepMembers
      BY <2>2 DEF Next, Command, GuardianStep, Forks, Reaps, Exits, Leaves, NumberReused,
           Watch, SweepRoot, NotSettled, Pin, Kill, LetsGo, vars, guardianVars
    <3>2. Echild
      BY <2>2, <3>1 DEF SweepMembers, NotSettled
    <3> QED
      BY <1>1, <3>2, EchildSettles DEF Echild
  <2> QED
    BY <2>1, <2>2
<1> QED
  BY <1>2, EmptyStays DEF IInv

LEMMA StruckStep == IInv /\ [Next]_vars => NeverStrikesForeign'
<1> SUFFICES ASSUME IInv, [Next]_vars, Contained'
             PROVE  ~struck'
  BY DEF NeverStrikesForeign
<1>1. Contained /\ ~struck
  BY ContainedBefore DEF IInv, NeverStrikesForeign
<1>2. CASE Kill
  <2>1. Waitable # {}
    BY <1>1, <1>2 DEF Kill, IInv, Numbered
  <2>2. ~reused
    BY <2>1 DEF IInv, Numbered, Waitable
  <2> QED
    BY <1>1, <1>2, <2>2 DEF Kill
<1>3. CASE ~Kill
  <2>1. UNCHANGED struck
    BY <1>3 DEF Next, Command, GuardianStep, Forks, Reaps, Exits, Leaves, NumberReused, Watch,
         SweepRoot, SweepMembers, Pin, LetsGo, vars
  <2> QED
    BY <1>1, <2>1
<1> QED
  BY <1>2, <1>3

LEMMA Inductive == Spec => []IInv
<1>1. IInv /\ [Next]_vars => IInv'
  BY TypeStep, InOrderStep, LineageStep, NumberedStep, SettledStep, StruckStep DEF IInv
<1> QED
  BY <1>1, InitHolds, PTL DEF Spec

--------------------------------------------------------------------------------
(* For any processes and any limit of a sweep the guardian stays within    *)
(* its types (main, cleanup, settled, stop).                               *)
THEOREM GuardianTypes == Spec => []TypeOK
<1>1. IInv => TypeOK
  BY DEF IInv
<1> QED
  BY <1>1, Inductive, PTL

(* However many processes a command has and however they fork, exit and    *)
(* orphan each other, a guardian that exits successfully leaves none of    *)
(* them, unless one left the group (settled).                              *)
THEOREM GroupsSettle == Spec => []SettledMeansGone
<1>1. IInv => SettledMeansGone
  BY DEF IInv
<1> QED
  BY <1>1, Inductive, PTL

(* killpg reaches no foreign group: between the look that found a child    *)
(* and the signal nobody but the guardian could have reaped it (stop).     *)
THEOREM ForeignGroupsSpared == Spec => []NeverStrikesForeign
<1>1. IInv => NeverStrikesForeign
  BY DEF IInv
<1> QED
  BY <1>1, Inductive, PTL

--------------------------------------------------------------------------------
(* The inductive invariant of the worker                                   *)

GivenUp == {"finally", "raised", "dead"}

(* A returned result has seen the end of the tree and of the pipes.        *)
ResultSeen == worker = "returned" => guardian = "settled" /\ code /\ eof

(* An exit code is that of a root that has exited by itself or was killed. *)
CodeKnown == (code => status) /\ (status => life[Root] \in {"zombie", "reaped"})

(* The owner lets go for a reason, and the guardian acts for one: the      *)
(* stop of its owner or the exit of the root.                              *)
Reasons ==
    /\ ~lifeline => stopped \/ worker \in GivenUp
    /\ stopped => timedOut \/ stop \/ code
    /\ guardian # "watching" => ~lifeline \/ life[Root] \in {"zombie", "reaped"}

KilledForReason == killed => timedOut \/ stop \/ worker \in GivenUp

OwnedInv ==
    /\ OwnedTypeOK
    /\ ResultSeen
    /\ FailureJoinsGuardian
    /\ CodeKnown
    /\ Reasons
    /\ KilledForReason

--------------------------------------------------------------------------------
(* The guardian and the worker meet in the control pipe only               *)

LEMMA StepsImplement == TypeOK /\ [OwnedNext]_ownedVars => [Next]_vars
<1> SUFFICES ASSUME TypeOK, [OwnedNext]_ownedVars
             PROVE  [Next]_vars
  OBVIOUS
<1>1. CASE Below(Command \/ GuardianStep)
  BY <1>1 DEF Below, Next
<1>2. CASE WorkerReads \/ WorkerFaults \/ WorkerAsks \/ Cancelled \/ Expires \/ UNCHANGED ownedVars
  BY <1>2 DEF WorkerReads, WorkerFaults, WorkerAsks, Cancelled, Expires, ownedVars
<1>3. ASSUME Stop \/ UNCHANGED lifeline,
             UNCHANGED <<processVars, guardianVars, reused, struck>>
      PROVE  [Next]_vars
  <2>1. CASE UNCHANGED lifeline
    BY <1>3, <2>1 DEF vars
  <2>2. CASE lifeline' # lifeline
    BY <1>3, <2>2 DEF Stop, TypeOK, LetsGo, Next
  <2> QED
    BY <2>1, <2>2
<1>4. CASE WorkerJudges
  BY <1>3, <1>4 DEF WorkerJudges
<1>5. CASE WorkerCleans \/ OwnerDies
  BY <1>3, <1>5 DEF WorkerCleans, OwnerDies
<1> QED
  BY <1>1, <1>2, <1>4, <1>5 DEF OwnedNext, WorkerStep

LEMMA ExitIsFinal ==
    ASSUME [Next]_vars, guardian \in {"settled", "failed"}
    PROVE  UNCHANGED guardian
BY DEF Next, Command, GuardianStep, Forks, Reaps, Exits, Leaves, NumberReused, Watch, SweepRoot,
       SweepMembers, Pin, Kill, LetsGo, vars, guardianVars

(* What the command and its guardian do for the worker: the exit of the    *)
(* root and its code stay, and the guardian leaves its watch for a reason. *)
LEMMA RootExitStays ==
    ASSUME TypeOK, [Next]_vars, life[Root] \in {"zombie", "reaped"}
    PROVE  life'[Root] \in {"zombie", "reaped"}
<1> USE Constants DEF TypeOK
<1>1. ASSUME NEW m \in Members, NEW child \in Members, Forks(m, child) \/ Reaps(m, child)
      PROVE  life'[Root] \in {"zombie", "reaped"}
  BY <1>1 DEF Forks, Reaps
<1>2. ASSUME NEW m \in Members, Exits(m) \/ Leaves(m)
      PROVE  life'[Root] \in {"zombie", "reaped"}
  BY <1>2 DEF Exits, Leaves
<1>3. CASE NumberReused \/ LetsGo \/ Watch \/ Pin \/ UNCHANGED vars
  BY <1>3 DEF NumberReused, LetsGo, Watch, Pin, vars, processVars
<1>4. CASE SweepRoot \/ Kill
  BY <1>4 DEF SweepRoot, Kill, Alive
<1>5. CASE SweepMembers
  BY <1>5 DEF SweepMembers, Waitable, Group
<1> QED
  BY <1>1, <1>2, <1>3, <1>4, <1>5 DEF Next, Command, GuardianStep

LEMMA StatusMeansExit ==
    ASSUME TypeOK, [Next]_vars
    PROVE  /\ status => status'
           /\ status' => status \/ life'[Root] \in {"zombie", "reaped"}
<1> USE Constants DEF TypeOK
<1>1. CASE Watch \/ SweepRoot
  BY <1>1 DEF Watch, SweepRoot, NotSettled, processVars
<1>2. CASE ~(Watch \/ SweepRoot)
  BY <1>2 DEF Next, Command, GuardianStep, Forks, Reaps, Exits, Leaves, NumberReused,
       SweepMembers, Pin, Kill, LetsGo, vars, guardianVars
<1> QED
  BY <1>1, <1>2

LEMMA WatchLeft ==
    ASSUME TypeOK, [Next]_vars, guardian = "watching", guardian' # "watching"
    PROVE  ~lifeline' \/ life'[Root] \in {"zombie", "reaped"}
<1>1. Watch
  BY DEF Next, Command, GuardianStep, Forks, Reaps, Exits, Leaves, NumberReused, SweepRoot,
     SweepMembers, Pin, Kill, LetsGo, vars, guardianVars
<1> QED
  BY <1>1 DEF Watch, processVars

(* Only the guardian's signal makes the running root die.                  *)
LEMMA OnlyKillKills ==
    ASSUME TypeOK, Command \/ GuardianStep, life[Root] = "running", life'[Root] = "dying"
    PROVE  guardian = "killing"
<1> USE Constants DEF TypeOK
<1>1. ASSUME NEW m \in Members, NEW child \in Members, Forks(m, child) \/ Reaps(m, child)
      PROVE  FALSE
  BY <1>1 DEF Forks, Reaps
<1>2. ASSUME NEW m \in Members, Exits(m) \/ Leaves(m)
      PROVE  FALSE
  BY <1>2 DEF Exits, Leaves
<1>3. ~(NumberReused \/ Watch \/ Pin \/ SweepRoot)
  BY DEF NumberReused, Watch, Pin, SweepRoot, processVars
<1>4. ~SweepMembers
  BY DEF SweepMembers, Waitable, Group
<1> QED
  BY <1>1, <1>2, <1>3, <1>4 DEF Command, GuardianStep, Kill

--------------------------------------------------------------------------------
LEMMA OwnedInitHolds == OwnedInit => OwnedInv
<1>1. Init => TypeOK
  BY InitHolds DEF IInv
<1> QED
  BY <1>1, Constants DEF OwnedInit, Init, OwnedInv, OwnedTypeOK, ResultSeen, FailureJoinsGuardian,
                      CodeKnown, Reasons, KilledForReason, Ended

(* One step of the command or its guardian.                                *)
LEMMA BelowKeeps == OwnedInv /\ Below(Command \/ GuardianStep) => OwnedInv'
<1> SUFFICES ASSUME OwnedInv, Below(Command \/ GuardianStep)
             PROVE  OwnedInv'
  OBVIOUS
<1>1. Command \/ GuardianStep
  BY DEF Below
<1>2. [Next]_vars /\ TypeOK
  BY <1>1 DEF Next, OwnedInv, OwnedTypeOK
<1>3. UNCHANGED <<workerVars, stop, expired, lifeline>>
  BY <1>1 DEF Below, Command, GuardianStep, Forks, Reaps, Exits, Leaves, NumberReused, Watch,
       SweepRoot, SweepMembers, Pin, Kill
<1>4. killed' = (killed \/ (life[Root] = "running" /\ life'[Root] = "dying"))
  BY DEF Below
<1> USE <1>3 DEF workerVars
<1>5. OwnedTypeOK'
  <2>1. TypeOK'
    BY <1>2, TypeStep
  <2> QED
    BY <1>4, <2>1 DEF OwnedInv, OwnedTypeOK
<1>6. ResultSeen' /\ FailureJoinsGuardian'
  BY <1>2, ExitIsFinal DEF OwnedInv, ResultSeen, FailureJoinsGuardian
<1>7. CodeKnown'
  BY <1>2, RootExitStays, StatusMeansExit DEF OwnedInv, CodeKnown
<1>8. Reasons'
  BY <1>2, RootExitStays, WatchLeft DEF OwnedInv, Reasons
<1>9. KilledForReason'
  <2>1. CASE killed
    BY <2>1 DEF OwnedInv, KilledForReason
  <2>2. CASE life[Root] = "running" /\ life'[Root] = "dying"
    <3>1. guardian = "killing"
      BY <1>1, <1>2, <2>2, OnlyKillKills
    <3>2. ~lifeline /\ ~code
      BY <2>2, <3>1 DEF OwnedInv, Reasons, CodeKnown
    <3> QED
      BY <3>2 DEF OwnedInv, Reasons, KilledForReason
  <2> QED
    BY <1>4, <2>1, <2>2 DEF KilledForReason
<1> QED
  BY <1>5, <1>6, <1>7, <1>8, <1>9 DEF OwnedInv

(* One step of the worker, its callers or the deadline.                    *)
LEMMA WorkerKeeps ==
    ASSUME OwnedInv, WorkerStep \/ Cancelled \/ Expires \/ OwnerDies
    PROVE  OwnedInv'
<1>1. UNCHANGED <<processVars, guardianVars, reused, struck, killed>>
  BY DEF WorkerStep, WorkerReads, WorkerFaults, WorkerJudges, WorkerAsks, WorkerCleans, Cancelled,
         Expires, OwnerDies, vars
<1>2. TypeOK'
  <2>1. [Next]_vars
    BY StepsImplement DEF OwnedNext, OwnedInv, OwnedTypeOK
  <2> QED
    BY <2>1, TypeStep DEF OwnedInv, OwnedTypeOK
<1>3. UNCHANGED <<life, status, guardian, killed>>
  BY <1>1 DEF processVars, guardianVars
<1>4. OwnedTypeOK'
  <2> USE <1>2 DEF OwnedInv, OwnedTypeOK, Ended
  <2>1. CASE WorkerReads \/ WorkerFaults
    BY <2>1, <1>3 DEF WorkerReads, WorkerFaults, Polled, Lost, TypeOK
  <2>2. CASE WorkerJudges
    BY <2>2, <1>3 DEF WorkerJudges, Undecided, StopsOn, TimedOut
  <2>3. CASE WorkerAsks
    BY <2>3, <1>3 DEF WorkerAsks, Polled, TypeOK
  <2>4. CASE WorkerCleans \/ OwnerDies
    BY <2>4, <1>3 DEF WorkerCleans, OwnerDies
  <2>5. CASE Cancelled \/ Expires
    BY <2>5, <1>3 DEF Cancelled, Expires, workerVars
  <2> QED
    BY <2>1, <2>2, <2>3, <2>4, <2>5 DEF WorkerStep
<1>5. ResultSeen'
  BY <1>3 DEF OwnedInv, ResultSeen, WorkerStep, WorkerReads, WorkerFaults, WorkerJudges, WorkerAsks,
         WorkerCleans, Cancelled, Expires, OwnerDies, workerVars, TreeStopped, Polled
<1>6. FailureJoinsGuardian'
  BY <1>3 DEF OwnedInv, FailureJoinsGuardian, WorkerStep, WorkerReads, WorkerFaults, WorkerJudges,
         WorkerAsks, WorkerCleans, Cancelled, Expires, OwnerDies, workerVars, Joined, TreeStopped, Lost
<1>7. CodeKnown'
  <2>1. code' => code \/ status
    BY DEF OwnedInv, OwnedTypeOK, WorkerStep, WorkerReads, WorkerFaults, WorkerJudges, WorkerAsks,
           WorkerCleans, Cancelled, Expires, OwnerDies, workerVars, Polled
  <2> QED
    BY <1>3, <2>1 DEF OwnedInv, CodeKnown
<1>8. Reasons' /\ KilledForReason'
  <2> USE <1>3 DEF OwnedInv, OwnedTypeOK, Reasons, KilledForReason, GivenUp
  <2>1. CASE WorkerFaults \/ Cancelled \/ Expires
    BY <2>1 DEF WorkerFaults, Cancelled, Expires, workerVars, vars
  <2>2. CASE WorkerReads \/ WorkerAsks
    <3>1. /\ UNCHANGED <<lifeline, stopped, timedOut, stop>>
          /\ code => code'
          /\ worker \notin GivenUp
      BY <2>2 DEF WorkerReads, WorkerAsks, Polled, vars
    <3> QED
      BY <3>1
  <2>3. CASE WorkerJudges
    <3>1. UNCHANGED <<stop, code>> /\ worker \notin GivenUp /\ worker' \notin GivenUp
      BY <2>3 DEF WorkerJudges
    <3>2. stopped => stopped' /\ UNCHANGED timedOut
      BY <2>3 DEF WorkerJudges, Undecided
    <3>3. stopped' => timedOut' \/ stop \/ code
      <4>1. CASE stopped
        BY <3>1, <3>2, <4>1
      <4>2. CASE ~stopped
        BY <2>3, <4>2 DEF WorkerJudges, Undecided, StopsOn, TimedOut
      <4> QED
        BY <4>1, <4>2
    <3>4. ~lifeline' => stopped'
      BY <2>3, <3>1, <3>2 DEF WorkerJudges
    <3>5. lifeline' => lifeline
      BY <2>3 DEF WorkerJudges, Stop
    <3>6. timedOut => stopped
      BY Zenon
    <3> QED
      BY <3>1, <3>2, <3>3, <3>4, <3>5, <3>6
  <2>4. CASE WorkerCleans \/ OwnerDies
    BY <2>4 DEF WorkerCleans, OwnerDies, Stop
  <2> QED
    BY <2>1, <2>2, <2>3, <2>4 DEF WorkerStep
<1> QED
  BY <1>4, <1>5, <1>6, <1>7, <1>8 DEF OwnedInv

LEMMA OwnedInductive == OwnedSpec => []OwnedInv
<1>1. OwnedInv /\ [OwnedNext]_ownedVars => OwnedInv'
  <2>1. ASSUME OwnedInv, UNCHANGED ownedVars
        PROVE  OwnedInv'
    <3>1. /\ UNCHANGED <<life, guardian, status, lifeline, stop, expired, killed>>
          /\ UNCHANGED <<worker, code, eof, stopped, timedOut, pipeDeadline>>
      BY <2>1 DEF ownedVars, vars, processVars, guardianVars, workerVars
    <3>2. TypeOK'
      BY <2>1, TypeStep DEF OwnedInv, OwnedTypeOK, ownedVars
    <3>3. OwnedTypeOK' /\ ResultSeen' /\ FailureJoinsGuardian'
      BY <2>1, <3>1, <3>2 DEF OwnedInv, OwnedTypeOK, ResultSeen, FailureJoinsGuardian
    <3>4. CodeKnown' /\ Reasons' /\ KilledForReason'
      BY <2>1, <3>1 DEF OwnedInv, CodeKnown, Reasons, KilledForReason
    <3> QED
      BY <3>3, <3>4 DEF OwnedInv
  <2> QED
    BY <2>1, BelowKeeps, WorkerKeeps DEF OwnedNext
<1> QED
  BY <1>1, OwnedInitHolds, PTL DEF OwnedSpec

--------------------------------------------------------------------------------
(* The worker drives its guardian as the guardian's own specification      *)
(* allows: it does nothing to the command but to let go of the control     *)
(* pipe (LinuxCommand.stop, the death of the bridge).                      *)
THEOREM OwnedImplementsGuardian == OwnedSpec => Spec
<1>1. OwnedInit => Init
  BY DEF OwnedInit
<1>2. OwnedInv /\ [OwnedNext]_ownedVars => [Next]_vars
  BY StepsImplement DEF OwnedInv, OwnedTypeOK
<1> QED
  BY <1>1, <1>2, OwnedInductive, PTL DEF OwnedSpec, Spec

(* The types of the worker and its guardian; a wait for the pipes and a    *)
(* timeout belong to a command that is being stopped (_run).               *)
THEOREM OwnedTypes == OwnedSpec => []OwnedTypeOK
<1>1. OwnedInv => OwnedTypeOK
  BY DEF OwnedInv
<1> QED
  BY <1>1, OwnedInductive, PTL

(* Whatever the command's processes, its callers and its pipes do, a       *)
(* result is returned only when the guardian has exited successfully and   *)
(* so, unless one left the group, no process is left (_run, tree_stopped). *)
THEOREM ResultsMeanSettled == OwnedSpec => []ResultMeansSettled
<1>1. OwnedInv /\ SettledMeansGone => ResultMeansSettled
  BY DEF OwnedInv, ResultSeen, SettledMeansGone, ResultMeansSettled
<1> QED
  BY <1>1, OwnedInductive, OwnedImplementsGuardian, GroupsSettle, PTL

(* A failure of any kind is reported only after the guardian has exited    *)
(* (the finally clause of _run).                                           *)
THEOREM FailuresJoin == OwnedSpec => []FailureJoinsGuardian
<1>1. OwnedInv => FailureJoinsGuardian
  BY DEF OwnedInv
<1> QED
  BY <1>1, OwnedInductive, PTL

(* Every answer to a caller, result or failure, comes after the settlement *)
(* of the tree and its guardian (_run, _lost_guardian).                    *)
THEOREM EvidenceSettles == OwnedSpec => []EvidenceOfSettlement
<1>1. ResultMeansSettled /\ FailureJoinsGuardian => EvidenceOfSettlement
  BY DEF EvidenceOfSettlement
<1> QED
  BY <1>1, ResultsMeanSettled, FailuresJoin, PTL

(* A result that is neither timed out nor cancelled is never that of a     *)
(* root the guardian killed, although the deadline, the stop event and the *)
(* exit are looked at one after another (_run).                            *)
THEOREM OrdinaryResultsOwn == OwnedSpec => []OrdinaryResultIsOwn
<1>1. OwnedInv => OrdinaryResultIsOwn
  BY DEF OwnedInv, KilledForReason, GivenUp, OrdinaryResultIsOwn
<1> QED
  BY <1>1, OwnedInductive, PTL
================================================================================
