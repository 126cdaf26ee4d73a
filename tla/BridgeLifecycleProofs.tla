------------------------- MODULE BridgeLifecycleProofs -------------------------
(***************************************************************************)
(* Proofs about one process of the bridge, for any set of paths and        *)
(* versions, any process list and any number of upgrades.                  *)
(*                                                                         *)
(* What the end of run leaves behind is an argument about every place run  *)
(* can be in: which owners exist before it, which of them the steps of the *)
(* finally clause have settled so far, and what the loss of the child and  *)
(* an upgrade of the installation may have changed in between.             *)
(***************************************************************************)
EXTENDS BridgeLifecycle, FiniteSetTheorems, TLAPS

--------------------------------------------------------------------------------
(* The inductive invariant                                                 *)

BeforeStart == Chosen \cup {"admission"}

(* Until a binary is selected there is none, and nothing was inspected     *)
(* before it was collected; a selected one stays until the child starts.   *)
Choosing ==
    /\ phase \in {"options", "discovery", "inspection"} => binary = NoPath
    /\ phase \in {"options", "discovery"} => candidates = {}
    /\ phase \in {"configuration", "admission", "starting"} => binary \in Paths
    /\ IsFiniteSet(DOMAIN inspected)

(* Which owners exist at a place of run: before it starts the client there *)
(* are none, the service comes with the end of the native start, and the   *)
(* server is listening from then on.                                       *)
Owners ==
    /\ phase \in BeforeStart =>
           /\ client = "new" /\ service = "none" /\ lossTask = "none"
           /\ ~listening /\ serverTask = "none" /\ ~written /\ ~lost
    /\ phase = "starting" =>
           /\ client \in {"starting", "stopping"} /\ service = "none"
           /\ ~listening /\ serverTask = "none" /\ ~written
    /\ phase = "binding" => service # "none" /\ serverTask = "none" /\ ~written
    /\ phase \in {"waiting", "losing", "leaving"} => service # "none" /\ listening

(* What the state of the client says of its child and its handshake.       *)
ClientKnows ==
    /\ admission \in (Versions \cup {NoVersion}) \X Nat
    /\ client = "new" => /\ child = "none" /\ spawned = NoVersion
                         /\ phase \in BeforeStart \cup {"over"}
    /\ client # "new" => admission[1] # NoVersion
    /\ client = "clean" => child # "running"
    /\ client \in {"starting", "stopping"} => phase \in {"starting", "over"}
    /\ service # "none" => /\ client \in {"ready", "clean", "failed"}
                           /\ answered = Len(StartRequests)

(* The admission is as old as the upgrades that came after it.             *)
AdmissionHolds ==
    phase = "starting" /\ child = "none" =>
        /\ admission[2] <= upgrades
        /\ admission[2] = upgrades => Enough(installed[binary])

(* What is known of a loss: who accounts it, and what it can still prevent.*)
LossKnown ==
    /\ lossTask \in {"done", "failed"} => service \in {"closed", "failed"}
    /\ lost /\ service # "none" => lossTask # "none"
    /\ cause = "shutdown" => shutting_down /\ ~lost
    /\ early => /\ lost
                /\ phase \in {"starting", "binding"} \/ shutting_down
                /\ phase \in Cleanup => raising # "no"

(* What the finally clause has settled when it gets to a place.            *)
Settled ==
    /\ phase # "over" => exit = -1 /\ ~killed
    /\ phase \in {"collecting", "settling", "unbinding", "stopping"} => serverTask # "running"
    /\ phase \in {"settling", "unbinding", "stopping"} => lossTask # "running"
    /\ phase \in {"unbinding", "stopping"} => service \notin {"open", "closing"}
    /\ phase = "stopping" =>
           /\ listening => "server" \in errors
           /\ metadata = "mine" => kept

RunIInv ==
    /\ ReadinessIsTruthful /\ LossIsAnswered /\ CleanupReachesAll
    /\ Owners /\ ClientKnows /\ LossKnown /\ Settled

StartIInv ==
    /\ OnlyAdmittedStarts /\ AdmissionHolds /\ Choosing

BridgeIInv == RunIInv /\ StartIInv

--------------------------------------------------------------------------------
(* The selection                                                           *)

(* Tuples of one length are in lexicographic order.                        *)
LEMMA KeyOrder ==
    ASSUME NEW a \in Int \X Int \X Int \X Int, NEW b \in Int \X Int \X Int \X Int
    PROVE  Precedes(a, b) <=>
               \/ a[1] < b[1]
               \/ a[1] = b[1] /\ a[2] < b[2]
               \/ a[1] = b[1] /\ a[2] = b[2] /\ a[3] < b[3]
               \/ a[1] = b[1] /\ a[2] = b[2] /\ a[3] = b[3] /\ a[4] < b[4]
<1> DEFINE Differ(i) == a[i] < b[i] /\ \A j \in 1 .. i - 1 : a[j] = b[j]
<1>1. Len(a) = 4 /\ 1 .. 4 = {1, 2, 3, 4} /\ 1 .. 3 = {1, 2, 3} /\ 1 .. 2 = {1, 2} /\ 1 .. 1 = {1} /\ 1 .. 0 = {}
  OBVIOUS
<1>2. Differ(1) <=> a[1] < b[1]
  BY <1>1
<1>3. Differ(2) <=> a[2] < b[2] /\ a[1] = b[1]
  BY <1>1
<1>4. Differ(3) <=> a[3] < b[3] /\ a[1] = b[1] /\ a[2] = b[2]
  BY <1>1
<1>5. Differ(4) <=> a[4] < b[4] /\ a[1] = b[1] /\ a[2] = b[2] /\ a[3] = b[3]
  BY <1>1
<1>6. Precedes(a, b) <=> Differ(1) \/ Differ(2) \/ Differ(3) \/ Differ(4)
  BY <1>1 DEF Precedes
<1> HIDE DEF Differ
<1> QED
  BY <1>2, <1>3, <1>4, <1>5, <1>6

LEMMA VersionOrder ==
    ASSUME NEW v \in Nat \X Nat \X Nat, NEW w \in Nat \X Nat \X Nat
    PROVE  Precedes(v, w) <=>
               \/ v[1] < w[1]
               \/ v[1] = w[1] /\ v[2] < w[2]
               \/ v[1] = w[1] /\ v[2] = w[2] /\ v[3] < w[3]
<1> DEFINE Differ(i) == v[i] < w[i] /\ \A j \in 1 .. i - 1 : v[j] = w[j]
<1>1. Len(v) = 3 /\ 1 .. 3 = {1, 2, 3} /\ 1 .. 2 = {1, 2} /\ 1 .. 1 = {1} /\ 1 .. 0 = {}
  OBVIOUS
<1>2. Differ(1) <=> v[1] < w[1]
  BY <1>1
<1>3. Differ(2) <=> v[2] < w[2] /\ v[1] = w[1]
  BY <1>1
<1>4. Differ(3) <=> v[3] < w[3] /\ v[1] = w[1] /\ v[2] = w[2]
  BY <1>1
<1>5. Precedes(v, w) <=> Differ(1) \/ Differ(2) \/ Differ(3)
  BY <1>1 DEF Precedes
<1> HIDE DEF Differ
<1> QED
  BY <1>2, <1>3, <1>4, <1>5

(* The order in which admitted binaries are preferred.                     *)
Prefers(p, q) ==
    LET v == inspected[p]
        w == inspected[q]
    IN  \/ v[1] > w[1]
        \/ v[1] = w[1] /\ v[2] > w[2]
        \/ v[1] = w[1] /\ v[2] = w[2] /\ v[3] > w[3]
        \/ v[1] = w[1] /\ v[2] = w[2] /\ v[3] = w[3] /\ p < q

LEMMA InspectedTypes ==
    ASSUME DiscoveryTypeOK, NEW p \in DOMAIN inspected
    PROVE  p \in Nat /\ inspected[p] \in Nat \X Nat \X Nat
<1>1. p \in Paths /\ inspected[p] \in Versions \cup {NoVersion}
  BY DEF DiscoveryTypeOK
<1>2. NoVersion \in Nat \X Nat \X Nat
  BY DEF NoVersion
<1> QED
  BY <1>1, <1>2, DiscoveryAssumption

LEMMA KeysPrefer ==
    ASSUME DiscoveryTypeOK, NEW p \in DOMAIN inspected, NEW q \in DOMAIN inspected
    PROVE  Precedes(Key(p), Key(q)) <=> Prefers(p, q)
<1> DEFINE v == inspected[p]
           w == inspected[q]
<1>1. p \in Nat /\ q \in Nat /\ v \in Nat \X Nat \X Nat /\ w \in Nat \X Nat \X Nat
  BY InspectedTypes
<1>2. /\ v[1] \in Nat /\ v[2] \in Nat /\ v[3] \in Nat /\ w[1] \in Nat /\ w[2] \in Nat /\ w[3] \in Nat
      /\ -v[1] \in Int /\ -v[2] \in Int /\ -v[3] \in Int /\ -w[1] \in Int /\ -w[2] \in Int /\ -w[3] \in Int
  BY <1>1
<1>3. Precedes(Key(p), Key(q)) <=>
          \/ -v[1] < -w[1]
          \/ -v[1] = -w[1] /\ -v[2] < -w[2]
          \/ -v[1] = -w[1] /\ -v[2] = -w[2] /\ -v[3] < -w[3]
          \/ -v[1] = -w[1] /\ -v[2] = -w[2] /\ -v[3] = -w[3] /\ p < q
  <2> DEFINE a == Key(p)
             b == Key(q)
  <2>1. /\ a \in Int \X Int \X Int \X Int /\ a[1] = -v[1] /\ a[2] = -v[2] /\ a[3] = -v[3] /\ a[4] = p
        /\ b \in Int \X Int \X Int \X Int /\ b[1] = -w[1] /\ b[2] = -w[2] /\ b[3] = -w[3] /\ b[4] = q
    BY <1>1, <1>2 DEF Key
  <2> HIDE DEF v, w, a, b
  <2>2. Precedes(a, b) <=>
            \/ a[1] < b[1]
            \/ a[1] = b[1] /\ a[2] < b[2]
            \/ a[1] = b[1] /\ a[2] = b[2] /\ a[3] < b[3]
            \/ a[1] = b[1] /\ a[2] = b[2] /\ a[3] = b[3] /\ a[4] < b[4]
    BY <2>1, KeyOrder
  <2> QED
    BY <2>1, <2>2 DEF a, b
<1> QED
  BY <1>2, <1>3 DEF Prefers

(* Of finitely many binaries, if any, there is one preferred to the others.*)
LEMMA SelectionExists ==
    ASSUME DiscoveryTypeOK, IsFiniteSet(DOMAIN inspected), Admitted # {}
    PROVE  \E p \in Admitted : \A q \in Admitted \ {p} : Precedes(Key(p), Key(q))
<1> DEFINE Above(p) == {q \in Admitted : Prefers(q, p)}
           Initials == {Above(p) : p \in Admitted}
<1>1. Admitted \subseteq DOMAIN inspected /\ IsFiniteSet(Admitted)
  <2>1. Admitted \subseteq DOMAIN inspected
    BY DEF Admitted
  <2> QED
    BY <2>1, FS_Subset
<1>2. \A p \in Admitted : p \in Nat /\ inspected[p] \in Nat \X Nat \X Nat
  BY <1>1, InspectedTypes
<1>3. \A p \in Admitted : ~Prefers(p, p)
  BY <1>2 DEF Prefers
<1>4. \A p, q, r \in Admitted : Prefers(p, q) /\ Prefers(q, r) => Prefers(p, r)
  BY <1>2 DEF Prefers
<1>5. \A p, q \in Admitted : p # q => Prefers(p, q) \/ Prefers(q, p)
  BY <1>2 DEF Prefers
<1>6. Initials \subseteq FiniteSubsetsOf(Admitted) /\ Initials # {}
  <2>1. ASSUME NEW p \in Admitted
        PROVE  Above(p) \subseteq Admitted /\ IsFiniteSet(Above(p))
    <3>1. Above(p) \subseteq Admitted
      OBVIOUS
    <3> QED
      BY <3>1, <1>1, FS_Subset
  <2> QED
    BY <2>1, Zenon DEF FiniteSubsetsOf
<1>7. PICK A \in Initials : \A B \in Initials : <<B, A>> \notin StrictSubsetOrdering(Admitted)
  <2> HIDE DEF Initials
  <2> QED
    BY <1>6, FS_StrictSubsetOrderingWellFounded, WFMin, Zenon
<1>8. PICK p \in Admitted : A = Above(p)
  OBVIOUS
<1>9. ASSUME NEW q \in Admitted, Prefers(q, p)
      PROVE  FALSE
  <2>1. Above(q) \subseteq Above(p) /\ q \in Above(p) /\ q \notin Above(q)
    BY <1>3, <1>4, <1>9
  <2>2. <<Above(q), A>> \in StrictSubsetOrdering(Admitted)
    BY <2>1, <1>8 DEF StrictSubsetOrdering
  <2> QED
    BY <1>7, <2>2
<1>10. ASSUME NEW q \in Admitted \ {p}
       PROVE  Precedes(Key(p), Key(q))
  BY <1>1, <1>5, <1>9, KeysPrefer
<1> QED
  BY <1>10

--------------------------------------------------------------------------------
(* What run owns                                                           *)

LEMMA Handshake == Len(StartRequests) = 5
BY DEF StartRequests

(* What discovery keeps, whatever it does.                                 *)
LEMMA DiscoveryTypes == DiscoveryTypeOK /\ Choosing /\ BridgeNext => DiscoveryTypeOK'
<1> SUFFICES ASSUME DiscoveryTypeOK, Choosing, BridgeNext
             PROVE  DiscoveryTypeOK'
  OBVIOUS
<1> USE DEF DiscoveryTypeOK
<1>1. ASSUME QuietBinary
      PROVE  DiscoveryTypeOK'
  BY <1>1 DEF QuietBinary, discoveryVars
<1>2. ASSUME NEW p \in Paths, TakesGiven(p)
      PROVE  DiscoveryTypeOK'
  BY <1>2 DEF TakesGiven
<1>3. CASE Discovers
  <2>1. PICK first \in Queried, second \in Queried, onDisk \in Walked : Collects(Listed(first, second), onDisk)
    BY <1>3 DEF Discovers
  <2>2. phase = "discovery" /\ DOMAIN inspected = {}
    BY <1>3 DEF Discovers, Choosing
  <2>3. candidates' \subseteq Paths
    BY <2>1 DEF Collects, Queried, Walked, Listed, Lines, NamedPaths
  <2> QED
    BY <2>1, <2>2, <2>3 DEF Collects
<1>4. CASE InspectsNext
  BY <1>4 DEF InspectsNext, Inspects, Waiting, Admission, ProbeTells
<1>5. CASE SelectsBest
  <2>1. CASE Admitted # {}
    <3>1. binary' \in Admitted
      BY <1>5, <2>1, SelectionExists DEF SelectsBest, Selects, Choosing
    <3> QED
      BY <1>5, <2>1, <3>1 DEF SelectsBest, Selects, Admitted
  <2>2. CASE Admitted = {}
    BY <1>5, <2>2 DEF SelectsBest, QuietBinary, discoveryVars
  <2> QED
    BY <2>1, <2>2
<1>6. CASE Configures
  BY <1>6 DEF Configures
<1>7. CASE Upgrades
  BY <1>7 DEF Upgrades, Upgraded
<1> QED
  BY <1>1, <1>2, <1>3, <1>4, <1>5, <1>6, <1>7, Zenon DEF BridgeNext, Chooses, Runs, LossBegins, Finally, Surroundings,
     ValidatesOptions, Admits, ClientStarts, StartStops, StartFails, BindingFails, ServerStarts, WaitReturns, LossAwaited,
     ServerLeft, LossTaskRuns, LossSettles, LossTaskEnds, WatchersJoined, CollectsLoss, ShutdownLoses, SettlesService,
     SocketsClose, RequestsEnd, ServerShutDown, ShutDownRaises, ServerDown, 
     ClientStops, ChildSpawns, RequestAnswered, ChildExits, LossNoticed, SocketsOpen,
     ServerEnds, Quarantined, Interrupted, Signals, BridgeKilled

(* The types, and what they relate.                                        *)
LEMMA TypesStep == LifecycleTypeOK /\ Choosing /\ BridgeNext => LifecycleTypeOK'
<1> SUFFICES ASSUME LifecycleTypeOK, Choosing, BridgeNext
             PROVE  LifecycleTypeOK'
  OBVIOUS
<1>1. DiscoveryTypeOK'
  BY DiscoveryTypes DEF LifecycleTypeOK
<1> USE <1>1, Handshake DEF LifecycleTypeOK, QuietMain, QuietChild, QuietService, QuietServer, QuietRun,
        mainVars, childVars, serviceVars, serverVars
<1>2. CASE Chooses
  <2>1. exit' \in {-1, 0, 1, 2, 130} /\ raising' = raising /\ errors' = errors
    BY <1>2 DEF Chooses, ValidatesOptions, TakesGiven, Discovers, InspectsNext, SelectsBest, Configures, Exits, Goes
  <2>2. QuietRun
    BY <1>2 DEF Chooses, ValidatesOptions, TakesGiven, Discovers, InspectsNext, SelectsBest, Configures
  <2> QED
    BY <2>1, <2>2
<1>3. CASE Admits
  <2>1. exit' \in {-1, 0, 1, 2, 130} /\ raising' \in {"no", "error", "interrupt"} /\ errors' = errors
    BY <1>3 DEF Admits, Exits, Goes
  <2> QED
    BY <1>3, <2>1 DEF Admits
<1>4. CASE ClientStarts
  <2>1. exit' \in {-1, 0, 1, 2, 130} /\ raising' \in {"no", "error", "interrupt"} /\ errors' = errors
    BY <1>4 DEF ClientStarts, Goes, Unwinds
  <2> QED
    BY <1>4, <2>1 DEF ClientStarts
<1>5. CASE StartStops
  BY <1>5 DEF StartStops
<1>6. CASE StartFails
  BY <1>6 DEF StartFails, ClientStopped, Unwinds
<1>7. CASE BindingFails
  BY <1>7 DEF BindingFails, Unwinds
<1>8. CASE ServerStarts
  <2>1. exit' \in {-1, 0, 1, 2, 130} /\ raising' \in {"no", "error", "interrupt"} /\ errors' = errors
    BY <1>8 DEF ServerStarts, Goes, Unwinds
  <2> QED
    BY <1>8, <2>1 DEF ServerStarts, MetadataWritten, MetadataAsBefore
<1>9. CASE WaitReturns
  <2>1. exit' \in {-1, 0, 1, 2, 130} /\ raising' \in {"no", "error", "interrupt"} /\ errors' = errors
    BY <1>9 DEF WaitReturns, Goes
  <2> QED
    BY <1>9, <2>1 DEF WaitReturns
<1>10. CASE LossAwaited
  <2>1. exit' \in {-1, 0, 1, 2, 130} /\ raising' \in {"no", "error", "interrupt"} /\ errors' = errors
    BY <1>10 DEF LossAwaited, Goes, Unwinds
  <2> QED
    BY <1>10, <2>1 DEF LossAwaited
<1>11. CASE ServerLeft
  <2>1. exit' \in {-1, 0, 1, 2, 130} /\ raising' \in {"no", "error", "interrupt"} /\ errors' = errors
    BY <1>11 DEF ServerLeft, Unwinds
  <2> QED
    BY <1>11, <2>1 DEF ServerLeft
<1>12. CASE LossTaskRuns
  BY <1>12 DEF LossTaskRuns, Loses
<1>13. CASE LossSettles
  BY <1>13 DEF LossSettles, ClientStopped
<1>14. CASE LossTaskEnds
  BY <1>14 DEF LossTaskEnds
<1>15. CASE WatchersJoined
  BY <1>15 DEF WatchersJoined, Goes
<1>16. CASE CollectsLoss
  BY <1>16 DEF CollectsLoss, Collecting
<1>17. CASE ShutdownLoses
  BY <1>17 DEF ShutdownLoses, Loses
<1>18. CASE SettlesService
  BY <1>18 DEF SettlesService, Collecting
<1>19. CASE SocketsClose
  BY <1>19 DEF SocketsClose
<1>20. CASE ServerShutDown \/ ShutDownRaises
  <2>1. \E failed \in BOOLEAN : ServerDown(failed)
    BY <1>20 DEF ServerShutDown, ShutDownRaises
  <2>2. errors' \subseteq errors \cup {"server"} /\ UNCHANGED <<exit, raising>>
    BY <2>1 DEF ServerDown, Collecting
  <2> QED
    BY <2>1, <2>2 DEF ServerDown, MetadataRemoved
<1>21. CASE ClientStops
  BY <1>21 DEF ClientStops, ClientStopped, ExitCode
<1>22. CASE ChildSpawns
  <2>1. binary \in Paths /\ spawned' = installed[binary]
    BY <1>22 DEF ChildSpawns, Choosing
  <2>2. spawned' \in Versions \cup {NoVersion}
    BY <2>1 DEF DiscoveryTypeOK
  <2> QED
    BY <1>22, <2>2 DEF ChildSpawns
<1>23. CASE RequestAnswered
  BY <1>23 DEF RequestAnswered
<1>24. CASE ChildExits
  BY <1>24 DEF ChildExits
<1>25. CASE LossNoticed
  BY <1>25 DEF LossNoticed
<1>26. CASE SocketsOpen
  BY <1>26 DEF SocketsOpen
<1>27. CASE ServerEnds
  BY <1>27 DEF ServerEnds
<1>28. CASE Quarantined
  BY <1>28 DEF Quarantined, Loses
<1>29. CASE Interrupted
  BY <1>29 DEF Interrupted, Exits
<1>30. CASE Signals
  BY <1>30 DEF Signals
<1>31. CASE BridgeKilled
  BY <1>31 DEF BridgeKilled
<1>32. CASE Upgrades
  BY <1>32 DEF Upgrades
<1>33. CASE RequestsEnd
  BY <1>33 DEF RequestsEnd
<1> QED
  BY <1>2, <1>3, <1>4, <1>5, <1>6, <1>7, <1>8, <1>9, <1>10, <1>11, <1>12, <1>13, <1>14, <1>15, <1>16, <1>17, <1>18, <1>19, <1>20, <1>21, <1>22, <1>23, <1>24, <1>25, <1>26, <1>27, <1>28, <1>29, <1>30, <1>31, <1>32, <1>33 DEF BridgeNext, Runs, LossBegins, Finally, Surroundings

(* Every step of the process keeps what is known of its owners.            *)
LEMMA RunStep == BridgeIInv /\ [BridgeNext]_bridgeVars => RunIInv'
<1> SUFFICES ASSUME RunIInv, StartIInv, [BridgeNext]_bridgeVars
             PROVE  RunIInv'
  BY DEF BridgeIInv
<1> USE Handshake DEF RunIInv, ReadinessIsTruthful, LifecycleTypeOK, LossIsAnswered, CleanupReachesAll, Owners, ClientKnows,
        LossKnown, Settled, BeforeStart, Chosen, Cleanup, shutting_down, QuietMain, QuietChild, QuietService, QuietServer, QuietRun,
        mainVars, childVars, serviceVars, serverVars
<1>1. CASE UNCHANGED bridgeVars
  BY <1>1 DEF bridgeVars, discoveryVars, DiscoveryTypeOK
<1> SUFFICES ASSUME BridgeNext
             PROVE  RunIInv'
  BY <1>1
<1>0. phase # "over" /\ LifecycleTypeOK'
  BY TypesStep DEF BridgeNext, StartIInv
<1>2. CASE ValidatesOptions
  BY <1>0, <1>2 DEF ValidatesOptions, Exits, Goes
<1>3. ASSUME NEW p \in Paths, TakesGiven(p)
      PROVE  RunIInv'
  BY <1>0, <1>3, SMTT(60) DEF TakesGiven, Goes
<1>4. CASE Discovers
  BY <1>0, <1>4 DEF Discovers, Goes
<1>5. CASE InspectsNext
  BY <1>0, <1>5 DEF InspectsNext, Goes
<1>6. CASE SelectsBest
  BY <1>0, <1>6 DEF SelectsBest, Exits, Goes
<1>7. CASE Configures
  BY <1>0, <1>7 DEF Configures, Exits, Goes
<1>8. CASE Admits
  <2>1. PICK version \in Readmits :
             IF version = NoVersion
             THEN Exits(1) /\ UNCHANGED <<admission, client>>
             ELSE Goes("starting") /\ admission' = <<version, upgrades>> /\ client' = "starting"
    BY <1>8 DEF Admits
  <2>2. version \in Versions \cup {NoVersion} /\ upgrades \in Nat
    <3>1. binary \in Paths
      BY <1>8 DEF Admits, StartIInv, Choosing
    <3>2. installed[binary] \in Versions \cup {NoVersion} /\ upgrades \in Nat
      BY <3>1 DEF DiscoveryTypeOK
    <3> QED
      BY <3>2 DEF Readmits, Admission, ProbeTells
  <2>3. CASE version = NoVersion
    BY <1>0, <1>8, <2>1, <2>3 DEF Admits, Exits
  <2>4. CASE version # NoVersion
    BY <1>0, <1>8, <2>1, <2>2, <2>4 DEF Admits, Goes
  <2> QED
    BY <2>3, <2>4
<1>9. CASE ClientStarts
  BY <1>0, <1>9 DEF ClientStarts, Complete, Goes, Unwinds
<1>10. CASE StartStops
  BY <1>0, <1>10 DEF StartStops
<1>11. CASE StartFails
  BY <1>0, <1>11 DEF StartFails, ClientStopped, Unwinds
<1>12. CASE BindingFails
  BY <1>0, <1>12 DEF BindingFails, Unwinds
<1>13. CASE ServerStarts
  BY <1>0, <1>13 DEF ServerStarts, Publishes, Goes, Unwinds, MetadataWritten, MetadataAsBefore, IsAlive
<1>14. CASE WaitReturns
  BY <1>0, <1>14 DEF WaitReturns, Watched, Goes
<1>15. CASE LossAwaited
  BY <1>0, <1>15 DEF LossAwaited, Goes, Unwinds
<1>16. CASE ServerLeft
  BY <1>0, <1>16 DEF ServerLeft, Unwinds
<1>17. CASE LossTaskRuns
  BY <1>0, <1>17 DEF LossTaskRuns, Loses
<1>18. CASE LossSettles
  BY <1>0, <1>18 DEF LossSettles, ClientStopped
<1>19. CASE LossTaskEnds
  BY <1>0, <1>19 DEF LossTaskEnds
<1>20. CASE WatchersJoined
  BY <1>0, <1>20 DEF WatchersJoined, Goes
<1>21. CASE CollectsLoss
  BY <1>0, <1>21 DEF CollectsLoss, LossCollected, Collecting
<1>22. CASE ShutdownLoses
  BY <1>0, <1>22 DEF ShutdownLoses, Loses
<1>23. CASE SettlesService
  BY <1>0, <1>23 DEF SettlesService, Collecting, AfterFailure
<1>24. CASE SocketsClose
  BY <1>0, <1>24 DEF SocketsClose
<1>25. CASE ServerShutDown \/ ShutDownRaises
  BY <1>0, <1>25 DEF ServerShutDown, ShutDownRaises, ServerDown, ServerAttempted, Collecting, Retracts, MetadataRemoved
<1>26. CASE ClientStops
  BY <1>0, <1>26 DEF ClientStops, ClientStopped, ExitCode
<1>27. CASE ChildSpawns
  BY <1>0, <1>27 DEF ChildSpawns
<1>28. CASE RequestAnswered
  BY <1>0, <1>28 DEF RequestAnswered
<1>29. CASE ChildExits
  BY <1>0, <1>29 DEF ChildExits
<1>30. CASE LossNoticed
  <2>1. CASE shutting_down
    BY <1>0, <1>30, <2>1 DEF LossNoticed
  <2>2. CASE ~shutting_down
    <3>1. early' => ~written
      BY <1>30, <2>2 DEF LossNoticed
    <3>2. cause # "shutdown" /\ exit # 0
      BY <1>0, <1>30, <2>2 DEF LossNoticed
    <3> QED
      BY <1>0, <1>30, <2>2, <3>1, <3>2 DEF LossNoticed
  <2> QED
    BY <2>1, <2>2
<1>31. CASE SocketsOpen
  BY <1>0, <1>31 DEF SocketsOpen
<1>32. CASE ServerEnds
  BY <1>0, <1>32 DEF ServerEnds
<1>33. CASE Quarantined
  BY <1>0, <1>33 DEF Quarantined, Loses
<1>34. CASE Interrupted
  BY <1>0, <1>34 DEF Interrupted, Exits
<1>35. CASE Signals
  BY <1>0, <1>35 DEF Signals, Handlers
<1>36. CASE BridgeKilled
  BY <1>0, <1>36 DEF BridgeKilled
<1>37. CASE Upgrades
  BY <1>0, <1>37 DEF Upgrades
<1>38. CASE RequestsEnd
  BY <1>0, <1>38 DEF RequestsEnd
<1> QED
  BY <1>2, <1>3, <1>4, <1>5, <1>6, <1>7, <1>8, <1>9, <1>10, <1>11, <1>12, <1>13, <1>14, <1>15, <1>16, <1>17, <1>18, <1>19, <1>20, <1>21, <1>22, <1>23, <1>24, <1>25, <1>26, <1>27, <1>28, <1>29, <1>30, <1>31, <1>32, <1>33, <1>34, <1>35, <1>36, <1>37, <1>38 DEF BridgeNext, Chooses, Runs, LossBegins, Finally, Surroundings

--------------------------------------------------------------------------------
(* What run starts                                                         *)

(* Only the choice of a binary changes what discovery has found, only an   *)
(* upgrade what is installed.                                              *)
LEMMA BinaryKeeps ==
    ASSUME BridgeNext, ~Chooses, ~Upgrades
    PROVE  QuietBinary
BY DEF BridgeNext, Runs, LossBegins, Finally, Surroundings,
     Admits, ClientStarts, StartStops, StartFails, BindingFails, ServerStarts, WaitReturns, LossAwaited,
     ServerLeft, LossTaskRuns, LossSettles, LossTaskEnds, WatchersJoined, CollectsLoss, ShutdownLoses, SettlesService,
     SocketsClose, RequestsEnd, ServerShutDown, ShutDownRaises, ServerDown, 
     ClientStops, ChildSpawns, RequestAnswered, ChildExits, LossNoticed, SocketsOpen,
     ServerEnds, Quarantined, Interrupted, Signals, BridgeKilled

(* The selected binary is the newest of the admitted ones, and of equals   *)
(* the first path.                                                         *)
LEMMA SelectionNewest ==
    ASSUME DiscoveryTypeOK, IsFiniteSet(DOMAIN inspected), Admitted # {}, Selects
    PROVE  /\ binary' \in Admitted
           /\ \A p \in Admitted :
                  /\ ~Precedes(inspected[binary'], inspected[p])
                  /\ inspected[p] = inspected[binary'] => binary' <= p
<1> DEFINE b == binary'
<1>1. b \in Admitted /\ \A q \in Admitted \ {b} : Precedes(Key(b), Key(q))
  BY SelectionExists DEF Selects
<1>2. ASSUME NEW p \in Admitted
      PROVE  ~Precedes(inspected[b], inspected[p]) /\ (inspected[p] = inspected[b] => b <= p)
  <2>1. b \in DOMAIN inspected /\ p \in DOMAIN inspected
    BY <1>1 DEF Admitted
  <2>2. /\ b \in Nat /\ inspected[b] \in Nat \X Nat \X Nat
        /\ p \in Nat /\ inspected[p] \in Nat \X Nat \X Nat
    BY <2>1, InspectedTypes
  <2>3. CASE p = b
    BY <2>2, <2>3, VersionOrder
  <2>4. CASE p # b
    <3>1. Prefers(b, p)
      BY <1>1, <2>1, <2>4, KeysPrefer
    <3> QED
      BY <2>2, <3>1, VersionOrder DEF Prefers
  <2> QED
    BY <2>3, <2>4
<1> QED
  BY <1>1, <1>2

LEMMA ChoosingStep == BridgeIInv /\ BridgeNext => Choosing'
<1> SUFFICES ASSUME BridgeIInv, BridgeNext
             PROVE  Choosing'
  OBVIOUS
<1> USE DEF Choosing, Exits, Goes
<1>1. DiscoveryTypeOK /\ Choosing /\ ~(phase = "over")
  BY DEF BridgeIInv, RunIInv, StartIInv, ReadinessIsTruthful, LifecycleTypeOK, BridgeNext
<1>2. CASE ValidatesOptions
  BY <1>1, <1>2 DEF ValidatesOptions, QuietBinary, discoveryVars
<1>3. ASSUME NEW p \in Paths, TakesGiven(p)
      PROVE  Choosing'
  BY <1>1, <1>3 DEF TakesGiven
<1>4. CASE Discovers
  BY <1>1, <1>4 DEF Discovers, Collects
<1>5. CASE InspectsNext
  <2>1. PICK p \in Paths : Inspects(p)
    BY <1>5 DEF InspectsNext
  <2>2. DOMAIN inspected' = DOMAIN inspected \cup {p}
    BY <2>1 DEF Inspects
  <2>3. IsFiniteSet(DOMAIN inspected')
    BY <1>1, <2>2, FS_AddElement
  <2> QED
    BY <1>1, <1>5, <2>1, <2>3 DEF InspectsNext, QuietMain, mainVars, Inspects
<1>6. CASE SelectsBest
  <2>1. CASE Admitted # {}
    <3>1. binary' \in Paths
      BY <1>1, <1>6, <2>1, SelectionNewest DEF SelectsBest, Admitted, DiscoveryTypeOK
    <3> QED
      BY <1>1, <1>6, <2>1, <3>1 DEF SelectsBest, Selects
  <2>2. CASE Admitted = {}
    BY <1>1, <1>6, <2>2 DEF SelectsBest, QuietBinary, discoveryVars
  <2> QED
    BY <2>1, <2>2
<1>7. CASE Configures
  <2>1. DOMAIN inspected' = {} /\ binary' = binary /\ phase = "configuration" /\ phase' \in {"admission", "over"}
    BY <1>7 DEF Configures
  <2>2. IsFiniteSet(DOMAIN inspected')
    BY <2>1, FS_EmptySet
  <2> QED
    BY <1>1, <2>1, <2>2
<1>8. CASE Upgrades
  BY <1>1, <1>8 DEF Upgrades, Upgraded, QuietMain, mainVars
<1>9. CASE ~Chooses /\ ~Upgrades
  <2>1. UNCHANGED <<candidates, inspected, binary>>
    BY <1>9, BinaryKeeps DEF QuietBinary, discoveryVars
  <2>2. phase' = phase \/ phase' \notin {"options", "discovery", "inspection", "configuration", "admission", "starting"}
                      \/ phase = "admission"
    BY <1>1, <1>9 DEF BridgeNext, Runs, LossBegins, Finally, Surroundings,
       Admits, ClientStarts, StartStops, StartFails, BindingFails, ServerStarts, WaitReturns, LossAwaited,
       ServerLeft, LossTaskRuns, LossSettles, LossTaskEnds, WatchersJoined, CollectsLoss, ShutdownLoses, SettlesService,
       SocketsClose, RequestsEnd, ServerShutDown, ShutDownRaises, ServerDown, 
       ClientStops, ChildSpawns, RequestAnswered, ChildExits, LossNoticed, SocketsOpen,
       ServerEnds, Quarantined, Interrupted, Signals, BridgeKilled, Unwinds, Collecting, AfterFailure, QuietMain, mainVars
  <2>3. phase = "admission" => phase' \in {"admission", "starting", "over"}
    BY <1>1, <1>9 DEF BridgeNext, Runs, LossBegins, Finally, Surroundings,
       Admits, ClientStarts, StartStops, StartFails, BindingFails, ServerStarts, WaitReturns, LossAwaited,
       ServerLeft, LossTaskRuns, LossSettles, LossTaskEnds, WatchersJoined, CollectsLoss, ShutdownLoses, SettlesService,
       SocketsClose, RequestsEnd, ServerShutDown, ShutDownRaises, ServerDown, 
       ClientStops, ChildSpawns, RequestAnswered, ChildExits, LossNoticed, SocketsOpen,
       ServerEnds, Quarantined, Interrupted, Signals, BridgeKilled, Unwinds, Collecting, AfterFailure, QuietMain, mainVars
  <2> QED
    BY <1>1, <2>1, <2>2, <2>3
<1> QED
  BY <1>2, <1>3, <1>4, <1>5, <1>6, <1>7, <1>8, <1>9 DEF Chooses

LEMMA SelectionStep == BridgeIInv /\ BridgeNext => SelectionIsNewest'
<1> SUFFICES ASSUME BridgeIInv, BridgeNext
             PROVE  SelectionIsNewest'
  OBVIOUS
<1>1. DiscoveryTypeOK /\ Choosing /\ SelectionIsNewest
  BY DEF BridgeIInv, RunIInv, StartIInv, ReadinessIsTruthful, LifecycleTypeOK, OnlyAdmittedStarts
<1>2. ASSUME UNCHANGED <<candidates, inspected, binary>>
      PROVE  SelectionIsNewest'
  BY <1>1, <1>2 DEF SelectionIsNewest, Admitted
<1>3. CASE ValidatesOptions
  BY <1>2, <1>3 DEF ValidatesOptions, QuietBinary, discoveryVars
<1>4. ASSUME NEW p \in Paths, TakesGiven(p)
      PROVE  SelectionIsNewest'
  BY <1>1, <1>4 DEF TakesGiven, Choosing, SelectionIsNewest
<1>5. CASE Discovers
  BY <1>1, <1>5 DEF Discovers, Collects, Choosing, SelectionIsNewest
<1>6. CASE InspectsNext
  BY <1>1, <1>6 DEF InspectsNext, Inspects, Choosing, SelectionIsNewest
<1>7. CASE SelectsBest
  <2>1. CASE Admitted # {}
    <3>1. Selects /\ UNCHANGED inspected /\ Admitted' = Admitted
      BY <1>7, <2>1 DEF SelectsBest, Selects, Admitted
    <3> QED
      BY <1>1, <2>1, <3>1, SelectionNewest DEF SelectionIsNewest, Choosing
  <2>2. CASE Admitted = {}
    BY <1>2, <1>7, <2>2 DEF SelectsBest, QuietBinary, discoveryVars
  <2> QED
    BY <2>1, <2>2
<1>8. CASE Configures
  BY <1>8 DEF Configures, SelectionIsNewest
<1>9. CASE Upgrades
  BY <1>2, <1>9 DEF Upgrades, Upgraded
<1>10. CASE ~Chooses /\ ~Upgrades
  BY <1>2, <1>10, BinaryKeeps DEF QuietBinary, discoveryVars
<1> QED
  BY <1>3, <1>4, <1>5, <1>6, <1>7, <1>8, <1>9, <1>10 DEF Chooses

(* What is started is what was admitted, unless there was an upgrade.      *)
StartedAdmitted == spawned # NoVersion => Enough(spawned) \/ upgrades > admission[2]

LEMMA AdmissionStep == BridgeIInv /\ BridgeNext => StartedAdmitted' /\ AdmissionHolds'
<1> SUFFICES ASSUME BridgeIInv, BridgeNext
             PROVE  StartedAdmitted' /\ AdmissionHolds'
  OBVIOUS
<1>1. /\ DiscoveryTypeOK /\ Choosing /\ Owners /\ ClientKnows
      /\ StartedAdmitted /\ AdmissionHolds
  BY DEF BridgeIInv, RunIInv, StartIInv, ReadinessIsTruthful, LifecycleTypeOK, OnlyAdmittedStarts, StartedAdmitted
<1>2. ASSUME UNCHANGED <<installed, upgrades, binary, admission, spawned, child>>,
             phase' = "starting" => phase = "starting"
      PROVE  StartedAdmitted' /\ AdmissionHolds'
  BY <1>1, <1>2 DEF StartedAdmitted, AdmissionHolds, Enough
<1>3. CASE Chooses
  <2>1. phase' # "starting" /\ UNCHANGED <<admission, spawned, child, upgrades>>
    BY <1>3 DEF Chooses, ValidatesOptions, TakesGiven, Discovers, InspectsNext, SelectsBest, Configures, Exits, Goes,
       QuietRun, QuietChild, childVars, QuietMain, mainVars, QuietBinary, discoveryVars, Selects, Inspects, Collects
  <2> QED
    BY <1>1, <2>1 DEF StartedAdmitted, AdmissionHolds, Enough
<1>4. CASE Upgrades
  <2>1. upgrades' = upgrades + 1 /\ UNCHANGED <<binary, admission, spawned, child, phase>>
    BY <1>4 DEF Upgrades, Upgraded, QuietMain, mainVars, QuietRun, QuietChild, childVars
  <2>2. upgrades \in Nat /\ admission[2] \in Nat
    BY <1>1 DEF DiscoveryTypeOK, ClientKnows
  <2> QED
    BY <1>1, <2>1, <2>2 DEF StartedAdmitted, AdmissionHolds
<1>5. CASE Admits
  <2>1. PICK version \in Readmits :
             IF version = NoVersion
             THEN Exits(1) /\ UNCHANGED <<admission, client>>
             ELSE Goes("starting") /\ admission' = <<version, upgrades>> /\ client' = "starting"
    BY <1>5 DEF Admits
  <2>2. UNCHANGED <<installed, upgrades, binary, spawned, child>>
    BY <1>5 DEF Admits, QuietBinary, discoveryVars
  <2>3. CASE version = NoVersion
    BY <1>2, <2>1, <2>2, <2>3 DEF Exits
  <2>4. CASE version # NoVersion
    <3>1. Enough(installed[binary])
      BY <2>1, <2>4 DEF Readmits, Admission, ProbeTells, Enough
    <3>2. spawned = NoVersion /\ upgrades \in Nat
      BY <1>1, <1>5 DEF Admits, Owners, BeforeStart, Chosen, ClientKnows, DiscoveryTypeOK
    <3>3. admission'[2] = upgrades
      BY <2>1, <2>4
    <3> QED
      BY <2>2, <3>1, <3>2, <3>3 DEF StartedAdmitted, AdmissionHolds, Enough
  <2> QED
    BY <2>3, <2>4
<1>6. CASE ChildSpawns
  <2>1. /\ spawned' = installed[binary] /\ child' = "running" /\ phase = "starting" /\ child = "none"
        /\ UNCHANGED <<admission, upgrades>>
    BY <1>6 DEF ChildSpawns, QuietBinary, discoveryVars
  <2>2. upgrades \in Nat /\ admission[2] \in Nat
    BY <1>1 DEF DiscoveryTypeOK, ClientKnows
  <2> QED
    BY <1>1, <2>1, <2>2 DEF StartedAdmitted, AdmissionHolds, Enough
<1>7. CASE ~Chooses /\ ~Upgrades /\ ~Admits /\ ~ChildSpawns
  <2>1. UNCHANGED <<installed, upgrades, binary>>
    BY <1>7, BinaryKeeps DEF QuietBinary, discoveryVars
  <2>2. UNCHANGED <<admission, spawned>> /\ (child' = child \/ child' = "gone")
        /\ (phase' = "starting" => phase = "starting")
    BY <1>7 DEF BridgeNext, Runs, LossBegins, Finally, Surroundings,
       ClientStarts, StartStops, StartFails, BindingFails, ServerStarts, WaitReturns, LossAwaited,
       ServerLeft, LossTaskRuns, LossSettles, LossTaskEnds, WatchersJoined, CollectsLoss, ShutdownLoses, SettlesService,
       SocketsClose, RequestsEnd, ServerShutDown, ShutDownRaises, ServerDown, 
       ClientStops, RequestAnswered, ChildExits, LossNoticed, SocketsOpen,
       ServerEnds, Quarantined, Interrupted, Signals, BridgeKilled, Goes, Exits, Unwinds, Collecting, AfterFailure,
       QuietMain, mainVars, QuietRun, QuietChild, childVars, ClientStopped
  <2> QED
    BY <1>1, <2>1, <2>2 DEF StartedAdmitted, AdmissionHolds, Enough
<1> QED
  BY <1>3, <1>4, <1>5, <1>6, <1>7

--------------------------------------------------------------------------------
(* The theorems                                                            *)

LEMMA BridgeStarts == LifecycleInit => BridgeIInv
<1> SUFFICES ASSUME LifecycleInit
             PROVE  BridgeIInv
  OBVIOUS
<1> USE Handshake DEF LifecycleInit, DiscoveryInit
<1>1. DiscoveryTypeOK /\ DOMAIN inspected = {}
  BY DEF DiscoveryTypeOK
<1>2. RunIInv
  BY <1>1 DEF RunIInv, ReadinessIsTruthful, LifecycleTypeOK, LossIsAnswered, CleanupReachesAll, Owners, ClientKnows,
     LossKnown, Settled, BeforeStart, Chosen, Cleanup, shutting_down
<1>3. StartIInv
  BY <1>1, FS_EmptySet DEF StartIInv, OnlyAdmittedStarts, SelectionIsNewest, AdmissionHolds, Choosing
<1> QED
  BY <1>2, <1>3 DEF BridgeIInv

LEMMA BridgeStep == BridgeIInv /\ [BridgeNext]_bridgeVars => BridgeIInv'
<1> SUFFICES ASSUME BridgeIInv, [BridgeNext]_bridgeVars
             PROVE  BridgeIInv'
  OBVIOUS
<1>1. RunIInv'
  BY RunStep
<1>2. StartIInv'
  <2>1. CASE BridgeNext
    BY <2>1, ChoosingStep, SelectionStep, AdmissionStep DEF StartIInv, OnlyAdmittedStarts, StartedAdmitted
  <2>2. CASE UNCHANGED bridgeVars
    BY <2>2 DEF BridgeIInv, StartIInv, OnlyAdmittedStarts, SelectionIsNewest, Admitted, AdmissionHolds, Choosing, Enough,
       bridgeVars, discoveryVars, mainVars, childVars
  <2> QED
    BY <2>1, <2>2
<1> QED
  BY <1>1, <1>2 DEF BridgeIInv

LEMMA BridgeInductive == BridgeSpec => []BridgeIInv
BY BridgeStarts, BridgeStep, PTL DEF BridgeSpec

(* The metadata file of a running bridge is there only while its binary    *)
(* was admitted, its client answered the handshake and its server listens, *)
(* and a bridge that ends takes it away (run, _remove_metadata_file).      *)
THEOREM Ready == BridgeSpec => []ReadinessIsTruthful
<1>1. BridgeIInv => ReadinessIsTruthful
  BY DEF BridgeIInv, RunIInv
<1> QED
  BY <1>1, BridgeInductive, PTL

(* A child that was lost before the bridge was ready is never reported     *)
(* ready and fails the bridge, and a loss is accounted as a loss           *)
(* (_owned_child_closed, run).                                             *)
THEOREM LossAnswered == BridgeSpec => []LossIsAnswered
<1>1. BridgeIInv => LossIsAnswered
  BY DEF BridgeIInv, RunIInv
<1> QED
  BY <1>1, BridgeInductive, PTL

(* The finally clause of run reaches every owner, whichever of its steps   *)
(* fails, and a clean exit means that none did.                            *)
THEOREM CleanupReached == BridgeSpec => []CleanupReachesAll
<1>1. BridgeIInv => CleanupReachesAll
  BY DEF BridgeIInv, RunIInv
<1> QED
  BY <1>1, BridgeInductive, PTL

(* The selected binary is the newest admitted one, and what run starts has *)
(* an admitted version, or was upgraded after run's own admission.         *)
THEOREM AdmittedStarts == BridgeSpec => []OnlyAdmittedStarts
<1>1. BridgeIInv => OnlyAdmittedStarts
  BY DEF BridgeIInv, StartIInv
<1> QED
  BY <1>1, BridgeInductive, PTL
================================================================================
