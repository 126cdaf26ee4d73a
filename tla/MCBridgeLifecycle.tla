--------------------------- MODULE MCBridgeLifecycle ---------------------------
(* Two paths; of the versions one is too old, and two differ in their last *)
(* number only.  The second query of the process list, and the data        *)
(* directory, have what the first one may lack.  At the start the second   *)
(* path has the newest version or none, the first one any or none.         *)
EXTENDS BridgeLifecycle

Releases == {<<1, 517, 9>>, <<1, 518, 3>>, <<1, 518, 4>>}
LeastRelease == <<1, 518, 3>>
NewestRelease == <<1, 518, 4>>

Installation == upgrades = 0 => installed[2] \in {NoVersion, NewestRelease}
================================================================================
