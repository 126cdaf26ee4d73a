----------------------------- MODULE MCNativeTurn -----------------------------
(* Tool calls are interchangeable, which the liveness runs do not use.     *)
EXTENDS NativeTurnContract, Naturals, FiniteSets, TLC

(* Whether an end carries an error decides only the name of the outcome.   *)
EndsWithoutError == ~failing

(* So an error is followed in turns that make one call.                    *)
ErrorWithOneCall == (\A k \in Calls : calls[k] # "none") => EndsWithoutError

(* Turns are numbers, and run in order.  The second is there for what it   *)
(* may inherit: it makes one call, and only while the client serves (once  *)
(* the transport is lost or the cleanup began, no turn starts).            *)
SecondTurn ==
    phase[2] # "unused" =>
        /\ phase[1] # "unused"
        /\ open /\ cleanup = "idle"
        /\ Cardinality({k \in Calls : calls[k] # "none"}) <= 1

InterchangeableCalls == Permutations(Calls)
================================================================================
