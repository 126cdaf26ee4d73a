--------------------------- MODULE MCCommandGuardian ---------------------------
(* Four processes, and calls of settled that reap one at most.             *)
EXTENDS CommandGuardian
================================================================================
