----------------------------- MODULE MCOwnedCommand ----------------------------
(* A root and two descendants.                                             *)
EXTENDS OwnedCommand
================================================================================
