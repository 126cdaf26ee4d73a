----------------------------- MODULE MCProcessOwners ---------------------------
(* Commands of three processes, and a probe of two whose output may reach  *)
(* two bytes past a limit of two.                                          *)
EXTENDS ProcessOwners
================================================================================
