--------------------------- MODULE MCNativeTransport ---------------------------
(* Any three of a control request, a prompt, a notification and three      *)
(* callbacks, of which the generation may have two.  With a raw event file *)
(* one of them, between notifications of the server: two records fill the  *)
(* queue by number or by size, and one may be too large by itself.         *)
EXTENDS NativeTransport

MaxSenders == IF captured THEN 1 ELSE 3
Traffic == Cardinality({s \in Senders : at[s] # "idle"}) <= MaxSenders
================================================================================
