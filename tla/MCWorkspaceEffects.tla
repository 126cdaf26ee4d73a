--------------------------- MODULE MCWorkspaceEffects --------------------------
(* A session that runs a command and a file batch, one after another, with *)
(* a call of cancel and one of close at any time.  The batch creates or    *)
(* edits, and names each file once; two names may resolve to one path.     *)
EXTENDS WorkspaceEffects

CONSTANTS p, q

MCPaths == {p, q}
Call(create, paths) == [i \in DOMAIN paths |-> [path |-> paths[i], creates |-> create]]
MCBatches == {Call(TRUE, <<p>>), Call(FALSE, <<p, q>>)}

(* The command comes before the batch, if it comes.                        *)
CommandFirst == place[File] \in Over => \A c \in Commands : place[c] \in Over \cup {"idle"}
================================================================================
