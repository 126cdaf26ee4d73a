------------------------------ MODULE DirectState ------------------------------
(***************************************************************************)
(* The vocabulary of direct_state.py and direct_protocol.py: the          *)
(* operations a caller can name, the states an operation and a session     *)
(* pass through, the negotiated limits, and what the ledger decides from   *)
(* them.  It has no variables; DirectService.tla keeps the state.          *)
(*                                                                         *)
(* An operation identity is a member of Ops.  The content a caller sends   *)
(* under it (digest, kind, session, invocation, target) is one request     *)
(* record, so "same content" is equality of requests.                      *)
(***************************************************************************)
EXTENDS Integers, FiniteSets

CONSTANTS
    Ops,                \* operation identities callers may use
    Sessions,           \* logical session identities callers may use
    NoOp,               \* "no operation": active_operation_id is None
    Loss,               \* the task _owned_child_closed starts (__main__.py)
    Main,               \* the task that runs the bridge (__main__.py)
    MaxOperations,      \* DirectLimits.max_operations
    MaxSessions,        \* DirectLimits.max_sessions
    MaxQueuedPrompts    \* DirectLimits.max_queued_prompts

(* The identities are distinct, and the limits have the bounds that        *)
(* DirectLimits declares for them.                                         *)
ASSUME IdentityAssumption ==
    /\ NoOp \notin Ops
    /\ Loss \notin Ops \cup {NoOp}
    /\ Main \notin Ops \cup {NoOp, Loss}
    /\ IsFiniteSet(Ops)
    /\ IsFiniteSet(Sessions)

ASSUME LimitAssumption ==
    /\ MaxOperations \in Nat \ {0}
    /\ MaxSessions \in Nat \ {0}
    /\ MaxQueuedPrompts \in Nat

Phases == {"initial", "later"}

(* OperationRecord: the identity a request is compared by.  Fields an      *)
(* operation kind does not use are None.                                   *)
Requests == [kind : {"create", "prompt", "cancel", "retire"},
             sess : Sessions,
             phase : Phases \cup {"none"},
             target : Ops \cup {NoOp}]

NoRequest == [kind |-> "none", sess |-> NoOp, phase |-> "none", target |-> NoOp]

CreateRequest(s) == [kind |-> "create", sess |-> s, phase |-> "none", target |-> NoOp]
PromptRequest(s, p) == [kind |-> "prompt", sess |-> s, phase |-> p, target |-> NoOp]
CancelRequest(s, t) == [kind |-> "cancel", sess |-> s, phase |-> "none", target |-> t]
RetireRequest(s) == [kind |-> "retire", sess |-> s, phase |-> "none", target |-> NoOp]

Terminal == {"completed", "failed", "cancelled", "timed_out", "in_doubt"}

OperationStates ==
    {"accepted", "queued", "running", "cancelling"} \cup Terminal

SessionStates ==
    {"ready", "busy", "non_reusable", "lost", "retiring", "retired"}

(* DirectLedger.admit: an identity is fresh once for the whole generation. *)
(* A second request under it either joins the recorded operation or is a   *)
(* conflict, and neither changes anything; nothing is ever evicted, so a   *)
(* full ledger refuses.                                                    *)
LedgerAdmits_OneMore(ledger, o) ==
    /\ ledger[o] = NoRequest
    /\ Cardinality({x \in Ops : ledger[x] # NoRequest}) <= MaxOperations

LedgerAdmits(ledger, o) ==
    /\ ledger[o] = NoRequest
    /\ Cardinality({x \in Ops : ledger[x] # NoRequest}) < MaxOperations

(* OperationRecord.set_terminal: the first terminal outcome is kept.       *)
SetTerminal(state, o, outcome) ==
    [state EXCEPT ![o] = IF @ \in Terminal THEN @ ELSE outcome]
================================================================================
