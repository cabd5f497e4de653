----------------------------- MODULE RemoteCall -----------------------------
(***************************************************************************)
(* What calling a service promises the caller: the request reaches the     *)
(* provider at most once, and the call ends at most once, either with the  *)
(* answer to that very request or with an error.  An error says nothing of *)
(* whether the request was delivered.  ServiceCaller implements this as    *)
(* long as every response can be decoded.                                  *)
(***************************************************************************)
CONSTANTS
    Calls,       \* the calls a node makes
    NoCall       \* none of them

VARIABLES
    status,      \* how far each call is
    delivered,   \* the calls whose request has reached the provider
    answer       \* the call whose request each call was given the answer to

vars == <<status, delivered, answer>>

Init ==
    /\ status = [c \in Calls |-> "idle"]
    /\ delivered = {}
    /\ answer = [c \in Calls |-> NoCall]

Start(c) ==
    /\ status[c] = "idle"
    /\ status' = [status EXCEPT ![c] = "open"]
    /\ UNCHANGED <<delivered, answer>>

Deliver(c) ==
    /\ status[c] = "open"
    /\ c \notin delivered
    /\ delivered' = delivered \cup {c}
    /\ UNCHANGED <<status, answer>>

Return(c) ==
    /\ status[c] = "open"
    /\ c \in delivered
    /\ status' = [status EXCEPT ![c] = "returned"]
    /\ answer' = [answer EXCEPT ![c] = c]
    /\ UNCHANGED delivered

Fail(c) ==
    /\ status[c] \in {"idle", "open"}
    /\ status' = [status EXCEPT ![c] = "failed"]
    /\ UNCHANGED <<delivered, answer>>

Next == \E c \in Calls : Start(c) \/ Deliver(c) \/ Return(c) \/ Fail(c)

Spec == Init /\ [][Next]_vars
=============================================================================
