------------------------------ MODULE RemoteCall ------------------------------
(***************************************************************************)
(* What submitting a contract call over an unreliable connection promises  *)
(* whoever asks for it, without saying how (sdk/src/client.ts):            *)
(*   - a request takes effect at most once;                                *)
(*   - success is reported only for a request that took effect;            *)
(*   - a request reported as rejected by the ledger never takes effect;    *)
(*   - any other failure says nothing: the request may have taken effect,  *)
(*     or take effect later.                                               *)
(***************************************************************************)
EXTENDS Naturals

CONSTANT Requests

VARIABLES
    answer,     \* what the requester knows of each request
    effects     \* how often each request took effect on the ledger

vars == <<answer, effects>>

Answers == {"none", "pending", "success", "rejected", "failure"}

Init ==
    /\ answer = [r \in Requests |-> "none"]
    /\ effects = [r \in Requests |-> 0]

Ask(r) ==
    /\ answer[r] = "none"
    /\ answer' = [answer EXCEPT ![r] = "pending"]
    /\ UNCHANGED effects

TakeEffect(r) ==
    /\ answer[r] \in {"pending", "failure"}
    /\ effects[r] = 0
    /\ effects' = [effects EXCEPT ![r] = 1]
    /\ UNCHANGED answer

Answer(r, a) ==
    /\ answer[r] = "pending"
    /\ a = "success" => effects[r] = 1
    /\ a = "rejected" => effects[r] = 0
    /\ answer' = [answer EXCEPT ![r] = a]
    /\ UNCHANGED effects

Next ==
    \E r \in Requests :
        \/ Ask(r)
        \/ TakeEffect(r)
        \/ \E a \in {"success", "rejected", "failure"} : Answer(r, a)

Spec == Init /\ [][Next]_vars
=============================================================================
