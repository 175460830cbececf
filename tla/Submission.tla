------------------------------ MODULE Submission ------------------------------
(***************************************************************************)
(* LendingClient.submitInvoke of sdk/src/client.ts: read the account's     *)
(* sequence number, sign, submit over HTTP, once more over the WebSocket   *)
(* if that fails, and poll until the ledger has validated the transaction  *)
(* or the polls are used up.  Each Caller is one asynchronous caller; what *)
(* runs between two awaits is one step.                                    *)
(*                                                                         *)
(* The node that answers is external.  It is modelled by what the client   *)
(* can see of it: a request may be answered, fail without having arrived,  *)
(* or fail and arrive all the same, at once or later.  Transactions carry  *)
(* no LastLedgerSequence, so nothing ever makes one expire.                *)
(***************************************************************************)
EXTENDS Naturals, FiniteSets

CONSTANTS
    Callers,    \* concurrent callers of the client
    Requests,   \* calls of submitInvoke, each made at most once
    MaxPolls    \* how often validation is asked for (30 in the source)

ASSUME SubmissionAssumption == MaxPolls \in Nat \ {0}

VARIABLES
    call,       \* what each caller's submitInvoke is doing
    outcome,    \* what each request came to: the TxResult, or an exception
    open,       \* transactions in the node's open ledger or its queue
    wire,       \* transactions that may still reach the node
    validated   \* transactions in validated ledgers, with their results

submissionVars == <<call, outcome, open, wire, validated>>

CONSTANT NoRequest      \* the request of a caller that is not calling

ASSUME NoRequestAssumption == NoRequest \notin Requests

Transactions == [by : Requests, seq : Nat]

\* The outcomes of submitInvoke: a validated tesSUCCESS, a validated failure, and
\* everything that is returned unvalidated ("timeout", a provisional failure) or thrown.
Outcomes == {"success", "rejected", "failure"}

Calls ==
    [stage : {"idle", "sequencing", "sending", "resending", "polling"},
     request : Requests \cup {NoRequest},
     seq : Nat,
     polls : 0 .. MaxPolls]

SubmissionTypeOK ==
    /\ call \in [Callers -> Calls]
    /\ outcome \in [Requests -> Outcomes \cup {"none", "pending"}]
    /\ open \subseteq Transactions
    /\ wire \subseteq Transactions
    /\ \A v \in validated : v.tx \in Transactions /\ v.result \in {"success", "rejected"}

\* A caller with no call under way.
NoCall == [stage |-> "idle", request |-> NoRequest, seq |-> 0, polls |-> 0]

SubmissionInit ==
    /\ call = [c \in Callers |-> NoCall]
    /\ outcome = [r \in Requests |-> "none"]
    /\ open = {}
    /\ wire = {}
    /\ validated = {}

-----------------------------------------------------------------------------
(* The node (external).                                                    *)

\* The account's sequence number in validated ledgers.
AccountSequence == Cardinality(validated)

\* Its sequence number in the open ledger: account_info of "current".
OpenSequence ==
    CHOOSE s \in AccountSequence .. AccountSequence + Cardinality(open) :
        /\ \A tx \in open : tx.seq # s
        /\ \A earlier \in AccountSequence .. s - 1 : \E tx \in open : tx.seq = earlier

\* The engine results a submitted transaction may be answered with.
Provisional(tx) ==
    CASE tx.seq < OpenSequence \/ tx \in open -> {"tef"}
      [] tx.seq > OpenSequence /\ tx \notin open -> {"ter"}
      [] OTHER -> {"tesSUCCESS", "ter", "tec", "tel"}

\* With these results the node keeps the transaction and may validate it.
Kept == {"tesSUCCESS", "ter", "tec"}

NodeTakes(tx, result) ==
    open' = IF result \in Kept THEN open \cup {tx} ELSE open

\* A transaction that was sent and never answered reaches the node.
Arrive ==
    \E tx \in wire :
        /\ wire' = wire \ {tx}
        /\ \E result \in Provisional(tx) : NodeTakes(tx, result)
        /\ UNCHANGED <<call, outcome, validated>>

\* The node drops a transaction of its open ledger; other nodes may bring it back.
Drop ==
    \E tx \in open :
        /\ open' = open \ {tx}
        /\ wire' = wire \cup {tx}
        /\ UNCHANGED <<call, outcome, validated>>

\* A ledger closes with the account's next transaction. Its final result need
\* not be the provisional one (tesSUCCESS or tec). What else carries its number
\* is of no use any more.
Validate ==
    \E tx \in open, result \in {"success", "rejected"} :
        /\ tx.seq = AccountSequence
        /\ validated' = validated \cup {[tx |-> tx, result |-> result]}
        /\ open' = {other \in open : other.seq # tx.seq}
        /\ wire' = {other \in wire : other.seq # tx.seq}
        /\ UNCHANGED <<call, outcome>>

-----------------------------------------------------------------------------
(* The client.                                                             *)

\* The transaction the caller has signed.
Signed(c) == [by |-> call[c].request, seq |-> call[c].seq]

\* submitInvoke returns the result, or throws.
Return(c, result) ==
    /\ call' = [call EXCEPT ![c] = NoCall]
    /\ outcome' = [outcome EXCEPT ![call[c].request] = result]

\* No poll has been made yet: polls is 0 since the call began.
StartPolling(c) ==
    /\ call' = [call EXCEPT ![c].stage = "polling"]
    /\ UNCHANGED outcome

\* submitInvoke is called, and asks for the network id and the sequence number.
Invoke(c, r) ==
    /\ call[c].stage = "idle"
    /\ outcome[r] = "none"
    /\ call' = [call EXCEPT ![c].stage = "sequencing", ![c].request = r]
    /\ outcome' = [outcome EXCEPT ![r] = "pending"]
    /\ UNCHANGED <<open, wire, validated>>

\* The sequence number is read; the transaction is signed with it and sent.
ReadSequence(c) ==
    /\ call[c].stage = "sequencing"
    /\ call' = [call EXCEPT ![c].stage = "sending", ![c].seq = OpenSequence]
    /\ UNCHANGED <<outcome, open, wire, validated>>

ReadSequenceFails(c) ==
    /\ call[c].stage = "sequencing"
    /\ Return(c, "failure")
    /\ UNCHANGED <<open, wire, validated>>

\* The HTTP submission is answered. Everything but tesSUCCESS and ter* is
\* returned at once.
SubmitAnswered(c) ==
    /\ call[c].stage = "sending"
    /\ \E result \in Provisional(Signed(c)) :
         /\ NodeTakes(Signed(c), result)
         /\ IF result \in {"tesSUCCESS", "ter"} THEN StartPolling(c) ELSE Return(c, "failure")
    /\ UNCHANGED <<wire, validated>>

\* Faulty variant: after a failure the call starts over with a new sequence number.
SubmitFailsStartsOver(c) ==
    /\ call[c].stage = "sending"
    /\ wire' = wire \cup {Signed(c)}
    /\ call' = [call EXCEPT ![c].stage = "sequencing"]
    /\ UNCHANGED <<outcome, open, validated>>

\* The HTTP submission fails. The same blob is submitted over the WebSocket.
SubmitFails(c) ==
    /\ call[c].stage = "sending"
    /\ wire' = wire \cup {Signed(c)}
    /\ call' = [call EXCEPT ![c].stage = "resending"]
    /\ UNCHANGED <<outcome, open, validated>>

\* The second submission is answered. Its engine result is not looked at.
ResubmitAnswered(c) ==
    /\ call[c].stage = "resending"
    /\ \E result \in Provisional(Signed(c)) : NodeTakes(Signed(c), result)
    /\ StartPolling(c)
    /\ UNCHANGED <<wire, validated>>

ResubmitFails(c) ==
    /\ call[c].stage = "resending"
    /\ wire' = wire \cup {Signed(c)}
    /\ Return(c, "failure")
    /\ UNCHANGED <<open, validated>>

\* A poll finds the transaction validated.
PollFinds(c) ==
    /\ call[c].stage = "polling"
    /\ call[c].polls < MaxPolls
    /\ \E v \in validated : v.tx = Signed(c) /\ Return(c, v.result)
    /\ UNCHANGED <<open, wire, validated>>

\* Faulty variant: polls are not counted.
PollMissesUncounted(c) ==
    /\ call[c].stage = "polling"
    /\ call[c].polls < MaxPolls
    /\ UNCHANGED submissionVars

\* Faulty variant: one poll too many.
PollMissesTooOften(c) ==
    /\ call[c].stage = "polling"
    /\ call[c].polls <= MaxPolls
    /\ call' = [call EXCEPT ![c].polls = @ + 1]
    /\ UNCHANGED <<outcome, open, wire, validated>>

\* A poll finds nothing yet, or fails.
PollMisses(c) ==
    /\ call[c].stage = "polling"
    /\ call[c].polls < MaxPolls
    /\ call' = [call EXCEPT ![c].polls = @ + 1]
    /\ UNCHANGED <<outcome, open, wire, validated>>

PollsUsedUp(c) ==
    /\ call[c].stage = "polling"
    /\ call[c].polls = MaxPolls
    /\ Return(c, "failure")
    /\ UNCHANGED <<open, wire, validated>>

NodeStep == Arrive \/ Drop \/ Validate

CallStep(c) ==
    \/ ReadSequence(c)
    \/ ReadSequenceFails(c)
    \/ SubmitAnswered(c)
    \/ SubmitFails(c)
    \/ ResubmitAnswered(c)
    \/ ResubmitFails(c)
    \/ PollFinds(c)
    \/ PollMisses(c)
    \/ PollsUsedUp(c)

-----------------------------------------------------------------------------
(* What the client promises.                                               *)

Effects(r) == Cardinality({v \in validated : v.tx.by = r /\ v.result = "success"})

Promise == INSTANCE RemoteCall WITH
    answer <- outcome,
    effects <- [r \in Requests |-> Effects(r)]

\* submitInvoke keeps the promise of RemoteCall: at most one effect per call, no
\* success without one, no effect after a validated rejection, although answers
\* get lost, transactions are submitted twice and arrive late, and callers overlap.
PromiseKept == Promise!Spec

\* The promise read from liquidator.ts:4, "sequentially (one at a time) to avoid
\* nonce conflicts": two transactions under way never carry the same sequence number.
NoNonceConflict ==
    \A c, d \in Callers :
        (c # d /\ {call[c].stage, call[d].stage} \subseteq {"sending", "resending", "polling"})
            => call[c].seq # call[d].seq
=============================================================================
