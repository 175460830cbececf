--------------------------- MODULE SubmissionProofs ---------------------------
(***************************************************************************)
(* What every step of the client and of the node preserves: the types, and *)
(* that finitely many transactions are under way, so that the node has a   *)
(* sequence number to give.  At the end, what the promise of RemoteCall    *)
(* rests on: where the transaction of a call can be.                       *)
(***************************************************************************)
EXTENDS Submission, FiniteSetTheorems, WellFoundedInduction, TLAPS

SubmissionInv ==
    /\ SubmissionTypeOK
    /\ IsFiniteSet(open)
    /\ IsFiniteSet(validated)

\* A queue of n transactions leaves one of the next n + 1 numbers free; the node
\* answers with the smallest of them.
LEMMA OpenSequenceType ==
    ASSUME SubmissionInv
    PROVE  OpenSequence \in Nat
<1> DEFINE low == AccountSequence
           high == AccountSequence + Cardinality(open)
           Free == {s \in low .. high : \A tx \in open : tx.seq # s}
<1>1. low \in Nat /\ Cardinality(open) \in Nat
  BY FS_CardinalityType DEF SubmissionInv, AccountSequence
<1>2. Free # {}
  <2> SUFFICES ASSUME Free = {} PROVE FALSE
    OBVIOUS
  <2> DEFINE numbers == low .. high
             user == [s \in numbers |-> CHOOSE tx \in open : tx.seq = s]
  <2>1. \A s \in numbers : user[s] \in open /\ user[s].seq = s
    OBVIOUS
  <2>2. user \in [numbers -> open]
    BY <2>1
  <2>3. IsFiniteSet(numbers) /\ Cardinality(numbers) = Cardinality(open) + 1
    <3>1. low \in Int /\ high \in Int /\ ~(low > high) /\ high - low + 1 = Cardinality(open) + 1
      BY <1>1
    <3> HIDE DEF low, high
    <3>2. QED
      BY <3>1, FS_Interval
  <2>4. Cardinality(open) < Cardinality(numbers)
    BY <1>1, <2>3
  <2>5. IsFiniteSet(open)
    BY DEF SubmissionInv
  <2> HIDE DEF user, numbers
  <2>6. \E s, t \in numbers : s # t /\ user[s] = user[t]
    BY <2>2, <2>3, <2>4, <2>5, FS_PigeonHole
  <2>7. QED
    BY <2>1, <2>6
<1>3. Free \subseteq Nat
  BY <1>1
<1>4. PICK s \in Free : \A t \in Free : ~(<<t, s>> \in OpToRel(<, Nat))
  <2> HIDE DEF Free
  <2>1. QED
    BY <1>2, <1>3, NatLessThanWellFounded, WFMin
<1>5. \A t \in Free : ~(t < s)
  <2>1. \A t \in Free : t < s => <<t, s>> \in OpToRel(<, Nat)
    BY <1>3 DEF OpToRel
  <2>2. QED
    BY <1>4, <2>1
<1>6. /\ s \in low .. high
      /\ \A tx \in open : tx.seq # s
      /\ \A earlier \in low .. s - 1 : \E tx \in open : tx.seq = earlier
  BY <1>1, <1>5
<1>7. OpenSequence \in low .. high
  BY <1>6 DEF OpenSequence
<1>8. QED
  BY <1>1, <1>7

LEMMA SubmissionInitInv == SubmissionInit => SubmissionInv
BY FS_EmptySet, SubmissionAssumption
DEF SubmissionInit, SubmissionInv, SubmissionTypeOK, Calls, NoCall, Outcomes

LEMMA NodeTakesInv ==
    ASSUME SubmissionInv, NEW tx \in Transactions, NEW result, NodeTakes(tx, result)
    PROVE  open' \subseteq Transactions /\ IsFiniteSet(open')
BY FS_AddElement DEF SubmissionInv, SubmissionTypeOK, NodeTakes

LEMMA NodeStepInv ==
    ASSUME SubmissionInv, NodeStep
    PROVE  SubmissionInv'
<1> USE DEF SubmissionInv, SubmissionTypeOK
<1>1. CASE Arrive
  <2>1. PICK tx \in wire :
          /\ wire' = wire \ {tx}
          /\ \E result \in Provisional(tx) : NodeTakes(tx, result)
          /\ UNCHANGED <<call, outcome, validated>>
    BY <1>1 DEF Arrive
  <2>2. QED
    BY <2>1, NodeTakesInv
<1>2. CASE Drop
  <2>1. PICK tx \in open :
          /\ open' = open \ {tx}
          /\ wire' = wire \cup {tx}
          /\ UNCHANGED <<call, outcome, validated>>
    BY <1>2 DEF Drop
  <2>2. IsFiniteSet(open')
    BY <2>1, FS_RemoveElement
  <2>3. QED
    BY <2>1, <2>2
<1>3. CASE Validate
  <2>1. PICK tx \in open, result \in {"success", "rejected"} :
          /\ validated' = validated \cup {[tx |-> tx, result |-> result]}
          /\ open' = {other \in open : other.seq # tx.seq}
          /\ wire' = {other \in wire : other.seq # tx.seq}
          /\ UNCHANGED <<call, outcome>>
    BY <1>3 DEF Validate
  <2>2. IsFiniteSet(open') /\ IsFiniteSet(validated')
    BY <2>1, FS_Subset, FS_AddElement
  <2>3. QED
    BY <2>1, <2>2
<1>4. QED
  BY <1>1, <1>2, <1>3 DEF NodeStep

\* A caller that is at work has a request.
Working == \A c \in Callers : call[c].stage # "idle" => call[c].request \in Requests

LEMMA InvokeInv ==
    ASSUME SubmissionInv, Working, NEW c \in Callers, NEW r \in Requests, Invoke(c, r)
    PROVE  SubmissionInv' /\ Working'
BY DEF SubmissionInv, SubmissionTypeOK, Working, Calls, Invoke, Outcomes

LEMMA CallStepInv ==
    ASSUME SubmissionInv, Working, NEW c \in Callers, CallStep(c)
    PROVE  SubmissionInv'
<1> USE SubmissionAssumption DEF SubmissionInv, SubmissionTypeOK, Working
<1>1. call[c].stage # "idle" => Signed(c) \in Transactions
  BY DEF Signed, Transactions, Calls
<1>2. ASSUME NEW result \in Outcomes, call[c].stage # "idle", Return(c, result)
      PROVE  call' \in [Callers -> Calls] /\ outcome' \in [Requests -> Outcomes \cup {"none", "pending"}]
  <2>1. NoCall \in Calls
    BY DEF NoCall, Calls
  <2>2. QED
    BY <1>2, <2>1 DEF Return
<1>3. ASSUME StartPolling(c)
      PROVE  call' \in [Callers -> Calls] /\ outcome' = outcome
  BY <1>3 DEF StartPolling, Calls
<1>4. CASE ReadSequence(c)
  BY <1>4, OpenSequenceType DEF ReadSequence, Calls
<1>5. CASE ReadSequenceFails(c)
  BY <1>2, <1>5 DEF ReadSequenceFails, Outcomes
<1>6. CASE SubmitAnswered(c)
  <2>1. PICK result :
          /\ NodeTakes(Signed(c), result)
          /\ IF result \in {"tesSUCCESS", "ter"} THEN StartPolling(c) ELSE Return(c, "failure")
    BY <1>6 DEF SubmitAnswered
  <2>2. open' \subseteq Transactions /\ IsFiniteSet(open') /\ UNCHANGED <<wire, validated>>
    BY <1>1, <1>6, <2>1, NodeTakesInv DEF SubmitAnswered
  <2>3. CASE StartPolling(c)
    BY <1>3, <2>2, <2>3
  <2>4. CASE Return(c, "failure")
    BY <1>2, <1>6, <2>2, <2>4 DEF Outcomes, SubmitAnswered
  <2>5. QED
    BY <2>1, <2>3, <2>4
<1>7. CASE SubmitFails(c)
  BY <1>1, <1>7 DEF SubmitFails, Calls
<1>8. CASE ResubmitAnswered(c)
  <2>1. open' \subseteq Transactions /\ IsFiniteSet(open') /\ UNCHANGED <<wire, validated>>
    BY <1>1, <1>8, NodeTakesInv DEF ResubmitAnswered
  <2>2. QED
    BY <1>3, <1>8, <2>1 DEF ResubmitAnswered
<1>9. CASE ResubmitFails(c)
  BY <1>1, <1>2, <1>9 DEF ResubmitFails, Outcomes
<1>10. CASE PollFinds(c)
  BY <1>2, <1>10 DEF PollFinds, Outcomes
<1>11. CASE PollMisses(c)
  BY <1>11 DEF PollMisses, Calls
<1>12. CASE PollsUsedUp(c)
  BY <1>2, <1>12 DEF PollsUsedUp, Outcomes
<1>13. QED
  BY <1>4, <1>5, <1>6, <1>7, <1>8, <1>9, <1>10, <1>11, <1>12 DEF CallStep

\* A caller's step moves no other caller. It works on the request it had, and does
\* not go back to reading a sequence number.
LEMMA CallStepEffect ==
    ASSUME SubmissionInv, NEW c \in Callers, CallStep(c)
    PROVE  /\ call'[c].stage # "sequencing"
           /\ call'[c].stage # "idle" => call'[c].request = call[c].request
           /\ call[c].stage # "idle"
           /\ \A d \in Callers : d # c => call'[d] = call[d]
<1> USE DEF SubmissionInv, SubmissionTypeOK
<1>1. ASSUME NEW result, Return(c, result), call[c].stage # "idle"
      PROVE  /\ call'[c].stage = "idle"
             /\ \A d \in Callers : d # c => call'[d] = call[d]
  BY <1>1 DEF Return, NoCall
<1>2. ASSUME StartPolling(c)
      PROVE  /\ call'[c].stage = "polling" /\ call'[c].request = call[c].request
             /\ \A d \in Callers : d # c => call'[d] = call[d]
  BY <1>2 DEF StartPolling, Calls
<1>3. CASE ReadSequence(c)
  BY <1>3 DEF ReadSequence, Calls
<1>4. CASE ReadSequenceFails(c)
  BY <1>1, <1>4 DEF ReadSequenceFails
<1>5. CASE SubmitAnswered(c)
  BY <1>1, <1>2, <1>5 DEF SubmitAnswered
<1>6. CASE SubmitFails(c)
  BY <1>6 DEF SubmitFails, Calls
<1>7. CASE ResubmitAnswered(c)
  BY <1>2, <1>7 DEF ResubmitAnswered
<1>8. CASE ResubmitFails(c)
  BY <1>1, <1>8 DEF ResubmitFails
<1>9. CASE PollFinds(c)
  BY <1>1, <1>9 DEF PollFinds
<1>10. CASE PollMisses(c)
  BY <1>10 DEF PollMisses, Calls
<1>11. CASE PollsUsedUp(c)
  BY <1>1, <1>11 DEF PollsUsedUp
<1>12. QED
  BY <1>3, <1>4, <1>5, <1>6, <1>7, <1>8, <1>9, <1>10, <1>11 DEF CallStep

LEMMA CallStepKeepsWorking ==
    ASSUME SubmissionInv, Working, NEW c \in Callers, CallStep(c)
    PROVE  Working'
BY CallStepEffect DEF Working

-----------------------------------------------------------------------------
(* Why the client keeps the promise of RemoteCall: a call signs one        *)
(* transaction, which the ledger can validate once, and it answers with a  *)
(* validated result only for that transaction.                             *)

\* Every transaction that was ever sent and is not lost.
Sent == open \cup wire \cup {v.tx : v \in validated}

\* No request is ever signed with two sequence numbers.
SentOnce == \A s, t \in Sent : s.by = t.by => s = t

\* What is sent has been asked for.
SentIfAsked == \A t \in Sent : outcome[t.by] # "none"

\* A call under way works on a request nobody else works on, and whatever was
\* sent for it is the transaction it has signed.
CallOwns(c) ==
    call[c].stage # "idle" =>
        /\ outcome[call[c].request] = "pending"
        /\ \A d \in Callers : d # c /\ call[d].stage # "idle" => call[d].request # call[c].request
        /\ \A t \in Sent : t.by = call[c].request => call[c].stage # "sequencing" /\ t = Signed(c)

\* The ledger has used each sequence number below the account's own once.
ValidatedOnce ==
    /\ \A v \in validated : v.tx.seq < AccountSequence
    /\ \A v, w \in validated : v.tx.seq = w.tx.seq => v = w

\* A validated answer is the result in the ledger.
AnsweredTruly ==
    \A r \in Requests : outcome[r] \in {"success", "rejected"} =>
        \E v \in validated : v.tx.by = r /\ v.result = outcome[r]

PromiseInv ==
    /\ SentOnce
    /\ SentIfAsked
    /\ \A c \in Callers : CallOwns(c)
    /\ ValidatedOnce
    /\ AnsweredTruly

LEMMA PromiseInitInv == SubmissionInit => PromiseInv
BY DEF SubmissionInit, PromiseInv, SentOnce, SentIfAsked, CallOwns, ValidatedOnce, AnsweredTruly,
       Sent, NoCall

\* A request takes effect if its transaction is validated successfully, and once.
EffectCounted(r) ==
    /\ (\A v \in validated : v.tx.by = r => v.result # "success") => Effects(r) = 0
    /\ \A v \in validated : v.tx.by = r => Effects(r) = IF v.result = "success" THEN 1 ELSE 0

\* A request has one transaction in the ledger at most, so it takes effect at most once.
LEMMA EffectsAtMostOnce == SentOnce /\ ValidatedOnce => \A r \in Requests : EffectCounted(r)
<1> SUFFICES ASSUME SentOnce, ValidatedOnce, NEW r \in Requests PROVE EffectCounted(r)
  OBVIOUS
<1> DEFINE mine == {v \in validated : v.tx.by = r /\ v.result = "success"}
<1>1. Effects(r) = Cardinality(mine)
  BY DEF Effects
<1>2. Cardinality({}) = 0
  BY FS_EmptySet
<1>3. ASSUME \A v \in validated : v.tx.by = r => v.result # "success" PROVE Effects(r) = 0
  <2>1. mine = {}
    BY <1>3
  <2>2. QED
    BY <1>1, <1>2, <2>1
<1>4. ASSUME NEW v \in validated, v.tx.by = r PROVE Effects(r) = IF v.result = "success" THEN 1 ELSE 0
  <2>1. \A w \in validated : w.tx.by = r => w = v
    BY <1>4 DEF SentOnce, ValidatedOnce, Sent
  <2>2. CASE v.result = "success"
    <3>1. mine = {v}
      BY <1>4, <2>1, <2>2
    <3>2. QED
      BY <1>1, <2>2, <3>1, FS_Singleton
  <2>3. CASE v.result # "success"
    BY <1>3, <2>1, <2>3
  <2>4. QED
    BY <2>2, <2>3
<1>5. QED
  BY <1>3, <1>4 DEF EffectCounted

\* The transaction a ledger closes with is the first of its request in the ledger.
LEMMA ValidatedFirst ==
    ASSUME SubmissionInv, PromiseInv, NEW tx \in open, tx.seq = AccountSequence
    PROVE  \A v \in validated : v.tx.by # tx.by
<1> SUFFICES ASSUME NEW v \in validated, v.tx.by = tx.by PROVE FALSE
  OBVIOUS
<1>1. v.tx = tx
  BY DEF PromiseInv, SentOnce, Sent
<1>2. tx.seq \in Nat /\ tx.seq < tx.seq
  BY <1>1 DEF SubmissionInv, SubmissionTypeOK, PromiseInv, ValidatedOnce, Transactions
<1>3. QED
  BY <1>2

LEMMA NodeStepKeepsPromiseInv ==
    ASSUME SubmissionInv, PromiseInv, NodeStep
    PROVE  PromiseInv'
<1> USE DEF SubmissionInv, SubmissionTypeOK, PromiseInv
<1>1. Sent' \subseteq Sent /\ UNCHANGED <<call, outcome>>
  <2>1. CASE Arrive
    BY <2>1 DEF Arrive, NodeTakes, Sent
  <2>2. CASE Drop
    BY <2>2 DEF Drop, Sent
  <2>3. CASE Validate
    BY <2>3 DEF Validate, Sent
  <2>4. QED
    BY <2>1, <2>2, <2>3 DEF NodeStep
<1>2. SentOnce' /\ SentIfAsked' /\ \A c \in Callers : CallOwns(c)'
  BY <1>1 DEF SentOnce, SentIfAsked, CallOwns, Signed
<1>3. ValidatedOnce' /\ AnsweredTruly'
  <2>1. CASE UNCHANGED validated
    BY <1>1, <2>1 DEF ValidatedOnce, AnsweredTruly, AccountSequence
  <2>2. CASE Validate
    <3>1. PICK tx \in open, result \in {"success", "rejected"} :
            /\ tx.seq = AccountSequence
            /\ validated' = validated \cup {[tx |-> tx, result |-> result]}
      BY <2>2 DEF Validate
    <3>2. [tx |-> tx, result |-> result] \notin validated
      BY <3>1, ValidatedFirst
    <3>3. AccountSequence \in Nat /\ AccountSequence' = AccountSequence + 1
      BY <3>1, <3>2, FS_AddElement, FS_CardinalityType DEF AccountSequence
    <3>4. ValidatedOnce'
      BY <3>1, <3>3 DEF ValidatedOnce, Transactions
    <3>5. AnsweredTruly'
      BY <1>1, <3>1 DEF AnsweredTruly
    <3>6. QED
      BY <3>4, <3>5
  <2>3. QED
    BY <2>1, <2>2 DEF NodeStep, Arrive, Drop
<1>4. QED
  BY <1>2, <1>3

LEMMA InvokeKeepsPromiseInv ==
    ASSUME SubmissionInv, Working, PromiseInv, NEW c \in Callers, NEW r \in Requests, Invoke(c, r)
    PROVE  PromiseInv'
<1> USE DEF SubmissionInv, SubmissionTypeOK, PromiseInv
<1>1. /\ call[c].stage = "idle" /\ outcome[r] = "none"
      /\ call'[c].stage = "sequencing" /\ call'[c].request = r
      /\ \A d \in Callers : d # c => call'[d] = call[d]
      /\ outcome'[r] = "pending"
      /\ \A q \in Requests : q # r => outcome'[q] = outcome[q]
      /\ Sent' = Sent /\ UNCHANGED validated
  BY DEF Invoke, Sent, Calls
<1>2. SentOnce' /\ SentIfAsked' /\ ValidatedOnce' /\ AnsweredTruly'
  <2>1. \A t \in Sent : t.by \in Requests
    BY DEF Sent, Transactions
  <2>2. SentOnce' /\ SentIfAsked'
    BY <1>1, <2>1 DEF SentOnce, SentIfAsked
  <2>3. ValidatedOnce'
    BY <1>1 DEF ValidatedOnce, AccountSequence
  <2>4. AnsweredTruly'
    BY <1>1 DEF AnsweredTruly
  <2>5. QED
    BY <2>2, <2>3, <2>4
<1>3. CallOwns(c)'
  BY <1>1 DEF CallOwns, SentIfAsked
<1>4. ASSUME NEW d \in Callers, d # c PROVE CallOwns(d)'
  <2>1. call'[d] = call[d] /\ Signed(d)' = Signed(d)
    BY <1>1, <1>4 DEF Signed
  <2>2. CASE call[d].stage # "idle"
    <3>1. call[d].request \in Requests /\ call[d].request # r /\ outcome[call[d].request] = "pending"
      BY <1>1, <2>2 DEF Working, CallOwns
    <3>2. \A e \in Callers : e # d /\ call'[e].stage # "idle" => call'[e].request # call[d].request
      BY <1>1, <2>2, <3>1 DEF CallOwns
    <3>3. QED
      BY <1>1, <2>1, <2>2, <3>1, <3>2 DEF CallOwns
  <2>3. QED
    BY <2>1, <2>2 DEF CallOwns
<1>5. QED
  BY <1>2, <1>3, <1>4

\* What a caller's step can send, and what it can answer.
LEMMA CallStepOutcome ==
    ASSUME SubmissionInv, Working, NEW c \in Callers, CallStep(c)
    PROVE  /\ UNCHANGED validated
           /\ Sent' \subseteq Sent \cup {Signed(c)}
           /\ call[c].stage = "sequencing" => Sent' = Sent
           /\ \/ /\ UNCHANGED outcome
                 /\ call'[c].stage # "idle"
                 /\ call[c].stage # "sequencing" => Signed(c)' = Signed(c)
              \/ /\ call'[c].stage = "idle"
                 /\ \/ outcome' = [outcome EXCEPT ![call[c].request] = "failure"]
                    \/ \E v \in validated :
                          /\ v.tx = Signed(c)
                          /\ outcome' = [outcome EXCEPT ![call[c].request] = v.result]
<1> USE DEF SubmissionInv, SubmissionTypeOK, Sent
<1>1. ASSUME NEW result, Return(c, result)
      PROVE  call'[c].stage = "idle" /\ outcome' = [outcome EXCEPT ![call[c].request] = result]
  BY <1>1 DEF Return, NoCall
<1>2. ASSUME StartPolling(c)
      PROVE  UNCHANGED outcome /\ call'[c].stage # "idle" /\ Signed(c)' = Signed(c)
  BY <1>2 DEF StartPolling, Calls, Signed
<1>3. CASE ReadSequence(c)
  BY <1>3 DEF ReadSequence, Calls
<1>4. CASE ReadSequenceFails(c)
  BY <1>1, <1>4 DEF ReadSequenceFails
<1>5. CASE SubmitAnswered(c)
  BY <1>1, <1>2, <1>5 DEF SubmitAnswered, NodeTakes
<1>6. CASE SubmitFails(c)
  BY <1>6 DEF SubmitFails, Calls, Signed
<1>7. CASE ResubmitAnswered(c)
  BY <1>2, <1>7 DEF ResubmitAnswered, NodeTakes
<1>8. CASE ResubmitFails(c)
  BY <1>1, <1>8 DEF ResubmitFails
<1>9. CASE PollFinds(c)
  BY <1>1, <1>9 DEF PollFinds
<1>10. CASE PollMisses(c)
  BY <1>10 DEF PollMisses, Calls, Signed
<1>11. CASE PollsUsedUp(c)
  BY <1>1, <1>11 DEF PollsUsedUp
<1>12. QED
  BY <1>3, <1>4, <1>5, <1>6, <1>7, <1>8, <1>9, <1>10, <1>11 DEF CallStep

LEMMA CallStepKeepsPromiseInv ==
    ASSUME SubmissionInv, Working, PromiseInv, NEW c \in Callers, CallStep(c)
    PROVE  PromiseInv'
<1> USE DEF PromiseInv
<1> DEFINE r == call[c].request
<1>1. /\ call[c].stage # "idle" /\ call'[c].stage # "sequencing"
      /\ call'[c].stage # "idle" => call'[c].request = r
      /\ \A d \in Callers : d # c => call'[d] = call[d]
  BY CallStepEffect
<1>2. r \in Requests /\ Signed(c).by = r
  BY <1>1 DEF Working, Signed
<1>3. CallOwns(c) /\ outcome[r] = "pending"
  BY <1>1 DEF CallOwns
<1>4. \A q \in Requests : q # r => outcome'[q] = outcome[q]
  BY CallStepOutcome DEF SubmissionInv, SubmissionTypeOK
<1>5. outcome'[r] # "none"
  <2>1. \A v \in validated : v.result \in {"success", "rejected"}
    BY DEF SubmissionInv, SubmissionTypeOK
  <2>2. QED
    BY <1>2, <1>3, <2>1, CallStepOutcome DEF SubmissionInv, SubmissionTypeOK
<1>6. \A t \in Sent : t.by = r => t = Signed(c)
  BY <1>1, <1>3 DEF CallOwns
<1>7. \A t \in Sent' : t \in Sent \/ (t = Signed(c) /\ call[c].stage # "sequencing")
  BY CallStepOutcome
<1>8. SentOnce' /\ SentIfAsked'
  <2>1. SentOnce'
    BY <1>2, <1>6, <1>7 DEF SentOnce
  <2>2. SentIfAsked'
    <3>1. \A t \in Sent : t.by \in Requests
      BY DEF Sent, SubmissionInv, SubmissionTypeOK, Transactions
    <3>2. QED
      BY <1>2, <1>4, <1>5, <1>7, <3>1 DEF SentIfAsked
  <2>3. QED
    BY <2>1, <2>2
<1>9. CallOwns(c)'
  <2>1. CASE call'[c].stage = "idle"
    BY <2>1 DEF CallOwns
  <2>2. CASE call'[c].stage # "idle"
    <3>1. outcome' = outcome /\ (call[c].stage # "sequencing" => Signed(c)' = Signed(c))
      BY <2>2, CallStepOutcome
    <3>2. \A t \in Sent' : t.by = r => t = Signed(c)'
      BY <1>1, <1>3, <1>6, <1>7, <3>1 DEF CallOwns
    <3>3. QED
      BY <1>1, <1>3, <2>2, <3>1, <3>2 DEF CallOwns
  <2>3. QED
    BY <2>1, <2>2
<1>10. ASSUME NEW d \in Callers, d # c PROVE CallOwns(d)'
  <2>1. call'[d] = call[d] /\ Signed(d)' = Signed(d)
    BY <1>1, <1>10 DEF Signed
  <2>2. CASE call[d].stage # "idle"
    <3>1. call[d].request \in Requests /\ call[d].request # r /\ CallOwns(d)
      BY <1>1, <1>10, <2>2 DEF Working, CallOwns
    <3>2. \A t \in Sent' : t.by = call[d].request => t \in Sent
      BY <1>2, <1>7, <3>1
    <3>3. \A e \in Callers : e # d /\ call'[e].stage # "idle" => call'[e].request # call[d].request
      BY <1>1, <2>2, <3>1 DEF CallOwns
    <3>4. \A t \in Sent' : t.by = call[d].request => call[d].stage # "sequencing" /\ t = Signed(d)
      BY <2>2, <3>1, <3>2 DEF CallOwns
    <3>5. outcome'[call[d].request] = "pending"
      BY <1>4, <2>2, <3>1 DEF CallOwns
    <3>6. QED
      BY <2>1, <3>3, <3>4, <3>5 DEF CallOwns
  <2>3. QED
    BY <2>1, <2>2 DEF CallOwns
<1>11. ValidatedOnce'
  BY CallStepOutcome DEF ValidatedOnce, AccountSequence
<1>12. AnsweredTruly'
  <2>1. outcome' = outcome \/ outcome'[r] = "failure"
        \/ \E v \in validated : v.tx = Signed(c) /\ outcome'[r] = v.result
    BY <1>2, CallStepOutcome DEF SubmissionInv, SubmissionTypeOK
  <2>2. QED
    BY <1>2, <1>4, <2>1, CallStepOutcome DEF AnsweredTruly
<1>13. QED
  BY <1>8, <1>9, <1>10, <1>11, <1>12

-----------------------------------------------------------------------------
(* Every step of the node and of a caller is a step of RemoteCall, or none.*)

PromiseStep == [Promise!Next]_Promise!vars

LEMMA UnchangedStutters == ASSUME UNCHANGED <<outcome, validated>> PROVE PromiseStep
BY DEF PromiseStep, Promise!vars, Effects

\* A ledger that closes with a successful transaction is its request's effect.
LEMMA NodeStepKeepsPromise ==
    ASSUME SubmissionInv, PromiseInv, NodeStep
    PROVE  PromiseStep
<1>1. CASE Arrive \/ Drop
  BY <1>1, UnchangedStutters DEF Arrive, Drop
<1>2. CASE Validate
  <2>1. PICK tx \in open, result \in {"success", "rejected"} :
          /\ tx.seq = AccountSequence
          /\ validated' = validated \cup {[tx |-> tx, result |-> result]}
          /\ UNCHANGED outcome
    BY <1>2 DEF Validate
  <2>2. tx.by \in Requests /\ tx \in Sent
    BY DEF SubmissionInv, SubmissionTypeOK, Transactions, Sent
  <2>3. \A v \in validated : v.tx.by # tx.by
    BY <2>1, ValidatedFirst
  <2>4. outcome[tx.by] \in {"pending", "failure"}
    BY <2>2, <2>3 DEF SubmissionInv, SubmissionTypeOK, PromiseInv, SentIfAsked, AnsweredTruly, Outcomes
  <2>5. SubmissionInv' /\ PromiseInv'
    BY NodeStepInv, NodeStepKeepsPromiseInv
  <2>6. \A r \in Requests : r # tx.by => Effects(r)' = Effects(r)
    <3>1. ASSUME NEW r \in Requests, r # tx.by
          PROVE  {v \in validated' : v.tx.by = r /\ v.result = "success"}
                   = {v \in validated : v.tx.by = r /\ v.result = "success"}
      BY <2>1, <3>1
    <3>2. QED
      BY <3>1 DEF Effects
  <2>7. Effects(tx.by) = 0
    BY <2>2, <2>3, EffectsAtMostOnce DEF PromiseInv, EffectCounted
  <2>8. Effects(tx.by)' = IF result = "success" THEN 1 ELSE 0
    <3> DEFINE v == [tx |-> tx, result |-> result]
    <3>1. \A w \in validated' : w.tx.by = tx.by => w = v
      BY <2>1, <2>3
    <3>2. v \in validated' /\ v.tx.by = tx.by /\ v.result = result
      BY <2>1
    <3> HIDE DEF v
    <3>3. (SentOnce /\ ValidatedOnce => \A r \in Requests : EffectCounted(r))'
      BY EffectsAtMostOnce, PTL
    <3>4. EffectCounted(tx.by)'
      BY <2>2, <2>5, <3>3 DEF PromiseInv
    <3>5. QED
      BY <2>2, <3>1, <3>2, <3>4 DEF EffectCounted
  <2> DEFINE effects == [r \in Requests |-> Effects(r)]
  <2>9. CASE result = "success"
    <3>1. effects' = [effects EXCEPT ![tx.by] = 1]
      BY <2>2, <2>6, <2>8, <2>9
    <3>2. Promise!TakeEffect(tx.by)
      BY <2>1, <2>2, <2>4, <2>7, <3>1 DEF Promise!TakeEffect
    <3>3. QED
      BY <2>2, <3>2 DEF PromiseStep, Promise!Next
  <2>10. CASE result = "rejected"
    <3>1. effects' = effects
      BY <2>2, <2>6, <2>7, <2>8, <2>10
    <3>2. QED
      BY <2>1, <3>1 DEF PromiseStep, Promise!vars
  <2>11. QED
    BY <2>1, <2>9, <2>10
<1>3. QED
  BY <1>1, <1>2 DEF NodeStep

LEMMA InvokeKeepsPromise ==
    ASSUME SubmissionInv, NEW c \in Callers, NEW r \in Requests, Invoke(c, r)
    PROVE  PromiseStep
<1>1. /\ outcome[r] = "none" /\ outcome' = [outcome EXCEPT ![r] = "pending"]
      /\ [q \in Requests |-> Effects(q)]' = [q \in Requests |-> Effects(q)]
  BY DEF Invoke, Effects
<1>2. Promise!Ask(r)
  BY <1>1 DEF Promise!Ask
<1>3. QED
  BY <1>2 DEF PromiseStep, Promise!Next

\* Returning a validated result tells the truth about the effect; what is returned
\* otherwise is a failure.
LEMMA CallStepKeepsPromise ==
    ASSUME SubmissionInv, Working, PromiseInv, NEW c \in Callers, CallStep(c)
    PROVE  PromiseStep
<1> DEFINE r == call[c].request
           effects == [q \in Requests |-> Effects(q)]
<1>1. r \in Requests /\ outcome[r] = "pending" /\ Signed(c).by = r
  BY CallStepEffect DEF Working, PromiseInv, CallOwns, Signed
<1>2. effects' = effects
  BY CallStepOutcome DEF Effects
<1>3. ASSUME NEW a \in {"success", "rejected", "failure"},
             outcome' = [outcome EXCEPT ![r] = a],
             a = "success" => Effects(r) = 1,
             a = "rejected" => Effects(r) = 0
      PROVE  PromiseStep
  <2>1. Promise!Answer(r, a)
    BY <1>1, <1>2, <1>3 DEF Promise!Answer
  <2>2. QED
    BY <1>1, <2>1 DEF PromiseStep, Promise!Next
<1>4. CASE UNCHANGED outcome
  BY <1>4, CallStepOutcome, UnchangedStutters
<1>5. CASE outcome' = [outcome EXCEPT ![r] = "failure"]
  BY <1>3, <1>5
<1>6. CASE \E v \in validated : v.tx = Signed(c) /\ outcome' = [outcome EXCEPT ![r] = v.result]
  <2>1. PICK v \in validated : v.tx = Signed(c) /\ outcome' = [outcome EXCEPT ![r] = v.result]
    BY <1>6
  <2>2. Effects(r) = IF v.result = "success" THEN 1 ELSE 0
    BY <1>1, <2>1, EffectsAtMostOnce DEF PromiseInv, EffectCounted
  <2>3. v.result \in {"success", "rejected"}
    BY DEF SubmissionInv, SubmissionTypeOK
  <2>4. QED
    BY <1>3, <2>1, <2>2, <2>3
<1>7. QED
  BY <1>4, <1>5, <1>6, CallStepOutcome
=============================================================================
