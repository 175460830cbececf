----------------------------- MODULE KeeperProofs -----------------------------
(***************************************************************************)
(* The cooldown within a batch, for any number of overlapping pipelines,   *)
(* any batches, any cooldown and any number of polls; and the promise of   *)
(* RemoteCall, which every call of the keeper keeps.                       *)
(***************************************************************************)
EXTENDS Keeper, SubmissionProofs

PipeOK ==
    /\ pipe \in [Pipelines -> [stage : Stages, count : Nat, next : Nat]]
    /\ \A p \in Pipelines : pipe[p].count <= MaxBatch[p] /\ pipe[p].next \in 1 .. pipe[p].count + 1
    /\ elapsed \in 0 .. Cooldown
    /\ wait \in [Pipelines -> 0 .. Cooldown]
    /\ age \in [Pipelines -> 0 .. Cooldown]

\* A pipeline that works on an opportunity has one.
InBatch(p) ==
    pipe[p].stage \in {"cooling", "checking", "executing"} => pipe[p].next <= pipe[p].count

\* Why a pipeline that will send has waited: before its first transaction it has
\* not sent any; when it decides, lastExecutionTime is no older than its own last
\* transaction; while it sleeps, what is left of the sleep makes up for the rest.
Cooled(p) ==
    /\ pipe[p].stage \in {"idle", "fetching", "scanning", "checking"} => age[p] = Cooldown
    /\ pipe[p].stage = "deciding" => elapsed <= age[p]
    /\ pipe[p].stage = "cooling" => Cooldown <= wait[p] + age[p]
    /\ (pipe[p].stage = "executing" /\ call[p].stage = "sequencing") => age[p] = Cooldown

PipesInv == PipeOK /\ \A p \in Pipelines : InBatch(p) /\ Cooled(p)

KeeperInv == PipesInv /\ SubmissionInv /\ Working

-----------------------------------------------------------------------------

\* Steps that only move a pipeline from one stage to another.
LEMMA MoveKeepsPipes ==
    ASSUME NEW p \in Pipelines, NEW stage \in Stages, PipesInv, Go(p, stage),
           UNCHANGED <<elapsed, wait, age, call>>,
           stage \in {"cooling", "checking"} => pipe[p].next <= pipe[p].count,
           stage \in {"idle", "fetching", "scanning", "checking"} => age[p] = Cooldown,
           stage = "deciding" => elapsed <= age[p],
           stage = "cooling" => Cooldown <= wait[p] + age[p],
           stage # "executing"
    PROVE  PipesInv'
<1>1. PipeOK'
  BY DEF PipesInv, PipeOK, Go, Pipelines
<1>2. \A q \in Pipelines : InBatch(q)' /\ Cooled(q)'
  BY DEF PipesInv, PipeOK, InBatch, Cooled, Go, Pipelines
<1>3. QED
  BY <1>1, <1>2 DEF PipesInv

\* executeOne has returned: nobody's wait gets shorter.
LEMMA FinishOneKeepsPipes ==
    ASSUME NEW p \in Pipelines, PipesInv, FinishOne(p), UNCHANGED <<wait, age, call>>,
           pipe[p].next <= pipe[p].count
    PROVE  PipesInv'
<1> USE KeeperAssumption
<1>1. PipeOK'
  BY DEF PipesInv, PipeOK, FinishOne, Pipelines, Stages
<1>2. \A q \in Pipelines : InBatch(q)' /\ Cooled(q)'
  BY DEF PipesInv, PipeOK, InBatch, Cooled, FinishOne, Pipelines
<1>3. QED
  BY <1>1, <1>2 DEF PipesInv

LEMMA StartOneKeepsPipes ==
    ASSUME NEW p \in Pipelines, PipesInv, age[p] = Cooldown, StartOne(p),
           UNCHANGED <<wait, age, call>>, pipe[p].next <= pipe[p].count
    PROVE  PipesInv'
<1>1. CASE dryRun
  BY <1>1, FinishOneKeepsPipes DEF StartOne
<1>2. CASE ~dryRun
  <2>1. Go(p, "checking") /\ UNCHANGED elapsed
    BY <1>2 DEF StartOne
  <2>2. QED
    BY <2>1, MoveKeepsPipes DEF Stages
<1>3. QED
  BY <1>1, <1>2

-----------------------------------------------------------------------------

LEMMA InitPipes == Init => KeeperInv
<1>1. Init => PipesInv
  BY KeeperAssumption
  DEF Init, PipesInv, PipeOK, InBatch, Cooled, Pipelines, Stages, SubmissionInit, NoCall
<1>2. Init => SubmissionInv /\ Working
  BY SubmissionInitInv DEF Init, SubmissionInit, NoCall, Working
<1>3. QED
  BY <1>1, <1>2 DEF KeeperInv

LEMMA BalanceSufficesKeepsInv ==
    ASSUME NEW p \in Pipelines, KeeperInv, BalanceSuffices(p)
    PROVE  KeeperInv'
<1> USE KeeperAssumption
<1>1. /\ Invoke(p, <<p, pipe[p].next>>)
      /\ Go(p, "executing")
      /\ UNCHANGED <<elapsed, wait, age>>
      /\ pipe[p].stage = "checking"
  BY DEF BalanceSuffices
<1>2. age[p] = Cooldown /\ pipe[p].next <= pipe[p].count
  BY <1>1 DEF KeeperInv, PipesInv, InBatch, Cooled
<1>3. <<p, pipe[p].next>> \in Requests
  <2>1. pipe[p].next \in 1 .. MaxBatch[p]
    BY <1>2 DEF KeeperInv, PipesInv, PipeOK, Pipelines
  <2>2. QED
    BY <2>1 DEF Pipelines
<1>4. \A d \in Pipelines : d # p => call'[d] = call[d]
  BY <1>1 DEF Invoke, KeeperInv, SubmissionInv, SubmissionTypeOK, Pipelines
<1>5. PipeOK'
  BY <1>1 DEF KeeperInv, PipesInv, PipeOK, Go, Stages, Pipelines
<1>6. \A q \in Pipelines : InBatch(q)' /\ Cooled(q)'
  BY <1>1, <1>2, <1>4 DEF KeeperInv, PipesInv, PipeOK, InBatch, Cooled, Go, Pipelines
<1>7. SubmissionInv' /\ Working'
  BY <1>1, <1>3, InvokeInv DEF KeeperInv, Pipelines
<1>8. QED
  BY <1>5, <1>6, <1>7 DEF KeeperInv, PipesInv

LEMMA AwaitKeepsInv ==
    ASSUME NEW p \in Pipelines, KeeperInv, Await(p)
    PROVE  KeeperInv'
<1> USE KeeperAssumption
<1>1. /\ CallStep(p)
      /\ pipe[p].stage = "executing"
      /\ age' = IF Sends(p) /\ pipe[p].next < pipe[p].count
                THEN [age EXCEPT ![p] = 0] ELSE age
      /\ UNCHANGED <<pipe, elapsed, wait>>
  BY DEF Await
<1>2. /\ call'[p].stage # "sequencing"
      /\ \A d \in Pipelines : d # p => call'[d] = call[d]
  BY <1>1, CallStepEffect DEF KeeperInv, Pipelines
<1>3. PipeOK'
  BY <1>1 DEF KeeperInv, PipesInv, PipeOK, Pipelines
<1>4. \A q \in Pipelines : InBatch(q)' /\ Cooled(q)'
  BY <1>1, <1>2 DEF KeeperInv, PipesInv, PipeOK, InBatch, Cooled, Pipelines
<1>5. SubmissionInv' /\ Working'
  BY <1>1, CallStepInv, CallStepKeepsWorking DEF KeeperInv, Pipelines
<1>6. QED
  BY <1>3, <1>4, <1>5 DEF KeeperInv, PipesInv

LEMMA CoolDownKeepsPipes ==
    ASSUME NEW p \in Pipelines, PipesInv, CoolDown(p)
    PROVE  PipesInv'
<1> USE KeeperAssumption
<1>1. PipeOK'
  BY DEF CoolDown, Go, PipesInv, PipeOK, Stages, Pipelines
<1>2. \A q \in Pipelines : InBatch(q)' /\ Cooled(q)'
  BY DEF CoolDown, Go, PipesInv, PipeOK, InBatch, Cooled, submissionVars, Pipelines
<1>3. QED
  BY <1>1, <1>2 DEF PipesInv

LEMMA ScannedKeepsPipes ==
    ASSUME NEW p \in Pipelines, PipesInv, Scanned(p)
    PROVE  PipesInv'
<1> USE KeeperAssumption
<1>1. PICK n \in 0 .. MaxBatch[p] :
        pipe' = [pipe EXCEPT ![p] = [stage |-> IF n = 0 THEN "done" ELSE "deciding",
                                     count |-> n, next |-> 1]]
  BY DEF Scanned
<1>2. UNCHANGED <<elapsed, wait, age, call>> /\ pipe[p].stage = "scanning"
  BY DEF Scanned, submissionVars
<1>3. n \in Nat /\ n <= MaxBatch[p]
  BY DEF Pipelines
<1>4. PipeOK'
  BY <1>1, <1>2, <1>3 DEF PipesInv, PipeOK, Stages, Pipelines
<1>5. \A q \in Pipelines : InBatch(q)' /\ Cooled(q)'
  BY <1>1, <1>2, <1>3 DEF PipesInv, PipeOK, InBatch, Cooled, Pipelines
<1>6. QED
  BY <1>4, <1>5 DEF PipesInv

LEMMA PipelineStepKeepsInv ==
    ASSUME NEW p \in Pipelines, KeeperInv, PipelineStep(p)
    PROVE  KeeperInv'
<1>0. /\ pipe[p].stage = "deciding" /\ elapsed >= Cooldown => age[p] = Cooldown
      /\ pipe[p].stage = "cooling" /\ wait[p] = 0 => age[p] = Cooldown /\ pipe[p].next <= pipe[p].count
  <2>1. age[p] \in 0 .. Cooldown /\ elapsed \in 0 .. Cooldown /\ Cooldown \in Nat
    BY KeeperAssumption DEF KeeperInv, PipesInv, PipeOK
  <2>2. InBatch(p) /\ Cooled(p)
    BY DEF KeeperInv, PipesInv
  <2>3. QED
    BY <2>1, <2>2 DEF InBatch, Cooled
<1>1. ASSUME PipesInv', UNCHANGED submissionVars PROVE KeeperInv'
  BY <1>1 DEF KeeperInv, SubmissionInv, SubmissionTypeOK, Working, submissionVars
<1>2. CASE FetchAnswered(p)
  <2>1. PipesInv'
    BY <1>2, MoveKeepsPipes DEF FetchAnswered, KeeperInv, PipesInv, Cooled, Stages, submissionVars
  <2>2. QED
    BY <1>1, <1>2, <2>1 DEF FetchAnswered
<1>3. CASE FetchSkipped(p)
  <2>1. PipesInv'
    BY <1>3, MoveKeepsPipes DEF FetchSkipped, KeeperInv, Stages, submissionVars
  <2>2. QED
    BY <1>1, <1>3, <2>1 DEF FetchSkipped
<1>4. CASE FetchFails(p)
  <2>1. PipesInv'
    BY <1>4, MoveKeepsPipes DEF FetchFails, KeeperInv, Stages, submissionVars
  <2>2. QED
    BY <1>1, <1>4, <2>1 DEF FetchFails
<1>5. CASE Scanned(p)
  BY <1>1, <1>5, ScannedKeepsPipes DEF Scanned, KeeperInv
<1>6. CASE EndBatch(p)
  <2>1. PipesInv'
    BY <1>6, MoveKeepsPipes DEF EndBatch, KeeperInv, Stages, submissionVars
  <2>2. QED
    BY <1>1, <1>6, <2>1 DEF EndBatch
<1>7. CASE ExecuteNow(p)
  <2>1. age[p] = Cooldown
    BY <1>7, <1>0 DEF ExecuteNow
  <2>2. PipesInv'
    BY <1>7, <2>1, StartOneKeepsPipes DEF ExecuteNow, KeeperInv, submissionVars
  <2>3. QED
    BY <1>1, <1>7, <2>2 DEF ExecuteNow
<1>8. CASE CoolDown(p)
  BY <1>1, <1>8, CoolDownKeepsPipes DEF CoolDown, KeeperInv
<1>9. CASE WakeUp(p)
  <2>1. age[p] = Cooldown /\ pipe[p].next <= pipe[p].count
    BY <1>9, <1>0 DEF WakeUp
  <2>2. PipesInv'
    BY <1>9, <2>1, StartOneKeepsPipes DEF WakeUp, KeeperInv, submissionVars
  <2>3. QED
    BY <1>1, <1>9, <2>2 DEF WakeUp
<1>10. CASE BalanceShort(p)
  <2>1. PipesInv'
    BY <1>10, FinishOneKeepsPipes DEF BalanceShort, KeeperInv, PipesInv, InBatch, submissionVars
  <2>2. QED
    BY <1>1, <1>10, <2>1 DEF BalanceShort
<1>11. CASE BalanceSuffices(p)
  BY <1>11, BalanceSufficesKeepsInv
<1>12. CASE Await(p)
  BY <1>12, AwaitKeepsInv
<1>13. CASE CallReturned(p)
  <2>1. PipesInv'
    BY <1>13, FinishOneKeepsPipes DEF CallReturned, KeeperInv, PipesInv, InBatch, submissionVars
  <2>2. QED
    BY <1>1, <1>13, <2>1 DEF CallReturned
<1>14. QED
  BY <1>2, <1>3, <1>4, <1>5, <1>6, <1>7, <1>8, <1>9, <1>10, <1>11, <1>12, <1>13
  DEF PipelineStep

LEMMA TickKeepsPipes ==
    ASSUME PipesInv, Tick
    PROVE  PipesInv'
<1> USE KeeperAssumption
<1>1. PipeOK'
  BY DEF Tick, PipesInv, PipeOK, Pipelines
<1>2. \A q \in Pipelines : InBatch(q)' /\ Cooled(q)'
  BY DEF Tick, PipesInv, PipeOK, InBatch, Cooled, Pipelines, submissionVars
<1>3. QED
  BY <1>1, <1>2 DEF PipesInv

LEMMA NextKeepsInv == KeeperInv /\ [Next]_vars => KeeperInv'
<1> SUFFICES ASSUME KeeperInv, [Next]_vars PROVE KeeperInv'
  OBVIOUS
<1>1. ASSUME UNCHANGED <<pipe, elapsed, wait, age, call>> PROVE PipesInv'
  BY <1>1 DEF KeeperInv, PipesInv, PipeOK, InBatch, Cooled
<1>2. ASSUME UNCHANGED submissionVars PROVE SubmissionInv' /\ Working'
  BY <1>2 DEF KeeperInv, SubmissionInv, SubmissionTypeOK, Working, submissionVars
<1>3. ASSUME NEW p \in Pipelines, LedgerClosed(p) PROVE KeeperInv'
  <2>1. PipesInv'
    BY <1>3, MoveKeepsPipes DEF LedgerClosed, KeeperInv, PipesInv, Cooled, Stages, submissionVars
  <2>2. QED
    BY <1>2, <1>3, <2>1 DEF LedgerClosed, KeeperInv
<1>4. ASSUME NEW p \in Pipelines, PipelineStep(p) PROVE KeeperInv'
  BY <1>4, PipelineStepKeepsInv
<1>5. CASE NodeStep /\ UNCHANGED keeperVars
  <2>1. UNCHANGED call
    BY <1>5 DEF NodeStep, Arrive, Drop, Validate
  <2>2. SubmissionInv' /\ Working'
    BY <1>5, <2>1, NodeStepInv DEF KeeperInv, Working
  <2>3. QED
    BY <1>1, <1>5, <2>1, <2>2 DEF KeeperInv, keeperVars
<1>6. CASE Signal
  BY <1>1, <1>2, <1>6 DEF Signal, submissionVars, KeeperInv
<1>7. CASE Exit
  BY <1>1, <1>2, <1>7 DEF Exit, submissionVars, KeeperInv
<1>8. CASE Tick
  BY <1>2, <1>8, TickKeepsPipes DEF Tick, KeeperInv
<1>9. CASE UNCHANGED vars
  BY <1>1, <1>2, <1>9 DEF vars, keeperVars, submissionVars, KeeperInv
<1>10. QED
  BY <1>3, <1>4, <1>5, <1>6, <1>7, <1>8, <1>9 DEF Next

-----------------------------------------------------------------------------

LEMMA ProcessType ==
    ASSUME process \in {"running", "stopping", "exited"}, dryRun \in BOOLEAN, [Next]_vars
    PROVE  process' \in {"running", "stopping", "exited"} /\ dryRun' \in BOOLEAN
BY DEF Next, LedgerClosed, PipelineStep, FetchAnswered, FetchSkipped, FetchFails, Scanned, EndBatch,
       ExecuteNow, CoolDown, WakeUp, BalanceShort, BalanceSuffices, Await, CallReturned, Signal, Exit,
       Tick, vars, keeperVars

\* The keeper's and the client's state keep their types: no batch runs past its
\* end, no call polls more often than it may, and the node always has a number.
THEOREM KeeperTypeCorrect == Spec => []KeeperTypeOK
<1> DEFINE ProcessOK == process \in {"running", "stopping", "exited"} /\ dryRun \in BOOLEAN
<1>1. Init => KeeperInv /\ ProcessOK
  BY InitPipes DEF Init
<1>2. KeeperInv /\ ProcessOK /\ [Next]_vars => KeeperInv' /\ ProcessOK'
  BY NextKeepsInv, ProcessType
<1>3. KeeperInv /\ ProcessOK => KeeperTypeOK
  BY DEF KeeperInv, PipesInv, PipeOK, SubmissionInv, KeeperTypeOK
<1> HIDE DEF ProcessOK
<1>4. QED
  BY <1>1, <1>2, <1>3, PTL DEF Spec

\* Only the pipeline that awaits a call moves that call from reading the sequence
\* number to sending.
LEMMA SenderIsCooled ==
    ASSUME KeeperInv, [Next]_vars, NEW p \in Pipelines, Sends(p)
    PROVE  age[p] = Cooldown
<1>1. call'[p] # call[p] /\ call[p].stage = "sequencing"
  BY DEF Sends
<1>2. ASSUME NEW q \in Pipelines, PipelineStep(q) PROVE Await(p)
  <2>1. CASE Await(q)
    BY <1>1, <2>1, CallStepEffect DEF Await, KeeperInv, Pipelines
  <2>2. CASE BalanceSuffices(q)
    <3>1. Invoke(q, <<q, pipe[q].next>>)
      BY <2>2 DEF BalanceSuffices
    <3>2. \A d \in Callers : d # q => call'[d] = call[d]
      BY <3>1 DEF Invoke, KeeperInv, SubmissionInv, SubmissionTypeOK, Pipelines
    <3>3. call[q].stage = "idle"
      BY <3>1 DEF Invoke
    <3>4. QED
      BY <1>1, <3>2, <3>3 DEF Pipelines
  <2>3. ASSUME UNCHANGED submissionVars PROVE FALSE
    BY <1>1, <2>3 DEF submissionVars
  <2>4. QED
    BY <1>2, <2>1, <2>2, <2>3
    DEF PipelineStep, FetchAnswered, FetchSkipped, FetchFails, Scanned, EndBatch, ExecuteNow,
        CoolDown, WakeUp, BalanceShort, CallReturned
<1>3. Await(p)
  BY <1>1, <1>2
  DEF Next, LedgerClosed, NodeStep, Arrive, Drop, Validate, Signal, Exit, Tick, vars, submissionVars
<1>4. QED
  BY <1>1, <1>3 DEF Await, KeeperInv, PipesInv, Cooled

\* However pipelines overlap, two transactions of one batch are sent at least a
\* cooldown apart (liquidator.ts:52-68).
THEOREM CooldownWithinBatchCorrect == Spec => CooldownWithinBatch
<1>1. KeeperInv /\ [Next]_vars => [\A p \in Pipelines : Sends(p) => age[p] = Cooldown]_vars
  BY SenderIsCooled
<1>2. QED
  BY <1>1, InitPipes, NextKeepsInv, PTL DEF Spec, CooldownWithinBatch

-----------------------------------------------------------------------------

\* A pipeline's call of the client is one of its requests.
LEMMA BalanceSufficesInvokes ==
    ASSUME NEW p \in Pipelines, KeeperInv, BalanceSuffices(p)
    PROVE  <<p, pipe[p].next>> \in Requests /\ Invoke(p, <<p, pipe[p].next>>)
<1>1. pipe[p].next \in 1 .. MaxBatch[p]
  BY KeeperAssumption DEF BalanceSuffices, KeeperInv, PipesInv, PipeOK, InBatch, Pipelines
<1>2. QED
  BY <1>1, KeeperAssumption DEF BalanceSuffices, Pipelines

\* Only a call and the node change what the client has sent and answered.
LEMMA NextOfSubmission ==
    ASSUME KeeperInv, [Next]_vars
    PROVE  \/ UNCHANGED submissionVars
           \/ NodeStep
           \/ \E c \in Callers : CallStep(c) \/ \E r \in Requests : Invoke(c, r)
<1>1. ASSUME NEW p \in Pipelines, BalanceSuffices(p)
      PROVE  \E c \in Callers : \E r \in Requests : Invoke(c, r)
  BY <1>1, BalanceSufficesInvokes DEF Pipelines
<1>2. ASSUME NEW p \in Pipelines, Await(p) PROVE \E c \in Callers : CallStep(c)
  BY <1>2 DEF Await, Pipelines
<1>3. QED
  BY <1>1, <1>2
  DEF Next, LedgerClosed, PipelineStep, FetchAnswered, FetchSkipped, FetchFails, Scanned, EndBatch,
      ExecuteNow, CoolDown, WakeUp, BalanceShort, CallReturned, Signal, Exit, Tick, vars

LEMMA NextKeepsPromise ==
    ASSUME KeeperInv, PromiseInv, [Next]_vars
    PROVE  PromiseInv' /\ PromiseStep
<1>1. CASE UNCHANGED submissionVars
  BY <1>1, UnchangedStutters
  DEF submissionVars, PromiseInv, SentOnce, SentIfAsked, CallOwns, ValidatedOnce, AnsweredTruly,
      Sent, Signed, AccountSequence
<1>2. CASE NodeStep
  BY <1>2, NodeStepKeepsPromiseInv, NodeStepKeepsPromise DEF KeeperInv
<1>3. ASSUME NEW c \in Callers, CallStep(c) PROVE PromiseInv' /\ PromiseStep
  BY <1>3, CallStepKeepsPromiseInv, CallStepKeepsPromise DEF KeeperInv
<1>4. ASSUME NEW c \in Callers, NEW r \in Requests, Invoke(c, r) PROVE PromiseInv' /\ PromiseStep
  BY <1>4, InvokeKeepsPromiseInv, InvokeKeepsPromise DEF KeeperInv
<1>5. QED
  BY <1>1, <1>2, <1>3, <1>4, NextOfSubmission

\* submitInvoke implements RemoteCall under any number of overlapping pipelines: a
\* request takes effect at most once, success is reported only for one that did,
\* and one reported rejected never does, whatever the connection loses, repeats or
\* delivers late (client.ts:submitInvoke).
THEOREM PromiseKeptCorrect == Spec => PromiseKept
<1>1. Init => KeeperInv /\ PromiseInv /\ Promise!Init
  <2>1. SubmissionInit => Promise!Init
    <3>1. ASSUME SubmissionInit, NEW r \in Requests PROVE Effects(r) = 0
      <4>1. {v \in validated : v.tx.by = r /\ v.result = "success"} = {}
        BY <3>1 DEF SubmissionInit
      <4>2. QED
        BY <4>1, FS_EmptySet DEF Effects
    <3>2. QED
      BY <3>1 DEF SubmissionInit, Promise!Init
  <2>2. QED
    BY <2>1, InitPipes, PromiseInitInv DEF Init
<1>2. KeeperInv /\ PromiseInv /\ [Next]_vars => KeeperInv' /\ PromiseInv' /\ [Promise!Next]_Promise!vars
  BY NextKeepsInv, NextKeepsPromise DEF PromiseStep
<1>3. QED
  BY <1>1, <1>2, PTL DEF Spec, PromiseKept, Promise!Spec
=============================================================================
