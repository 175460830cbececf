-------------------------------- MODULE Keeper --------------------------------
(***************************************************************************)
(* The liquidation keeper of keeper/src: on every closed ledger fetch the  *)
(* prices, scan the watched accounts, and submit the profitable            *)
(* liquidations one after the other, with a cooldown in between.           *)
(*                                                                         *)
(* The listener does not await the pipeline it starts (oracle-watcher.ts), *)
(* so pipelines overlap: each member of Pipelines is the handling of one   *)
(* ledger event, Startup the one that start() runs itself.  Between two    *)
(* awaits a pipeline runs undisturbed.  They share the Liquidator, that is *)
(* its lastExecutionTime, and the wallet behind the client (Submission).   *)
(*                                                                         *)
(* Time passes in ticks.  Only differences matter: elapsed is the time     *)
(* since lastExecutionTime, and stops counting at Cooldown.                *)
(***************************************************************************)
EXTENDS Submission

CONSTANTS
    Startup,    \* the pipeline run by OracleWatcher.start
    MaxBatch,   \* how many profitable opportunities each scan may find
    Cooldown    \* liquidationCooldownMs, in ticks

\* The ledger events that are handled.
Pipelines == Callers

\* The i-th opportunity of a pipeline's batch is one call of the client.
ASSUME KeeperAssumption ==
    /\ Startup \in Pipelines
    /\ MaxBatch \in [Pipelines -> Nat]
    /\ Cooldown \in Nat
    /\ Requests = UNION {{p} \X (1 .. MaxBatch[p]) : p \in Pipelines}

VARIABLES
    process,    \* of the operating system: "running", "stopping" or "exited"
    dryRun,     \* config.dryRun
    pipe,       \* where each pipeline is: stage, size of its batch, next of it
    elapsed,    \* time since lastExecutionTime
    wait,       \* what is left of each pipeline's sleep
    age         \* history: time since each pipeline last sent a transaction

keeperVars == <<process, dryRun, pipe, elapsed, wait, age>>

vars == <<keeperVars, submissionVars>>

Stages == {"idle", "fetching", "scanning", "deciding", "cooling", "checking", "executing", "done"}

\* The types of the keeper's and the client's state.
KeeperTypeOK ==
    /\ process \in {"running", "stopping", "exited"}
    /\ dryRun \in BOOLEAN
    /\ pipe \in [Pipelines -> [stage : Stages, count : Nat, next : Nat]]
    /\ \A p \in Pipelines : pipe[p].count <= MaxBatch[p] /\ pipe[p].next \in 1 .. pipe[p].count + 1
    /\ elapsed \in 0 .. Cooldown
    /\ wait \in [Pipelines -> 0 .. Cooldown]
    /\ age \in [Pipelines -> 0 .. Cooldown]
    /\ SubmissionTypeOK

\* start() has registered the listener and fetches once by itself. Nothing was
\* executed yet: lastExecutionTime = 0 enforces no cooldown.
Init ==
    /\ process = "running"
    /\ dryRun \in BOOLEAN
    /\ pipe = [p \in Pipelines |->
                 [stage |-> IF p = Startup THEN "fetching" ELSE "idle", count |-> 0, next |-> 1]]
    /\ elapsed = Cooldown
    /\ wait = [p \in Pipelines |-> 0]
    /\ age = [p \in Pipelines |-> Cooldown]
    /\ SubmissionInit

-----------------------------------------------------------------------------
(* OracleWatcher and the pipeline callback of index.ts.                    *)

Go(p, stage) == pipe' = [pipe EXCEPT ![p].stage = stage]

\* The listener starts a pipeline and forgets it.
LedgerClosed(p) ==
    /\ process = "running"
    /\ pipe[p].stage = "idle"
    /\ Go(p, "fetching")
    /\ UNCHANGED <<process, dryRun, elapsed, wait, age, submissionVars>>

FetchAnswered(p) ==
    /\ pipe[p].stage = "fetching"
    /\ Go(p, "scanning")
    /\ UNCHANGED <<process, dryRun, elapsed, wait, age, submissionVars>>

\* Stale prices or RLUSD off its peg: the ledger is skipped.
FetchSkipped(p) ==
    /\ pipe[p].stage = "fetching"
    /\ Go(p, "done")
    /\ UNCHANGED <<process, dryRun, elapsed, wait, age, submissionVars>>

\* Any other error is emitted as "error". Nobody listens, so emit throws, the
\* promise of fetchPrices is rejected, and nobody handles that either.
FetchFails(p) ==
    /\ pipe[p].stage = "fetching"
    /\ Go(p, "done")
    /\ process' = "exited"
    /\ UNCHANGED <<dryRun, elapsed, wait, age, submissionVars>>

\* The scan and the profit filter leave a batch of n opportunities; a scan that
\* fails leaves none.
Scanned(p) ==
    /\ pipe[p].stage = "scanning"
    /\ \E n \in 0 .. MaxBatch[p] :
         pipe' = [pipe EXCEPT ![p] = [stage |-> IF n = 0 THEN "done" ELSE "deciding",
                                      count |-> n, next |-> 1]]
    /\ UNCHANGED <<process, dryRun, elapsed, wait, age, submissionVars>>

-----------------------------------------------------------------------------
(* Liquidator.                                                             *)

\* Faulty variant: only a success starts the cooldown.
FinishOneOnSuccess(p) ==
    /\ pipe' = [pipe EXCEPT ![p].stage = "deciding", ![p].next = @ + 1]
    /\ elapsed' = IF outcome[<<p, pipe[p].next>>] = "success" THEN 0 ELSE elapsed

\* executeOne has returned: the execution time is updated, successful or not.
FinishOne(p) ==
    /\ pipe' = [pipe EXCEPT ![p].stage = "deciding", ![p].next = @ + 1]
    /\ elapsed' = 0

\* executeOne is entered: a dry run returns at once.
StartOne(p) ==
    IF dryRun THEN FinishOne(p) ELSE Go(p, "checking") /\ UNCHANGED elapsed

EndBatch(p) ==
    /\ pipe[p].stage = "deciding"
    /\ pipe[p].next > pipe[p].count
    /\ Go(p, "done")
    /\ UNCHANGED <<process, dryRun, elapsed, wait, age, submissionVars>>

\* The cooldown is over when it is checked.
ExecuteNow(p) ==
    /\ pipe[p].stage = "deciding"
    /\ pipe[p].next <= pipe[p].count
    /\ elapsed >= Cooldown
    /\ StartOne(p)
    /\ UNCHANGED <<process, dryRun, wait, age, submissionVars>>

\* It is not: sleep for what is left of it now.
CoolDown(p) ==
    /\ pipe[p].stage = "deciding"
    /\ pipe[p].next <= pipe[p].count
    /\ elapsed < Cooldown
    /\ wait' = [wait EXCEPT ![p] = Cooldown - elapsed]
    /\ Go(p, "cooling")
    /\ UNCHANGED <<process, dryRun, elapsed, age, submissionVars>>

\* After the sleep the cooldown is not checked again.
WakeUp(p) ==
    /\ pipe[p].stage = "cooling"
    /\ wait[p] = 0
    /\ StartOne(p)
    /\ UNCHANGED <<process, dryRun, wait, age, submissionVars>>

\* The balance is too small, or could not be read: skipped.
BalanceShort(p) ==
    /\ pipe[p].stage = "checking"
    /\ FinishOne(p)
    /\ UNCHANGED <<process, dryRun, wait, age, submissionVars>>

BalanceSuffices(p) ==
    /\ pipe[p].stage = "checking"
    /\ Go(p, "executing")
    /\ Invoke(p, <<p, pipe[p].next>>)
    /\ UNCHANGED <<process, dryRun, elapsed, wait, age>>

\* The step in which a pipeline's transaction is signed and sent.
Sends(p) == call[p].stage = "sequencing" /\ call'[p].stage = "sending"

\* The client works on the call. If the batch goes on after this one, the time
\* the transaction is sent is noted in age.
Await(p) ==
    /\ pipe[p].stage = "executing"
    /\ CallStep(p)
    /\ age' = IF Sends(p) /\ pipe[p].next < pipe[p].count
              THEN [age EXCEPT ![p] = 0] ELSE age
    /\ UNCHANGED <<process, dryRun, pipe, elapsed, wait>>

\* The client returned or threw; either way the batch goes on.
CallReturned(p) ==
    /\ pipe[p].stage = "executing"
    /\ call[p].stage = "idle"
    /\ FinishOne(p)
    /\ UNCHANGED <<process, dryRun, wait, age, submissionVars>>

-----------------------------------------------------------------------------
(* The process and its clock.                                              *)

\* SIGINT or SIGTERM. The handlers are registered when the startup pipeline is
\* done; before that the signal kills the process. Then the listener is removed.
Signal ==
    /\ process = "running"
    /\ process' = IF pipe[Startup].stage = "done" THEN "stopping" ELSE "exited"
    /\ UNCHANGED <<dryRun, pipe, elapsed, wait, age, submissionVars>>

\* The connection is closed and the process exits, whatever the pipelines do.
Exit ==
    /\ process = "stopping"
    /\ process' = "exited"
    /\ UNCHANGED <<dryRun, pipe, elapsed, wait, age, submissionVars>>

Tick ==
    /\ process # "exited"
    /\ elapsed' = IF elapsed < Cooldown THEN elapsed + 1 ELSE elapsed
    /\ wait' = [p \in Pipelines |-> IF wait[p] > 0 THEN wait[p] - 1 ELSE 0]
    /\ age' = [p \in Pipelines |-> IF age[p] < Cooldown THEN age[p] + 1 ELSE age[p]]
    /\ UNCHANGED <<process, dryRun, pipe, submissionVars>>

PipelineStep(p) ==
    /\ process # "exited"
    /\ \/ FetchAnswered(p)
       \/ FetchSkipped(p)
       \/ FetchFails(p)
       \/ Scanned(p)
       \/ EndBatch(p)
       \/ ExecuteNow(p)
       \/ CoolDown(p)
       \/ WakeUp(p)
       \/ BalanceShort(p)
       \/ BalanceSuffices(p)
       \/ Await(p)
       \/ CallReturned(p)

Next ==
    \/ \E p \in Pipelines : LedgerClosed(p) \/ PipelineStep(p)
    \/ NodeStep /\ UNCHANGED keeperVars
    \/ Signal
    \/ Exit
    \/ Tick

\* The event loop runs what is ready, timers fire, and a request is answered or
\* fails. Nothing is assumed of the ledger: it need not close, nor validate.
Fairness ==
    /\ WF_vars(Tick)
    /\ \A p \in Pipelines : WF_vars(PipelineStep(p))

Spec == Init /\ [][Next]_vars /\ Fairness

-----------------------------------------------------------------------------

\* Two transactions of one batch are sent at least a cooldown apart
\* (liquidator.ts:44), however other pipelines move lastExecutionTime meanwhile.
CooldownWithinBatch ==
    [][\A p \in Pipelines : Sends(p) => age[p] = Cooldown]_vars

\* Every pipeline that is started comes to an end, even if the ledger validates
\* nothing: no await lasts forever, and sleeps and polls are bounded.
EveryScanEnds ==
    \A p \in Pipelines :
        pipe[p].stage # "idle" ~> (pipe[p].stage = "done" \/ process = "exited")

\* oracle-watcher.ts:108: fetchPrices "Returns the PriceUpdate on success, or
\* null on stale/error". An error of a fetch ends the fetch, not the process.
FetchErrorsSurvived ==
    [][\A p \in Pipelines :
         (pipe[p].stage = "fetching" /\ pipe'[p].stage # "fetching") => process' # "exited"]_vars
=============================================================================
