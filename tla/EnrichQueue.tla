---------------------------- MODULE EnrichQueue ----------------------------
(***************************************************************************)
(* The enrichment queue and its workers: the enrichment_queue and          *)
(* enrichment_status tables, worker_pool.go's loop, job_processor.go's     *)
(* outcome handling, and manager.go's Start (crash recovery), Stop and     *)
(* enqueueing, all in src/internal/application/enrichment/pipeline.        *)
(*                                                                         *)
(* A job is a medium at a stage of the pipeline.  Workers of one stage     *)
(* claim batches, process them job by job and enqueue the next stage.  The *)
(* database statements of one outcome are separate steps: the process may  *)
(* crash, or Stop cancel the workers' context, between any two of them.    *)
(*                                                                         *)
(* The set of stages is fixed here (the pipeline cache never goes stale),  *)
(* priorities and what enrichers return are left out, and a batch is any   *)
(* set of pending jobs of the right size.                                  *)
(***************************************************************************)
EXTENDS Naturals, FiniteSets

CONSTANTS
  Media,        \* media items
  LastStage,    \* the pipeline is the stages 1..LastStage
  Workers,      \* worker goroutines
  StageOf,      \* worker -> the stage it works for
  BatchSize,    \* jobs per claim
  MaxAttempts,  \* max_attempts column
  Errors,       \* what Enrich may fail with: "connection", "retryable", "permanent"
  MaySkip,      \* enrichers may report that there was nothing to do
  MayCrash,     \* the process may crash
  MayStop,      \* Stop may be called
  SlowRestart,  \* Start is called ten minutes or more after the last claim
  MayReenqueue  \* clients retry failed jobs and scans enqueue media again

Stages == 1..LastStage
Jobs == Media \X Stages

ASSUME EnrichAssumption ==
  /\ IsFiniteSet(Media)
  /\ LastStage \in Nat \ {0} /\ BatchSize \in Nat \ {0} /\ MaxAttempts \in Nat \ {0}
  /\ StageOf \in [Workers -> Stages]
  /\ Errors \subseteq {"connection", "retryable", "permanent"}
  /\ {MaySkip, MayCrash, MayStop, SlowRestart, MayReenqueue} \subseteq BOOLEAN

VARIABLES
  queue,     \* per job: status of its enrichment_queue row, "none" without one
  attempts,  \* per job: attempts column
  category,  \* per job: error_category column: "none" or an error
  backoff,   \* per job: next_retry_at is in the future
  aged,      \* per job: locked_at is set and more than ten minutes ago
  stat,      \* per job: status of its enrichment_status row, or "none"
  manager,   \* "down", "release", "reset", "orphans", "running", "stopping"
  pc,        \* per worker: next statement, "off" when it is not running
  batch,     \* per worker: claimed jobs it has yet to process
  cur,       \* per worker: the job in its hands, if any
  result     \* per worker: how cur went

rowVars  == <<queue, attempts, category, backoff, aged>>
workVars == <<pc, batch, cur, result>>
vars     == <<rowVars, stat, manager, workVars>>

\* Calls made with the workers' context fail once Stop has cancelled it.
CtxOK == manager # "stopping"

Terminal == {"completed", "skipped", "failed"}

Init ==
  /\ queue = [j \in Jobs |-> "none"]
  /\ attempts = [j \in Jobs |-> 0]
  /\ category = [j \in Jobs |-> "none"]
  /\ backoff = [j \in Jobs |-> FALSE]
  /\ aged = [j \in Jobs |-> FALSE]
  /\ stat = [j \in Jobs |-> "none"]
  /\ manager = "down"
  /\ pc = [w \in Workers |-> "off"]
  /\ batch = [w \in Workers |-> {}]
  /\ cur = [w \in Workers |-> {}]
  /\ result = [w \in Workers |-> "none"]

\* (mutant: a job that is being processed becomes pending as well)
EnqueueAlways(js) ==
  /\ queue' = [j \in Jobs |-> IF j \in js THEN "pending" ELSE queue[j]]
  /\ attempts' = [j \in Jobs |-> IF j \in js THEN 0 ELSE attempts[j]]
  /\ category' = [j \in Jobs |-> IF j \in js THEN "none" ELSE category[j]]
  /\ UNCHANGED <<backoff, aged>>

\* The upsert of EnqueueEnrichmentJob, for the jobs js: new and terminal rows
\* become pending, pending and processing ones stay as they are.
Enqueue(js) ==
  LET fresh == {j \in js : queue[j] \in {"none"} \cup Terminal} IN
  /\ queue' = [j \in Jobs |-> IF j \in fresh THEN "pending" ELSE queue[j]]
  /\ attempts' = [j \in Jobs |-> IF j \in fresh THEN 0 ELSE attempts[j]]
  /\ category' = [j \in Jobs |-> IF j \in fresh THEN "none" ELSE category[j]]
  /\ UNCHANGED <<backoff, aged>>

------------------------------------------------------------------------------
(* Manager.Start and Stop *)

\* (mutant: recovery does not release the rows)
StartReleaseNone ==
  /\ manager = "release"
  /\ manager' = "reset"
  /\ UNCHANGED <<rowVars, stat, workVars>>

\* Start's first statement, ReleaseStuck: rows locked for more than ten minutes.
StartRelease ==
  /\ manager = "release"
  /\ queue' = [j \in Jobs |->
       IF queue[j] = "processing" /\ aged[j] THEN "pending" ELSE queue[j]]
  /\ aged' = [j \in Jobs |-> FALSE]
  /\ manager' = "reset"
  /\ UNCHANGED <<attempts, category, backoff, stat, workVars>>

\* ResetStuck: every status row that says processing.
StartReset ==
  /\ manager = "reset"
  /\ stat' = [j \in Jobs |-> IF stat[j] = "processing" THEN "pending" ELSE stat[j]]
  /\ manager' = "orphans"
  /\ UNCHANGED <<rowVars, workVars>>

\* GetOrphanedPipelineStates: next stages of a completed stage that were
\* never enqueued.
Orphans ==
  {<<k[1], k[2] + 1>> : k \in
     {j \in Jobs : /\ j[2] < LastStage
                   /\ stat[j] = "completed"
                   /\ stat[<<j[1], j[2] + 1>>] = "none"
                   /\ queue[<<j[1], j[2] + 1>>] \notin {"pending", "processing"}}}

\* (mutant: recovery ends without the orphans)
StartWorkersOnly ==
  /\ manager = "orphans"
  /\ pc' = [w \in Workers |-> "claim"]
  /\ manager' = "running"
  /\ UNCHANGED <<rowVars, stat, batch, cur, result>>

\* The orphans are enqueued and the worker pools started, under m.mu.
StartWorkers ==
  /\ manager = "orphans"
  /\ Enqueue(Orphans)
  /\ pc' = [w \in Workers |-> "claim"]
  /\ manager' = "running"
  /\ UNCHANGED <<stat, batch, cur, result>>

Start ==
  /\ manager = "down"
  /\ SlowRestart => \A j \in Jobs : queue[j] = "processing" => aged[j]
  /\ manager' = "release"
  /\ UNCHANGED <<rowVars, stat, workVars>>

\* Stop cancels the context and waits for the workers.
Stop ==
  /\ MayStop /\ manager = "running"
  /\ manager' = "stopping"
  /\ UNCHANGED <<rowVars, stat, workVars>>

StopDone ==
  /\ manager = "stopping" /\ \A w \in Workers : pc[w] = "off"
  /\ manager' = "down"
  /\ UNCHANGED <<rowVars, stat, workVars>>

Crash ==
  /\ MayCrash /\ manager # "down"
  /\ manager' = "down"
  /\ pc' = [w \in Workers |-> "off"]
  /\ batch' = [w \in Workers |-> {}]
  /\ cur' = [w \in Workers |-> {}]
  /\ result' = [w \in Workers |-> "none"]
  /\ UNCHANGED <<rowVars, stat>>

------------------------------------------------------------------------------
(* Where jobs come from *)

\* EnqueueFirstStage and EnqueueFirstStageBatch, called by scans.
EnqueueFirst(m) ==
  /\ queue[<<m, 1>>] = "none" \/ MayReenqueue
  /\ Enqueue({<<m, 1>>})
  /\ UNCHANGED <<stat, manager, workVars>>

\* RetryEnrichmentJob, from the failures page.
RetryFailed(j) ==
  /\ MayReenqueue /\ queue[j] = "failed"
  /\ queue' = [queue EXCEPT ![j] = "pending"]
  /\ attempts' = [attempts EXCEPT ![j] = 0]
  /\ category' = [category EXCEPT ![j] = "none"]
  /\ backoff' = [backoff EXCEPT ![j] = FALSE]
  /\ UNCHANGED <<aged, stat, manager, workVars>>

------------------------------------------------------------------------------
(* Time: locks age and retry times pass *)

LockAges(j) ==
  /\ queue[j] = "processing" /\ ~aged[j]
  /\ aged' = [aged EXCEPT ![j] = TRUE]
  /\ UNCHANGED <<queue, attempts, category, backoff, stat, manager, workVars>>

BackoffPasses(j) ==
  /\ backoff[j]
  /\ backoff' = [backoff EXCEPT ![j] = FALSE]
  /\ UNCHANGED <<queue, attempts, category, aged, stat, manager, workVars>>

------------------------------------------------------------------------------
(* The worker loop *)

Pending(s) == {j \in Jobs : j[2] = s /\ queue[j] = "pending"}

\* ClaimEnrichmentJobs, one UPDATE: at most BatchSize pending rows of the stage,
\* whatever their next_retry_at.  An empty claim polls again.
Claim(w) ==
  /\ pc[w] = "claim" /\ CtxOK
  /\ \E js \in SUBSET Pending(StageOf[w]) :
       /\ js # {} /\ Cardinality(js) <= BatchSize
       /\ Cardinality(js) = BatchSize \/ js = Pending(StageOf[w])
       /\ queue' = [j \in Jobs |-> IF j \in js THEN "processing" ELSE queue[j]]
       /\ aged' = [j \in Jobs |-> j \notin js /\ aged[j]]
       /\ batch' = [batch EXCEPT ![w] = js]
  /\ pc' = [pc EXCEPT ![w] = "next"]
  /\ UNCHANGED <<attempts, category, backoff, stat, manager, cur, result>>

\* The loop over the batch ends when it is empty.
BatchDone(w) ==
  /\ pc[w] = "next" /\ CtxOK /\ batch[w] = {}
  /\ pc' = [pc EXCEPT ![w] = "claim"]
  /\ UNCHANGED <<rowVars, stat, manager, batch, cur, result>>

\* The worker returns when the context is done; what is left of its batch is
\* dropped.
Quit(w) ==
  /\ pc[w] \in {"claim", "next"} /\ ~CtxOK
  /\ pc' = [pc EXCEPT ![w] = "off"]
  /\ batch' = [batch EXCEPT ![w] = {}]
  /\ UNCHANGED <<rowVars, stat, manager, cur, result>>

\* ProcessWithExternalIDs up to the call of the enricher: status "processing".
Begin(w) ==
  /\ pc[w] = "next" /\ CtxOK
  /\ \E j \in batch[w] :
       /\ batch' = [batch EXCEPT ![w] = @ \ {j}]
       /\ cur' = [cur EXCEPT ![w] = {j}]
       /\ stat' = [stat EXCEPT ![j] = "processing"]
  /\ pc' = [pc EXCEPT ![w] = "enrich"]
  /\ UNCHANGED <<rowVars, manager, result>>

\* The enricher returns and its answer is applied.  Under a cancelled context
\* the call may fail with "context canceled", a connection error.
Enrich(w) ==
  /\ pc[w] = "enrich"
  /\ \E r \in {"completed"} \cup Errors
               \cup (IF MaySkip THEN {"skipped"} ELSE {})
               \cup (IF CtxOK THEN {} ELSE {"connection"}) :
       /\ result' = [result EXCEPT ![w] = r]
       /\ pc' = [pc EXCEPT ![w] = CASE r \in {"completed", "skipped"} -> "complete"
                                   [] r = "connection" -> "requeue"
                                   [] OTHER -> "fail"]
  /\ UNCHANGED <<rowVars, stat, manager, batch, cur>>

\* The outcome of a job is applied statement by statement.  Once the context is
\* cancelled each of them fails: the error is logged, nothing changes, and the
\* worker goes on to the next.
After(w, next) == pc' = [pc EXCEPT ![w] = next]

Drop(w) ==
  /\ cur' = [cur EXCEPT ![w] = {}]
  /\ result' = [result EXCEPT ![w] = "none"]

\* (mutant: connection errors count as attempts)
RequeueCounts(w) ==
  /\ pc[w] = "requeue" /\ Drop(w) /\ After(w, "next")
  /\ LET js == IF CtxOK THEN cur[w] ELSE {} IN
       /\ queue' = [j \in Jobs |-> IF j \in js THEN "pending" ELSE queue[j]]
       /\ attempts' = [j \in Jobs |-> IF j \in js THEN attempts[j] + 1 ELSE attempts[j]]
       /\ category' = [j \in Jobs |-> IF j \in js THEN "connection" ELSE category[j]]
       /\ backoff' = [j \in Jobs |-> j \in js \/ backoff[j]]
       /\ aged' = [j \in Jobs |-> j \notin js /\ aged[j]]
  /\ UNCHANGED <<stat, manager, batch>>

\* handleFailure, connection errors: pending again without a penalty.
Requeue(w) ==
  /\ pc[w] = "requeue" /\ Drop(w) /\ After(w, "next")
  /\ LET js == IF CtxOK THEN cur[w] ELSE {} IN
       /\ queue' = [j \in Jobs |-> IF j \in js THEN "pending" ELSE queue[j]]
       /\ category' = [j \in Jobs |-> IF j \in js THEN "connection" ELSE category[j]]
       /\ backoff' = [j \in Jobs |-> j \in js \/ backoff[j]]
       /\ aged' = [j \in Jobs |-> j \notin js /\ aged[j]]
  /\ UNCHANGED <<attempts, stat, manager, batch>>

\* (mutant: handleFailure returns without MarkFailed)
FailOnly(w) ==
  /\ pc[w] = "fail" /\ Drop(w) /\ After(w, "next")
  /\ LET js == IF CtxOK THEN cur[w] ELSE {} IN
       /\ queue' = [j \in Jobs |->
            IF j \notin js THEN queue[j]
            ELSE IF attempts[j] + 1 >= MaxAttempts THEN "failed" ELSE "pending"]
       /\ attempts' = [j \in Jobs |-> IF j \in js THEN attempts[j] + 1 ELSE attempts[j]]
       /\ aged' = [j \in Jobs |-> j \notin js /\ aged[j]]
  /\ UNCHANGED <<category, backoff, stat, manager, batch>>

\* (mutant: the attempt that just failed is not counted)
FailOneMore(w) ==
  /\ pc[w] = "fail" /\ After(w, "markFail")
  /\ LET js == IF CtxOK THEN cur[w] ELSE {} IN
       /\ queue' = [j \in Jobs |->
            IF j \notin js THEN queue[j]
            ELSE IF attempts[j] >= MaxAttempts THEN "failed" ELSE "pending"]
       /\ attempts' = [j \in Jobs |-> IF j \in js THEN attempts[j] + 1 ELSE attempts[j]]
       /\ aged' = [j \in Jobs |-> j \notin js /\ aged[j]]
  /\ UNCHANGED <<category, backoff, stat, manager, batch, cur, result>>

\* handleFailure, other errors: FailEnrichmentJob decides by the attempts alone.
Fail(w) ==
  /\ pc[w] = "fail" /\ After(w, "markFail")
  /\ LET js == IF CtxOK THEN cur[w] ELSE {} IN
       /\ queue' = [j \in Jobs |->
            IF j \notin js THEN queue[j]
            ELSE IF attempts[j] + 1 >= MaxAttempts THEN "failed" ELSE "pending"]
       /\ attempts' = [j \in Jobs |-> IF j \in js THEN attempts[j] + 1 ELSE attempts[j]]
       /\ category' = [j \in Jobs |-> IF j \in js THEN result[w] ELSE category[j]]
       /\ backoff' = [j \in Jobs |->
            IF j \in js THEN result[w] = "retryable" /\ attempts[j] < MaxAttempts ELSE backoff[j]]
       /\ aged' = [j \in Jobs |-> j \notin js /\ aged[j]]
  /\ UNCHANGED <<stat, manager, batch, cur, result>>

\* handleSuccess and handleSkipped: the row is completed.
Complete(w) ==
  /\ pc[w] = "complete" /\ After(w, "mark")
  /\ LET js == IF CtxOK THEN cur[w] ELSE {} IN
       /\ queue' = [j \in Jobs |-> IF j \in js THEN "completed" ELSE queue[j]]
       /\ aged' = [j \in Jobs |-> j \notin js /\ aged[j]]
  /\ UNCHANGED <<attempts, category, backoff, stat, manager, batch, cur, result>>

\* MarkComplete, MarkSkipped
Mark(w) ==
  /\ pc[w] = "mark" /\ After(w, "advance")
  /\ stat' = [j \in Jobs |-> IF CtxOK /\ j \in cur[w] THEN result[w] ELSE stat[j]]
  /\ UNCHANGED <<rowVars, manager, batch, cur, result>>

\* MarkFailed
MarkFail(w) ==
  /\ pc[w] = "markFail" /\ Drop(w) /\ After(w, "next")
  /\ stat' = [j \in Jobs |-> IF CtxOK /\ j \in cur[w] THEN "failed" ELSE stat[j]]
  /\ UNCHANGED <<rowVars, manager, batch>>

NextStage(js) == {<<j[1], j[2] + 1>> : j \in {k \in js : k[2] < LastStage}}

\* (mutant: a skipped job does not advance)
AdvanceCompleted(w) ==
  /\ pc[w] = "advance" /\ Drop(w) /\ After(w, "next")
  /\ Enqueue(IF CtxOK /\ result[w] = "completed" THEN NextStage(cur[w]) ELSE {})
  /\ UNCHANGED <<stat, manager, batch>>

\* EnqueueNextStage
Advance(w) ==
  /\ pc[w] = "advance" /\ Drop(w) /\ After(w, "next")
  /\ Enqueue(IF CtxOK THEN NextStage(cur[w]) ELSE {})
  /\ UNCHANGED <<stat, manager, batch>>

WorkerStep(w) ==
  \/ Claim(w) \/ BatchDone(w) \/ Quit(w) \/ Begin(w) \/ Enrich(w) \/ Requeue(w)
  \/ Fail(w) \/ MarkFail(w) \/ Complete(w) \/ Mark(w) \/ Advance(w)

Recover == StartRelease \/ StartReset \/ StartWorkers

Next ==
  \/ Start \/ Recover \/ Stop \/ StopDone \/ Crash
  \/ \E m \in Media : EnqueueFirst(m)
  \/ \E j \in Jobs : RetryFailed(j) \/ LockAges(j) \/ BackoffPasses(j)
  \/ \E w \in Workers : WorkerStep(w)

Spec == Init /\ [][Next]_vars

\* Goroutines that can run do; each worker is scheduled on its own.
Fairness == WF_vars(Start) /\ WF_vars(Recover) /\ \A w \in Workers : WF_vars(WorkerStep(w))
FairSpec == Spec /\ Fairness

------------------------------------------------------------------------------
(* Properties *)

\* Every variable has its type, a worker holds at most one job besides its
\* batch, and a batch never exceeds what ClaimBatch was asked for.
TypeOK ==
  /\ queue \in [Jobs -> {"none", "pending", "processing"} \cup Terminal]
  /\ attempts \in [Jobs -> 0..MaxAttempts]
  /\ category \in [Jobs -> {"none"} \cup {"connection", "retryable", "permanent"}]
  /\ backoff \in [Jobs -> BOOLEAN] /\ aged \in [Jobs -> BOOLEAN]
  /\ stat \in [Jobs -> {"none", "pending", "processing"} \cup Terminal]
  /\ manager \in {"down", "release", "reset", "orphans", "running", "stopping"}
  /\ pc \in [Workers -> {"off", "claim", "next", "enrich", "requeue", "fail", "markFail",
                         "complete", "mark", "advance"}]
  /\ result \in [Workers -> {"none", "completed", "skipped"} \cup
                            {"connection", "retryable", "permanent"}]
  /\ batch \in [Workers -> SUBSET Jobs] /\ cur \in [Workers -> SUBSET Jobs]
  /\ \A w \in Workers : Cardinality(batch[w]) <= BatchSize /\ Cardinality(cur[w]) <= 1

\* The jobs w has claimed and not yet reported on.
Holds(w) ==
  batch[w] \cup (IF pc[w] \in {"enrich", "requeue", "fail", "complete"} THEN cur[w] ELSE {})

\* No two workers have the same job in hand, whatever is enqueued, retried or
\* recovered meanwhile (ClaimEnrichmentJobs, EnqueueEnrichmentJob's upsert).
OneWorkerPerJob ==
  \A v, w \in Workers : v # w => Holds(v) \cap Holds(w) = {}

\* While the manager runs, a row says processing only when one of the workers
\* holds the job: after a restart nothing is left claimed by nobody
\* (recoverStuckJobs).
ClaimsHaveWorkers ==
  manager = "running" =>
    \A j \in Jobs : queue[j] = "processing" => \E w \in Workers : j \in Holds(w)

\* While the manager runs, a stage with status completed has its next stage
\* enqueued, or a worker is about to do so (enqueueNext, and
\* GetOrphanedPipelineStates after a crash between the two).
CompletedAdvances ==
  manager = "running" =>
    \A j \in Jobs :
      (stat[j] = "completed" /\ j[2] < LastStage) =>
        \/ queue[<<j[1], j[2] + 1>>] # "none"
        \/ \E w \in Workers : pc[w] = "advance" /\ j \in cur[w]

\* The same for skipped stages, which "still advance the pipeline".
SkippedAdvances ==
  manager = "running" =>
    \A j \in Jobs :
      (stat[j] = "skipped" /\ j[2] < LastStage) =>
        \/ queue[<<j[1], j[2] + 1>>] # "none"
        \/ \E w \in Workers : pc[w] = "advance" /\ j \in cur[w]

\* The two tables agree on a job that is over and in nobody's hands: completed
\* rows have a completed or skipped status, failed rows a failed one.
StatusAgrees ==
  \A j \in Jobs :
    (\A w \in Workers : j \notin cur[w]) =>
      /\ queue[j] = "completed" => stat[j] \in {"completed", "skipped"}
      /\ queue[j] = "failed" => stat[j] = "failed"

\* A job that is given up was charged MaxAttempts failures, and a job that may
\* run again fewer: connection errors and restarts cost no attempt
\* (FailEnrichmentJob, RequeueEnrichmentJob).
AttemptsDecide == \A j \in Jobs : queue[j] = "failed" <=> attempts[j] = MaxAttempts

\* A job with a retry time in the future is not claimed: "will retry in 30s".
BackoffRespected ==
  [][\A j \in Jobs : (queue[j] = "pending" /\ queue'[j] = "processing") => ~backoff[j]]_vars

\* A job whose error category does not allow retries is not pending again.
PermanentStaysFailed ==
  \A j \in Jobs : queue[j] = "pending" => category[j] # "permanent"

\* Without crashes and connection errors every medium that is enqueued comes
\* to the end of the pipeline or to a failed stage.
PipelineFinishes ==
  \A m \in Media :
    queue[<<m, 1>>] = "pending" ~>
      \/ queue[<<m, LastStage>>] = "completed"
      \/ \E s \in Stages : queue[<<m, s>>] = "failed"
=============================================================================
