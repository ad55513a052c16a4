------------------------- MODULE EnrichQueueProofs -------------------------
(***************************************************************************)
(* Proofs about EnrichQueue, for any media, number of stages, workers of a *)
(* stage, batch size and number of attempts.                               *)
(***************************************************************************)
EXTENDS EnrichQueue, FiniteSetTheorems, TLAPS

\* A worker that is between batches holds nothing, and none runs before Start
\* has recovered the rows or after Stop has waited for them.
IdleHoldNothing ==
  /\ \A w \in Workers : /\ pc[w] \in {"off", "claim"} => batch[w] = {}
                        /\ pc[w] \in {"off", "claim", "next"} => cur[w] = {}
  /\ manager \notin {"running", "stopping"} => \A w \in Workers : pc[w] = "off"

\* The result of a job fits the statements that are to come.
ResultsFit ==
  \A w \in Workers : /\ pc[w] = "fail" => result[w] \in {"retryable", "permanent"}
                     /\ pc[w] \in {"complete", "mark"} => result[w] \in {"completed", "skipped"}

\* What a worker holds is claimed, and what it works on has a row.
HeldAreProcessing == \A w \in Workers : \A j \in Holds(w) : queue[j] = "processing"
WorkHasRows == \A w \in Workers : /\ \A j \in batch[w] \cup cur[w] : queue[j] # "none"
                                  /\ batch[w] \cap cur[w] = {}

\* A status row comes with a queue row.
StatusHasRow == \A j \in Jobs : stat[j] # "none" => queue[j] # "none"

IInv ==
  /\ TypeOK /\ IdleHoldNothing /\ ResultsFit /\ HeldAreProcessing /\ WorkHasRows
  /\ StatusHasRow /\ OneWorkerPerJob /\ AttemptsDecide /\ CompletedAdvances

\* There are no infinite batches.
LEMMA FiniteJobs == \A js \in SUBSET Jobs : IsFiniteSet(js) /\ Cardinality(js) \in Nat
<1>1. IsFiniteSet(Stages)
  BY EnrichAssumption, FS_Interval DEF Stages
<1>2. IsFiniteSet(Jobs)
  BY <1>1, EnrichAssumption, FS_Product DEF Jobs
<1> QED BY <1>2, FS_Subset, FS_CardinalityType

\* A job is a pair, and one that is not in the last stage has a next job.
LEMMA NextJob ==
  \A j \in Jobs : j[2] < LastStage => <<j[1], j[2] + 1>> \in Jobs
  BY EnrichAssumption DEF Jobs, Stages

\* The empty tables satisfy the invariant.
LEMMA InvInit == Init => IInv
<1> SUFFICES ASSUME Init PROVE IInv
  OBVIOUS
<1>1. Cardinality({}) = 0
  BY FS_EmptySet
<1>2. TypeOK
  BY <1>1, EnrichAssumption DEF Init, TypeOK
<1>3. IdleHoldNothing /\ ResultsFit /\ HeldAreProcessing /\ WorkHasRows /\ StatusHasRow
      /\ OneWorkerPerJob /\ AttemptsDecide /\ CompletedAdvances
  BY EnrichAssumption DEF Init, IdleHoldNothing, ResultsFit, HeldAreProcessing, WorkHasRows,
     StatusHasRow, OneWorkerPerJob, AttemptsDecide, CompletedAdvances, Holds
<1> QED BY <1>2, <1>3 DEF IInv

\* The upsert starts new and finished rows afresh, touches no other, and leaves
\* a row for each of its jobs.
LEMMA EnqueueEffect ==
  ASSUME TypeOK, NEW js, Enqueue(js)
  PROVE  /\ queue' \in [Jobs -> {"none", "pending", "processing"} \cup Terminal]
         /\ attempts' \in [Jobs -> 0..MaxAttempts]
         /\ category' \in [Jobs -> {"none"} \cup {"connection", "retryable", "permanent"}]
         /\ UNCHANGED <<backoff, aged>>
         /\ \A j \in Jobs : \/ queue'[j] = queue[j] /\ attempts'[j] = attempts[j]
                            \/ /\ queue[j] \in {"none"} \cup Terminal
                               /\ queue'[j] = "pending" /\ attempts'[j] = 0
         /\ \A j \in Jobs : j \in js => queue'[j] # "none"
<1> DEFINE fresh == {j \in js : queue[j] \in {"none"} \cup Terminal}
<1>1. /\ queue' = [j \in Jobs |-> IF j \in fresh THEN "pending" ELSE queue[j]]
      /\ attempts' = [j \in Jobs |-> IF j \in fresh THEN 0 ELSE attempts[j]]
      /\ category' = [j \in Jobs |-> IF j \in fresh THEN "none" ELSE category[j]]
      /\ UNCHANGED <<backoff, aged>>
  BY DEF Enqueue
<1>2. \A j \in Jobs : j \in js /\ j \notin fresh => queue[j] \notin {"none"} \cup Terminal
  OBVIOUS
<1>3. \A j \in fresh : queue[j] \in {"none"} \cup Terminal
  OBVIOUS
<1> HIDE DEF fresh
<1>4. queue' \in [Jobs -> {"none", "pending", "processing"} \cup Terminal]
  BY <1>1 DEF TypeOK
<1>5. attempts' \in [Jobs -> 0..MaxAttempts]
  BY <1>1, EnrichAssumption DEF TypeOK
<1>6. category' \in [Jobs -> {"none"} \cup {"connection", "retryable", "permanent"}]
  BY <1>1 DEF TypeOK
<1> QED BY <1>1, <1>2, <1>3, <1>4, <1>5, <1>6

\* Fresh rows have no attempts and are not failed.
LEMMA FreshDecide ==
  ASSUME TypeOK, AttemptsDecide,
         \A j \in Jobs : \/ queue'[j] = queue[j] /\ attempts'[j] = attempts[j]
                         \/ queue'[j] = "pending" /\ attempts'[j] = 0
  PROVE  AttemptsDecide'
  BY EnrichAssumption DEF AttemptsDecide

-----------------------------------------------------------------------------
(***************************************************************************)
(* Steps beside the workers.                                               *)
(***************************************************************************)

\* A step that leaves the workers alone keeps the invariant when it keeps the
\* claims of running workers and takes no row away.
LEMMA BesideStep ==
  ASSUME IInv, UNCHANGED workVars, TypeOK', AttemptsDecide',
         \A j \in Jobs : queue[j] = "processing" =>
            queue'[j] = "processing" \/ \A w \in Workers : pc[w] = "off",
         \A j \in Jobs : queue'[j] = "none" => queue[j] = "none",
         \A j \in Jobs : stat'[j] # "none" => stat[j] # "none",
         manager' \notin {"running", "stopping"} => \A w \in Workers : pc[w] = "off",
         manager' = "running" => manager = "running" /\ stat' = stat
  PROVE  IInv'
<1>1. IdleHoldNothing' /\ ResultsFit'
  BY DEF IInv, IdleHoldNothing, ResultsFit, workVars
<1>2. \A w \in Workers : Holds(w)' = Holds(w) /\ Holds(w) \subseteq Jobs
  BY DEF IInv, TypeOK, Holds, workVars
<1>3. \A w \in Workers : pc[w] = "off" => Holds(w) = {}
  BY DEF IInv, IdleHoldNothing, Holds
<1>4. HeldAreProcessing' /\ OneWorkerPerJob'
  BY <1>2, <1>3 DEF IInv, HeldAreProcessing, OneWorkerPerJob
<1>5. WorkHasRows'
  BY DEF IInv, TypeOK, WorkHasRows, workVars
<1>6. StatusHasRow'
  BY DEF IInv, StatusHasRow
<1>7. CompletedAdvances'
  BY NextJob DEF IInv, CompletedAdvances, workVars
<1> QED BY <1>1, <1>4, <1>5, <1>6, <1>7 DEF IInv

\* Start, its first two statements, Stop and its end.
LEMMA ManagerKeeps ==
  ASSUME IInv, Start \/ StartRelease \/ StartReset \/ Stop \/ StopDone PROVE IInv'
<1>0. TypeOK /\ AttemptsDecide /\ IdleHoldNothing
  BY DEF IInv
<1>1. CASE Start \/ Stop \/ StopDone
  <2>1. UNCHANGED <<rowVars, stat, workVars>>
    BY <1>1 DEF Start, Stop, StopDone
  <2>2. TypeOK' /\ AttemptsDecide'
    BY <1>0, <1>1, <2>1 DEF Start, Stop, StopDone, TypeOK, AttemptsDecide, rowVars, workVars
  <2>3. manager' \notin {"running", "stopping"} => \A w \in Workers : pc[w] = "off"
    BY <1>0, <1>1 DEF Start, Stop, StopDone, IdleHoldNothing
  <2>4. manager' # "running"
    BY <1>1 DEF Start, Stop, StopDone
  <2> QED BY <2>1, <2>2, <2>3, <2>4, BesideStep DEF rowVars
<1>2. CASE StartRelease
  <2>1. TypeOK'
    BY <1>0, <1>2 DEF StartRelease, TypeOK, workVars
  <2>2. AttemptsDecide'
    BY <1>0, <1>2 DEF StartRelease, AttemptsDecide, TypeOK
  <2>3. \A w \in Workers : pc[w] = "off"
    BY <1>0, <1>2 DEF StartRelease, IdleHoldNothing
  <2>4. \A j \in Jobs : queue'[j] = "none" => queue[j] = "none"
    BY <1>2 DEF StartRelease
  <2>5. manager' = "reset" /\ UNCHANGED <<stat, workVars>>
    BY <1>2 DEF StartRelease
  <2> QED BY <2>1, <2>2, <2>3, <2>4, <2>5, BesideStep
<1>3. CASE StartReset
  <2>1. TypeOK'
    BY <1>0, <1>3 DEF StartReset, TypeOK, rowVars, workVars
  <2>2. AttemptsDecide'
    BY <1>0, <1>3 DEF StartReset, AttemptsDecide, rowVars
  <2>3. \A w \in Workers : pc[w] = "off"
    BY <1>0, <1>3 DEF StartReset, IdleHoldNothing
  <2>4. \A j \in Jobs : stat'[j] # "none" => stat[j] # "none"
    BY <1>3 DEF StartReset
  <2>5. manager' = "orphans" /\ queue' = queue /\ UNCHANGED workVars
    BY <1>3 DEF StartReset, rowVars
  <2> QED BY <2>1, <2>2, <2>3, <2>4, <2>5, BesideStep
<1> QED BY <1>1, <1>2, <1>3

\* Scans and clients that enqueue, and time.
LEMMA ClientKeeps ==
  ASSUME IInv, \/ \E m \in Media : EnqueueFirst(m)
               \/ \E j \in Jobs : RetryFailed(j) \/ LockAges(j) \/ BackoffPasses(j)
  PROVE  IInv'
<1>0. TypeOK /\ AttemptsDecide /\ IdleHoldNothing
  BY DEF IInv
<1>1. ASSUME NEW m \in Media, EnqueueFirst(m) PROVE IInv'
  <2>1. Enqueue({<<m, 1>>}) /\ UNCHANGED <<stat, manager, workVars>>
    BY <1>1 DEF EnqueueFirst
  <2>2. /\ queue' \in [Jobs -> {"none", "pending", "processing"} \cup Terminal]
        /\ attempts' \in [Jobs -> 0..MaxAttempts]
        /\ category' \in [Jobs -> {"none"} \cup {"connection", "retryable", "permanent"}]
        /\ UNCHANGED <<backoff, aged>>
        /\ \A j \in Jobs : \/ queue'[j] = queue[j] /\ attempts'[j] = attempts[j]
                           \/ /\ queue[j] \in {"none"} \cup Terminal
                              /\ queue'[j] = "pending" /\ attempts'[j] = 0
    BY <1>0, <2>1, EnqueueEffect
  <2>3. TypeOK'
    BY <1>0, <2>1, <2>2 DEF TypeOK, workVars
  <2>4. AttemptsDecide'
    BY <1>0, <2>2, FreshDecide
  <2>5. \A j \in Jobs : queue[j] = "processing" => queue'[j] = "processing"
    BY <2>2 DEF Terminal
  <2>6. \A j \in Jobs : queue'[j] = "none" => queue[j] = "none"
    BY <2>2
  <2>7. manager' \notin {"running", "stopping"} => \A w \in Workers : pc[w] = "off"
    BY <1>0, <2>1 DEF IdleHoldNothing
  <2> QED BY <2>1, <2>3, <2>4, <2>5, <2>6, <2>7, BesideStep
<1>2. ASSUME NEW i \in Jobs, RetryFailed(i) \/ LockAges(i) \/ BackoffPasses(i) PROVE IInv'
  <2>1. UNCHANGED <<stat, manager, workVars>>
    BY <1>2 DEF RetryFailed, LockAges, BackoffPasses
  <2>2. TypeOK'
    <3>1. CASE RetryFailed(i)
      <4>0. /\ queue' = [queue EXCEPT ![i] = "pending"]
            /\ attempts' = [attempts EXCEPT ![i] = 0]
        BY <3>1 DEF RetryFailed
      <4>1. /\ queue' \in [Jobs -> {"none", "pending", "processing"} \cup Terminal]
            /\ attempts' \in [Jobs -> 0..MaxAttempts]
        <5>1. /\ queue \in [Jobs -> {"none", "pending", "processing"} \cup Terminal]
              /\ attempts \in [Jobs -> 0..MaxAttempts]
          BY <1>0 DEF TypeOK
        <5>2. "pending" \in {"none", "pending", "processing"} \cup Terminal
          OBVIOUS
        <5>3. 0 \in 0..MaxAttempts
          BY EnrichAssumption
        <5>4. queue' \in [Jobs -> {"none", "pending", "processing"} \cup Terminal]
          BY <4>0, <5>1, <5>2
        <5>5. attempts' \in [Jobs -> 0..MaxAttempts]
          BY <4>0, <5>1, <5>3
        <5> QED BY <5>4, <5>5
      <4>2. /\ category' \in [Jobs -> {"none"} \cup {"connection", "retryable", "permanent"}]
            /\ backoff' \in [Jobs -> BOOLEAN] /\ aged' = aged
        BY <1>0, <3>1 DEF RetryFailed, TypeOK
      <4> QED BY <1>0, <2>1, <4>1, <4>2 DEF TypeOK, workVars
    <3>2. CASE LockAges(i)
      BY <1>0, <2>1, <3>2 DEF LockAges, TypeOK, workVars
    <3>3. CASE BackoffPasses(i)
      BY <1>0, <2>1, <3>3 DEF BackoffPasses, TypeOK, workVars
    <3> QED BY <1>2, <3>1, <3>2, <3>3
  <2>3. \A j \in Jobs : \/ queue'[j] = queue[j] /\ attempts'[j] = attempts[j]
                        \/ /\ queue[j] = "failed"
                           /\ queue'[j] = "pending" /\ attempts'[j] = 0
    BY <1>0, <1>2 DEF RetryFailed, LockAges, BackoffPasses, TypeOK
  <2>4. AttemptsDecide'
    BY <1>0, <2>3, FreshDecide
  <2>5. \A j \in Jobs : queue[j] = "processing" => queue'[j] = "processing"
    BY <2>3
  <2>6. \A j \in Jobs : queue'[j] = "none" => queue[j] = "none"
    BY <2>3
  <2>7. manager' \notin {"running", "stopping"} => \A w \in Workers : pc[w] = "off"
    BY <1>0, <2>1 DEF IdleHoldNothing
  <2> QED BY <2>1, <2>2, <2>4, <2>5, <2>6, <2>7, BesideStep
<1> QED BY <1>1, <1>2

\* A crash leaves the tables, and no worker.
LEMMA CrashKeeps == ASSUME IInv, Crash PROVE IInv'
<1>0. TypeOK /\ IdleHoldNothing
  BY DEF IInv
<1>1. /\ manager' = "down" /\ pc' = [w \in Workers |-> "off"]
      /\ batch' = [w \in Workers |-> {}] /\ cur' = [w \in Workers |-> {}]
      /\ result' = [w \in Workers |-> "none"]
      /\ UNCHANGED <<queue, attempts, category, backoff, aged, stat>>
  BY DEF Crash, rowVars
<1>2. Cardinality({}) = 0
  BY FS_EmptySet
<1>3. TypeOK'
  BY <1>0, <1>1, <1>2, EnrichAssumption DEF TypeOK
<1>4. IdleHoldNothing' /\ ResultsFit' /\ HeldAreProcessing' /\ WorkHasRows' /\ OneWorkerPerJob'
  BY <1>1 DEF IdleHoldNothing, ResultsFit, HeldAreProcessing, WorkHasRows, OneWorkerPerJob, Holds
<1>5. StatusHasRow' /\ AttemptsDecide' /\ CompletedAdvances'
  BY <1>1 DEF IInv, StatusHasRow, AttemptsDecide, CompletedAdvances
<1> QED BY <1>3, <1>4, <1>5 DEF IInv

\* When the workers start, every completed stage has its next row: it had one,
\* or recovery found the orphan.
LEMMA StartWorkersKeeps == ASSUME IInv, StartWorkers PROVE IInv'
<1>0. TypeOK /\ IdleHoldNothing /\ AttemptsDecide /\ StatusHasRow
  BY DEF IInv
<1>1. /\ manager' = "running" /\ pc' = [w \in Workers |-> "claim"]
      /\ Enqueue(Orphans) /\ UNCHANGED <<stat, batch, cur, result>>
  BY DEF StartWorkers
<1>2. /\ queue' \in [Jobs -> {"none", "pending", "processing"} \cup Terminal]
      /\ attempts' \in [Jobs -> 0..MaxAttempts]
      /\ category' \in [Jobs -> {"none"} \cup {"connection", "retryable", "permanent"}]
      /\ UNCHANGED <<backoff, aged>>
      /\ \A j \in Jobs : \/ queue'[j] = queue[j] /\ attempts'[j] = attempts[j]
                         \/ /\ queue[j] \in {"none"} \cup Terminal
                            /\ queue'[j] = "pending" /\ attempts'[j] = 0
      /\ \A j \in Jobs : j \in Orphans => queue'[j] # "none"
  BY <1>0, <1>1, EnqueueEffect
<1>3. \A w \in Workers : batch[w] = {} /\ cur[w] = {}
  BY <1>0 DEF StartWorkers, IdleHoldNothing
<1>4. TypeOK'
  BY <1>0, <1>1, <1>2 DEF TypeOK
<1>5. AttemptsDecide'
  BY <1>0, <1>2, FreshDecide
<1>6. IdleHoldNothing' /\ ResultsFit' /\ HeldAreProcessing' /\ WorkHasRows' /\ OneWorkerPerJob'
  BY <1>1, <1>3 DEF IdleHoldNothing, ResultsFit, HeldAreProcessing, WorkHasRows, OneWorkerPerJob,
                    Holds
<1>7. StatusHasRow'
  BY <1>0, <1>1, <1>2 DEF StatusHasRow
<1>8. CompletedAdvances'
  <2> SUFFICES ASSUME NEW j \in Jobs, stat[j] = "completed", j[2] < LastStage
               PROVE  queue'[<<j[1], j[2] + 1>>] # "none"
    BY <1>1 DEF CompletedAdvances
  <2> DEFINE n == <<j[1], j[2] + 1>>
  <2>1. n \in Jobs
    BY NextJob
  <2>2. CASE queue[n] # "none"
    BY <1>2, <2>1, <2>2
  <2>3. CASE queue[n] = "none"
    <3>1. stat[n] = "none"
      BY <1>0, <2>1, <2>3 DEF StatusHasRow
    <3>2. n \in Orphans
      BY <2>3, <3>1 DEF Orphans
    <3> QED BY <1>2, <2>1, <3>2
  <2> QED BY <2>2, <2>3
<1> QED BY <1>4, <1>5, <1>6, <1>7, <1>8 DEF IInv

-----------------------------------------------------------------------------
(***************************************************************************)
(* Steps of workers.                                                       *)
(***************************************************************************)

\* A step of worker v that claims nothing keeps the invariant when the rows of
\* the jobs it goes on holding stay claimed and those of others are not touched.
LEMMA WorkStep ==
  ASSUME IInv, NEW v \in Workers, TypeOK', AttemptsDecide', manager' = manager, pc[v] # "off",
         \A w \in Workers \ {v} : /\ pc'[w] = pc[w] /\ batch'[w] = batch[w]
                                  /\ cur'[w] = cur[w] /\ result'[w] = result[w],
         manager = "running" \/ manager = "stopping",
         pc'[v] \in {"off", "claim"} => batch'[v] = {},
         pc'[v] \in {"off", "claim", "next"} => cur'[v] = {},
         pc'[v] = "fail" => result'[v] \in {"retryable", "permanent"},
         pc'[v] \in {"complete", "mark"} => result'[v] \in {"completed", "skipped"},
         batch'[v] \subseteq batch[v],
         cur'[v] \subseteq cur[v] \/ cur'[v] \subseteq batch[v] \ batch'[v],
         Holds(v)' \subseteq Holds(v),
         \A j \in Jobs : queue[j] = "processing" =>
            queue'[j] = "processing" \/ (j \in Holds(v) /\ j \notin Holds(v)'),
         \A j \in Jobs : queue'[j] = "none" => queue[j] = "none",
         \A j \in Jobs : stat'[j] # "none" => stat[j] # "none" \/ j \in batch[v] \cup cur[v],
         \A j \in Jobs : stat'[j] = "completed" =>
            stat[j] = "completed" \/ (pc'[v] = "advance" /\ j \in cur'[v]),
         (manager = "running" /\ pc[v] = "advance") =>
            \A j \in cur[v] : j[2] < LastStage => queue'[<<j[1], j[2] + 1>>] # "none"
  PROVE  IInv'
<1>0. TypeOK /\ IdleHoldNothing /\ ResultsFit /\ HeldAreProcessing /\ WorkHasRows
      /\ StatusHasRow /\ OneWorkerPerJob /\ CompletedAdvances
  BY DEF IInv
<1>1. IdleHoldNothing' /\ ResultsFit'
  BY <1>0 DEF IdleHoldNothing, ResultsFit
<1>2. \A w \in Workers \ {v} : Holds(w)' = Holds(w)
  BY DEF Holds
<1>3. \A w \in Workers : Holds(w) \subseteq Jobs
  BY <1>0 DEF TypeOK, Holds
<1>4. \A w \in Workers : Holds(w)' \subseteq Holds(w)
  BY <1>2
<1>5. OneWorkerPerJob'
  BY <1>0, <1>4 DEF OneWorkerPerJob
<1>6. HeldAreProcessing'
  <2> SUFFICES ASSUME NEW w \in Workers, NEW j \in Holds(w)' PROVE queue'[j] = "processing"
    BY DEF HeldAreProcessing
  <2>1. j \in Holds(w) /\ j \in Jobs /\ queue[j] = "processing"
    BY <1>0, <1>3, <1>4 DEF HeldAreProcessing
  <2>2. w # v => j \notin Holds(v)
    BY <1>0, <2>1 DEF OneWorkerPerJob
  <2> QED BY <2>1, <2>2
<1>7. WorkHasRows'
  <2>1. \A w \in Workers : batch'[w] \cup cur'[w] \subseteq batch[w] \cup cur[w]
    OBVIOUS
  <2>2. \A w \in Workers : batch[w] \cup cur[w] \subseteq Jobs
    BY <1>0 DEF TypeOK
  <2>3. \A w \in Workers : batch'[w] \cap cur'[w] = {}
    BY <1>0 DEF WorkHasRows
  <2> QED BY <1>0, <2>1, <2>2, <2>3 DEF WorkHasRows
<1>8. StatusHasRow'
  BY <1>0 DEF StatusHasRow, WorkHasRows
<1>9. CompletedAdvances'
  <2> SUFFICES ASSUME manager = "running", NEW j \in Jobs, stat'[j] = "completed", j[2] < LastStage
               PROVE  \/ queue'[<<j[1], j[2] + 1>>] # "none"
                      \/ \E w \in Workers : pc'[w] = "advance" /\ j \in cur'[w]
    BY DEF CompletedAdvances
  <2>1. CASE stat[j] = "completed"
    <3>1. <<j[1], j[2] + 1>> \in Jobs
      BY NextJob
    <3>2. CASE queue[<<j[1], j[2] + 1>>] # "none"
      BY <3>1, <3>2
    <3>3. CASE \E w \in Workers : pc[w] = "advance" /\ j \in cur[w]
      BY <3>3
    <3> QED BY <1>0, <2>1, <3>2, <3>3 DEF CompletedAdvances
  <2> QED BY <2>1
<1> QED BY <1>1, <1>5, <1>6, <1>7, <1>8, <1>9 DEF IInv

\* Only a worker that runs takes a step.
LEMMA RunningManager ==
  ASSUME IInv, NEW v \in Workers, pc[v] # "off"
  PROVE  manager = "running" \/ manager = "stopping"
  BY DEF IInv, IdleHoldNothing

\* ClaimEnrichmentJobs claims what nobody holds.
LEMMA ClaimKeeps == ASSUME IInv, NEW v \in Workers, Claim(v) PROVE IInv'
<1>0. TypeOK /\ IdleHoldNothing /\ ResultsFit /\ HeldAreProcessing /\ WorkHasRows
      /\ StatusHasRow /\ OneWorkerPerJob /\ AttemptsDecide /\ CompletedAdvances
  BY DEF IInv
<1>1. PICK js \in SUBSET Pending(StageOf[v]) :
        /\ Cardinality(js) <= BatchSize
        /\ queue' = [j \in Jobs |-> IF j \in js THEN "processing" ELSE queue[j]]
        /\ aged' = [j \in Jobs |-> j \notin js /\ aged[j]]
        /\ batch' = [batch EXCEPT ![v] = js]
  BY DEF Claim
<1>2. /\ pc[v] = "claim" /\ pc' = [pc EXCEPT ![v] = "next"]
      /\ UNCHANGED <<attempts, category, backoff, stat, manager, cur, result>>
  BY DEF Claim
<1>3. js \in SUBSET Jobs /\ \A j \in js : queue[j] = "pending"
  BY DEF Pending
<1>4. /\ pc'[v] = "next" /\ batch'[v] = js /\ cur'[v] = {}
      /\ \A w \in Workers \ {v} : pc'[w] = pc[w] /\ batch'[w] = batch[w]
  BY <1>0, <1>1, <1>2 DEF TypeOK, IdleHoldNothing
<1>5. /\ queue' \in [Jobs -> {"none", "pending", "processing"} \cup Terminal]
      /\ \A j \in Jobs : queue'[j] = IF j \in js THEN "processing" ELSE queue[j]
  BY <1>0, <1>1 DEF TypeOK
<1>6. TypeOK'
  <2>1. aged' \in [Jobs -> BOOLEAN]
    BY <1>0, <1>1 DEF TypeOK
  <2>2. /\ batch' \in [Workers -> SUBSET Jobs]
        /\ pc' \in [Workers -> {"off", "claim", "next", "enrich", "requeue", "fail", "markFail",
                                "complete", "mark", "advance"}]
    BY <1>0, <1>1, <1>2, <1>3 DEF TypeOK
  <2>3. \A w \in Workers : Cardinality(batch'[w]) <= BatchSize /\ Cardinality(cur'[w]) <= 1
    BY <1>0, <1>1, <1>2, <1>4 DEF TypeOK
  <2> QED BY <1>0, <1>2, <1>5, <2>1, <2>2, <2>3 DEF TypeOK
<1>7. IdleHoldNothing' /\ ResultsFit'
  BY <1>0, <1>2, <1>4 DEF IdleHoldNothing, ResultsFit
<1>8. /\ Holds(v)' = js
      /\ \A w \in Workers \ {v} : Holds(w)' = Holds(w)
      /\ \A w \in Workers : Holds(w) \subseteq Jobs
  BY <1>0, <1>2, <1>4 DEF Holds, TypeOK
<1>9. \A w \in Workers : Holds(w) \cap js = {}
  BY <1>0, <1>3 DEF HeldAreProcessing
<1>10. OneWorkerPerJob'
  BY <1>0, <1>8, <1>9 DEF OneWorkerPerJob
<1>11. HeldAreProcessing'
  BY <1>0, <1>3, <1>5, <1>8 DEF HeldAreProcessing
<1>12. WorkHasRows'
  <2>1. \A w \in Workers : batch[w] \subseteq Jobs /\ cur[w] \subseteq Jobs
    BY <1>0 DEF TypeOK
  <2>2. \A j \in Jobs : queue'[j] = "none" => queue[j] = "none"
    BY <1>5
  <2>3. \A j \in js : queue'[j] # "none"
    BY <1>3, <1>5
  <2> QED BY <1>0, <1>2, <1>4, <2>1, <2>2, <2>3 DEF WorkHasRows
<1>13. StatusHasRow' /\ AttemptsDecide'
  BY <1>0, <1>2, <1>3, <1>5 DEF StatusHasRow, AttemptsDecide
<1>14. CompletedAdvances'
  <2> SUFFICES ASSUME manager = "running", NEW j \in Jobs, stat[j] = "completed", j[2] < LastStage
               PROVE  \/ queue'[<<j[1], j[2] + 1>>] # "none"
                      \/ \E w \in Workers : pc'[w] = "advance" /\ j \in cur[w]
    BY <1>2 DEF CompletedAdvances
  <2>1. <<j[1], j[2] + 1>> \in Jobs
    BY NextJob
  <2>2. CASE queue[<<j[1], j[2] + 1>>] # "none"
    BY <1>5, <2>1, <2>2
  <2>3. CASE \E w \in Workers : pc[w] = "advance" /\ j \in cur[w]
    BY <1>2, <1>4, <2>3
  <2> QED BY <1>0, <2>2, <2>3 DEF CompletedAdvances
<1> QED BY <1>6, <1>7, <1>10, <1>11, <1>12, <1>13, <1>14 DEF IInv

\* The steps between the statements: the ends of a batch and of a worker, and
\* the answer of the enricher.
LEMMA BetweenKeeps ==
  ASSUME IInv, NEW v \in Workers, BatchDone(v) \/ Quit(v) \/ Enrich(v) PROVE IInv'
<1>0. TypeOK /\ IdleHoldNothing /\ AttemptsDecide
  BY DEF IInv
<1>1. UNCHANGED <<queue, attempts, category, backoff, aged, stat, manager, cur>>
  BY DEF BatchDone, Quit, Enrich, rowVars
<1>2. pc[v] # "off"
  BY DEF BatchDone, Quit, Enrich
<1>3. manager = "running" \/ manager = "stopping"
  BY <1>2, RunningManager
<1>4. AttemptsDecide'
  BY <1>0, <1>1 DEF AttemptsDecide
<1>5. CASE BatchDone(v)
  <2>1. pc[v] = "next" /\ pc' = [pc EXCEPT ![v] = "claim"] /\ batch[v] = {}
        /\ UNCHANGED <<batch, result>>
    BY <1>5 DEF BatchDone
  <2>2. pc'[v] = "claim" /\ cur[v] = {} /\ \A w \in Workers \ {v} : pc'[w] = pc[w]
    BY <1>0, <2>1 DEF TypeOK, IdleHoldNothing
  <2>3. TypeOK'
    BY <1>0, <1>1, <2>1 DEF TypeOK
  <2>4. Holds(v)' \subseteq Holds(v)
    BY <1>1, <2>1, <2>2 DEF Holds
  <2> QED BY <1>1, <1>2, <1>3, <1>4, <2>1, <2>2, <2>3, <2>4, WorkStep
<1>6. CASE Quit(v)
  <2>1. pc[v] \in {"claim", "next"} /\ pc' = [pc EXCEPT ![v] = "off"]
        /\ batch' = [batch EXCEPT ![v] = {}] /\ result' = result /\ manager # "running"
    BY <1>3, <1>6 DEF Quit, CtxOK
  <2>2. pc'[v] = "off" /\ cur[v] = {} /\ batch'[v] = {}
        /\ \A w \in Workers \ {v} : pc'[w] = pc[w] /\ batch'[w] = batch[w]
    BY <1>0, <2>1 DEF TypeOK, IdleHoldNothing
  <2>3. TypeOK'
    <3>1. \A w \in Workers : Cardinality(batch'[w]) <= BatchSize
      <4>1. Cardinality(batch'[v]) = 0 /\ BatchSize \in Nat
        BY <2>2, FS_EmptySet, EnrichAssumption
      <4>2. \A w \in Workers \ {v} : Cardinality(batch'[w]) <= BatchSize
        BY <1>0, <2>2 DEF TypeOK
      <4> QED BY <4>1, <4>2
    <3> QED BY <1>0, <1>1, <2>1, <3>1 DEF TypeOK
  <2>4. Holds(v)' = {}
    BY <2>2 DEF Holds
  <2>5. \A j \in Jobs : queue[j] = "processing" => queue'[j] = "processing"
    BY <1>1
  <2> QED BY <1>1, <1>2, <1>3, <1>4, <2>1, <2>2, <2>3, <2>4, <2>5, WorkStep
<1>7. CASE Enrich(v)
  <2>1. PICK r \in {"completed", "skipped"} \cup Errors \cup {"connection"} :
          /\ result' = [result EXCEPT ![v] = r]
          /\ pc' = [pc EXCEPT ![v] = CASE r \in {"completed", "skipped"} -> "complete"
                                       [] r = "connection" -> "requeue"
                                       [] OTHER -> "fail"]
    BY <1>7 DEF Enrich
  <2>2. r \in {"completed", "skipped", "connection", "retryable", "permanent"}
    BY EnrichAssumption
  <2>3. PICK p \in {"complete", "requeue", "fail"} :
          /\ pc' = [pc EXCEPT ![v] = p]
          /\ p = "fail" => r \in {"retryable", "permanent"}
          /\ p = "complete" => r \in {"completed", "skipped"}
    BY <2>1, <2>2
  <2>4. pc[v] = "enrich" /\ batch' = batch
    BY <1>7 DEF Enrich
  <2>5. pc'[v] = p /\ result'[v] = r
        /\ \A w \in Workers \ {v} : pc'[w] = pc[w] /\ result'[w] = result[w]
    BY <1>0, <2>1, <2>3 DEF TypeOK
  <2>6. TypeOK'
    BY <1>0, <1>1, <2>1, <2>2, <2>3, <2>4 DEF TypeOK
  <2>7. Holds(v)' = Holds(v)
    BY <1>1, <2>4, <2>5 DEF Holds
  <2> QED BY <1>1, <1>2, <1>3, <1>4, <2>3, <2>4, <2>5, <2>6, <2>7, WorkStep
<1> QED BY <1>5, <1>6, <1>7

\* ProcessWithExternalIDs takes a job of the batch into its hands.
LEMMA BeginKeeps == ASSUME IInv, NEW v \in Workers, Begin(v) PROVE IInv'
<1>0. TypeOK /\ IdleHoldNothing /\ AttemptsDecide
  BY DEF IInv
<1>1. PICK i \in batch[v] : /\ batch' = [batch EXCEPT ![v] = @ \ {i}]
                            /\ cur' = [cur EXCEPT ![v] = {i}]
                            /\ stat' = [stat EXCEPT ![i] = "processing"]
  BY DEF Begin
<1>2. /\ pc[v] = "next" /\ pc' = [pc EXCEPT ![v] = "enrich"]
      /\ UNCHANGED <<queue, attempts, category, backoff, aged, manager, result>>
  BY DEF Begin, rowVars
<1>3. manager = "running" \/ manager = "stopping"
  BY <1>2, RunningManager
<1>4. batch[v] \subseteq Jobs /\ i \in Jobs
  BY <1>0 DEF TypeOK
<1>5. /\ pc'[v] = "enrich" /\ batch'[v] = batch[v] \ {i} /\ cur'[v] = {i}
      /\ \A w \in Workers \ {v} : pc'[w] = pc[w] /\ batch'[w] = batch[w] /\ cur'[w] = cur[w]
  BY <1>0, <1>1, <1>2 DEF TypeOK
<1>6. \A j \in Jobs : stat'[j] = IF j = i THEN "processing" ELSE stat[j]
  BY <1>0, <1>1 DEF TypeOK
<1>7. TypeOK'
  <2>1. /\ batch' \in [Workers -> SUBSET Jobs] /\ cur' \in [Workers -> SUBSET Jobs]
        /\ stat' \in [Jobs -> {"none", "pending", "processing"} \cup Terminal]
    BY <1>0, <1>1, <1>4 DEF TypeOK
  <2>2. Cardinality(batch[v] \ {i}) <= Cardinality(batch[v])
        /\ Cardinality(batch[v] \ {i}) \in Nat /\ Cardinality(batch[v]) \in Nat
    BY <1>4, FiniteJobs, FS_Subset
  <2>3. Cardinality({i}) = 1
    BY FS_Singleton
  <2>4. \A w \in Workers : Cardinality(batch'[w]) <= BatchSize /\ Cardinality(cur'[w]) <= 1
    <3>1. \A w \in Workers \ {v} : Cardinality(batch'[w]) <= BatchSize /\ Cardinality(cur'[w]) <= 1
      BY <1>0, <1>5 DEF TypeOK
    <3>2. Cardinality(batch[v]) <= BatchSize /\ BatchSize \in Nat
      BY <1>0, EnrichAssumption DEF TypeOK
    <3>3. Cardinality(batch'[v]) <= BatchSize
      BY <1>5, <2>2, <3>2
    <3>4. Cardinality(cur'[v]) <= 1
      BY <1>5, <2>3
    <3> QED BY <3>1, <3>3, <3>4
  <2>5. pc' \in [Workers -> {"off", "claim", "next", "enrich", "requeue", "fail", "markFail",
                             "complete", "mark", "advance"}]
    BY <1>0, <1>2 DEF TypeOK
  <2> QED BY <1>0, <1>2, <2>1, <2>4, <2>5 DEF TypeOK
<1>8. AttemptsDecide'
  BY <1>0, <1>2 DEF AttemptsDecide
<1>9. Holds(v)' \subseteq Holds(v)
  BY <1>2, <1>5 DEF Holds
<1>10. \A j \in Jobs : queue[j] = "processing" => queue'[j] = "processing"
  BY <1>2
<1>11. /\ \A j \in Jobs : stat'[j] # "none" => stat[j] # "none" \/ j \in batch[v] \cup cur[v]
       /\ \A j \in Jobs : stat'[j] = "completed" => stat[j] = "completed"
  BY <1>6
<1> QED BY <1>2, <1>3, <1>5, <1>7, <1>8, <1>9, <1>10, <1>11, WorkStep

\* The statement that gives back or completes the row of a job: Requeue, Fail
\* and Complete, in a running or a cancelled context.
LEMMA OutcomeKeeps ==
  ASSUME IInv, NEW v \in Workers, Requeue(v) \/ Fail(v) \/ Complete(v) PROVE IInv'
<1> DEFINE js == IF CtxOK THEN cur[v] ELSE {}
<1>0. TypeOK /\ IdleHoldNothing /\ ResultsFit /\ HeldAreProcessing /\ AttemptsDecide
  BY DEF IInv
<1>1. pc[v] \in {"requeue", "fail", "complete"} /\ UNCHANGED <<stat, manager, batch>>
  BY DEF Requeue, Fail, Complete
<1>2. manager = "running" \/ manager = "stopping"
  BY <1>1, RunningManager
<1>3. cur[v] \subseteq Jobs /\ cur[v] \subseteq Holds(v) /\ js \subseteq cur[v]
  BY <1>0, <1>1 DEF TypeOK, Holds
<1>4. \A j \in js : queue[j] = "processing"
  BY <1>0, <1>3 DEF HeldAreProcessing
<1>5. /\ pc' = [pc EXCEPT ![v] = CASE pc[v] = "requeue" -> "next"
                                  [] pc[v] = "fail" -> "markFail"
                                  [] OTHER -> "mark"]
      /\ aged' = [j \in Jobs |-> j \notin js /\ aged[j]]
  BY <1>1 DEF Requeue, Fail, Complete, After
<1>6. PICK p \in {"next", "markFail", "mark"} :
        /\ pc' = [pc EXCEPT ![v] = p]
        /\ p = "next" <=> pc[v] = "requeue"
        /\ p = "mark" <=> pc[v] = "complete"
  BY <1>1, <1>5
<1>7. pc'[v] = p /\ \A w \in Workers \ {v} : pc'[w] = pc[w]
  BY <1>0, <1>6 DEF TypeOK
<1>8. /\ \/ pc[v] = "requeue" /\ cur' = [cur EXCEPT ![v] = {}]
                              /\ result' = [result EXCEPT ![v] = "none"]
         \/ pc[v] # "requeue" /\ UNCHANGED <<cur, result>>
  BY <1>1 DEF Requeue, Fail, Complete, Drop
<1>9. /\ \A w \in Workers \ {v} : cur'[w] = cur[w] /\ result'[w] = result[w]
      /\ pc[v] = "requeue" => cur'[v] = {}
      /\ pc[v] # "requeue" => cur'[v] = cur[v] /\ result'[v] = result[v]
  BY <1>0, <1>8 DEF TypeOK
<1>10. \A j \in Jobs : j \notin js => queue'[j] = queue[j] /\ attempts'[j] = attempts[j]
  BY <1>0, <1>1 DEF Requeue, Fail, Complete, TypeOK
<1>11. \A j \in js : \/ queue'[j] \in {"pending", "completed"} /\ attempts'[j] = attempts[j]
                     \/ /\ attempts'[j] = attempts[j] + 1
                        /\ queue'[j] = IF attempts[j] + 1 >= MaxAttempts THEN "failed" ELSE "pending"
  BY <1>1, <1>3 DEF Requeue, Fail, Complete
<1>12. \A j \in js : attempts[j] # MaxAttempts /\ attempts[j] \in 0..MaxAttempts
  BY <1>0, <1>3, <1>4 DEF AttemptsDecide, TypeOK
<1>13. TypeOK'
  <2>1. \A j \in Jobs : queue'[j] \in {"none", "pending", "processing"} \cup Terminal
    BY <1>0, <1>10, <1>11 DEF TypeOK, Terminal
  <2>2. \A j \in Jobs : attempts'[j] \in 0..MaxAttempts
    BY <1>0, <1>10, <1>11, <1>12, EnrichAssumption DEF TypeOK
  <2>3. queue' = [j \in Jobs |-> queue'[j]] /\ attempts' = [j \in Jobs |-> attempts'[j]]
    BY <1>0, <1>1 DEF Requeue, Fail, Complete, TypeOK
  <2>4. aged' \in [Jobs -> BOOLEAN]
    BY <1>0, <1>5 DEF TypeOK
  <2>5. /\ category' \in [Jobs -> {"none"} \cup {"connection", "retryable", "permanent"}]
        /\ backoff' \in [Jobs -> BOOLEAN]
    <3>1. CASE Requeue(v)
      BY <1>0, <3>1 DEF Requeue, TypeOK
    <3>2. CASE Fail(v)
      <4>1. result[v] \in {"retryable", "permanent"}
        BY <1>0, <3>2 DEF Fail, ResultsFit
      <4>2. category' = [j \in Jobs |-> IF j \in js THEN result[v] ELSE category[j]]
        BY <3>2 DEF Fail
      <4>3. backoff' = [j \in Jobs |-> IF j \in js
                                       THEN result[v] = "retryable" /\ attempts[j] < MaxAttempts
                                       ELSE backoff[j]]
        BY <3>2 DEF Fail
      <4>4. \A j \in Jobs : (result[v] = "retryable" /\ attempts[j] < MaxAttempts) \in BOOLEAN
        OBVIOUS
      <4>5. backoff' \in [Jobs -> BOOLEAN]
        BY <1>0, <4>3, <4>4, Zenon DEF TypeOK
      <4>6. category' \in [Jobs -> {"none"} \cup {"connection", "retryable", "permanent"}]
        BY <1>0, <4>1, <4>2 DEF TypeOK
      <4> QED BY <4>5, <4>6
    <3>3. CASE Complete(v)
      BY <1>0, <3>3 DEF Complete, TypeOK
    <3> QED BY <3>1, <3>2, <3>3
  <2>6. pc' \in [Workers -> {"off", "claim", "next", "enrich", "requeue", "fail", "markFail",
                             "complete", "mark", "advance"}]
    BY <1>0, <1>6 DEF TypeOK
  <2>7. /\ cur' \in [Workers -> SUBSET Jobs]
        /\ result' \in [Workers -> {"none", "completed", "skipped"} \cup
                                   {"connection", "retryable", "permanent"}]
    BY <1>0, <1>8 DEF TypeOK
  <2>8. \A w \in Workers : Cardinality(cur'[w]) <= 1
    <3>1. \A w \in Workers : cur'[w] = cur[w] \/ Cardinality(cur'[w]) = 0
      BY <1>9, FS_EmptySet
    <3> QED BY <1>0, <3>1 DEF TypeOK
  <2>9. queue' \in [Jobs -> {"none", "pending", "processing"} \cup Terminal]
        /\ attempts' \in [Jobs -> 0..MaxAttempts]
    BY <2>1, <2>2, <2>3
  <2> QED BY <1>0, <1>1, <2>4, <2>5, <2>6, <2>7, <2>8, <2>9 DEF TypeOK
<1>14. AttemptsDecide'
  BY <1>0, <1>10, <1>11, <1>12, EnrichAssumption DEF AttemptsDecide
<1>15. /\ Holds(v)' \subseteq Holds(v)
       /\ Holds(v)' = batch[v]
  BY <1>1, <1>7 DEF Holds
<1>16. batch[v] \cap cur[v] = {}
  BY DEF IInv, WorkHasRows
<1>17. \A j \in Jobs : queue[j] = "processing" =>
         queue'[j] = "processing" \/ (j \in Holds(v) /\ j \notin Holds(v)')
  BY <1>3, <1>10, <1>15, <1>16
<1>18. \A j \in Jobs : queue'[j] = "none" => queue[j] = "none"
  BY <1>10, <1>11
<1>19. pc'[v] = "mark" => result'[v] \in {"completed", "skipped"}
  BY <1>0, <1>6, <1>7, <1>9 DEF ResultsFit
<1>20. pc'[v] = "next" => cur'[v] = {}
  BY <1>6, <1>7, <1>9
<1> HIDE DEF js
<1> QED
  BY <1>1, <1>2, <1>6, <1>7, <1>9, <1>13, <1>14, <1>15, <1>17, <1>18, <1>19, <1>20, WorkStep

\* MarkComplete, MarkSkipped and MarkFailed write the status of the job at hand.
LEMMA MarkKeeps == ASSUME IInv, NEW v \in Workers, Mark(v) \/ MarkFail(v) PROVE IInv'
<1>0. TypeOK /\ ResultsFit /\ AttemptsDecide
  BY DEF IInv
<1>1. /\ pc[v] \in {"mark", "markFail"}
      /\ UNCHANGED <<queue, attempts, category, backoff, aged, manager, batch>>
  BY DEF Mark, MarkFail, rowVars
<1>2. manager = "running" \/ manager = "stopping"
  BY <1>1, RunningManager
<1>3. AttemptsDecide'
  BY <1>0, <1>1 DEF AttemptsDecide
<1>4. CASE Mark(v)
  <2>1. /\ pc[v] = "mark" /\ pc' = [pc EXCEPT ![v] = "advance"] /\ UNCHANGED <<cur, result>>
        /\ stat' = [j \in Jobs |-> IF CtxOK /\ j \in cur[v] THEN result[v] ELSE stat[j]]
    BY <1>4 DEF Mark, After
  <2>2. pc'[v] = "advance" /\ \A w \in Workers \ {v} : pc'[w] = pc[w]
    BY <1>0, <2>1 DEF TypeOK
  <2>3. result[v] \in {"completed", "skipped"}
    BY <1>0, <2>1 DEF ResultsFit
  <2>4. TypeOK'
    <3>1. stat' \in [Jobs -> {"none", "pending", "processing"} \cup Terminal]
      BY <1>0, <2>1, <2>3 DEF TypeOK, Terminal
    <3>2. pc' \in [Workers -> {"off", "claim", "next", "enrich", "requeue", "fail", "markFail",
                               "complete", "mark", "advance"}]
      BY <1>0, <2>1 DEF TypeOK
    <3> QED BY <1>0, <1>1, <2>1, <3>1, <3>2 DEF TypeOK
  <2>5. Holds(v)' \subseteq Holds(v)
    BY <1>1, <2>2 DEF Holds
  <2>6. \A j \in Jobs : queue[j] = "processing" => queue'[j] = "processing"
    BY <1>1
  <2>7. /\ \A j \in Jobs : stat'[j] # "none" => stat[j] # "none" \/ j \in cur[v]
        /\ \A j \in Jobs : stat'[j] = "completed" => stat[j] = "completed" \/ j \in cur[v]
    BY <2>1
  <2> QED BY <1>1, <1>2, <1>3, <2>1, <2>2, <2>4, <2>5, <2>6, <2>7, WorkStep
<1>5. CASE MarkFail(v)
  <2>1. /\ pc[v] = "markFail" /\ pc' = [pc EXCEPT ![v] = "next"]
        /\ cur' = [cur EXCEPT ![v] = {}] /\ result' = [result EXCEPT ![v] = "none"]
        /\ stat' = [j \in Jobs |-> IF CtxOK /\ j \in cur[v] THEN "failed" ELSE stat[j]]
    BY <1>5 DEF MarkFail, After, Drop
  <2>2. /\ pc'[v] = "next" /\ cur'[v] = {}
        /\ \A w \in Workers \ {v} : pc'[w] = pc[w] /\ cur'[w] = cur[w] /\ result'[w] = result[w]
    BY <1>0, <2>1 DEF TypeOK
  <2>3. TypeOK'
    <3>1. stat' \in [Jobs -> {"none", "pending", "processing"} \cup Terminal]
      BY <1>0, <2>1 DEF TypeOK, Terminal
    <3>2. pc' \in [Workers -> {"off", "claim", "next", "enrich", "requeue", "fail", "markFail",
                               "complete", "mark", "advance"}]
      BY <1>0, <2>1 DEF TypeOK
    <3>3. /\ cur' \in [Workers -> SUBSET Jobs]
          /\ result' \in [Workers -> {"none", "completed", "skipped"} \cup
                                     {"connection", "retryable", "permanent"}]
      BY <1>0, <2>1 DEF TypeOK
    <3>4. \A w \in Workers : cur'[w] = cur[w] \/ Cardinality(cur'[w]) = 0
      BY <2>2, FS_EmptySet
    <3>5. \A w \in Workers : Cardinality(cur'[w]) <= 1
      BY <1>0, <3>4 DEF TypeOK
    <3> QED BY <1>0, <1>1, <3>1, <3>2, <3>3, <3>5 DEF TypeOK
  <2>4. Holds(v)' \subseteq Holds(v)
    BY <1>1, <2>2 DEF Holds
  <2>5. \A j \in Jobs : queue[j] = "processing" => queue'[j] = "processing"
    BY <1>1
  <2>6. /\ \A j \in Jobs : stat'[j] # "none" => stat[j] # "none" \/ j \in cur[v]
        /\ \A j \in Jobs : stat'[j] = "completed" => stat[j] = "completed"
    BY <2>1
  <2> QED BY <1>1, <1>2, <1>3, <2>1, <2>2, <2>3, <2>4, <2>5, <2>6, WorkStep
<1> QED BY <1>4, <1>5

\* EnqueueNextStage leaves a row for the next stage, unless Stop came first.
LEMMA AdvanceKeeps == ASSUME IInv, NEW v \in Workers, Advance(v) PROVE IInv'
<1> DEFINE js == IF CtxOK THEN NextStage(cur[v]) ELSE {}
<1>0. TypeOK /\ AttemptsDecide
  BY DEF IInv
<1>1. /\ pc[v] = "advance" /\ pc' = [pc EXCEPT ![v] = "next"]
      /\ cur' = [cur EXCEPT ![v] = {}] /\ result' = [result EXCEPT ![v] = "none"]
      /\ Enqueue(js) /\ UNCHANGED <<stat, manager, batch>>
  BY DEF Advance, After, Drop
<1>2. manager = "running" \/ manager = "stopping"
  BY <1>1, RunningManager
<1>3. manager = "running" => \A j \in cur[v] : j[2] < LastStage => <<j[1], j[2] + 1>> \in js
  BY DEF CtxOK, NextStage
<1> HIDE DEF js
<1>4. /\ queue' \in [Jobs -> {"none", "pending", "processing"} \cup Terminal]
      /\ attempts' \in [Jobs -> 0..MaxAttempts]
      /\ category' \in [Jobs -> {"none"} \cup {"connection", "retryable", "permanent"}]
      /\ UNCHANGED <<backoff, aged>>
      /\ \A j \in Jobs : \/ queue'[j] = queue[j] /\ attempts'[j] = attempts[j]
                         \/ /\ queue[j] \in {"none"} \cup Terminal
                            /\ queue'[j] = "pending" /\ attempts'[j] = 0
      /\ \A j \in Jobs : j \in js => queue'[j] # "none"
  BY <1>0, <1>1, EnqueueEffect
<1>5. /\ pc'[v] = "next" /\ cur'[v] = {}
      /\ \A w \in Workers \ {v} : pc'[w] = pc[w] /\ cur'[w] = cur[w] /\ result'[w] = result[w]
  BY <1>0, <1>1 DEF TypeOK
<1>6. TypeOK'
  <2>1. pc' \in [Workers -> {"off", "claim", "next", "enrich", "requeue", "fail", "markFail",
                             "complete", "mark", "advance"}]
    BY <1>0, <1>1 DEF TypeOK
  <2>2. /\ cur' \in [Workers -> SUBSET Jobs]
        /\ result' \in [Workers -> {"none", "completed", "skipped"} \cup
                                   {"connection", "retryable", "permanent"}]
    BY <1>0, <1>1 DEF TypeOK
  <2>3. \A w \in Workers : cur'[w] = cur[w] \/ Cardinality(cur'[w]) = 0
    BY <1>5, FS_EmptySet
  <2>4. \A w \in Workers : Cardinality(cur'[w]) <= 1
    BY <1>0, <2>3 DEF TypeOK
  <2> QED BY <1>0, <1>1, <1>4, <2>1, <2>2, <2>4 DEF TypeOK
<1>7. AttemptsDecide'
  BY <1>0, <1>4, FreshDecide
<1>8. Holds(v)' \subseteq Holds(v)
  BY <1>1, <1>5 DEF Holds
<1>9. /\ \A j \in Jobs : queue[j] = "processing" => queue'[j] = "processing"
      /\ \A j \in Jobs : queue'[j] = "none" => queue[j] = "none"
  BY <1>4 DEF Terminal
<1>10. manager = "running" =>
         \A j \in cur[v] : j[2] < LastStage => queue'[<<j[1], j[2] + 1>>] # "none"
  <2>1. cur[v] \subseteq Jobs
    BY <1>0 DEF TypeOK
  <2> QED BY <1>3, <1>4, <2>1, NextJob
<1> QED BY <1>1, <1>2, <1>5, <1>6, <1>7, <1>8, <1>9, <1>10, WorkStep

\* Every step keeps the invariant.
LEMMA InvStep == IInv /\ [Next]_vars => IInv'
<1> SUFFICES ASSUME IInv, [Next]_vars PROVE IInv'
  OBVIOUS
<1>1. CASE UNCHANGED vars
  BY <1>1 DEF vars, rowVars, workVars, IInv, TypeOK, IdleHoldNothing, ResultsFit, Holds,
     HeldAreProcessing, WorkHasRows, StatusHasRow, OneWorkerPerJob, AttemptsDecide,
     CompletedAdvances
<1>2. ASSUME NEW w \in Workers, WorkerStep(w) PROVE IInv'
  BY <1>2, ClaimKeeps, BetweenKeeps, BeginKeeps, OutcomeKeeps, MarkKeeps, AdvanceKeeps
     DEF WorkerStep
<1> QED
  BY <1>1, <1>2, ManagerKeeps, ClientKeeps, CrashKeeps, StartWorkersKeeps DEF Next, Recover

-----------------------------------------------------------------------------
(***************************************************************************)
(* What recovery does to claims when Start comes late enough.              *)
(***************************************************************************)

\* The claims of workers that are gone are old when Start begins, and released
\* by its first statement; from then on every claim has its worker.
Recovered ==
  /\ manager = "release" => \A j \in Jobs : queue[j] = "processing" => aged[j]
  /\ manager \in {"reset", "orphans"} => \A j \in Jobs : queue[j] # "processing"
  /\ ClaimsHaveWorkers

\* Steps beside the workers claim nothing.
LEMMA RecoveredBeside ==
  ASSUME IInv, Recovered, SlowRestart,
         \/ Start \/ Recover \/ Stop \/ StopDone \/ Crash
         \/ \E m \in Media : EnqueueFirst(m)
         \/ \E j \in Jobs : RetryFailed(j) \/ LockAges(j) \/ BackoffPasses(j)
  PROVE  Recovered'
<1>0. TypeOK /\ IdleHoldNothing
  BY DEF IInv
<1>1. CASE Start \/ Stop \/ StopDone \/ Crash
  <2>1. manager' \in {"release", "stopping", "down"} /\ UNCHANGED <<queue, aged>>
    BY <1>1 DEF Start, Stop, StopDone, Crash, rowVars
  <2>2. manager' = "release" => \A j \in Jobs : queue[j] = "processing" => aged[j]
    BY <1>1 DEF Start, Stop, StopDone, Crash
  <2> QED BY <2>1, <2>2 DEF Recovered, ClaimsHaveWorkers
<1>2. CASE StartRelease
  <2>1. manager = "release" /\ manager' = "reset"
        /\ queue' = [j \in Jobs |-> IF queue[j] = "processing" /\ aged[j] THEN "pending" ELSE queue[j]]
    BY <1>2 DEF StartRelease
  <2> QED BY <2>1 DEF Recovered, ClaimsHaveWorkers
<1>3. CASE StartReset
  BY <1>3 DEF StartReset, rowVars, Recovered, ClaimsHaveWorkers
<1>4. CASE StartWorkers
  <2>1. manager = "orphans" /\ manager' = "running" /\ Enqueue(Orphans)
    BY <1>4 DEF StartWorkers
  <2>2. \A j \in Jobs : queue'[j] = queue[j] \/ queue'[j] = "pending"
    BY <1>0, <2>1, EnqueueEffect
  <2> QED BY <2>1, <2>2 DEF Recovered, ClaimsHaveWorkers
<1>5. ASSUME NEW m \in Media, EnqueueFirst(m) PROVE Recovered'
  <2>1. Enqueue({<<m, 1>>}) /\ UNCHANGED <<manager, workVars>>
    BY <1>5 DEF EnqueueFirst
  <2>2. aged' = aged /\ \A j \in Jobs : queue'[j] = queue[j] \/ queue'[j] = "pending"
    BY <1>0, <2>1, EnqueueEffect
  <2> QED BY <2>1, <2>2 DEF Recovered, ClaimsHaveWorkers, Holds, workVars
<1>6. ASSUME NEW i \in Jobs, RetryFailed(i) \/ LockAges(i) \/ BackoffPasses(i) PROVE Recovered'
  <2>1. UNCHANGED <<manager, workVars>>
    BY <1>6 DEF RetryFailed, LockAges, BackoffPasses
  <2>2. \A j \in Jobs : (queue'[j] = queue[j] \/ queue'[j] = "pending") /\ (aged[j] => aged'[j])
    BY <1>0, <1>6 DEF RetryFailed, LockAges, BackoffPasses, TypeOK
  <2> QED BY <2>1, <2>2 DEF Recovered, ClaimsHaveWorkers, Holds, workVars
<1> QED BY <1>1, <1>2, <1>3, <1>4, <1>5, <1>6 DEF Recover

\* While the manager runs, a worker that lets go of a job has written its row.
LEMMA RecoveredWork ==
  ASSUME IInv, Recovered, NEW v \in Workers, WorkerStep(v) PROVE Recovered'
<1>0. TypeOK /\ IdleHoldNothing /\ WorkHasRows
  BY DEF IInv
<1>1. manager' = manager /\ pc[v] # "off"
  BY DEF WorkerStep, Claim, BatchDone, Quit, Begin, Enrich, Requeue, Fail, MarkFail, Complete,
         Mark, Advance
<1>2. manager \in {"running", "stopping"}
  BY <1>1, RunningManager
<1> SUFFICES ASSUME manager = "running", NEW j \in Jobs, queue'[j] = "processing"
             PROVE  \E w \in Workers : j \in Holds(w)'
  BY <1>1, <1>2 DEF Recovered, ClaimsHaveWorkers
<1>3. CtxOK
  BY DEF CtxOK
<1>4. \A w \in Workers \ {v} : Holds(w)' = Holds(w)
  <2>1. \A w \in Workers \ {v} : pc'[w] = pc[w] /\ batch'[w] = batch[w] /\ cur'[w] = cur[w]
    BY <1>0 DEF WorkerStep, Claim, BatchDone, Quit, Begin, Enrich, Requeue, Fail, MarkFail,
       Complete, Mark, Advance, After, Drop, TypeOK
  <2> QED BY <2>1 DEF Holds
<1>5. queue[j] = "processing" => \E w \in Workers : j \in Holds(w)
  BY DEF Recovered, ClaimsHaveWorkers
<1> SUFFICES j \in Holds(v)' \/ (queue[j] = "processing" /\ j \notin Holds(v))
  BY <1>4, <1>5
<1>6. CASE Claim(v)
  <2>1. PICK js \in SUBSET Pending(StageOf[v]) :
          /\ queue' = [i \in Jobs |-> IF i \in js THEN "processing" ELSE queue[i]]
          /\ batch' = [batch EXCEPT ![v] = js]
    BY <1>6 DEF Claim
  <2>2. batch'[v] = js /\ Holds(v) = {}
    BY <1>0, <1>6, <2>1 DEF Claim, TypeOK, Holds, IdleHoldNothing
  <2> QED BY <2>1, <2>2 DEF Holds
<1>7. CASE BatchDone(v) \/ Enrich(v)
  <2>1. UNCHANGED <<queue, batch, cur>>
    BY <1>7 DEF BatchDone, Enrich, rowVars
  <2>2. pc[v] = "next" \/ pc'[v] \in {"complete", "requeue", "fail"}
    BY <1>0, <1>7 DEF BatchDone, Enrich, TypeOK
  <2>3. Holds(v) \subseteq Holds(v)'
    BY <2>1, <2>2 DEF Holds
  <2> QED BY <2>1, <2>3
<1>8. CASE Begin(v)
  <2>1. PICK i \in batch[v] : /\ batch' = [batch EXCEPT ![v] = @ \ {i}]
                              /\ cur' = [cur EXCEPT ![v] = {i}]
    BY <1>8 DEF Begin
  <2>2. pc'[v] = "enrich" /\ batch'[v] = batch[v] \ {i} /\ cur'[v] = {i} /\ pc[v] = "next"
    BY <1>0, <1>8, <2>1 DEF Begin, TypeOK
  <2>3. Holds(v) \subseteq Holds(v)' /\ queue' = queue
    BY <1>8, <2>2 DEF Begin, rowVars, Holds
  <2> QED BY <2>3
<1>9. CASE Requeue(v) \/ Fail(v) \/ Complete(v)
  <2>1. j \notin cur[v] /\ queue'[j] = queue[j]
    BY <1>0, <1>3, <1>9 DEF Requeue, Fail, Complete, TypeOK
  <2>2. batch' = batch /\ Holds(v) \subseteq batch[v] \cup cur[v]
    BY <1>9 DEF Requeue, Fail, Complete, Holds
  <2> QED BY <2>1, <2>2 DEF Holds
<1>10. CASE MarkFail(v) \/ Mark(v)
  <2>1. UNCHANGED <<queue, batch>> /\ Holds(v) = batch[v]
    BY <1>10 DEF MarkFail, Mark, rowVars, Holds
  <2> QED BY <2>1 DEF Holds
<1>11. CASE Advance(v)
  <2>1. batch' = batch /\ Holds(v) = batch[v] /\ \E js : Enqueue(js)
    BY <1>11 DEF Advance, Holds
  <2>2. queue'[j] = queue[j] \/ queue'[j] = "pending"
    BY <1>0, <2>1, EnqueueEffect
  <2> QED BY <2>1, <2>2 DEF Holds
<1>12. ~Quit(v)
  BY <1>3 DEF Quit
<1> QED BY <1>6, <1>7, <1>8, <1>9, <1>10, <1>11, <1>12 DEF WorkerStep

-----------------------------------------------------------------------------
(***************************************************************************)
(* Queue and status agree, when nothing interrupts the workers and each    *)
(* stage has one.                                                          *)
(*                                                                         *)
(* The argument: a row changes between its completion or failure and the   *)
(* status that goes with it only by a claim for the same stage, and the    *)
(* one worker that claims there is the one that has yet to write it.       *)
(***************************************************************************)
OneWorkerPerStage == \A v, w \in Workers : StageOf[v] = StageOf[w] => v = w

\* Workers have jobs of their own stage only.
HeldForStage == \A w \in Workers : \A j \in batch[w] \cup cur[w] : j[2] = StageOf[w]

\* Between the two statements the row says what the first wrote, or the job was
\* enqueued again.
Reported ==
  \A w \in Workers : \A j \in cur[w] :
    /\ pc[w] = "mark" => queue[j] \in {"completed", "pending"}
    /\ pc[w] = "markFail" => queue[j] \in {"failed", "pending"}

\* The status of a finished row is written, or a worker is about to write it.
Matched ==
  \A j \in Jobs :
    /\ queue[j] = "completed" =>
         \/ stat[j] \in {"completed", "skipped"}
         \/ \E w \in Workers : j \in cur[w] /\ pc[w] = "mark"
    /\ queue[j] = "failed" =>
         \/ stat[j] = "failed"
         \/ \E w \in Workers : j \in cur[w] /\ pc[w] = "markFail"

Agreeing == manager # "stopping" /\ HeldForStage /\ Reported /\ Matched

\* A step beside the workers that finishes no row and changes no final status.
LEMMA AgreeKept ==
  ASSUME IInv, Agreeing, manager' # "stopping", UNCHANGED <<batch, cur>>,
         \A w \in Workers : cur[w] # {} => pc'[w] = pc[w],
         \A j \in Jobs : queue'[j] = queue[j] \/ queue'[j] = "pending",
         \A j \in Jobs : stat'[j] = stat[j] \/ stat[j] = "processing"
  PROVE  Agreeing'
<1>1. \A w \in Workers : cur[w] \subseteq Jobs
  BY DEF IInv, TypeOK
<1>2. HeldForStage'
  BY DEF Agreeing, HeldForStage
<1>3. Reported'
  <2> SUFFICES ASSUME NEW w \in Workers, NEW j \in cur[w]
               PROVE  /\ pc'[w] = "mark" => queue'[j] \in {"completed", "pending"}
                      /\ pc'[w] = "markFail" => queue'[j] \in {"failed", "pending"}
    BY DEF Reported
  <2>1. pc'[w] = pc[w] /\ j \in Jobs
    BY <1>1
  <2> QED BY <2>1 DEF Agreeing, Reported
<1>4. Matched'
  <2> SUFFICES ASSUME NEW j \in Jobs
               PROVE  /\ queue'[j] = "completed" =>
                           \/ stat'[j] \in {"completed", "skipped"}
                           \/ \E w \in Workers : j \in cur[w] /\ pc'[w] = "mark"
                      /\ queue'[j] = "failed" =>
                           \/ stat'[j] = "failed"
                           \/ \E w \in Workers : j \in cur[w] /\ pc'[w] = "markFail"
    BY DEF Matched
  <2>1. CASE queue'[j] = "completed"
    <3>1. queue[j] = "completed"
      BY <2>1
    <3>2. CASE stat[j] \in {"completed", "skipped"}
      BY <2>1, <3>2
    <3>3. ASSUME NEW w \in Workers, j \in cur[w], pc[w] = "mark" PROVE pc'[w] = "mark"
      BY <3>3
    <3> QED BY <2>1, <3>1, <3>2, <3>3 DEF Agreeing, Matched
  <2>2. CASE queue'[j] = "failed"
    <3>1. queue[j] = "failed"
      BY <2>2
    <3>2. CASE stat[j] = "failed"
      BY <2>2, <3>2
    <3>3. ASSUME NEW w \in Workers, j \in cur[w], pc[w] = "markFail" PROVE pc'[w] = "markFail"
      BY <3>3
    <3> QED BY <2>2, <3>1, <3>2, <3>3 DEF Agreeing, Matched
  <2> QED BY <2>1, <2>2
<1> QED BY <1>2, <1>3, <1>4 DEF Agreeing

\* Starting, enqueueing, retrying and time.
LEMMA AgreeBeside ==
  ASSUME IInv, Agreeing, MayCrash = FALSE, MayStop = FALSE,
         \/ Start \/ Recover \/ Stop \/ StopDone \/ Crash
         \/ \E m \in Media : EnqueueFirst(m)
         \/ \E j \in Jobs : RetryFailed(j) \/ LockAges(j) \/ BackoffPasses(j)
  PROVE  Agreeing'
<1>0. TypeOK /\ IdleHoldNothing
  BY DEF IInv
<1>1. CASE Start
  <2>1. UNCHANGED <<queue, stat, pc, batch, cur>> /\ manager' = "release"
    BY <1>1 DEF Start, rowVars, workVars
  <2> QED BY <2>1, AgreeKept
<1>2. CASE StartRelease
  <2>1. UNCHANGED <<stat, pc, batch, cur>> /\ manager' = "reset"
        /\ \A j \in Jobs : queue'[j] = queue[j] \/ queue'[j] = "pending"
    BY <1>0, <1>2 DEF StartRelease, workVars
  <2> QED BY <2>1, AgreeKept
<1>3. CASE StartReset
  <2>1. UNCHANGED <<queue, pc, batch, cur>> /\ manager' = "orphans"
        /\ \A j \in Jobs : stat'[j] = stat[j] \/ stat[j] = "processing"
    BY <1>0, <1>3 DEF StartReset, rowVars, workVars
  <2> QED BY <2>1, AgreeKept
<1>4. CASE StartWorkers
  <2>1. UNCHANGED <<stat, batch, cur>> /\ manager' = "running" /\ Enqueue(Orphans)
        /\ manager = "orphans"
    BY <1>4 DEF StartWorkers
  <2>2. \A j \in Jobs : queue'[j] = queue[j] \/ queue'[j] = "pending"
    BY <1>0, <2>1, EnqueueEffect
  <2>3. \A w \in Workers : cur[w] = {}
    BY <1>0, <2>1 DEF IdleHoldNothing
  <2> QED BY <2>1, <2>2, <2>3, AgreeKept
<1>5. ~Stop /\ ~StopDone /\ ~Crash
  BY DEF Agreeing, Stop, StopDone, Crash
<1>6. ASSUME NEW m \in Media, EnqueueFirst(m) PROVE Agreeing'
  <2>1. Enqueue({<<m, 1>>}) /\ UNCHANGED <<stat, manager, pc, batch, cur>>
    BY <1>6 DEF EnqueueFirst, workVars
  <2>2. \A j \in Jobs : queue'[j] = queue[j] \/ queue'[j] = "pending"
    BY <1>0, <2>1, EnqueueEffect
  <2>3. manager' # "stopping"
    BY <2>1 DEF Agreeing
  <2> QED BY <2>1, <2>2, <2>3, AgreeKept
<1>7. ASSUME NEW i \in Jobs, RetryFailed(i) \/ LockAges(i) \/ BackoffPasses(i) PROVE Agreeing'
  <2>1. UNCHANGED <<stat, manager, pc, batch, cur>>
    BY <1>7 DEF RetryFailed, LockAges, BackoffPasses, workVars
  <2>2. \A j \in Jobs : queue'[j] = queue[j] \/ queue'[j] = "pending"
    BY <1>0, <1>7 DEF RetryFailed, LockAges, BackoffPasses, TypeOK
  <2>3. manager' # "stopping"
    BY <2>1 DEF Agreeing
  <2> QED BY <2>1, <2>2, <2>3, AgreeKept
<1> QED BY <1>1, <1>2, <1>3, <1>4, <1>5, <1>6, <1>7 DEF Recover

\* The finished rows of v's stage have their status, or v is about to write it.
LEMMA AgreeMine ==
  ASSUME Agreeing, OneWorkerPerStage, NEW v \in Workers, NEW j \in Jobs, j[2] = StageOf[v]
  PROVE  /\ queue[j] = "completed" =>
              stat[j] \in {"completed", "skipped"} \/ (j \in cur[v] /\ pc[v] = "mark")
         /\ queue[j] = "failed" => stat[j] = "failed" \/ (j \in cur[v] /\ pc[v] = "markFail")
<1>1. \A w \in Workers : j \in cur[w] => w = v
  BY DEF Agreeing, HeldForStage, OneWorkerPerStage
<1> QED BY <1>1 DEF Agreeing, Matched

\* A step of worker v keeps rows and statuses in agreement when it changes those
\* of its own stage only, and leaves these in agreement.
LEMMA AgreeStep ==
  ASSUME IInv, Agreeing, OneWorkerPerStage, NEW v \in Workers, manager' = manager,
         \A w \in Workers \ {v} : pc'[w] = pc[w] /\ batch'[w] = batch[w] /\ cur'[w] = cur[w],
         \A j \in batch'[v] \cup cur'[v] : j[2] = StageOf[v],
         \A j \in Jobs : j[2] # StageOf[v] =>
            (queue'[j] = queue[j] \/ queue'[j] = "pending") /\ stat'[j] = stat[j],
         \A j \in cur'[v] : /\ pc'[v] = "mark" => queue'[j] \in {"completed", "pending"}
                            /\ pc'[v] = "markFail" => queue'[j] \in {"failed", "pending"},
         \A j \in Jobs : j[2] = StageOf[v] =>
            /\ queue'[j] = "completed" =>
                 stat'[j] \in {"completed", "skipped"} \/ (j \in cur'[v] /\ pc'[v] = "mark")
            /\ queue'[j] = "failed" =>
                 stat'[j] = "failed" \/ (j \in cur'[v] /\ pc'[v] = "markFail")
  PROVE  Agreeing'
<1>1. \A w \in Workers : cur[w] \subseteq Jobs
  BY DEF IInv, TypeOK
<1>2. HeldForStage'
  BY DEF Agreeing, HeldForStage
<1>3. \A w \in Workers \ {v} : \A j \in cur[w] : j \in Jobs /\ j[2] # StageOf[v]
  BY <1>1 DEF Agreeing, HeldForStage, OneWorkerPerStage
<1>4. Reported'
  <2> SUFFICES ASSUME NEW w \in Workers \ {v}, NEW j \in cur'[w]
               PROVE  /\ pc'[w] = "mark" => queue'[j] \in {"completed", "pending"}
                      /\ pc'[w] = "markFail" => queue'[j] \in {"failed", "pending"}
    BY DEF Reported
  <2>1. j \in cur[w] /\ pc'[w] = pc[w] /\ (queue'[j] = queue[j] \/ queue'[j] = "pending")
    BY <1>3
  <2> QED BY <2>1 DEF Agreeing, Reported
<1>5. Matched'
  <2> SUFFICES ASSUME NEW j \in Jobs
               PROVE  /\ queue'[j] = "completed" =>
                           \/ stat'[j] \in {"completed", "skipped"}
                           \/ \E w \in Workers : j \in cur'[w] /\ pc'[w] = "mark"
                      /\ queue'[j] = "failed" =>
                           \/ stat'[j] = "failed"
                           \/ \E w \in Workers : j \in cur'[w] /\ pc'[w] = "markFail"
    BY DEF Matched
  <2>1. CASE j[2] = StageOf[v]
    BY <2>1
  <2>2. CASE j[2] # StageOf[v]
    <3>1. (queue'[j] = queue[j] \/ queue'[j] = "pending") /\ stat'[j] = stat[j]
      BY <2>2
    <3>2. \A w \in Workers : j \in cur[w] => cur'[w] = cur[w] /\ pc'[w] = pc[w]
      BY <2>2 DEF Agreeing, HeldForStage
    <3> QED BY <3>1, <3>2 DEF Agreeing, Matched
  <2> QED BY <2>1, <2>2
<1> QED BY <1>2, <1>4, <1>5 DEF Agreeing

\* Claiming, polling and processing write no outcome.
LEMMA AgreeBegins ==
  ASSUME IInv, Agreeing, OneWorkerPerStage, NEW v \in Workers,
         Claim(v) \/ BatchDone(v) \/ Quit(v) \/ Begin(v) \/ Enrich(v)
  PROVE  Agreeing'
<1>0. TypeOK /\ IdleHoldNothing /\ HeldAreProcessing /\ HeldForStage /\ CtxOK
  BY DEF IInv, Agreeing, CtxOK
<1>1. CASE Claim(v)
  <2>1. PICK js \in SUBSET Pending(StageOf[v]) :
          /\ queue' = [j \in Jobs |-> IF j \in js THEN "processing" ELSE queue[j]]
          /\ batch' = [batch EXCEPT ![v] = js]
    BY <1>1 DEF Claim
  <2>2. pc[v] = "claim" /\ pc' = [pc EXCEPT ![v] = "next"] /\ UNCHANGED <<stat, manager, cur>>
    BY <1>1 DEF Claim
  <2>3. /\ pc'[v] = "next" /\ cur[v] = {} /\ batch'[v] = js
        /\ \A w \in Workers \ {v} : pc'[w] = pc[w] /\ batch'[w] = batch[w]
    BY <1>0, <2>1, <2>2 DEF TypeOK, IdleHoldNothing
  <2>4. \A j \in js : j \in Jobs /\ j[2] = StageOf[v]
    BY DEF Pending
  <2>5. \A j \in Jobs : queue'[j] = queue[j] \/ (j \in js /\ queue'[j] = "processing")
    BY <2>1
  <2>6. ASSUME NEW j \in Jobs, j[2] = StageOf[v]
        PROVE  /\ queue'[j] = "completed" => stat'[j] \in {"completed", "skipped"}
               /\ queue'[j] = "failed" => stat'[j] = "failed"
    BY <2>2, <2>3, <2>5, <2>6, AgreeMine
  <2> QED BY <2>2, <2>3, <2>4, <2>5, <2>6, AgreeStep
<1>2. CASE BatchDone(v) \/ Enrich(v)
  <2>1. UNCHANGED <<queue, stat, manager, batch, cur>> /\ pc[v] \notin {"mark", "markFail"}
    BY <1>2 DEF BatchDone, Enrich, rowVars
  <2>2. pc'[v] \notin {"mark", "markFail"} /\ \A w \in Workers \ {v} : pc'[w] = pc[w]
    BY <1>0, <1>2 DEF BatchDone, Enrich, TypeOK
  <2>3. \A j \in batch[v] \cup cur[v] : j[2] = StageOf[v]
    BY <1>0 DEF HeldForStage
  <2>4. ASSUME NEW j \in Jobs, j[2] = StageOf[v]
        PROVE  /\ queue'[j] = "completed" => stat'[j] \in {"completed", "skipped"}
               /\ queue'[j] = "failed" => stat'[j] = "failed"
    BY <2>1, <2>4, AgreeMine
  <2> QED BY <2>1, <2>2, <2>3, <2>4, AgreeStep
<1>3. CASE Begin(v)
  <2>1. PICK i \in batch[v] : /\ batch' = [batch EXCEPT ![v] = @ \ {i}]
                              /\ cur' = [cur EXCEPT ![v] = {i}]
                              /\ stat' = [stat EXCEPT ![i] = "processing"]
    BY <1>3 DEF Begin
  <2>2. /\ pc[v] = "next" /\ pc' = [pc EXCEPT ![v] = "enrich"] /\ UNCHANGED <<queue, manager>>
    BY <1>3 DEF Begin, rowVars
  <2>3. /\ pc'[v] = "enrich" /\ batch'[v] = batch[v] \ {i} /\ cur'[v] = {i}
        /\ \A w \in Workers \ {v} : pc'[w] = pc[w] /\ batch'[w] = batch[w] /\ cur'[w] = cur[w]
    BY <1>0, <2>1, <2>2 DEF TypeOK
  <2>4. i \in Jobs /\ i[2] = StageOf[v] /\ queue[i] = "processing"
    BY <1>0 DEF TypeOK, HeldForStage, HeldAreProcessing, Holds
  <2>5. \A j \in Jobs : j # i => stat'[j] = stat[j]
    BY <1>0, <2>1 DEF TypeOK
  <2>6. \A j \in batch'[v] \cup cur'[v] : j[2] = StageOf[v]
    BY <1>0, <2>3, <2>4 DEF HeldForStage
  <2>7. ASSUME NEW j \in Jobs, j[2] = StageOf[v]
        PROVE  /\ queue'[j] = "completed" => stat'[j] \in {"completed", "skipped"}
               /\ queue'[j] = "failed" => stat'[j] = "failed"
    BY <2>2, <2>4, <2>5, <2>7, AgreeMine
  <2> QED BY <2>2, <2>3, <2>4, <2>5, <2>6, <2>7, AgreeStep
<1>4. ~Quit(v)
  BY <1>0 DEF Quit
<1> QED BY <1>1, <1>2, <1>3, <1>4

\* The first statement of an outcome and the second write what belongs together.
LEMMA AgreeOutcomes ==
  ASSUME IInv, Agreeing, OneWorkerPerStage, NEW v \in Workers,
         Requeue(v) \/ Fail(v) \/ Complete(v) \/ Mark(v) \/ MarkFail(v) \/ Advance(v)
  PROVE  Agreeing'
<1>0. TypeOK /\ ResultsFit /\ HeldForStage /\ Reported /\ CtxOK
  BY DEF IInv, Agreeing, CtxOK
<1>1. /\ UNCHANGED <<manager, batch>> /\ cur'[v] \in {cur[v], {}}
      /\ \A w \in Workers \ {v} : pc'[w] = pc[w] /\ cur'[w] = cur[w]
  BY <1>0 DEF Requeue, Fail, Complete, Mark, MarkFail, Advance, After, Drop, TypeOK
<1>2. \A j \in batch[v] \cup cur[v] : j[2] = StageOf[v]
  BY <1>0 DEF HeldForStage
<1>3. cur[v] \subseteq Jobs
  BY <1>0 DEF TypeOK
<1>4. CASE Requeue(v) \/ Fail(v) \/ Complete(v)
  <2>1. stat' = stat /\ pc[v] \notin {"mark", "markFail"}
    BY <1>4 DEF Requeue, Fail, Complete
  <2>2. \A j \in Jobs : j \notin cur[v] => queue'[j] = queue[j]
    BY <1>0, <1>4 DEF Requeue, Fail, Complete
  <2>3. /\ Requeue(v) => pc'[v] = "next" /\ \A j \in cur[v] : queue'[j] = "pending"
        /\ Fail(v) => /\ pc'[v] = "markFail" /\ cur' = cur
                      /\ \A j \in cur[v] : queue'[j] \in {"failed", "pending"}
        /\ Complete(v) => /\ pc'[v] = "mark" /\ cur' = cur
                          /\ \A j \in cur[v] : queue'[j] = "completed"
    BY <1>0, <1>3 DEF Requeue, Fail, Complete, After, TypeOK
  <2>4. ASSUME NEW j \in Jobs, j[2] = StageOf[v], j \notin cur[v]
        PROVE  /\ queue'[j] = "completed" => stat'[j] \in {"completed", "skipped"}
               /\ queue'[j] = "failed" => stat'[j] = "failed"
    BY <2>1, <2>2, <2>4, AgreeMine
  <2>5. ASSUME NEW j \in cur[v]
        PROVE  /\ queue'[j] = "completed" => j \in cur'[v] /\ pc'[v] = "mark"
               /\ queue'[j] = "failed" => j \in cur'[v] /\ pc'[v] = "markFail"
    BY <1>4, <2>3, <2>5
  <2>6. \A j \in cur'[v] : /\ pc'[v] = "mark" => queue'[j] \in {"completed", "pending"}
                           /\ pc'[v] = "markFail" => queue'[j] \in {"failed", "pending"}
    BY <1>1, <1>4, <2>3
  <2>7. \A j \in Jobs : j[2] # StageOf[v] => queue'[j] = queue[j] /\ stat'[j] = stat[j]
    BY <1>2, <2>1, <2>2
  <2> QED BY <1>1, <1>2, <2>4, <2>5, <2>6, <2>7, AgreeStep
<1>5. CASE Mark(v)
  <2>1. /\ pc[v] = "mark" /\ UNCHANGED <<queue, cur>> /\ result[v] \in {"completed", "skipped"}
        /\ \A j \in Jobs : stat'[j] = IF j \in cur[v] THEN result[v] ELSE stat[j]
    BY <1>0, <1>5 DEF Mark, rowVars, ResultsFit
  <2>2. pc'[v] = "advance"
    BY <1>0, <1>5 DEF Mark, After, TypeOK
  <2>3. ASSUME NEW j \in Jobs, j[2] = StageOf[v]
        PROVE  /\ queue'[j] = "completed" => stat'[j] \in {"completed", "skipped"}
               /\ queue'[j] = "failed" => stat'[j] = "failed"
    <3>1. CASE j \in cur[v]
      BY <1>0, <2>1, <3>1 DEF Reported
    <3>2. CASE j \notin cur[v]
      BY <2>1, <2>3, <3>2, AgreeMine
    <3> QED BY <3>1, <3>2
  <2>4. \A j \in Jobs : j[2] # StageOf[v] => queue'[j] = queue[j] /\ stat'[j] = stat[j]
    BY <1>2, <2>1
  <2> QED BY <1>1, <1>2, <2>1, <2>2, <2>3, <2>4, AgreeStep
<1>6. CASE MarkFail(v)
  <2>1. /\ pc[v] = "markFail" /\ queue' = queue
        /\ \A j \in Jobs : stat'[j] = IF j \in cur[v] THEN "failed" ELSE stat[j]
    BY <1>0, <1>6 DEF MarkFail, rowVars
  <2>2. pc'[v] = "next"
    BY <1>0, <1>6 DEF MarkFail, After, TypeOK
  <2>3. ASSUME NEW j \in Jobs, j[2] = StageOf[v]
        PROVE  /\ queue'[j] = "completed" => stat'[j] \in {"completed", "skipped"}
               /\ queue'[j] = "failed" => stat'[j] = "failed"
    <3>1. CASE j \in cur[v]
      BY <1>0, <2>1, <3>1 DEF Reported
    <3>2. CASE j \notin cur[v]
      BY <2>1, <2>3, <3>2, AgreeMine
    <3> QED BY <3>1, <3>2
  <2>4. \A j \in Jobs : j[2] # StageOf[v] => queue'[j] = queue[j] /\ stat'[j] = stat[j]
    BY <1>2, <2>1
  <2> QED BY <1>1, <1>2, <2>2, <2>3, <2>4, AgreeStep
<1>7. CASE Advance(v)
  <2>1. pc[v] = "advance" /\ stat' = stat /\ \E js : Enqueue(js)
    BY <1>7 DEF Advance
  <2>2. pc'[v] = "next"
    BY <1>0, <1>7 DEF Advance, After, TypeOK
  <2>3. \A j \in Jobs : queue'[j] = queue[j] \/ queue'[j] = "pending"
    BY <1>0, <2>1, EnqueueEffect
  <2>4. ASSUME NEW j \in Jobs, j[2] = StageOf[v]
        PROVE  /\ queue'[j] = "completed" => stat'[j] \in {"completed", "skipped"}
               /\ queue'[j] = "failed" => stat'[j] = "failed"
    BY <2>1, <2>3, <2>4, AgreeMine
  <2> QED BY <1>1, <1>2, <2>1, <2>2, <2>3, <2>4, AgreeStep
<1> QED BY <1>4, <1>5, <1>6, <1>7

-----------------------------------------------------------------------------
(***************************************************************************)
(* The theorems.                                                           *)
(***************************************************************************)

\* The columns keep their types: attempts never pass max_attempts and a batch
\* never exceeds ClaimBatch's limit.
THEOREM QueueTypes == Spec => []TypeOK
<1>1. IInv => TypeOK
  BY DEF IInv
<1> QED BY InvInit, InvStep, <1>1, PTL DEF Spec

\* No two workers have the same job in hand (ClaimEnrichmentJobs, the upsert of
\* EnqueueEnrichmentJob, RetryEnrichmentJob, recovery).
THEOREM OneWorker == Spec => []OneWorkerPerJob
<1>1. IInv => OneWorkerPerJob
  BY DEF IInv
<1> QED BY InvInit, InvStep, <1>1, PTL DEF Spec

\* A job has failed exactly when its attempts are used up (FailEnrichmentJob,
\* RequeueEnrichmentJob, the upsert).
THEOREM AttemptsHold == Spec => []AttemptsDecide
<1>1. IInv => AttemptsDecide
  BY DEF IInv
<1> QED BY InvInit, InvStep, <1>1, PTL DEF Spec

\* A completed stage has its next stage enqueued while the manager runs,
\* whatever crashes and stops came between (enqueueNext, recovery's orphans).
THEOREM StagesAdvance == Spec => []CompletedAdvances
<1>1. IInv => CompletedAdvances
  BY DEF IInv
<1> QED BY InvInit, InvStep, <1>1, PTL DEF Spec

\* If Start never comes within ten minutes of the last claim, every claim has a
\* live worker while the manager runs (recoverStuckJobs).
THEOREM ClaimsHeld ==
  ASSUME SlowRestart
  PROVE  Spec => []ClaimsHaveWorkers
<1>1. Init => Recovered
  BY DEF Init, Recovered, ClaimsHaveWorkers
<1>2. IInv /\ Recovered /\ [Next]_vars => Recovered'
  <2> SUFFICES ASSUME IInv, Recovered, [Next]_vars PROVE Recovered'
    OBVIOUS
  <2>1. CASE UNCHANGED vars
    BY <2>1 DEF vars, rowVars, workVars, Recovered, ClaimsHaveWorkers, Holds
  <2> QED BY <2>1, RecoveredBeside, RecoveredWork DEF Next
<1>3. Recovered => ClaimsHaveWorkers
  BY DEF Recovered
<1> QED BY InvInit, InvStep, <1>1, <1>2, <1>3, PTL DEF Spec

\* While workers are not interrupted and each stage has one of its own, the two
\* tables agree on every job that is in nobody's hands, also when jobs are
\* retried and enqueued again (handleSuccess, handleSkipped, handleFailure).
THEOREM StatusesAgree ==
  ASSUME MayCrash = FALSE, MayStop = FALSE, OneWorkerPerStage
  PROVE  Spec => []StatusAgrees
<1>1. Init => Agreeing
  BY EnrichAssumption DEF Init, Agreeing, HeldForStage, Reported, Matched
<1>2. IInv /\ Agreeing /\ [Next]_vars => Agreeing'
  <2> SUFFICES ASSUME IInv, Agreeing, [Next]_vars PROVE Agreeing'
    OBVIOUS
  <2>1. CASE UNCHANGED vars
    BY <2>1 DEF vars, rowVars, workVars, Agreeing, HeldForStage, Reported, Matched
  <2>2. ASSUME NEW w \in Workers, WorkerStep(w) PROVE Agreeing'
    BY <2>2, AgreeBegins, AgreeOutcomes DEF WorkerStep
  <2> QED BY <2>1, <2>2, AgreeBeside DEF Next
<1>3. Agreeing => StatusAgrees
  BY DEF Agreeing, Matched, StatusAgrees
<1> QED BY InvInit, InvStep, <1>1, <1>2, <1>3, PTL DEF Spec
=============================================================================
