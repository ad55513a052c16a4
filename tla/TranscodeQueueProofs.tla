------------------------ MODULE TranscodeQueueProofs ------------------------
(***************************************************************************)
(* Proofs about TranscodeQueue, for any keys, workers, capacity and bounds *)
(* on rows, faults and starts.                                             *)
(***************************************************************************)
EXTENDS TranscodeQueue, FiniteSetTheorems, SequenceTheorems, TLAPS

\* A key has a row exactly when the row has an id, ids are given out in order
\* and no two rows share one.
RowsKnown ==
    /\ \A k \in Keys : row[k].id <= created /\ (row[k].id = 0 <=> row[k].st = "none")
    /\ \A k, l \in Keys : row[k].id = row[l].id => k = l \/ row[k].id = 0

\* A worker that is not idle has a job; a cancellation was for a row that had
\* been given out, and one that is not under way has none.
ActorsHold ==
    /\ \A w \in Workers : wrk[w].id = 0 <=> wrk[w].pc = "idle"
    /\ canc.id <= created /\ (canc.id = 0 <=> canc.pc = "idle")

\* The row of a cancellation was processing, and no row is queued again.
CancelledStarted ==
    \A k \in Keys : row[k].id = canc.id => row[k].st # "queued"

\* A row in processing has FFmpeg running for it, or a write was not stored.
FFmpegOrLost(k) ==
    \/ \E w \in Workers : wrk[w].id = row[k].id /\ wrk[w].pc = "ffmpeg"
    \/ row[k].id \in lost

ProcessingHasFFmpeg ==
    \A k \in Keys : row[k].st = "processing" => FFmpegOrLost(k)

IInv ==
    /\ TypeOK /\ RowsKnown /\ ActorsHold /\ CancelledStarted
    /\ ActiveJobsAreWorked /\ ProcessingHasFFmpeg

\* The empty table and the process that is down satisfy the invariant.
LEMMA InvInit == Init => IInv
<1> SUFFICES ASSUME Init PROVE IInv
  OBVIOUS
<1>1. TypeOK
  <2>1. 0 \in 0 .. MaxJobs /\ 0 \in 0 .. MaxFaults /\ 0 \in 0 .. MaxRuns
    BY QueueAssumption
  <2>2. NoRow \in RowState /\ Resting \in WorkerState /\ NoCancel \in CancelState
    BY <2>1 DEF NoRow, RowState, Resting, WorkerState, NoCancel, CancelState
  <2>3. << >> \in Seq(Ids) /\ Len(<< >>) <= Cap
    BY QueueAssumption
  <2> QED BY <2>1, <2>2, <2>3 DEF Init, TypeOK
<1>2. RowsKnown /\ ActorsHold /\ CancelledStarted /\ ActiveJobsAreWorked /\ ProcessingHasFFmpeg
  BY DEF Init, RowsKnown, ActorsHold, CancelledStarted, ActiveJobsAreWorked,
         ProcessingHasFFmpeg, NoRow, Resting, NoCancel
<1> QED BY <1>1, <1>2 DEF IInv

-----------------------------------------------------------------------------
(***************************************************************************)
(* What the operators of the model do.                                     *)
(***************************************************************************)

\* The ids of rows are ids.
LEMMA RowIdsAreIds == ASSUME TypeOK PROVE RowIds \subseteq Ids
  BY QueueAssumption DEF TypeOK, RowState, RowIds, Ids

\* What a worker or a cancellation may store of a job.
Outcomes == {"processing", "completed", "failed"}

\* repo.Update keeps the rows and their ids.  A row in processing was so before
\* and nothing was forgotten of it, or the write made it so or was not stored.
LEMMA StoreEffect ==
  ASSUME TypeOK, RowsKnown, NEW j \in Ids, NEW st \in Outcomes, NEW over \in BOOLEAN,
         Store(j, st, over)
  PROVE  /\ row' \in [Keys -> RowState] /\ faults' \in 0 .. MaxFaults /\ lost' \subseteq Ids
         /\ \A k \in Keys : row'[k].id = row[k].id
         /\ \A k \in Keys : row'[k] = row[k] \/ (row[k].id = j /\ row'[k].st = st)
         /\ \A k \in Keys : row'[k].st = "processing" =>
               \/ row[k].id = j /\ (st = "processing" \/ j \in lost')
               \/ row[k].id # j /\ row[k].st = "processing"
                  /\ (row[k].id \in lost => row[k].id \in lost')
<1> USE QueueAssumption
<1>0. RowIds \subseteq Ids /\ lost \subseteq Ids /\ faults \in 0 .. MaxFaults
  BY RowIdsAreIds DEF TypeOK
<1>1. CASE ~over /\ row' = Updated(j, st) /\ lost' = LostAfter(j, TRUE) /\ UNCHANGED faults
  <2>1. \A k \in Keys : [row[k] EXCEPT !.st = st] \in RowState
    BY DEF TypeOK, RowState, Outcomes
  <2>2. row' = [k \in Keys |-> IF row[k].id = j THEN [row[k] EXCEPT !.st = st] ELSE row[k]]
    BY <1>1 DEF Updated
  <2>3. row' \in [Keys -> RowState]
    BY <2>1, <2>2 DEF TypeOK
  <2>4. \A k \in Keys : row'[k].id = row[k].id
                     /\ (row'[k] = row[k] \/ (row[k].id = j /\ row'[k].st = st))
    BY <2>2 DEF TypeOK, RowState
  <2>5. lost' = lost \ {j}
    BY <1>1 DEF LostAfter
  <2>6. \A k \in Keys : row[k].id = j => row'[k].st = st
    BY <2>2 DEF TypeOK, RowState
  <2>7. \A k \in Keys : row[k].id # j => row'[k] = row[k]
    BY <2>2
  <2> QED BY <1>0, <1>1, <2>3, <2>4, <2>5, <2>6, <2>7
<1>2. CASE /\ row' = row /\ lost' = LostAfter(j, FALSE)
           /\ faults' \in 0 .. MaxFaults
  <2>1. lost' = lost \cup ({j} \cap RowIds)
    BY <1>2 DEF LostAfter
  <2>2. \A k \in Keys : row[k].id = j => j \in lost'
    BY <2>1 DEF RowIds, Ids
  <2> QED BY <1>0, <1>2, <2>1, <2>2 DEF TypeOK
<1>3. faults < MaxFaults /\ faults' = faults + 1 => faults' \in 0 .. MaxFaults
  BY <1>0
<1> QED BY <1>0, <1>1, <1>2, <1>3 DEF Store

\* The channel takes ids up to its capacity.
LEMMA SentType ==
  ASSUME TypeOK, NEW j \in Ids PROVE Sent(j) \in Seq(Ids) /\ Len(Sent(j)) <= Cap
  BY QueueAssumption DEF TypeOK, Sent

\* ListQueuedJobs returns ids of rows.
LEMMA ListedType == ASSUME TypeOK, RowsKnown PROVE Listed \subseteq Seq(Ids)
<1>1. With("queued") \subseteq Ids
  BY QueueAssumption DEF TypeOK, RowState, RowsKnown, With, Ids
<1>2. IsFiniteSet(With("queued"))
  BY <1>1, QueueAssumption, FS_Interval, FS_Subset DEF Ids
<1>3. Limit \in Nat
  BY <1>2, QueueAssumption, FS_CardinalityType DEF Limit
<1>4. \A s \in [1 .. Limit -> With("queued")] : s \in Seq(Ids)
  BY <1>1, <1>3
<1> QED BY <1>4 DEF Listed

-----------------------------------------------------------------------------
(***************************************************************************)
(* The steps.                                                              *)
(***************************************************************************)

\* What is left of the invariant when the process is gone: the table.
LEMMA GoneStep == ASSUME IInv, ProcessGone PROVE IInv'
<1> USE QueueAssumption DEF ProcessGone
<1>1. TypeOK'
  <2>1. Resting \in WorkerState /\ NoCancel \in CancelState /\ 0 \in 0 .. MaxJobs
    BY DEF Resting, WorkerState, NoCancel, CancelState
  <2>2. << >> \in Seq(Ids) /\ Len(<< >>) <= Cap
    OBVIOUS
  <2>3. lost' \subseteq Ids
    BY RowIdsAreIds DEF IInv, TypeOK
  <2> QED BY <2>1, <2>2, <2>3 DEF IInv, TypeOK
<1>2. RowsKnown' /\ ActorsHold' /\ CancelledStarted' /\ ActiveJobsAreWorked'
  BY DEF IInv, TypeOK, RowsKnown, ActorsHold, CancelledStarted, ActiveJobsAreWorked,
         Resting, NoCancel
<1>3. ProcessingHasFFmpeg'
  <2> SUFFICES ASSUME NEW k \in Keys, row[k].st = "processing" PROVE row[k].id \in lost'
    BY DEF ProcessingHasFFmpeg, FFmpegOrLost
  <2>1. row[k].id \in RowIds
    BY DEF IInv, RowsKnown, RowIds
  <2>2. FFmpegOrLost(k)
    BY DEF IInv, ProcessingHasFFmpeg
  <2> QED BY <2>1, <2>2 DEF FFmpegOrLost
<1> QED BY <1>1, <1>2, <1>3 DEF IInv

\* Steps of the channel, the poller and the requests that only move ids about.
LEMMA MoveStep ==
  ASSUME IInv, UNCHANGED <<row, created, wrk, active, canc, faults, lost>>,
         phase' \in {"down", "running", "stopping"}, runs' \in 0 .. MaxRuns,
         jobs' \in Seq(Ids), Len(jobs') <= Cap, poll' \in Seq(Ids), enq' \in 0 .. MaxJobs
  PROVE  IInv'
  BY DEF IInv, TypeOK, RowsKnown, ActorsHold, CancelledStarted, ActiveJobsAreWorked,
         ProcessingHasFFmpeg, FFmpegOrLost

\* A send that does not wait keeps the invariant, on the closed channel too.
LEMMA SendStep ==
  ASSUME IInv, NEW j \in Ids, TrySend(j, poll' \in Seq(Ids) /\ enq' \in 0 .. MaxJobs,
                                         poll' \in Seq(Ids) /\ enq' \in 0 .. MaxJobs),
         runs' = runs \/ ProcessGone
  PROVE  IInv'
<1>1. TypeOK
  BY DEF IInv
<1>2. CASE ProcessGone
  BY <1>2, GoneStep
<1>3. CASE ~ProcessGone
  <2>1. Sent(j) \in Seq(Ids) /\ Len(Sent(j)) <= Cap
    BY <1>1, SentType
  <2>2. jobs' \in {jobs, Sent(j)} /\ phase' = phase
    BY <1>3 DEF TrySend
  <2>3. UNCHANGED <<row, created, wrk, active, canc, faults, lost>>
    BY <1>3 DEF TrySend
  <2>4. poll' \in Seq(Ids) /\ enq' \in 0 .. MaxJobs
    BY <1>3 DEF TrySend
  <2> QED BY <1>1, <1>3, <2>1, <2>2, <2>3, <2>4, MoveStep DEF TypeOK
<1> QED BY <1>2, <1>3

\* EnqueueSend and PollSend.
LEMMA SendsKeep == ASSUME IInv, EnqueueSend \/ PollSend PROVE IInv'
<1> USE QueueAssumption
<1>0. TypeOK
  BY DEF IInv
<1>1. CASE EnqueueSend
  <2>1. enq \in Ids
    BY <1>0, <1>1 DEF EnqueueSend, TypeOK, Ids
  <2>2. 0 \in 0 .. MaxJobs /\ poll \in Seq(Ids)
    BY <1>0 DEF TypeOK
  <2>3. TrySend(enq, poll' \in Seq(Ids) /\ enq' \in 0 .. MaxJobs,
                     poll' \in Seq(Ids) /\ enq' \in 0 .. MaxJobs)
    BY <1>1, <2>2 DEF EnqueueSend, TrySend
  <2>4. runs' = runs \/ ProcessGone
    BY <1>1 DEF EnqueueSend, TrySend
  <2> QED BY <2>1, <2>3, <2>4, SendStep
<1>2. CASE PollSend
  <2>1. Head(poll) \in Ids /\ Tail(poll) \in Seq(Ids) /\ << >> \in Seq(Ids)
    BY <1>0, <1>2 DEF PollSend, TypeOK
  <2>2. enq \in 0 .. MaxJobs
    BY <1>0 DEF TypeOK
  <2>3. TrySend(Head(poll), poll' \in Seq(Ids) /\ enq' \in 0 .. MaxJobs,
                            poll' \in Seq(Ids) /\ enq' \in 0 .. MaxJobs)
    BY <1>2, <2>1, <2>2 DEF PollSend, TrySend
  <2>4. runs' = runs \/ ProcessGone
    BY <1>2 DEF PollSend, TrySend
  <2> QED BY <2>1, <2>3, <2>4, SendStep
<1> QED BY <1>1, <1>2

\* Start, PollList and the ends of the process.
LEMMA ProcessKeeps ==
  ASSUME IInv, Start \/ Stopped \/ Crash \/ PollList PROVE IInv'
<1> USE QueueAssumption
<1>0. TypeOK /\ RowsKnown
  BY DEF IInv
<1>1. CASE Start
  <2>1. runs' \in 0 .. MaxRuns
    BY <1>0, <1>1 DEF Start, TypeOK
  <2> QED BY <1>0, <1>1, <2>1, MoveStep DEF Start, TypeOK
<1>2. CASE PollList
  <2>1. poll' \in Seq(Ids)
    BY <1>0, <1>2, ListedType DEF PollList
  <2> QED BY <1>0, <1>2, <2>1, MoveStep DEF PollList, TypeOK
<1> QED BY <1>1, <1>2, GoneStep DEF Stopped, Crash

\* Workers whose contexts end keep their jobs (Stop, Timeout, CancelHit).
LEMMA CutStep ==
  ASSUME IInv, wrk' \in [Workers -> WorkerState],
         \A w \in Workers : wrk'[w].id = wrk[w].id /\ wrk'[w].pc = wrk[w].pc,
         UNCHANGED <<row, created, jobs, active, poll, enq, faults, runs, lost>>,
         phase' \in {"down", "running", "stopping"},
         canc' \in CancelState, canc' = NoCancel \/ canc'.id = canc.id,
         canc'.id = 0 <=> canc'.pc = "idle"
  PROVE  IInv'
<1>0. TypeOK /\ RowsKnown /\ ActorsHold /\ CancelledStarted /\ ActiveJobsAreWorked
      /\ ProcessingHasFFmpeg
  BY DEF IInv
<1>1. TypeOK'
  BY <1>0 DEF TypeOK
<1>2. RowsKnown' /\ ActiveJobsAreWorked'
  BY <1>0 DEF TypeOK, RowsKnown, ActiveJobsAreWorked
<1>3. ActorsHold'
  BY <1>0, QueueAssumption DEF TypeOK, ActorsHold, NoCancel
<1>4. CancelledStarted'
  BY <1>0 DEF RowsKnown, CancelledStarted, NoCancel
<1>5. ProcessingHasFFmpeg'
  BY <1>0 DEF ProcessingHasFFmpeg, FFmpegOrLost
<1> QED BY <1>1, <1>2, <1>3, <1>4, <1>5 DEF IInv

\* Stop and Timeout end contexts, CancelHit the one it finds.
LEMMA CutsKeep ==
  ASSUME IInv, Stop \/ CancelHit \/ \E w \in Workers : Timeout(w) PROVE IInv'
<1>0. TypeOK /\ ActorsHold
  BY DEF IInv
<1>1. \A w \in Workers : \A b \in BOOLEAN :
         /\ [wrk[w] EXCEPT !.cut = b] \in WorkerState
         /\ [wrk[w] EXCEPT !.cut = b].id = wrk[w].id
         /\ [wrk[w] EXCEPT !.cut = b].pc = wrk[w].pc
  BY <1>0 DEF TypeOK, WorkerState
<1>2. canc \in CancelState /\ (canc.id = 0 <=> canc.pc = "idle")
  BY <1>0 DEF TypeOK, ActorsHold
<1>3. CASE Stop
  BY <1>0, <1>1, <1>2, <1>3, CutStep DEF Stop
<1>4. ASSUME NEW v \in Workers, wrk' = [wrk EXCEPT ![v].cut = TRUE]
      PROVE /\ wrk' \in [Workers -> WorkerState]
            /\ \A w \in Workers : wrk'[w].id = wrk[w].id /\ wrk'[w].pc = wrk[w].pc
  <2>1. wrk' = [wrk EXCEPT ![v] = [wrk[v] EXCEPT !.cut = TRUE]]
    BY <1>0, <1>4 DEF TypeOK
  <2> QED BY <1>0, <1>1, <2>1 DEF TypeOK
<1>5. ASSUME NEW w \in Workers, Timeout(w) PROVE IInv'
  BY <1>0, <1>2, <1>4, <1>5, CutStep DEF Timeout, TypeOK
<1>6. CASE CancelHit
  <2>1. canc.id \in Ids
    BY <1>2, <1>6, QueueAssumption DEF CancelHit, CancelState, Ids
  <2>2. active[canc.id] # NoWorker => active[canc.id] \in Workers
    BY <1>0, <2>1 DEF TypeOK
  <2>3. NoCancel \in CancelState /\ (NoCancel.id = 0 <=> NoCancel.pc = "idle")
    BY QueueAssumption DEF NoCancel, CancelState
  <2>4. CASE active[canc.id] = NoWorker
    BY <1>0, <1>6, <2>3, <2>4, CutStep DEF CancelHit, TypeOK
  <2>5. CASE active[canc.id] # NoWorker
    <3>1. /\ wrk' = [wrk EXCEPT ![active[canc.id]].cut = TRUE]
          /\ canc' = [canc EXCEPT !.pc = "write"]
      BY <1>6, <2>5 DEF CancelHit
    <3>2. canc' \in CancelState /\ canc'.id = canc.id /\ canc'.pc = "write"
      BY <1>2, <3>1 DEF CancelState
    <3>3. canc.id # 0
      BY <1>2, <1>6 DEF CancelHit
    <3> QED BY <1>0, <1>4, <1>6, <2>2, <2>5, <3>1, <3>2, <3>3, CutStep DEF CancelHit, TypeOK
  <2> QED BY <2>4, <2>5
<1> QED BY <1>3, <1>5, <1>6

\* CreateJob gives out a new id, which no actor holds.
LEMMA CreateKeeps == ASSUME IInv, NEW q \in Keys, CreateJob(q) PROVE IInv'
<1> USE QueueAssumption
<1>0. TypeOK /\ RowsKnown /\ ActorsHold /\ CancelledStarted /\ ActiveJobsAreWorked
      /\ ProcessingHasFFmpeg
  BY DEF IInv
<1>1. created + 1 \in Ids /\ created \in Nat /\ created' = created + 1
  BY <1>0 DEF CreateJob, TypeOK, Ids
<1>2. FreshRow(q) = [id |-> created + 1, st |-> "queued"] /\ FreshRow(q) \in RowState
  BY <1>1 DEF FreshRow, RowState, Ids
<1>3. row' = [row EXCEPT ![q] = FreshRow(q)]
  BY DEF CreateJob
<1>4. row' \in [Keys -> RowState] /\ row'[q] = FreshRow(q)
      /\ \A k \in Keys \ {q} : row'[k] = row[k]
  BY <1>0, <1>2, <1>3 DEF TypeOK
<1>5. \A k \in Keys : row[k].id \in 0 .. MaxJobs /\ row[k].id <= created
  BY <1>0 DEF TypeOK, RowState, RowsKnown
<1>6. TypeOK'
  <2>1. enq' \in 0 .. MaxJobs
    BY <1>1, <1>2, <1>4 DEF CreateJob, Ids
  <2>2. lost' \subseteq Ids
    BY <1>0 DEF CreateJob, TypeOK
  <2>3. created' \in 0 .. MaxJobs
    BY <1>1 DEF Ids
  <2> QED BY <1>0, <1>4, <2>1, <2>2, <2>3 DEF CreateJob, TypeOK
<1>7. RowsKnown'
  <2>1. \A k \in Keys : row'[k].id <= created' /\ (row'[k].id = 0 <=> row'[k].st = "none")
    BY <1>0, <1>1, <1>2, <1>4, <1>5 DEF RowsKnown
  <2>2. \A k \in Keys \ {q} : row'[k].id # row'[q].id
    BY <1>1, <1>2, <1>4, <1>5
  <2>3. \A k, l \in Keys : row'[k].id = row'[l].id => k = l \/ row'[k].id = 0
    BY <1>0, <1>4, <2>2 DEF RowsKnown
  <2> QED BY <2>1, <2>3 DEF RowsKnown
<1>8. ActorsHold' /\ ActiveJobsAreWorked'
  BY <1>0, <1>1 DEF CreateJob, TypeOK, CancelState, ActorsHold, ActiveJobsAreWorked
<1>9. CancelledStarted'
  <2>1. row'[q].id # canc.id
    BY <1>0, <1>1, <1>2, <1>4 DEF ActorsHold, TypeOK, CancelState
  <2> QED BY <1>0, <1>4, <2>1 DEF CancelledStarted, CreateJob
<1>10. ProcessingHasFFmpeg'
  <2>1. \A k \in Keys \ {q} : row[k].st = "processing" => row[k].id # row[q].id
    BY <1>0 DEF RowsKnown
  <2>2. ASSUME NEW k \in Keys \ {q}, row'[k].st = "processing" PROVE FFmpegOrLost(k)'
    BY <1>0, <1>4, <2>1, <2>2 DEF ProcessingHasFFmpeg, FFmpegOrLost, CreateJob
  <2> QED BY <1>2, <1>4, <2>2 DEF ProcessingHasFFmpeg
<1> QED BY <1>6, <1>7, <1>8, <1>9, <1>10 DEF IInv

\* A deleted row leaves the others as they are.
LEMMA CleanKeeps == ASSUME IInv, NEW q \in Keys, CleanDelete(q) PROVE IInv'
<1> USE QueueAssumption
<1>0. TypeOK /\ RowsKnown /\ ActorsHold /\ CancelledStarted /\ ActiveJobsAreWorked
      /\ ProcessingHasFFmpeg
  BY DEF IInv
<1>1. NoRow \in RowState /\ NoRow.id = 0 /\ NoRow.st = "none"
  BY DEF NoRow, RowState
<1>2. row' \in [Keys -> RowState] /\ row'[q] = NoRow
      /\ \A k \in Keys \ {q} : row'[k] = row[k]
  BY <1>0, <1>1 DEF CleanDelete, TypeOK
<1>3. TypeOK'
  BY <1>0, <1>2 DEF CleanDelete, TypeOK
<1>4. RowsKnown'
  BY <1>0, <1>1, <1>2 DEF CleanDelete, TypeOK, RowsKnown
<1>5. ActorsHold' /\ ActiveJobsAreWorked'
  BY <1>0 DEF CleanDelete, ActorsHold, ActiveJobsAreWorked
<1>6. CancelledStarted'
  BY <1>0, <1>1, <1>2 DEF CleanDelete, CancelledStarted
<1>7. ProcessingHasFFmpeg'
  <2>1. \A k \in Keys \ {q} : row[k].st = "processing" => row[k].id # row[q].id
    BY <1>0 DEF RowsKnown
  <2>2. ASSUME NEW k \in Keys \ {q}, row'[k].st = "processing" PROVE FFmpegOrLost(k)'
    BY <1>0, <1>2, <2>1, <2>2 DEF ProcessingHasFFmpeg, FFmpegOrLost, CleanDelete
  <2> QED BY <1>1, <1>2, <2>2 DEF ProcessingHasFFmpeg
<1> QED BY <1>3, <1>4, <1>5, <1>6, <1>7 DEF IInv

\* A worker registers the job it takes: it had none, so no entry was its own.
LEMMA TakeKeeps == ASSUME IInv, NEW v \in Workers, Take(v) PROVE IInv'
<1> USE QueueAssumption
<1>0. TypeOK /\ RowsKnown /\ ActorsHold /\ CancelledStarted /\ ActiveJobsAreWorked
      /\ ProcessingHasFFmpeg
  BY DEF IInv
<1> DEFINE j == Head(jobs)
           new == [pc |-> "file", id |-> j, cut |-> phase # "running"]
<1>1. j \in Ids /\ Tail(jobs) \in Seq(Ids) /\ Len(Tail(jobs)) <= Cap
  BY <1>0 DEF Take, TypeOK
<1>2. wrk' = [wrk EXCEPT ![v] = new] /\ active' = [active EXCEPT ![j] = v]
  BY DEF Take
<1>3. new \in WorkerState /\ new.id = j /\ new.pc = "file" /\ j # 0
  BY <1>1 DEF WorkerState, Ids
<1> HIDE DEF j, new
<1>4. wrk' \in [Workers -> WorkerState] /\ wrk'[v] = new
      /\ \A w \in Workers \ {v} : wrk'[w] = wrk[w]
  BY <1>0, <1>2, <1>3 DEF TypeOK
<1>5. active' \in [Ids -> Workers \cup {NoWorker}] /\ active'[j] = v
      /\ \A i \in Ids \ {j} : active'[i] = active[i]
  BY <1>0, <1>1, <1>2 DEF TypeOK
<1>6. TypeOK'
  BY <1>0, <1>1, <1>4, <1>5 DEF Take, TypeOK
<1>7. RowsKnown' /\ CancelledStarted'
  BY <1>0 DEF Take, RowsKnown, CancelledStarted
<1>8. ActorsHold'
  BY <1>0, <1>3, <1>4 DEF Take, ActorsHold
<1>9. wrk[v].id = 0 /\ wrk[v].pc = "idle"
  BY <1>0 DEF Take, ActorsHold
<1>10. ActiveJobsAreWorked'
  <2> SUFFICES ASSUME NEW i \in Ids, active'[i] # NoWorker PROVE wrk'[active'[i]].id = i
    BY DEF ActiveJobsAreWorked
  <2>1. CASE i = j
    BY <1>3, <1>4, <1>5, <2>1
  <2>2. CASE i # j
    <3>1. active[i] = active'[i] /\ active[i] \in Workers /\ wrk[active[i]].id = i
      BY <1>0, <1>5, <2>2 DEF ActiveJobsAreWorked, TypeOK
    <3>2. active[i] # v
      BY <1>9, <3>1 DEF Ids
    <3> QED BY <1>4, <3>1, <3>2
  <2> QED BY <2>1, <2>2
<1>11. ProcessingHasFFmpeg'
  BY <1>0, <1>4, <1>9 DEF Take, ProcessingHasFFmpeg, FFmpegOrLost
<1> QED BY <1>6, <1>7, <1>8, <1>10, <1>11 DEF IInv

\* A worker that leaves takes the entry of its job with it: what is registered
\* for other jobs belongs to other workers.
LEMMA LeaveKeeps == ASSUME IInv, NEW v \in Workers, Leave(v) PROVE IInv'
<1> USE QueueAssumption
<1>0. TypeOK /\ RowsKnown /\ ActorsHold /\ CancelledStarted /\ ActiveJobsAreWorked
      /\ ProcessingHasFFmpeg
  BY DEF IInv
<1>1. wrk[v].id \in Ids /\ wrk[v].pc = "leave"
  BY <1>0 DEF Leave, TypeOK, WorkerState, ActorsHold, Ids
<1>2. Resting \in WorkerState /\ Resting.id = 0 /\ Resting.pc = "idle"
  BY DEF Resting, WorkerState
<1>3. wrk' \in [Workers -> WorkerState] /\ wrk'[v] = Resting
      /\ \A w \in Workers \ {v} : wrk'[w] = wrk[w]
  BY <1>0, <1>2 DEF Leave, TypeOK
<1>4. active' \in [Ids -> Workers \cup {NoWorker}] /\ active'[wrk[v].id] = NoWorker
      /\ \A i \in Ids \ {wrk[v].id} : active'[i] = active[i]
  BY <1>0, <1>1 DEF Leave, Deregistered, TypeOK
<1>5. TypeOK'
  BY <1>0, <1>3, <1>4 DEF Leave, TypeOK
<1>6. RowsKnown' /\ CancelledStarted'
  BY <1>0 DEF Leave, RowsKnown, CancelledStarted
<1>7. ActorsHold'
  BY <1>0, <1>2, <1>3 DEF Leave, ActorsHold
<1>8. ActiveJobsAreWorked'
  <2> SUFFICES ASSUME NEW i \in Ids, active'[i] # NoWorker PROVE wrk'[active'[i]].id = i
    BY DEF ActiveJobsAreWorked
  <2>1. i # wrk[v].id /\ active[i] = active'[i]
    BY <1>4
  <2>2. active[i] \in Workers /\ wrk[active[i]].id = i
    BY <1>0, <2>1 DEF ActiveJobsAreWorked, TypeOK
  <2> QED BY <1>3, <2>1, <2>2
<1>9. ProcessingHasFFmpeg'
  BY <1>0, <1>1, <1>3 DEF Leave, ProcessingHasFFmpeg, FFmpegOrLost
<1> QED BY <1>5, <1>6, <1>7, <1>8, <1>9 DEF IInv

\* A write about its job by a worker, which goes on with FFmpeg or is done with
\* the job: the result is stored, or the row counts as lost.
LEMMA WorkerWrite ==
  ASSUME IInv, NEW v \in Workers, NEW st \in Outcomes, NEW over \in BOOLEAN,
         Store(wrk[v].id, st, over), wrk[v].pc # "idle",
         wrk' \in [Workers -> WorkerState], wrk'[v].id = wrk[v].id,
         wrk'[v].pc = IF st = "processing" THEN "ffmpeg" ELSE "leave",
         \A w \in Workers \ {v} : wrk'[w] = wrk[w],
         UNCHANGED <<created, phase, jobs, active, poll, enq, canc, runs>>
  PROVE  IInv'
<1> DEFINE j == wrk[v].id
<1>0. TypeOK /\ RowsKnown /\ ActorsHold /\ CancelledStarted /\ ActiveJobsAreWorked
      /\ ProcessingHasFFmpeg
  BY DEF IInv
<1>1. j \in Ids
  BY <1>0, QueueAssumption DEF TypeOK, WorkerState, ActorsHold, Ids
<1>2. /\ row' \in [Keys -> RowState] /\ faults' \in 0 .. MaxFaults /\ lost' \subseteq Ids
      /\ \A k \in Keys : row'[k].id = row[k].id
      /\ \A k \in Keys : row'[k] = row[k] \/ (row[k].id = j /\ row'[k].st = st)
      /\ \A k \in Keys : row'[k].st = "processing" =>
            \/ row[k].id = j /\ (st = "processing" \/ j \in lost')
            \/ row[k].id # j /\ row[k].st = "processing"
               /\ (row[k].id \in lost => row[k].id \in lost')
  BY <1>0, <1>1, StoreEffect
<1>3. TypeOK'
  BY <1>0, <1>2 DEF TypeOK
<1>4. RowsKnown'
  BY <1>0, <1>1, <1>2 DEF RowsKnown, Outcomes, Ids
<1>5. ActorsHold' /\ ActiveJobsAreWorked'
  BY <1>0 DEF TypeOK, ActorsHold, ActiveJobsAreWorked
<1>6. CancelledStarted'
  BY <1>0, <1>2 DEF CancelledStarted, Outcomes
<1>7. ProcessingHasFFmpeg'
  <2> SUFFICES ASSUME NEW k \in Keys, row'[k].st = "processing" PROVE FFmpegOrLost(k)'
    BY DEF ProcessingHasFFmpeg
  <2>1. CASE row[k].id = j
    BY <1>2, <2>1 DEF FFmpegOrLost
  <2>2. CASE row[k].id # j
    <3>1. row[k].st = "processing" /\ (row[k].id \in lost => row[k].id \in lost')
          /\ row'[k].id = row[k].id
      BY <1>2, <2>2
    <3>2. FFmpegOrLost(k)
      BY <1>0, <3>1 DEF ProcessingHasFFmpeg
    <3> QED BY <2>2, <3>1, <3>2 DEF FFmpegOrLost
  <2> QED BY <2>1, <2>2
<1> QED BY <1>3, <1>4, <1>5, <1>6, <1>7 DEF IInv

\* The steps of a worker that write: Refuse, Begin, Progress and FFmpegEnds.
LEMMA WritesKeep ==
  ASSUME IInv, NEW v \in Workers,
         Refuse(v) \/ Begin(v) \/ Progress(v) \/ FFmpegEnds(v)
  PROVE  IInv'
<1>0. wrk \in [Workers -> WorkerState] /\ faults \in 0 .. MaxFaults
  BY DEF IInv, TypeOK
<1>1. wrk[v].cut \in BOOLEAN
  BY <1>0 DEF WorkerState
<1>2. [wrk[v] EXCEPT !.pc = "leave", !.cut = TRUE] \in WorkerState
      /\ [wrk[v] EXCEPT !.pc = "leave", !.cut = TRUE].id = wrk[v].id
      /\ [wrk[v] EXCEPT !.pc = "leave", !.cut = TRUE].pc = "leave"
      /\ [wrk[v] EXCEPT !.pc = "ffmpeg"] \in WorkerState
      /\ [wrk[v] EXCEPT !.pc = "ffmpeg"].id = wrk[v].id
      /\ [wrk[v] EXCEPT !.pc = "ffmpeg"].pc = "ffmpeg"
  BY <1>0 DEF WorkerState
<1>3. ASSUME wrk' = Leaving(v)
      PROVE  /\ wrk' \in [Workers -> WorkerState] /\ wrk'[v].id = wrk[v].id
             /\ wrk'[v].pc = "leave" /\ \A w \in Workers \ {v} : wrk'[w] = wrk[w]
  <2>1. wrk' = [wrk EXCEPT ![v] = [wrk[v] EXCEPT !.pc = "leave", !.cut = TRUE]]
    BY <1>0, <1>3 DEF Leaving
  <2> QED BY <1>0, <1>2, <2>1
<1>4. ASSUME wrk' = At(v, "ffmpeg")
      PROVE  /\ wrk' \in [Workers -> WorkerState] /\ wrk'[v].id = wrk[v].id
             /\ wrk'[v].pc = "ffmpeg" /\ \A w \in Workers \ {v} : wrk'[w] = wrk[w]
  <2>1. wrk' = [wrk EXCEPT ![v] = [wrk[v] EXCEPT !.pc = "ffmpeg"]]
    BY <1>0, <1>4 DEF At
  <2> QED BY <1>0, <1>2, <2>1
<1>5. CASE Refuse(v)
  <2>1. "failed" \in Outcomes /\ Store(wrk[v].id, "failed", wrk[v].cut) /\ wrk[v].pc # "idle"
    BY <1>5 DEF Refuse, Outcomes
  <2> QED BY <1>1, <1>3, <1>5, <2>1, WorkerWrite DEF Refuse
<1>6. CASE Begin(v)
  <2>1. "processing" \in Outcomes /\ Store(wrk[v].id, "processing", wrk[v].cut)
        /\ wrk[v].pc # "idle"
    BY <1>6 DEF Begin, Outcomes
  <2> QED BY <1>1, <1>4, <1>6, <2>1, WorkerWrite DEF Begin
<1>7. CASE Progress(v)
  <2>1. "processing" \in Outcomes /\ Store(wrk[v].id, "processing", FALSE)
        /\ wrk[v].pc = "ffmpeg" /\ wrk' = wrk
    BY <1>7 DEF Progress, Store, Outcomes
  <2> QED BY <1>0, <1>7, <2>1, WorkerWrite DEF Progress
<1>8. CASE FFmpegEnds(v)
  <2>1. PICK st \in Ends : Store(wrk[v].id, st, wrk[v].cut)
    BY <1>8 DEF FFmpegEnds
  <2>2. st \in Outcomes /\ st # "processing" /\ wrk[v].pc # "idle"
    BY <1>8 DEF FFmpegEnds, Ends, Outcomes
  <2> QED BY <1>1, <1>3, <1>8, <2>1, <2>2, WorkerWrite DEF FFmpegEnds
<1> QED BY <1>5, <1>6, <1>7, <1>8

\* A cancellation reads a row in processing and stores a failure.
LEMMA CancelKeeps ==
  ASSUME IInv, CancelWrite \/ \E c \in {"api", "idle"}, k \in Keys : CancelRead(c, k)
  PROVE  IInv'
<1> USE QueueAssumption
<1>0. TypeOK /\ RowsKnown /\ ActorsHold /\ CancelledStarted /\ ActiveJobsAreWorked
      /\ ProcessingHasFFmpeg
  BY DEF IInv
<1>1. ASSUME NEW c \in {"api", "idle"}, NEW q \in Keys, CancelRead(c, q) PROVE IInv'
  <2>1. canc' = [pc |-> "found", id |-> row[q].id, by |-> c] /\ row[q].st = "processing"
    BY <1>1 DEF CancelRead
  <2>2. row[q].id \in Ids /\ row[q].id <= created
    BY <1>0, <2>1 DEF TypeOK, RowState, RowsKnown, Ids
  <2>3. canc' \in CancelState /\ canc'.id = row[q].id /\ canc'.pc = "found"
    BY <2>1, <2>2 DEF CancelState, Ids
  <2>4. UNCHANGED <<row, created, phase, jobs, wrk, active, poll, enq, faults, runs, lost>>
    BY <1>1 DEF CancelRead
  <2>5. TypeOK' /\ RowsKnown' /\ ActiveJobsAreWorked' /\ ProcessingHasFFmpeg'
    BY <1>0, <2>3, <2>4 DEF TypeOK, RowsKnown, ActiveJobsAreWorked, ProcessingHasFFmpeg,
                            FFmpegOrLost
  <2>6. ActorsHold'
    BY <1>0, <2>2, <2>3, <2>4 DEF ActorsHold, Ids
  <2>7. CancelledStarted'
    BY <1>0, <2>1, <2>2, <2>3, <2>4 DEF CancelledStarted, RowsKnown, Ids
  <2> QED BY <2>5, <2>6, <2>7 DEF IInv
<1>2. CASE CancelWrite
  <2> DEFINE over == canc.by = "idle" /\ phase # "running"
  <2>1. canc.id \in Ids /\ "failed" \in Outcomes /\ over \in BOOLEAN
    BY <1>0, <1>2 DEF CancelWrite, TypeOK, CancelState, ActorsHold, Ids, Outcomes
  <2>2. Store(canc.id, "failed", over)
    BY <1>2 DEF CancelWrite
  <2>3. canc' = NoCancel
        /\ UNCHANGED <<created, phase, jobs, wrk, active, poll, enq, runs>>
    BY <1>2 DEF CancelWrite
  <2> HIDE DEF over
  <2>4. /\ row' \in [Keys -> RowState] /\ faults' \in 0 .. MaxFaults /\ lost' \subseteq Ids
        /\ \A k \in Keys : row'[k].id = row[k].id
        /\ \A k \in Keys : row'[k] = row[k] \/ (row[k].id = canc.id /\ row'[k].st = "failed")
        /\ \A k \in Keys : row'[k].st = "processing" =>
              \/ row[k].id = canc.id /\ ("failed" = "processing" \/ canc.id \in lost')
              \/ row[k].id # canc.id /\ row[k].st = "processing"
                 /\ (row[k].id \in lost => row[k].id \in lost')
    BY <1>0, <2>1, <2>2, StoreEffect
  <2>5. NoCancel \in CancelState /\ NoCancel.id = 0 /\ NoCancel.pc = "idle"
    BY DEF NoCancel, CancelState
  <2>6. TypeOK'
    BY <1>0, <2>3, <2>4, <2>5 DEF TypeOK
  <2>7. RowsKnown'
    BY <1>0, <2>1, <2>3, <2>4 DEF RowsKnown, Ids
  <2>8. ActorsHold' /\ ActiveJobsAreWorked'
    BY <1>0, <2>3, <2>5 DEF TypeOK, ActorsHold, ActiveJobsAreWorked
  <2>9. CancelledStarted'
    BY <2>3, <2>5, <2>7 DEF CancelledStarted, RowsKnown
  <2>10. ProcessingHasFFmpeg'
    BY <1>0, <2>3, <2>4 DEF ProcessingHasFFmpeg, FFmpegOrLost
  <2> QED BY <2>6, <2>7, <2>8, <2>9, <2>10 DEF IInv
<1> QED BY <1>1, <1>2

\* Every step keeps the invariant.
LEMMA InvStep == IInv /\ [Next]_vars => IInv'
<1> SUFFICES ASSUME IInv, [Next]_vars PROVE IInv'
  OBVIOUS
<1>1. CASE UNCHANGED vars
  BY <1>1 DEF vars, IInv, TypeOK, RowsKnown, ActorsHold, CancelledStarted,
              ActiveJobsAreWorked, ProcessingHasFFmpeg, FFmpegOrLost
<1>2. ASSUME NEW w \in Workers, WorkerStep(w) PROVE IInv'
  BY <1>2, TakeKeeps, LeaveKeeps, WritesKeep, CutsKeep DEF WorkerStep
<1> QED
  BY <1>1, <1>2, ProcessKeeps, SendsKeep, CutsKeep, CreateKeeps, CleanKeeps, CancelKeeps DEF Next

-----------------------------------------------------------------------------
(***************************************************************************)
(* The theorems.                                                           *)
(***************************************************************************)

\* Rows, channel and actors keep their types, and jobChan its capacity,
\* whoever sends, stops, crashes or cleans up (JobQueue).
THEOREM QueueTypes == Spec => []TypeOK
<1>1. IInv => TypeOK
  BY DEF IInv
<1> QED BY InvInit, InvStep, <1>1, PTL DEF Spec

\* A registered cancel function belongs to a worker that still has that job
\* (processJob and CancelJob), though workers overwrite each other's entries.
THEOREM ActiveWorked == Spec => []ActiveJobsAreWorked
<1>1. IInv => ActiveJobsAreWorked
  BY DEF IInv
<1> QED BY InvInit, InvStep, <1>1, PTL DEF Spec

\* A row in processing has a worker on it unless a write about it was not
\* stored (Execute, the progress handler, CancelJob, Clean).
THEOREM ProcessingWorked == Spec => []ProcessingHasWorker
<1>1. IInv => ProcessingHasWorker
  BY DEF IInv, ProcessingHasFFmpeg, FFmpegOrLost, ProcessingHasWorker, Worked
<1> QED BY InvInit, InvStep, <1>1, PTL DEF Spec

\* What one step may do to a queued row that stays in the table: nobody changes
\* it but a worker that holds it.
LEMMA QueuedRowStep ==
  ASSUME IInv, [Next]_vars, NEW k \in Keys, row[k].st = "queued",
         row'[k].id = row[k].id, row'[k].st # "queued"
  PROVE  Worked(row[k].id)
<1> USE QueueAssumption
<1>0. TypeOK /\ RowsKnown /\ ActorsHold /\ CancelledStarted
  BY DEF IInv
<1>1. row[k].id \in Ids /\ row'[k] # row[k]
  BY <1>0 DEF TypeOK, RowState, RowsKnown, Ids
<1>2. ASSUME NEW q \in Keys, CreateJob(q) PROVE FALSE
  <2>1. row' = [row EXCEPT ![q] = FreshRow(q)] /\ FreshRow(q).id = created + 1
    BY <1>2 DEF CreateJob, FreshRow
  <2>2. q = k => row'[k].id = created + 1
    BY <1>0, <2>1 DEF TypeOK
  <2>3. row[k].id <= created /\ created \in Nat /\ row[k].id \in Nat
    BY <1>0, <1>1 DEF TypeOK, RowsKnown, Ids
  <2> QED BY <1>0, <1>1, <2>1, <2>2, <2>3 DEF TypeOK
<1>3. ASSUME NEW q \in Keys, CleanDelete(q) PROVE FALSE
  <2>1. row' = [row EXCEPT ![q] = NoRow] /\ NoRow.id = 0
    BY <1>3 DEF CleanDelete, NoRow
  <2>2. row'[k] = IF q = k THEN NoRow ELSE row[k]
    BY <1>0, <2>1 DEF TypeOK
  <2> QED BY <1>1, <2>1, <2>2 DEF Ids
<1>4. ASSUME NEW w \in Workers, WorkerStep(w) PROVE wrk[w].id = row[k].id
  <2>1. CASE Refuse(w) \/ Begin(w) \/ FFmpegEnds(w)
    <3>1. wrk[w].id \in Ids /\ wrk[w].cut \in BOOLEAN
      BY <1>0, <2>1 DEF Refuse, Begin, FFmpegEnds, TypeOK, WorkerState, ActorsHold, Ids
    <3>2. \E st \in Outcomes : Store(wrk[w].id, st, wrk[w].cut)
      BY <2>1 DEF Refuse, Begin, FFmpegEnds, Ends, Outcomes
    <3> QED BY <1>0, <1>1, <3>1, <3>2, StoreEffect
  <2>2. CASE Progress(w)
    BY <1>1, <2>2 DEF Progress, Updated
  <2>3. CASE Take(w) \/ Timeout(w) \/ Leave(w)
    BY <1>1, <2>3 DEF Take, Timeout, Leave
  <2> QED BY <1>4, <2>1, <2>2, <2>3 DEF WorkerStep
<1>5. CASE CancelWrite
  <2> DEFINE over == canc.by = "idle" /\ phase # "running"
  <2>1. canc.id \in Ids /\ "failed" \in Outcomes /\ over \in BOOLEAN
    BY <1>0, <1>5 DEF CancelWrite, TypeOK, CancelState, ActorsHold, Ids, Outcomes
  <2>2. Store(canc.id, "failed", over)
    BY <1>5 DEF CancelWrite
  <2> HIDE DEF over
  <2>3. row[k].id = canc.id
    BY <1>0, <1>1, <2>1, <2>2, StoreEffect
  <2> QED BY <1>0, <2>3 DEF CancelledStarted
<1>6. CASE Start \/ Stop \/ Stopped \/ Crash \/ EnqueueSend \/ PollList \/ PollSend \/ CancelHit
  BY <1>1, <1>6 DEF Start, Stop, Stopped, Crash, ProcessGone, EnqueueSend, PollList, PollSend,
                    TrySend, CancelHit
<1>7. ASSUME NEW c \in {"api", "idle"}, NEW q \in Keys, CancelRead(c, q) PROVE FALSE
  BY <1>1, <1>7 DEF CancelRead
<1>8. CASE UNCHANGED vars
  BY <1>1, <1>8 DEF vars
<1> QED BY <1>2, <1>3, <1>4, <1>5, <1>6, <1>7, <1>8 DEF Next, Worked

\* A queued row changes its status only when a worker has taken that very row:
\* late writes about an earlier attempt do not reach it (CreateJob, Execute,
\* CancelJob).
THEOREM CopiesKeepOff == Spec => OldCopiesKeepOff
<1>1. IInv /\ [Next]_vars =>
        [\A k \in Keys :
           (row[k].st = "queued" /\ row'[k].id = row[k].id /\ row'[k].st # "queued")
              => Worked(row[k].id)]_vars
  BY QueuedRowStep
<1> QED BY InvInit, InvStep, <1>1, PTL DEF Spec, OldCopiesKeepOff
=============================================================================
