--------------------------- MODULE TranscodeQueue ---------------------------
(***************************************************************************)
(* The transcode job queue: src/internal/application/transcode/queue.go    *)
(* with the executor its workers call (job_executor.go), the requests that *)
(* create and cancel jobs, the idle monitor and the cleanup of job rows.   *)
(*                                                                         *)
(* A job row belongs to a key, a media item at a quality, of which there   *)
(* is one row (UNIQUE(media_id, quality)).  What travels through the       *)
(* channel, a poll, a worker and a cancellation is a copy of the row: of a *)
(* copy only the row id matters, since a copy is queued until its worker   *)
(* starts FFmpeg and processing from then on.  Nobody claims a row.        *)
(***************************************************************************)
EXTENDS Naturals, Sequences, FiniteSets, Functions

CONSTANTS Keys,       \* media items at a quality
          Workers,    \* worker goroutines of the pool
          Cap,        \* capacity of jobChan
          MaxJobs,    \* bound: rows ever created
          MaxFaults,  \* bound: database writes that fail
          MaxRuns     \* bound: starts of the process

ASSUME QueueAssumption ==
    /\ Keys # {} /\ IsFiniteSet(Workers) /\ Workers # {}
    /\ Cap \in Nat \ {0}
    /\ MaxJobs \in Nat /\ MaxFaults \in Nat /\ MaxRuns \in Nat

VARIABLES row,      \* the rows of transcode_jobs, by key
          created,  \* the last row id given out
          phase,    \* the life of the queue: see TypeOK
          jobs,     \* jobChan: copies waiting for a worker
          wrk,      \* what each worker does
          active,   \* activeJobs: by row id, the worker whose context is kept
          poll,     \* the copies the poller has still to send
          enq,      \* the row id a request has created and is to enqueue, or 0
          canc,     \* the cancellation under way, if any
          faults,   \* writes that have failed so far
          runs,     \* starts so far
          lost      \* auxiliary: rows whose last write was not stored

vars == <<row, created, phase, jobs, wrk, active, poll, enq, canc, faults, runs, lost>>

Ids == 1 .. MaxJobs
NoRow == [id |-> 0, st |-> "none"]
NoWorker == "nobody"
Resting == [pc |-> "idle", id |-> 0, cut |-> FALSE]
NoCancel == [pc |-> "idle", id |-> 0, by |-> "api"]

RowState == [id : 0 .. MaxJobs,
             st : {"none", "queued", "processing", "completed", "failed"}]
WorkerState == [pc : {"idle", "file", "ffmpeg", "leave"}, id : 0 .. MaxJobs, cut : BOOLEAN]
CancelState == [pc : {"idle", "found", "write"}, id : 0 .. MaxJobs, by : {"api", "idle"}]

(***************************************************************************)
(* Every variable has its type: rows, channel within its capacity, workers *)
(* with the job they hold, actors with the row id they carry.              *)
(***************************************************************************)
TypeOK ==
    /\ row \in [Keys -> RowState]
    /\ created \in 0 .. MaxJobs
    /\ phase \in {"down", "running", "stopping"}
    /\ jobs \in Seq(Ids) /\ Len(jobs) <= Cap
    /\ wrk \in [Workers -> WorkerState]
    /\ active \in [Ids -> Workers \cup {NoWorker}]
    /\ poll \in Seq(Ids)
    /\ enq \in 0 .. MaxJobs
    /\ canc \in CancelState
    /\ faults \in 0 .. MaxFaults /\ runs \in 0 .. MaxRuns
    /\ lost \subseteq Ids

Init ==
    /\ row = [k \in Keys |-> NoRow] /\ created = 0
    /\ phase = "down" /\ jobs = << >>
    /\ wrk = [w \in Workers |-> Resting]
    /\ active = [j \in Ids |-> NoWorker]
    /\ poll = << >> /\ enq = 0
    /\ canc = NoCancel
    /\ faults = 0 /\ runs = 0 /\ lost = {}

-----------------------------------------------------------------------------
(***************************************************************************)
(* The table.                                                              *)
(***************************************************************************)

\* The ids of the rows with a status.
With(st) == {row[k].id : k \in {x \in Keys : row[x].st = st}}

\* The ids of the rows there are.
RowIds == {row[k].id : k \in Keys} \ {0}

\* UPDATE transcode_jobs SET status = st, ... WHERE id = j: no row, no effect.
Updated(j, st) ==
    [k \in Keys |-> IF row[k].id = j THEN [row[k] EXCEPT !.st = st] ELSE row[k]]

\* The auxiliary lost after a write about row j that was stored, or was not.
LostAfter(j, stored) ==
    IF stored THEN lost \ {j} ELSE lost \cup ({j} \cap RowIds)

\* repo.Update under a context: a context that is over stores nothing, and the
\* database may fail.
Store(j, st, over) ==
    \/ /\ ~over
       /\ row' = Updated(j, st) /\ lost' = LostAfter(j, TRUE) /\ UNCHANGED faults
    \/ /\ over
       /\ lost' = LostAfter(j, FALSE) /\ UNCHANGED <<row, faults>>
    \/ /\ ~over /\ faults < MaxFaults
       /\ faults' = faults + 1 /\ lost' = LostAfter(j, FALSE) /\ UNCHANGED row

\* (mutant: as many rows as the channel holds, less one)
LimitForRoom == IF Cardinality(With("queued")) < Cap THEN Cardinality(With("queued"))
                                                     ELSE Cap - 1

\* LIMIT of the query: the number of workers.
Limit == IF Cardinality(With("queued")) < Cardinality(Workers)
         THEN Cardinality(With("queued")) ELSE Cardinality(Workers)

\* ListQueuedJobs: the oldest queued rows, oldest first.
Listed ==
    {s \in [1 .. Limit -> With("queued")] :
        /\ \A a, b \in 1 .. Limit : a < b => s[a] < s[b]
        /\ \A q \in With("queued") : q \in Range(s) \/ \A a \in 1 .. Limit : s[a] < q}

-----------------------------------------------------------------------------
(***************************************************************************)
(* The process and the queue: Start, Stop, a crash.                        *)
(***************************************************************************)

\* What is in memory is gone; what a worker had to say of its job is lost.
ProcessGone ==
    /\ phase' = "down" /\ jobs' = << >>
    /\ wrk' = [w \in Workers |-> Resting]
    /\ active' = [j \in Ids |-> NoWorker]
    /\ poll' = << >> /\ enq' = 0
    /\ canc' = NoCancel
    /\ lost' = lost \cup ({wrk[w].id : w \in Workers} \cap RowIds)
    /\ UNCHANGED <<row, created, faults, runs>>

\* Start: context, workers, poller and idle monitor of a new process.  It does
\* not look at the rows that the last process left in processing.
Start ==
    /\ phase = "down" /\ runs < MaxRuns
    /\ phase' = "running" /\ runs' = runs + 1
    /\ UNCHANGED <<row, created, jobs, wrk, active, poll, enq, canc, faults, lost>>

\* Stop sets running to false, cancels the context, of which those of the jobs
\* are children, and closes jobChan.
Stop ==
    /\ phase = "running" /\ phase' = "stopping"
    /\ wrk' = [w \in Workers |-> [wrk[w] EXCEPT !.cut = wrk[w].id # 0]]
    /\ UNCHANGED <<row, created, jobs, active, poll, enq, canc, faults, runs, lost>>

\* It waits for the goroutines: a worker, the poller and the monitor return when
\* they come to their select.  A worker there may also Take one of the jobs left
\* in the channel.  The process ends then.
Stopped ==
    /\ phase = "stopping"
    /\ \A w \in Workers : wrk[w].pc = "idle"
    /\ poll = << >> /\ ~(canc.pc # "idle" /\ canc.by = "idle")
    /\ ProcessGone

\* The process dies at any time.
Crash == phase # "down" /\ ProcessGone

\* (mutant: the channel is a list without a limit)
AlwaysSent(j) == Append(jobs, j)

\* The channel after a send that does not wait.
Sent(j) == IF Len(jobs) < Cap THEN Append(jobs, j) ELSE jobs

\* A select with a send to jobChan, without waiting: at done is what happens
\* when the context is over, next what follows a send or a full channel.  A
\* send on the closed channel panics.
TrySend(j, next, done) ==
    \/ /\ phase = "running"
       /\ jobs' = Sent(j)
       /\ next
       /\ UNCHANGED <<row, created, phase, wrk, active, canc, faults, runs, lost>>
    \/ /\ phase # "running" /\ done
       /\ UNCHANGED <<row, created, phase, jobs, wrk, active, canc, faults, runs, lost>>
    \/ phase = "stopping" /\ ProcessGone

-----------------------------------------------------------------------------
(***************************************************************************)
(* Requests that create a job.                                             *)
(***************************************************************************)

\* (mutant: the row of a failed job is used again instead of replaced)
ReusedRow(k) ==
    IF row[k].st = "failed" THEN [id |-> row[k].id, st |-> "queued"]
                            ELSE [id |-> created + 1, st |-> "queued"]

\* The row CreateJob stores: the row of a failed job is deleted first, so a new
\* attempt has a new id.
FreshRow(k) == [id |-> created + 1, st |-> "queued"]

\* CreateJobUseCase: no row of the key, or a failed one.  The statements are one
\* step: the unique key lets only one of two requests insert.  EnqueueJob looks
\* at running under the mutex, at once: a Stop in between leaves the same.
CreateJob(k) ==
    /\ phase # "down" /\ enq = 0 /\ created < MaxJobs
    /\ row[k].st \in {"none", "failed"}
    /\ row' = [row EXCEPT ![k] = FreshRow(k)]
    /\ created' = created + 1
    /\ enq' = IF phase = "running" THEN row'[k].id ELSE 0
    /\ lost' = lost \ {row[k].id}
    /\ UNCHANGED <<phase, jobs, wrk, active, poll, canc, faults, runs>>

\* It sends after it has released the mutex.
EnqueueSend ==
    /\ enq # 0
    /\ TrySend(enq, enq' = 0 /\ UNCHANGED poll, enq' = 0 /\ UNCHANGED poll)

-----------------------------------------------------------------------------
(***************************************************************************)
(* The poller.                                                             *)
(***************************************************************************)

\* pollOnce fetches the queued rows; without any it has nothing to do.
PollList ==
    /\ phase = "running" /\ poll = << >> /\ With("queued") # {}
    /\ poll' \in Listed
    /\ UNCHANGED <<row, created, phase, jobs, wrk, active, enq, canc, faults, runs, lost>>

PollSend ==
    /\ poll # << >>
    /\ TrySend(Head(poll), poll' = Tail(poll) /\ UNCHANGED enq,
                           poll' = << >> /\ UNCHANGED enq)

-----------------------------------------------------------------------------
(***************************************************************************)
(* Workers.                                                                *)
(***************************************************************************)

At(w, pc) == [wrk EXCEPT ![w].pc = pc]

\* The context of a worker that only has to leave is of no more use.
Leaving(w) == [wrk EXCEPT ![w].pc = "leave", ![w].cut = TRUE]

\* A job is received and its cancel function registered, over that of another
\* worker with the same job.  The select may receive after the context is over.
Take(w) ==
    /\ phase # "down" /\ wrk[w].pc = "idle" /\ jobs # << >>
    /\ jobs' = Tail(jobs)
    /\ wrk' = [wrk EXCEPT ![w] = [pc |-> "file", id |-> Head(jobs), cut |-> phase # "running"]]
    /\ active' = [active EXCEPT ![Head(jobs)] = w]
    /\ UNCHANGED <<row, created, phase, poll, enq, canc, faults, runs, lost>>

\* The path of the media file is not found, or Execute refuses the job before it
\* starts FFmpeg: the job is marked as failed.
Refuse(w) ==
    /\ wrk[w].pc = "file" /\ wrk' = Leaving(w)
    /\ Store(wrk[w].id, "failed", wrk[w].cut)
    /\ UNCHANGED <<created, phase, jobs, active, poll, enq, canc, runs>>

\* Execute marks the job as processing and goes on if that fails.
Begin(w) ==
    /\ wrk[w].pc = "file" /\ wrk' = At(w, "ffmpeg")
    /\ Store(wrk[w].id, "processing", wrk[w].cut)
    /\ UNCHANGED <<created, phase, jobs, active, poll, enq, canc, runs>>

\* The progress handler stores the whole copy, under a context of its own.
Progress(w) ==
    /\ wrk[w].pc = "ffmpeg"
    /\ row' = Updated(wrk[w].id, "processing") /\ lost' = LostAfter(wrk[w].id, TRUE)
    /\ UNCHANGED <<created, phase, jobs, wrk, active, poll, enq, canc, faults, runs>>

\* The two hours of the job are over.
Timeout(w) ==
    /\ wrk[w].pc = "ffmpeg" /\ ~wrk[w].cut
    /\ wrk' = [wrk EXCEPT ![w].cut = TRUE]
    /\ UNCHANGED <<row, created, phase, jobs, active, poll, enq, canc, faults, runs, lost>>

\* (mutant: after a failure of FFmpeg the job is left as it is)
EndsUnrecorded == {"completed", "processing"}

\* completeJob or failJob after FFmpeg has ended well, or was killed or failed.
Ends == {"completed", "failed"}

\* FFmpeg ends and the job is recorded under its context.  A context that ends
\* between the two has the effect of one that ended before FFmpeg.
FFmpegEnds(w) ==
    /\ wrk[w].pc = "ffmpeg" /\ wrk' = Leaving(w)
    /\ \E st \in Ends : Store(wrk[w].id, st, wrk[w].cut)
    /\ UNCHANGED <<created, phase, jobs, active, poll, enq, canc, runs>>

\* (mutant: the cancel function stays registered)
KeptEntries(w) == active

\* The deferred function of processJob deletes the entry of the job, whoever
\* registered it last.
Deregistered(w) == [active EXCEPT ![wrk[w].id] = NoWorker]

Leave(w) ==
    /\ wrk[w].pc = "leave"
    /\ active' = Deregistered(w)
    /\ wrk' = [wrk EXCEPT ![w] = Resting]
    /\ UNCHANGED <<row, created, phase, jobs, poll, enq, canc, faults, runs, lost>>

-----------------------------------------------------------------------------
(***************************************************************************)
(* Cancellation by a request or by the idle monitor, which takes any row   *)
(* in processing for idle once it is old enough.                           *)
(***************************************************************************)

\* CancelJob reads the row of the key, which must be processing; it is called
\* by a request, or by the idle monitor, which runs until its context is over.
CancelRead(c, k) ==
    /\ canc.pc = "idle" /\ row[k].st = "processing"
    /\ IF c = "idle" THEN phase = "running" ELSE phase # "down"
    /\ canc' = [pc |-> "found", id |-> row[k].id, by |-> c]
    /\ UNCHANGED <<row, created, phase, jobs, wrk, active, poll, enq, faults, runs, lost>>

\* The cancel function of the row id is looked up and called.
CancelHit ==
    /\ canc.pc = "found"
    /\ LET w == active[canc.id]
       IN  IF w = NoWorker
           THEN canc' = NoCancel /\ UNCHANGED wrk
           ELSE /\ canc' = [canc EXCEPT !.pc = "write"]
                /\ wrk' = [wrk EXCEPT ![w].cut = TRUE]
    /\ UNCHANGED <<row, created, phase, jobs, active, poll, enq, faults, runs, lost>>

\* "Cancelled by user" is stored, under the context of the caller.
CancelWrite ==
    /\ canc.pc = "write" /\ canc' = NoCancel
    /\ Store(canc.id, "failed", canc.by = "idle" /\ phase # "running")
    /\ UNCHANGED <<created, phase, jobs, wrk, active, poll, enq, runs>>

-----------------------------------------------------------------------------
(***************************************************************************)
(* Cleanup of job rows (cleanup.go): a row is chosen from a list read      *)
(* before and deleted by its id.  The filter has no case for processing,   *)
(* so a row of any status may be chosen, and the one step that chooses and *)
(* deletes stands for every delay between the two.                         *)
(***************************************************************************)
CleanDelete(k) ==
    /\ phase # "down" /\ row[k].id # 0
    /\ row' = [row EXCEPT ![k] = NoRow] /\ lost' = lost \ {row[k].id}
    /\ UNCHANGED <<created, phase, jobs, wrk, active, poll, enq, canc, faults, runs>>

-----------------------------------------------------------------------------
WorkerStep(w) ==
    \/ Take(w) \/ Refuse(w) \/ Begin(w) \/ Progress(w) \/ Timeout(w)
    \/ FFmpegEnds(w) \/ Leave(w)

Next ==
    \/ Start \/ Stop \/ Stopped \/ Crash
    \/ EnqueueSend \/ PollList \/ PollSend
    \/ CancelHit \/ CancelWrite
    \/ \E k \in Keys : CreateJob(k) \/ CleanDelete(k)
    \/ \E w \in Workers : WorkerStep(w)
    \/ \E c \in {"api", "idle"}, k \in Keys : CancelRead(c, k)

(***************************************************************************)
(* Goroutines run on and FFmpeg ends; a process that is down is started    *)
(* again.  Requests, progress, time-outs, Stop and crashes may never come. *)
(***************************************************************************)
Fairness ==
    /\ WF_vars(Start) /\ WF_vars(Stopped)
    /\ WF_vars(EnqueueSend) /\ WF_vars(PollList) /\ WF_vars(PollSend)
    /\ \A w \in Workers :
          /\ WF_vars(Take(w)) /\ WF_vars(Refuse(w) \/ Begin(w))
          /\ WF_vars(FFmpegEnds(w)) /\ WF_vars(Leave(w))
    /\ WF_vars(CancelHit) /\ WF_vars(CancelWrite)

Spec == Init /\ [][Next]_vars /\ Fairness

-----------------------------------------------------------------------------
(***************************************************************************)
(* Properties.                                                             *)
(***************************************************************************)

\* A worker holds the job of a row.
Worked(j) == \E w \in Workers : wrk[w].id = j

(***************************************************************************)
(* A registered cancel function belongs to a worker that still has that    *)
(* job, so CancelJob never ends the job of another row, although two       *)
(* workers with one job overwrite and delete each other's entry.           *)
(***************************************************************************)
ActiveJobsAreWorked ==
    \A j \in Ids : active[j] # NoWorker => wrk[active[j]].id = j

(***************************************************************************)
(* Late writes about an earlier attempt at a key do not reach the row of   *)
(* the next attempt: a queued row only changes its status when a worker    *)
(* has taken that very row.                                                *)
(***************************************************************************)
OldCopiesKeepOff ==
    [][\A k \in Keys :
          (row[k].st = "queued" /\ row'[k].id = row[k].id /\ row'[k].st # "queued")
              => Worked(row[k].id)]_vars

(***************************************************************************)
(* A row in processing has a worker on it, however often the job was       *)
(* handed out, unless a write about it was not stored: the process died or *)
(* stopped, the database failed, or the context of the job was over.       *)
(***************************************************************************)
ProcessingHasWorker ==
    \A k \in Keys :
        row[k].st = "processing" => Worked(row[k].id) \/ row[k].id \in lost

(***************************************************************************)
(* A queued row leaves that status while the process is up: one that did   *)
(* not fit into the channel, or was in it when the process died, is found  *)
(* by a later poll.                                                        *)
(***************************************************************************)
QueuedStarts ==
    \A k \in Keys : (row[k].st = "queued") ~> (row[k].st # "queued" \/ phase = "down")
=============================================================================
