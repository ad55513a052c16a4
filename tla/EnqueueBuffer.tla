---------------------------- MODULE EnqueueBuffer ----------------------------
(***************************************************************************)
(* The buffer between library scans and the enrichment queue               *)
(* (src/internal/application/enrichment/pipeline/enqueue_buffer.go):       *)
(* scanners hand in jobs without blocking, one worker collects them from   *)
(* the channel into batches and enqueues each batch.                       *)
(*                                                                         *)
(* Every job is handed in by one call of EnqueueFirstStage.  The worker's  *)
(* context is context.Background() (bootstrap.go), so its ctx.Done branch  *)
(* is never taken.  EnqueueFirstStageBatch never returns an error, so      *)
(* flush's fallback is dead; a row that cannot be written is skipped, which *)
(* the variable "flushed" does not tell from one that was.                 *)
(***************************************************************************)
EXTENDS Naturals, Sequences, FiniteSets

CONSTANTS
  Jobs,       \* jobs handed in, one call each
  Capacity,   \* buffer size of jobChan (10000)
  BatchSize   \* batchSize (500)

ASSUME BufferAssumption ==
  /\ IsFiniteSet(Jobs)
  /\ Capacity \in Nat \ {0} /\ BatchSize \in Nat \ {0}

VARIABLES
  call,     \* per job: "new", "checked", "accepted", "full", "stopped"
  jobChan,  \* the channel
  batch,    \* the worker's batch
  worker,   \* "unstarted", "select", "drain", "done"
  stopped,  \* the flag under b.mu
  stopping, \* Stop: "no", "flagged", "waiting", "returned"
  flushed,  \* jobs handed to EnqueueFirstStageBatch, in order
  early     \* history: jobs accepted when Stop was called on a started buffer

vars == <<call, jobChan, batch, worker, stopped, stopping, flushed, early>>

Accepted == {j \in Jobs : call[j] = "accepted"}

Init ==
  /\ call = [j \in Jobs |-> "new"]
  /\ jobChan = <<>> /\ batch = <<>> /\ flushed = <<>>
  /\ worker = "unstarted" /\ stopped = FALSE /\ stopping = "no" /\ early = {}

------------------------------------------------------------------------------
(* EnqueueFirstStage: the flag is read under the mutex, the send comes after. *)

Check(j) ==
  /\ call[j] = "new"
  /\ call' = [call EXCEPT ![j] = IF stopped THEN "stopped" ELSE "checked"]
  /\ UNCHANGED <<jobChan, batch, worker, stopped, stopping, flushed, early>>

\* (mutant: the capacity is off by one)
SendOver(j) ==
  /\ call[j] = "checked"
  /\ IF Len(jobChan) <= Capacity
     THEN call' = [call EXCEPT ![j] = "accepted"] /\ jobChan' = Append(jobChan, j)
     ELSE call' = [call EXCEPT ![j] = "full"] /\ UNCHANGED jobChan
  /\ UNCHANGED <<batch, worker, stopped, stopping, flushed, early>>

\* A send that cannot proceed drops the job and returns an error.
Send(j) ==
  /\ call[j] = "checked"
  /\ IF Len(jobChan) < Capacity
     THEN call' = [call EXCEPT ![j] = "accepted"] /\ jobChan' = Append(jobChan, j)
     ELSE call' = [call EXCEPT ![j] = "full"] /\ UNCHANGED jobChan
  /\ UNCHANGED <<batch, worker, stopped, stopping, flushed, early>>

------------------------------------------------------------------------------
(* The worker *)

Start ==
  /\ worker = "unstarted" /\ worker' = "select"
  /\ UNCHANGED <<call, jobChan, batch, stopped, stopping, flushed, early>>

\* (mutant: the batch is not reset after a flush)
TakeAgain ==
  /\ worker \in {"select", "drain"} /\ jobChan # <<>>
  /\ jobChan' = Tail(jobChan)
  /\ batch' = Append(batch, Head(jobChan))
  /\ flushed' = IF Len(batch) + 1 >= BatchSize THEN flushed \o batch' ELSE flushed
  /\ UNCHANGED <<call, worker, stopped, stopping, early>>

\* (mutant: the newest job goes to the front of the batch)
TakeFirst ==
  /\ worker \in {"select", "drain"} /\ jobChan # <<>>
  /\ jobChan' = Tail(jobChan)
  /\ LET b == <<Head(jobChan)>> \o batch IN
       IF Len(b) >= BatchSize
       THEN batch' = <<>> /\ flushed' = flushed \o b
       ELSE batch' = b /\ UNCHANGED flushed
  /\ UNCHANGED <<call, worker, stopped, stopping, early>>

\* A job joins the batch, and a full batch is flushed.
Take ==
  /\ worker \in {"select", "drain"} /\ jobChan # <<>>
  /\ jobChan' = Tail(jobChan)
  /\ LET b == Append(batch, Head(jobChan)) IN
       IF Len(b) >= BatchSize
       THEN batch' = <<>> /\ flushed' = flushed \o b
       ELSE batch' = b /\ UNCHANGED flushed
  /\ UNCHANGED <<call, worker, stopped, stopping, early>>

\* (mutant: the ticker does nothing)
TickOnly == worker = "select" /\ batch # <<>> /\ UNCHANGED vars

\* The ticker flushes a partial batch.
Tick ==
  /\ worker = "select" /\ batch # <<>>
  /\ batch' = <<>> /\ flushed' = flushed \o batch
  /\ UNCHANGED <<call, jobChan, worker, stopped, stopping, early>>

\* (mutant: the worker returns without draining the channel)
NoticeAndQuit ==
  /\ worker = "select" /\ stopping \in {"waiting", "returned"}
  /\ worker' = "done"
  /\ batch' = <<>> /\ flushed' = flushed \o batch
  /\ UNCHANGED <<call, jobChan, stopped, stopping, early>>

\* stopCh is closed: any ready branch of the select may be taken first.
Notice ==
  /\ worker = "select" /\ stopping \in {"waiting", "returned"}
  /\ worker' = "drain"
  /\ UNCHANGED <<call, jobChan, batch, stopped, stopping, flushed, early>>

\* (mutant: the drain ranges over the channel, which nobody closes)
FinishBlocks == worker = "drain" /\ jobChan = <<>> /\ UNCHANGED vars

\* The channel is empty: the last flush.
Finish ==
  /\ worker = "drain" /\ jobChan = <<>>
  /\ worker' = "done"
  /\ batch' = <<>> /\ flushed' = flushed \o batch
  /\ UNCHANGED <<call, jobChan, stopped, stopping, early>>

------------------------------------------------------------------------------
(* Stop; a second call returns at once.  bootstrap.go calls Start from a      *)
(* goroutine, which may come after Stop.                                     *)

StopFlag ==
  /\ ~stopped
  /\ stopped' = TRUE /\ stopping' = "flagged"
  /\ early' = IF worker = "unstarted" THEN {} ELSE Accepted
  /\ UNCHANGED <<call, jobChan, batch, worker, flushed>>

StopClose ==
  /\ stopping = "flagged" /\ stopping' = "waiting"
  /\ UNCHANGED <<call, jobChan, batch, worker, stopped, flushed, early>>

\* wg.Wait() returns: there is no worker, or it is done.
StopReturn ==
  /\ stopping = "waiting" /\ worker \in {"unstarted", "done"}
  /\ stopping' = "returned"
  /\ UNCHANGED <<call, jobChan, batch, worker, stopped, flushed, early>>

WorkerStep == Take \/ Tick \/ Notice \/ Finish

Next ==
  \/ \E j \in Jobs : Check(j) \/ Send(j)
  \/ Start \/ WorkerStep
  \/ StopFlag \/ StopClose \/ StopReturn

Spec == Init /\ [][Next]_vars

\* The worker and Stop are goroutines that run when they can.  Notice has its
\* own fairness: select picks among ready branches at random, so the closed
\* channel is not passed over for ever.
Fairness ==
  /\ WF_vars(Start) /\ WF_vars(WorkerStep) /\ WF_vars(Notice)
  /\ WF_vars(StopClose) /\ WF_vars(StopReturn)
FairSpec == Spec /\ Fairness

------------------------------------------------------------------------------
(* Properties *)

\* Every variable has its type; the channel and the batch keep their bounds.
TypeOK ==
  /\ call \in [Jobs -> {"new", "checked", "accepted", "full", "stopped"}]
  /\ jobChan \in Seq(Jobs) /\ Len(jobChan) <= Capacity
  /\ batch \in Seq(Jobs) /\ Len(batch) < BatchSize
  /\ flushed \in Seq(Jobs)
  /\ worker \in {"unstarted", "select", "drain", "done"}
  /\ stopped \in BOOLEAN /\ stopping \in {"no", "flagged", "waiting", "returned"}
  /\ early \subseteq Jobs

InFlight == flushed \o batch \o jobChan

\* A job is somewhere between channel, batch and queue exactly when its call
\* returned nil, and only once: nothing is lost, invented or enqueued twice,
\* however batches are flushed (worker, flush).  When Stop returns, the jobs
\* accepted before it was called are in the queue, provided Start came first.
NothingLost ==
  /\ {InFlight[i] : i \in DOMAIN InFlight} = Accepted
  /\ Len(InFlight) = Cardinality(Accepted)
  /\ stopping = "returned" => early \subseteq {flushed[i] : i \in DOMAIN flushed}

\* Jobs reach the queue in the order in which they were accepted: the line of
\* jobs from queue to channel only ever grows at its end.
OrderKept ==
  [][/\ Len(InFlight') \in {Len(InFlight), Len(InFlight) + 1}
     /\ SubSeq(InFlight', 1, Len(InFlight)) = InFlight]_vars

\* When Stop returns, every accepted job is in the queue: "Stop gracefully
\* stops the buffer, flushing any remaining jobs".
StopFlushes ==
  stopping = "returned" => Accepted = {flushed[i] : i \in DOMAIN flushed}

\* Stop returns.
StopEnds == stopped ~> stopping = "returned"

\* An accepted job reaches the queue even when Stop is never called.
JobsAreFlushed ==
  \A j \in Jobs : call[j] = "accepted" /\ ~stopped ~>
                    j \in {flushed[i] : i \in DOMAIN flushed}
=============================================================================
