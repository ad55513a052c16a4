-------------------------- MODULE ScanCheckpoints --------------------------
(***************************************************************************)
(* A library scan (src/internal/application/library/scan and               *)
(* scan_orchestrator.go): discovery finds the files that changed, hashing  *)
(* writes a checkpoint row for each, and a loop hands batches of pending   *)
(* rows to workers until every row is processed.  A scan can be paused and *)
(* resumed, and one cut short by a crash is resumed at the next start.     *)
(*                                                                         *)
(* One scan job of one library.  The goroutine of runScan and what it      *)
(* starts are a run; overlapping runs of the job are as many as Runs.  The *)
(* database answers unless the run's context is cancelled; files do not    *)
(* change during the scan; the 24 h timeout and the deletion of a job are  *)
(* left out.  Checkpoint rows are identified by their file.                *)
(***************************************************************************)
EXTENDS Naturals, FiniteSets, Sequences

CONSTANTS
  OnDisk,      \* media files of the library that are on disk
  Unchanged,   \* those an earlier scan has recorded as they are now
  Modified,    \* those an earlier scan has recorded, modified since
  Gone,        \* recorded files that are no longer on disk
  Runs, Workers,
  BatchSize,   \* rows per fetch
  Buffer,      \* capacity of the channel to the workers
  MaxRetries,
  MayPause,    \* clients may pause and resume
  MayFail,     \* walking the directory and inserting rows may fail
  MaxCrashes   \* bound: crashes of the server

ASSUME ScanAssumption ==
  /\ Unchanged \subseteq OnDisk /\ Modified \subseteq OnDisk \ Unchanged
  /\ Gone \cap OnDisk = {}
  /\ {BatchSize, Buffer} \subseteq Nat \ {0} /\ {MaxRetries, MaxCrashes} \subseteq Nat
  /\ {MayPause, MayFail} \subseteq BOOLEAN

VARIABLES
  job,      \* status of the scan job's row, "none" before it exists
  cp,       \* per file: status of its checkpoint row, or "none"
  retries,  \* per file: retry_count of the row
  known,    \* files whose scan_state row is up to date
  media,    \* files with a media record
  alive,    \* the server is up
  client,   \* the pause or resume request in progress
  main,     \* per run: the goroutine of runScan, "off" once its context is cancelled
  toHash,   \* per run: files whose checkpoint is not written yet
  hashErr,  \* per run: writing a batch of checkpoints failed
  hashed,   \* per run: hashingDone is closed
  loop,     \* per run: the processing loop
  toSend,   \* per run: rows of the batch the loop has yet to send
  chan,     \* per run: the channel to the workers
  found,    \* per run: foundFiles
  clean,    \* per run: every row completed, as CompleteScan read it
  wpc,      \* per run and worker: its next step
  held,     \* per run and worker: the copies of rows in its hands
  \* history, read by the properties only:
  failed,   \* files whose row was set to failed
  lost,     \* files a crash, a pause or a failed insert made the job leave out
  crashes

dbVars   == <<job, cp, retries, known, media>>
hashVars == <<main, toHash, hashErr, hashed>>
loopVars == <<loop, toSend, chan, found, clean>>
workVars == <<wpc, held>>
history  == <<failed, lost, crashes>>
vars     == <<dbVars, alive, client, hashVars, loopVars, workVars, history>>

Crew == Runs \X Workers
Copy == [file : OnDisk, retry : 0..MaxRetries]

Rows == {f \in OnDisk : cp[f] # "none"}
Pending == {f \in OnDisk : cp[f] = "pending"}
Completed == {f \in OnDisk : cp[f] = "completed"}
Processed == {f \in OnDisk : cp[f] \in {"completed", "failed", "warning"}}

\* runScan's context is cancelled when it returns.
CtxOK(r) == main[r] # "off"

\* UPDATE scan_checkpoints SET status = s, with the run's context.
SetRow(r, f, s) == cp' = IF CtxOK(r) /\ f \in Rows THEN [cp EXCEPT ![f] = s] ELSE cp

\* DeleteByJobID
DeleteAll ==
  /\ cp' = [f \in OnDisk |-> "none"]
  /\ retries' = [f \in OnDisk |-> 0]

Init ==
  /\ job = "none" /\ cp = [f \in OnDisk |-> "none"] /\ retries = [f \in OnDisk |-> 0]
  /\ known = Unchanged \cup Gone
  /\ media = Unchanged \cup Modified \cup Gone
  /\ alive = TRUE /\ client = "idle"
  /\ main = [r \in Runs |-> "off"] /\ loop = [r \in Runs |-> "off"]
  /\ toHash = [r \in Runs |-> {}] /\ toSend = [r \in Runs |-> {}]
  /\ hashErr = [r \in Runs |-> FALSE] /\ hashed = [r \in Runs |-> FALSE]
  /\ chan = [r \in Runs |-> <<>>]
  /\ found = [r \in Runs |-> {}] /\ clean = [r \in Runs |-> FALSE]
  /\ wpc = [c \in Crew |-> "idle"] /\ held = [c \in Crew |-> {}]
  /\ failed = {} /\ lost = {} /\ crashes = 0

------------------------------------------------------------------------------
(* Starting, pausing and resuming, crashes and restarts *)

Launch(r) ==
  /\ main[r] = "off" /\ loop[r] = "off"
  /\ main' = [main EXCEPT ![r] = "init"]
  /\ UNCHANGED <<toHash, hashErr, hashed, loopVars, workVars>>

StartScan ==
  /\ alive /\ job = "none"
  /\ job' = "running"
  /\ \E r \in Runs : Launch(r)
  /\ UNCHANGED <<cp, retries, known, media, alive, client, history>>

\* PauseScan and ResumeScan read the job's status, and write it in a second
\* statement.
Request ==
  /\ alive /\ MayPause /\ client = "idle"
  /\ \/ job = "running" /\ client' = "pausing"
     \/ job = "paused" /\ client' = "resuming"
  /\ UNCHANGED <<dbVars, alive, hashVars, loopVars, workVars, history>>

Pause ==
  /\ client = "pausing"
  /\ job' = "paused" /\ client' = "idle"
  /\ UNCHANGED <<cp, retries, known, media, alive, hashVars, loopVars, workVars, history>>

Resume ==
  /\ client = "resuming"
  /\ job' = "running" /\ client' = "idle"
  /\ \E r \in Runs : Launch(r)
  /\ UNCHANGED <<cp, retries, known, media, alive, history>>

\* What no later run of the job will look at: rows that say processing, and
\* files without a row when others have one.
LeftOut ==
  IF Rows = {} THEN {}
  ELSE {f \in OnDisk : cp[f] = "processing" \/ (cp[f] = "none" /\ f \notin known)}

\* The process ends.  What is not in the database is gone.
Down ==
  /\ alive /\ alive' = FALSE /\ client' = "idle"
  /\ main' = [r \in Runs |-> "off"] /\ loop' = [r \in Runs |-> "off"]
  /\ toHash' = [r \in Runs |-> {}] /\ toSend' = [r \in Runs |-> {}]
  /\ hashErr' = [r \in Runs |-> FALSE] /\ hashed' = [r \in Runs |-> FALSE]
  /\ chan' = [r \in Runs |-> <<>>]
  /\ found' = [r \in Runs |-> {}] /\ clean' = [r \in Runs |-> FALSE]
  /\ wpc' = [c \in Crew |-> "idle"] /\ held' = [c \in Crew |-> {}]
  /\ lost' = lost \cup LeftOut
  /\ UNCHANGED <<dbVars, failed>>

Crash ==
  /\ crashes < MaxCrashes
  /\ crashes' = crashes + 1
  /\ Down

\* Startup resumes a running job, unless its rows say that it was complete.
Boot ==
  /\ ~alive /\ alive' = TRUE
  /\ LET complete == Pending = {} /\ Cardinality(Processed) >= Cardinality(OnDisk)
                     /\ Rows # {}
     IN \/ /\ job # "running"
           /\ UNCHANGED <<job, hashVars, loopVars, workVars>>
        \/ /\ job = "running" /\ complete
           /\ job' = "completed"
           /\ UNCHANGED <<hashVars, loopVars, workVars>>
        \/ /\ job = "running" /\ ~complete
           /\ \E r \in Runs : Launch(r)
           /\ UNCHANGED job
  /\ UNCHANGED <<cp, retries, known, media, client, history>>

------------------------------------------------------------------------------
(* The goroutine of runScan *)

\* runScan returns and cancels its context.
Returns(r) ==
  /\ main' = [main EXCEPT ![r] = "off"]
  /\ toHash' = [toHash EXCEPT ![r] = {}]
  /\ hashErr' = [hashErr EXCEPT ![r] = FALSE]
  /\ hashed' = [hashed EXCEPT ![r] = FALSE]

\* CanResumeFromCheckpoints finds no row: GetStats fails, as the sums are NULL.
InitFresh(r) ==
  /\ main[r] = "init" /\ Rows = {}
  /\ main' = [main EXCEPT ![r] = "discover"]
  /\ UNCHANGED <<dbVars, alive, client, toHash, hashErr, hashed, loopVars, workVars, history>>

\* Nothing is pending: the job is completed.
InitCompleted(r) ==
  /\ main[r] = "init" /\ Rows # {} /\ Pending = {}
  /\ job' = "completed"
  /\ Returns(r)
  /\ UNCHANGED <<cp, retries, known, media, alive, client, loopVars, workVars, history>>

InitResume(r) ==
  /\ main[r] = "init" /\ Pending # {}
  /\ main' = [main EXCEPT ![r] = "wait"]
  /\ hashed' = [hashed EXCEPT ![r] = TRUE]
  /\ loop' = [loop EXCEPT ![r] = "check"]
  /\ UNCHANGED <<dbVars, alive, client, toHash, hashErr, toSend, chan, found, clean,
                 workVars, history>>

\* Fewer than one percent of the files found have rows, which may be so when
\* some have none: the scan begins again.
InitAgain(r) ==
  /\ main[r] = "init" /\ Pending # {} /\ Rows # OnDisk
  /\ DeleteAll
  /\ main' = [main EXCEPT ![r] = "discover"]
  /\ UNCHANGED <<job, known, media, alive, client, toHash, hashErr, hashed, loopVars,
                 workVars, history>>

\* RunFreshScan: walking the directory fails.
WalkFails(r) ==
  /\ main[r] = "discover" /\ MayFail
  /\ main' = [main EXCEPT ![r] = "fail"]
  /\ UNCHANGED <<dbVars, alive, client, toHash, hashErr, hashed, loopVars, workVars, history>>

\* DetermineChanges: new and modified files, and files no longer there.
Changed == OnDisk \ known
Deleted == known \ OnDisk

NothingToScan(r) ==
  /\ main[r] = "discover" /\ Changed \cup Deleted = {}
  /\ job' = "completed"
  /\ Returns(r)
  /\ UNCHANGED <<cp, retries, known, media, alive, client, loopVars, workVars, history>>

\* Hashing and the processing loop start.
Discover(r) ==
  /\ main[r] = "discover" /\ Changed \cup Deleted # {}
  /\ known' = known \ Deleted
  /\ toHash' = [toHash EXCEPT ![r] = Changed]
  /\ main' = [main EXCEPT ![r] = "hash"]
  /\ loop' = [loop EXCEPT ![r] = "check"]
  /\ UNCHANGED <<job, cp, retries, media, alive, client, hashErr, hashed, toSend, chan,
                 found, clean, workVars, history>>

\* CreateBatch, when the batch is full or the timer fires.
Hash(r) ==
  /\ main[r] = "hash"
  /\ \E b \in SUBSET (toHash[r] \ Rows) \ {{}} :
       /\ cp' = [f \in OnDisk |-> IF f \in b THEN "pending" ELSE cp[f]]
       /\ toHash' = [toHash EXCEPT ![r] = @ \ b]
  /\ UNCHANGED <<job, retries, known, media, alive, client, main, hashErr, hashed, loopVars,
                 workVars, history>>

\* The insert fails as a whole; the writer keeps the batch and the error.
HashFails(r) ==
  /\ main[r] = "hash" /\ toHash[r] # {}
  /\ MayFail \/ toHash[r] \cap Rows # {}
  /\ hashErr' = [hashErr EXCEPT ![r] = TRUE]
  /\ UNCHANGED <<dbVars, alive, client, main, toHash, hashed, loopVars, workVars, history>>

HashDone(r) ==
  /\ main[r] = "hash" /\ (toHash[r] = {} \/ hashErr[r])
  /\ hashed' = [hashed EXCEPT ![r] = TRUE]
  /\ main' = [main EXCEPT ![r] = IF hashErr[r] THEN "fail" ELSE "wait"]
  /\ lost' = lost \cup toHash[r]
  /\ UNCHANGED <<dbVars, alive, client, toHash, hashErr, loopVars, workVars, failed, crashes>>

\* CompleteWithError
FailJob(r) ==
  /\ main[r] = "fail"
  /\ job' = "failed"
  /\ main' = [main EXCEPT ![r] = "return"]
  /\ UNCHANGED <<cp, retries, known, media, alive, client, toHash, hashErr, hashed,
                 loopVars, workVars, history>>

\* Without an error runScan waits for the processing goroutine.
Return(r) ==
  /\ main[r] = "return" \/ (main[r] = "wait" /\ loop[r] = "off")
  /\ Returns(r)
  /\ lost' = lost \cup LeftOut
  /\ UNCHANGED <<dbVars, alive, client, loopVars, workVars, failed, crashes>>

Main(r) == \/ InitFresh(r) \/ InitCompleted(r) \/ InitResume(r) \/ InitAgain(r)
           \/ WalkFails(r) \/ NothingToScan(r) \/ Discover(r)
           \/ Hash(r) \/ HashFails(r) \/ HashDone(r) \/ FailJob(r) \/ Return(r)

------------------------------------------------------------------------------
(* The processing loop and CompleteScan *)

\* CheckScanStatus
LoopCheck(r) ==
  /\ loop[r] = "check"
  /\ LET paused == CtxOK(r) /\ job = "paused" IN
       /\ loop' = [loop EXCEPT ![r] = IF paused \/ ~CtxOK(r) THEN "drain" ELSE "fetch"]
       /\ lost' = IF paused THEN lost \cup (OnDisk \ known) ELSE lost
  /\ UNCHANGED <<dbVars, alive, client, hashVars, toSend, chan, found, clean, workVars,
                 failed, crashes>>

\* GetPendingBatch: the rows fetched stay pending until a worker marks them.
LoopFetch(r) ==
  /\ loop[r] = "fetch"
  /\ \/ /\ ~CtxOK(r)
        /\ loop' = [loop EXCEPT ![r] = "drain"]
        /\ UNCHANGED toSend
     \/ /\ CtxOK(r) /\ Pending = {}
        /\ loop' = [loop EXCEPT ![r] = "empty"]
        /\ UNCHANGED toSend
     \/ /\ CtxOK(r)
        /\ \E b \in SUBSET Pending \ {{}} :
             /\ Cardinality(b) = BatchSize \/ (b = Pending /\ Cardinality(b) < BatchSize)
             /\ toSend' = [toSend EXCEPT ![r] = {[file |-> f, retry |-> retries[f]] : f \in b}]
        /\ loop' = [loop EXCEPT ![r] = "send"]
  /\ UNCHANGED <<dbVars, alive, client, hashVars, chan, found, clean, workVars, history>>

\* (mutant: nothing pending is taken for nothing left to do)
LoopEmptyEnds(r) ==
  /\ loop[r] = "empty"
  /\ loop' = [loop EXCEPT ![r] = IF hashed[r] \/ ~CtxOK(r) THEN "drain" ELSE "check"]
  /\ UNCHANGED <<dbVars, alive, client, hashVars, toSend, chan, found, clean, workVars, history>>

\* Nothing is pending: once hashing is done, the loop ends when all rows are
\* processed, as GetStats says now.
LoopEmpty(r) ==
  /\ loop[r] = "empty"
  /\ LET ends == (hashed[r] /\ Rows \subseteq Processed) \/ ~CtxOK(r)
     IN loop' = [loop EXCEPT ![r] = IF ends THEN "drain" ELSE "check"]
  /\ UNCHANGED <<dbVars, alive, client, hashVars, toSend, chan, found, clean, workVars, history>>

LoopSend(r) ==
  /\ loop[r] = "send" /\ Len(chan[r]) < Buffer
  /\ \E c \in toSend[r] :
       /\ chan' = [chan EXCEPT ![r] = Append(@, c)]
       /\ toSend' = [toSend EXCEPT ![r] = @ \ {c}]
       /\ loop' = [loop EXCEPT ![r] = IF toSend[r] = {c} THEN "check" ELSE "send"]
  /\ UNCHANGED <<dbVars, alive, client, hashVars, found, clean, workVars, history>>

\* The channel is closed, and the workers are waited for.
LoopDrain(r) ==
  /\ loop[r] = "drain" /\ chan[r] = <<>>
  /\ \A w \in Workers : wpc[<<r, w>>] = "idle"
  /\ loop' = [loop EXCEPT ![r] = "stats"]
  /\ UNCHANGED <<dbVars, alive, client, hashVars, toSend, chan, found, clean, workVars, history>>

LoopEnds(r) ==
  /\ loop' = [loop EXCEPT ![r] = "off"]
  /\ found' = [found EXCEPT ![r] = {}]
  /\ clean' = [clean EXCEPT ![r] = FALSE]

\* (mutant: media are cleaned up after every scan)
CompleteStatsClean(r) ==
  /\ loop[r] = "stats" /\ CtxOK(r) /\ Rows # {}
  /\ clean' = [clean EXCEPT ![r] = TRUE]
  /\ loop' = [loop EXCEPT ![r] = "complete"]
  /\ UNCHANGED <<dbVars, alive, client, hashVars, toSend, chan, found, workVars, history>>

\* CompleteScan reads the statistics and the job.
CompleteStats(r) ==
  /\ loop[r] = "stats" /\ CtxOK(r) /\ Rows # {}
  /\ clean' = [clean EXCEPT ![r] = Rows = Completed]
  /\ loop' = [loop EXCEPT ![r] = "complete"]
  /\ UNCHANGED <<dbVars, alive, client, hashVars, toSend, chan, found, workVars, history>>

\* The job cannot be read once the context is cancelled.
CompleteCancelled(r) ==
  /\ loop[r] = "stats" /\ ~CtxOK(r)
  /\ LoopEnds(r)
  /\ UNCHANGED <<dbVars, alive, client, hashVars, toSend, chan, workVars, history>>

\* Without rows GetStats fails and returns nil, which CompleteScan follows.
\* recover is called by a function the deferred one calls, where it has no
\* effect: the process ends.
CompletePanics(r) ==
  /\ loop[r] = "stats" /\ CtxOK(r) /\ Rows = {}
  /\ Down
  /\ UNCHANGED crashes

\* The job becomes completed, whatever its status was.
CompleteJob(r) ==
  /\ loop[r] = "complete"
  /\ job' = IF CtxOK(r) THEN "completed" ELSE job
  /\ loop' = [loop EXCEPT ![r] = "cleanup"]
  /\ UNCHANGED <<cp, retries, known, media, alive, client, hashVars, toSend, chan, found,
                 clean, workVars, history>>

\* CleanupStaleMedia, when it is configured and the stale media are at most a
\* tenth of all.
CleanUp(r) ==
  /\ loop[r] = "cleanup"
  /\ \/ UNCHANGED media
     \/ /\ clean[r] /\ CtxOK(r) /\ media \cap found[r] # {}
        /\ media' = media \cap found[r]
  /\ loop' = [loop EXCEPT ![r] = "delete"]
  /\ UNCHANGED <<job, cp, retries, known, alive, client, hashVars, toSend, chan, found,
                 clean, workVars, history>>

\* CleanupCheckpoints
DeleteRows(r) ==
  /\ loop[r] = "delete"
  /\ IF CtxOK(r) THEN DeleteAll ELSE UNCHANGED <<cp, retries>>
  /\ LoopEnds(r)
  /\ UNCHANGED <<job, known, media, alive, client, hashVars, toSend, chan,
                 workVars, history>>

Loop(r) == \/ LoopCheck(r) \/ LoopFetch(r) \/ LoopEmpty(r) \/ LoopSend(r) \/ LoopDrain(r)
           \/ CompleteStats(r) \/ CompleteCancelled(r) \/ CompletePanics(r)
           \/ CompleteJob(r) \/ CleanUp(r) \/ DeleteRows(r)

------------------------------------------------------------------------------
(* The workers *)

Take(r, w) ==
  /\ wpc[<<r, w>>] = "idle" /\ chan[r] # <<>>
  /\ held' = [held EXCEPT ![<<r, w>>] = {Head(chan[r])}]
  /\ chan' = [chan EXCEPT ![r] = Tail(@)]
  /\ wpc' = [wpc EXCEPT ![<<r, w>>] = "mark"]
  /\ UNCHANGED <<dbVars, alive, client, hashVars, loop, toSend, found, clean, history>>

Mark(r, w) ==
  /\ wpc[<<r, w>>] = "mark"
  /\ \A c \in held[<<r, w>>] : SetRow(r, c.file, "processing")
  /\ wpc' = [wpc EXCEPT ![<<r, w>>] = "process"]
  /\ UNCHANGED <<job, retries, known, media, alive, client, hashVars, loopVars, held, history>>

\* ProcessFileWithCheckpoint: a processed file has its media record and its
\* scan_state row.  With a cancelled context it can only fail.
Process(r, w) ==
  /\ wpc[<<r, w>>] = "process"
  /\ \E result \in IF CtxOK(r) THEN {"ok", "warning", "transient", "permanent"}
                               ELSE {"transient", "permanent"} :
       LET done == IF result \in {"ok", "warning"} THEN {c.file : c \in held[<<r, w>>]} ELSE {}
       IN /\ wpc' = [wpc EXCEPT ![<<r, w>>] = result]
          /\ media' = media \cup done
          /\ known' = known \cup done
  /\ UNCHANGED <<job, cp, retries, alive, client, hashVars, loopVars, held, history>>

Drop(r, w) ==
  /\ wpc' = [wpc EXCEPT ![<<r, w>>] = "idle"]
  /\ held' = [held EXCEPT ![<<r, w>>] = {}]

\* HandleCheckpointSuccess and HandleCheckpointWarning
Succeed(r, w) ==
  /\ wpc[<<r, w>>] \in {"ok", "warning"}
  /\ \A c \in held[<<r, w>>] :
       /\ SetRow(r, c.file, IF wpc[<<r, w>>] = "ok" THEN "completed" ELSE "warning")
       /\ found' = [found EXCEPT ![r] = @ \cup {c.file}]
  /\ Drop(r, w)
  /\ UNCHANGED <<job, retries, known, media, alive, client, hashVars, loop, toSend, chan,
                 clean, history>>

\* HandleCheckpointError, for a permanent error or one retried often enough.
FailFile(r, w) ==
  /\ \A c \in held[<<r, w>>] :
       /\ \/ wpc[<<r, w>>] = "permanent"
          \/ wpc[<<r, w>>] = "transient" /\ c.retry >= MaxRetries
       /\ SetRow(r, c.file, "failed")
       /\ failed' = IF CtxOK(r) THEN failed \cup {c.file} ELSE failed
  /\ wpc[<<r, w>>] \in {"permanent", "transient"}
  /\ Drop(r, w)
  /\ UNCHANGED <<job, retries, known, media, alive, client, hashVars, loopVars, lost, crashes>>

\* (mutant: transient errors are always retried)
RetryAlways(r, w) ==
  /\ wpc[<<r, w>>] = "transient"
  /\ \A c \in held[<<r, w>>] :
       retries' = IF CtxOK(r) /\ c.file \in Rows THEN [retries EXCEPT ![c.file] = c.retry + 1] ELSE retries
  /\ wpc' = [wpc EXCEPT ![<<r, w>>] = "backoff"]
  /\ UNCHANGED <<job, cp, known, media, alive, client, hashVars, loopVars, held, history>>

\* RetryCheckpoint counts from the worker's copy of the row, then sleeps.
Retry(r, w) ==
  /\ wpc[<<r, w>>] = "transient"
  /\ \A c \in held[<<r, w>>] :
       /\ c.retry < MaxRetries
       /\ retries' = IF CtxOK(r) /\ c.file \in Rows
                     THEN [retries EXCEPT ![c.file] = c.retry + 1] ELSE retries
  /\ wpc' = [wpc EXCEPT ![<<r, w>>] = "backoff"]
  /\ UNCHANGED <<job, cp, known, media, alive, client, hashVars, loopVars, held, history>>

\* (mutant: the row is left as it is)
WakeOnly(r, w) ==
  /\ wpc[<<r, w>>] = "backoff"
  /\ Drop(r, w)
  /\ UNCHANGED <<dbVars, alive, client, hashVars, loopVars, history>>

Wake(r, w) ==
  /\ wpc[<<r, w>>] = "backoff"
  /\ \A c \in held[<<r, w>>] : SetRow(r, c.file, "pending")
  /\ Drop(r, w)
  /\ UNCHANGED <<job, retries, known, media, alive, client, hashVars, loopVars, history>>

Worker(r, w) == \/ Take(r, w) \/ Mark(r, w) \/ Process(r, w) \/ Succeed(r, w)
                \/ FailFile(r, w) \/ Retry(r, w) \/ Wake(r, w)

------------------------------------------------------------------------------

Next ==
  \/ StartScan \/ Request \/ Pause \/ Resume \/ Crash \/ Boot
  \/ \E r \in Runs :
       \/ Main(r) \/ Loop(r)
       \/ \E w \in Workers : Worker(r, w)

Spec == Init /\ [][Next]_vars

\* The server is started again when it is down, and goroutines run.
FairSpec ==
  /\ Spec
  /\ WF_vars(Boot)
  /\ \A r \in Runs :
       /\ WF_vars(Main(r)) /\ WF_vars(Loop(r))
       /\ \A w \in Workers : WF_vars(Worker(r, w))

------------------------------------------------------------------------------
(* Properties *)

\* Variables hold values of the code's types; a row's retry count is bounded.
TypeOK ==
  /\ job \in {"none", "running", "paused", "completed", "failed"}
  /\ cp \in [OnDisk -> {"none", "pending", "processing", "completed", "warning", "failed"}]
  /\ retries \in [OnDisk -> 0..MaxRetries]
  /\ known \subseteq OnDisk \cup Gone /\ media \subseteq OnDisk \cup Gone
  /\ alive \in BOOLEAN /\ client \in {"idle", "pausing", "resuming"}
  /\ main \in [Runs -> {"off", "init", "discover", "hash", "wait", "fail", "return"}]
  /\ toHash \in [Runs -> SUBSET OnDisk]
  /\ hashErr \in [Runs -> BOOLEAN] /\ hashed \in [Runs -> BOOLEAN]
  /\ loop \in [Runs -> {"off", "check", "fetch", "empty", "send", "drain", "stats",
                        "complete", "cleanup", "delete"}]
  /\ toSend \in [Runs -> SUBSET Copy]
  /\ \A r \in Runs : Len(chan[r]) <= Buffer /\ \A i \in 1..Len(chan[r]) : chan[r][i] \in Copy
  /\ found \in [Runs -> SUBSET OnDisk] /\ clean \in [Runs -> BOOLEAN]
  /\ wpc \in [Crew -> {"idle", "mark", "process", "ok", "warning", "transient",
                       "permanent", "backoff"}]
  /\ held \in [Crew -> SUBSET Copy]
  /\ failed \subseteq OnDisk /\ lost \subseteq OnDisk /\ crashes \in 0..MaxCrashes

\* A scan that says completed has dealt with every file on disk: it is recorded
\* as scanned, or its error was, or a pause, a crash or a failed insert made the
\* scan leave it out.  Hashing, fetching, sending, retries after a sleep and the
\* final look at the statistics all run side by side.
CompletedCovers == job = "completed" => OnDisk \subseteq known \cup failed \cup lost

\* Cleaning up stale media spares the files that failed or were processed with
\* a warning: they keep the media record of an earlier scan, also when the run
\* that cleans up resumed the scan of another.
FailedKeepMedia ==
  [][\A f \in media \cap OnDisk : cp[f] \in {"failed", "warning"} => f \in media']_vars

\* A running scan ends, or is paused, unless a crash left rows behind that say
\* processing: fetches do not claim rows, so one row may be with several workers
\* and be retried from a stale count, and still every row is done in the end.
ScanEnds == job = "running" ~> (job # "running" \/ lost # {})

\* "CleanupStaleMedia removes media database records [...] for files that no
\* longer exist on disk": a scan that ended regularly removes no others.  Not so:
\* it removes the media of the files the scan did not have to process.
StaleMediaOnly == [][media \cap OnDisk \subseteq media']_vars

\* "RecoverFromPanicWithError recovers from a panic": only a crash from outside
\* ends the server.  Not so: a scan that finds only deletions, or that is paused
\* before its first checkpoint, ends it.
PanicsAreRecovered == [][alive /\ ~alive' => crashes' # crashes]_vars

\* "Pauses an active scan job, allowing it to be resumed later": a paused job
\* stays paused until a client resumes it.  Not so: the run it stops completes it.
PauseHolds == [][job = "paused" => job' = "paused" \/ client = "resuming"]_vars
=============================================================================
