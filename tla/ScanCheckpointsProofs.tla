------------------------ MODULE ScanCheckpointsProofs ------------------------
(***************************************************************************)
(* Proofs about ScanCheckpoints: its types, for any files, runs and        *)
(* workers, and what completed and failed mean, for one run at a time.     *)
(***************************************************************************)
EXTENDS ScanCheckpoints, SequenceTheorems, TLAPS

\* A worker between Take and its last statement has one copy of a row in its hands.
HoldsOne == \A c \in Crew : wpc[c] # "idle" => \E x \in Copy : held[c] = {x}

\* The channel holds copies of rows, as many as it has room for.
Channels == /\ chan \in [Runs -> Seq(Copy)]
            /\ \A r \in Runs : Len(chan[r]) <= Buffer

Types == TypeOK /\ Channels /\ HoldsOne

\* The statuses of a checkpoint row.
RowStates == {"none", "pending", "processing", "completed", "warning", "failed"}

\* Nothing runs at the start.
LEMMA TypesInit == Init => Types
  <1> SUFFICES ASSUME Init PROVE Types
    OBVIOUS
  <1>1. chan \in [Runs -> Seq(Copy)] /\ \A r \in Runs : Len(chan[r]) = 0
    BY DEF Init
  <1>2. Channels
    BY <1>1, ScanAssumption DEF Channels
  <1>3. TypeOK
    BY <1>1, ScanAssumption DEF Init, TypeOK
  <1> QED
    BY <1>2, <1>3 DEF Init, Types, HoldsOne, Crew

\* A run can be launched only where none is: its goroutines are then typed.
LEMMA LaunchTypes ==
  ASSUME Types, NEW r \in Runs, Launch(r)
  PROVE  /\ main' \in [Runs -> {"off", "init", "discover", "hash", "wait", "fail", "return"}]
         /\ UNCHANGED <<toHash, hashErr, hashed, loopVars, workVars>>
  BY DEF Launch, Types, TypeOK

\* The process ends: nothing is left in a channel or with a worker.
LEMMA DownTypes == ASSUME Types, Down, crashes' \in 0..MaxCrashes PROVE Types'
  <1>1. chan' \in [Runs -> Seq(Copy)] /\ \A r \in Runs : Len(chan'[r]) = 0
    BY DEF Down
  <1>2. Channels'
    BY <1>1, ScanAssumption DEF Channels
  <1>3. LeftOut \subseteq OnDisk
    BY DEF LeftOut
  <1>4. /\ main' \in [Runs -> {"off", "init", "discover", "hash", "wait", "fail", "return"}]
        /\ loop' \in [Runs -> {"off", "check", "fetch", "empty", "send", "drain", "stats",
                               "complete", "cleanup", "delete"}]
        /\ toHash' \in [Runs -> SUBSET OnDisk] /\ toSend' \in [Runs -> SUBSET Copy]
        /\ hashErr' \in [Runs -> BOOLEAN] /\ hashed' \in [Runs -> BOOLEAN]
        /\ found' \in [Runs -> SUBSET OnDisk] /\ clean' \in [Runs -> BOOLEAN]
    BY DEF Down
  <1>5. /\ wpc' = [c \in Crew |-> "idle"] /\ held' = [c \in Crew |-> {}]
        /\ alive' \in BOOLEAN /\ client' = "idle" /\ lost' \subseteq OnDisk
        /\ UNCHANGED <<job, cp, retries, known, media, failed>>
    BY <1>3 DEF Down, Types, TypeOK, dbVars
  <1>6. TypeOK'
    BY <1>1, <1>2, <1>4, <1>5 DEF Types, TypeOK, Channels
  <1> QED
    BY <1>2, <1>5, <1>6 DEF Types, HoldsOne

\* Starting, pausing, resuming, crashes and restarts keep the types.
LEMMA TypesOutside ==
  ASSUME Types, StartScan \/ Request \/ Pause \/ Resume \/ Crash \/ Boot
  PROVE  Types'
  <1> USE ScanAssumption
  <1>0. TypeOK /\ Channels /\ HoldsOne
    BY DEF Types
  <1>1. CASE StartScan \/ Request \/ Pause \/ Resume \/ Boot
    <2>1. UNCHANGED <<cp, retries, known, media, toHash, hashErr, hashed, loopVars, workVars, history>>
      BY <1>1, LaunchTypes
         DEF StartScan, Request, Pause, Resume, Boot, dbVars, hashVars
    <2>2. main' \in [Runs -> {"off", "init", "discover", "hash", "wait", "fail", "return"}]
      BY <1>0, <1>1, LaunchTypes
         DEF StartScan, Request, Pause, Resume, Boot, dbVars, hashVars, TypeOK
    <2>3. job' \in {"none", "running", "paused", "completed", "failed"}
          /\ alive' \in BOOLEAN /\ client' \in {"idle", "pausing", "resuming"}
      BY <1>0, <1>1 DEF StartScan, Request, Pause, Resume, Boot, dbVars, TypeOK
    <2>4. TypeOK'
      BY <1>0, <2>1, <2>2, <2>3 DEF TypeOK, loopVars, workVars, history
    <2> QED
      BY <1>0, <2>1, <2>4 DEF Types, Channels, HoldsOne, loopVars, workVars
  <1>2. CASE Crash
    <2>1. Down /\ crashes < MaxCrashes /\ crashes' = crashes + 1
      BY <1>2 DEF Crash
    <2> QED
      BY <1>0, <2>1, DownTypes DEF TypeOK
  <1> QED
    BY <1>1, <1>2

\* The goroutine of runScan keeps the types.
LEMMA TypesMain == ASSUME Types, NEW r \in Runs, Main(r) PROVE Types'
  <1>0. TypeOK /\ Channels /\ HoldsOne
    BY DEF Types
  <1>1. UNCHANGED <<alive, client, media, toSend, chan, found, clean, workVars, failed, crashes>>
    BY DEF Main, InitFresh, InitCompleted, InitResume, InitAgain, WalkFails, NothingToScan,
           Discover, Hash, HashFails, HashDone, FailJob, Return, dbVars, loopVars, history
  <1>2. job' \in {"none", "running", "paused", "completed", "failed"}
    BY <1>0 DEF Main, InitFresh, InitCompleted, InitResume, InitAgain, WalkFails, NothingToScan,
           Discover, Hash, HashFails, HashDone, FailJob, Return, dbVars, TypeOK
  <1>3. /\ cp' \in [OnDisk -> {"none", "pending", "processing", "completed", "warning", "failed"}]
        /\ retries' \in [OnDisk -> 0..MaxRetries] /\ known' \subseteq OnDisk \cup Gone
    BY <1>0, ScanAssumption
       DEF Main, InitFresh, InitCompleted, InitResume, InitAgain, DeleteAll, WalkFails,
           NothingToScan, Discover, Hash, HashFails, HashDone, FailJob, Return, dbVars, TypeOK
  <1>4. /\ main' \in [Runs -> {"off", "init", "discover", "hash", "wait", "fail", "return"}]
        /\ hashErr' \in [Runs -> BOOLEAN] /\ hashed' \in [Runs -> BOOLEAN]
    BY <1>0
       DEF Main, InitFresh, InitCompleted, InitResume, InitAgain, WalkFails, NothingToScan,
           Discover, Hash, HashFails, HashDone, FailJob, Return, Returns, TypeOK
  <1>5. toHash' \in [Runs -> SUBSET OnDisk]
    BY <1>0
       DEF Main, InitFresh, InitCompleted, InitResume, InitAgain, WalkFails, NothingToScan,
           Discover, Changed, Hash, HashFails, HashDone, FailJob, Return, Returns, TypeOK
  <1>6. loop' \in [Runs -> {"off", "check", "fetch", "empty", "send", "drain", "stats",
                            "complete", "cleanup", "delete"}]
    BY <1>0
       DEF Main, InitFresh, InitCompleted, InitResume, InitAgain, WalkFails, NothingToScan,
           Discover, Hash, HashFails, HashDone, FailJob, Return, loopVars, TypeOK
  <1>7. lost' \subseteq OnDisk
    BY <1>0
       DEF Main, InitFresh, InitCompleted, InitResume, InitAgain, WalkFails, NothingToScan,
           Discover, Hash, HashFails, HashDone, FailJob, Return, LeftOut, history, TypeOK
  <1>8. TypeOK'
    BY <1>0, <1>1, <1>2, <1>3, <1>4, <1>5, <1>6, <1>7 DEF TypeOK, workVars
  <1> QED
    BY <1>0, <1>1, <1>8 DEF Types, Channels, HoldsOne, workVars

\* The processing loop keeps the types: it sends only while the channel has room.
LEMMA TypesLoop == ASSUME Types, NEW r \in Runs, Loop(r) PROVE Types'
  <1>0. TypeOK /\ Channels /\ HoldsOne
    BY DEF Types
  <1>1. CASE CompletePanics(r)
    BY <1>0, <1>1, DownTypes DEF CompletePanics, TypeOK
  <1>2. CASE ~CompletePanics(r)
    <2>1. UNCHANGED <<known, alive, client, hashVars, workVars, failed, crashes>>
      BY <1>2 DEF Loop, LoopCheck, LoopFetch, LoopEmpty, LoopSend, LoopDrain, CompleteStats,
                  CompleteCancelled, CompleteJob, CleanUp, DeleteRows, dbVars, history
    <2>2. job' \in {"none", "running", "paused", "completed", "failed"}
          /\ media' \subseteq OnDisk \cup Gone
      BY <1>0, <1>2 DEF Loop, LoopCheck, LoopFetch, LoopEmpty, LoopSend, LoopDrain, CompleteStats,
                  CompleteCancelled, CompleteJob, CleanUp, DeleteRows, dbVars, TypeOK
    <2>3. /\ cp' \in [OnDisk -> {"none", "pending", "processing", "completed", "warning", "failed"}]
          /\ retries' \in [OnDisk -> 0..MaxRetries]
      BY <1>0, <1>2, ScanAssumption
         DEF Loop, LoopCheck, LoopFetch, LoopEmpty, LoopSend, LoopDrain, CompleteStats,
             CompleteCancelled, CompleteJob, CleanUp, DeleteRows, DeleteAll, dbVars, TypeOK
    <2>4. loop' \in [Runs -> {"off", "check", "fetch", "empty", "send", "drain", "stats",
                              "complete", "cleanup", "delete"}]
      <3>1. \E s \in {"off", "check", "fetch", "empty", "send", "drain", "stats",
                      "complete", "cleanup", "delete"} : loop' = [loop EXCEPT ![r] = s]
        BY <1>2 DEF Loop, LoopCheck, LoopFetch, LoopEmpty, LoopSend, LoopDrain, CompleteStats,
                    CompleteCancelled, CompleteJob, CleanUp, DeleteRows, LoopEnds
      <3> QED
        BY <1>0, <3>1 DEF TypeOK
    <2>5. found' \in [Runs -> SUBSET OnDisk] /\ clean' \in [Runs -> BOOLEAN]
      BY <1>0, <1>2
         DEF Loop, LoopCheck, LoopFetch, LoopEmpty, LoopSend, LoopDrain, CompleteStats,
             CompleteCancelled, CompleteJob, CleanUp, DeleteRows, LoopEnds, TypeOK
    <2>6. lost' \subseteq OnDisk
      BY <1>0, <1>2
         DEF Loop, LoopCheck, LoopFetch, LoopEmpty, LoopSend, LoopDrain, CompleteStats,
             CompleteCancelled, CompleteJob, CleanUp, DeleteRows, history, TypeOK
    <2>7. toSend' \in [Runs -> SUBSET Copy] /\ Channels'
      <3>1. CASE LoopFetch(r)
        <4>1. \A f \in OnDisk : [file |-> f, retry |-> retries[f]] \in Copy
          BY <1>0 DEF TypeOK, Copy
        <4>2. \A b \in SUBSET Pending : {[file |-> f, retry |-> retries[f]] : f \in b} \subseteq Copy
          BY <4>1 DEF Pending
        <4>3. chan' = chan
          BY <3>1 DEF LoopFetch
        <4>4. \/ toSend' = toSend
              \/ \E b \in SUBSET Pending :
                   toSend' = [toSend EXCEPT ![r] = {[file |-> f, retry |-> retries[f]] : f \in b}]
          BY <3>1 DEF LoopFetch
        <4>5. \E s \in SUBSET Copy : toSend' \in {toSend, [toSend EXCEPT ![r] = s]}
          BY <4>2, <4>4
        <4>6. toSend \in [Runs -> SUBSET Copy]
          BY <1>0 DEF TypeOK
        <4>7. toSend' \in [Runs -> SUBSET Copy]
          BY <4>5, <4>6
        <4> QED
          BY <1>0, <4>3, <4>7 DEF Channels
      <3>2. CASE LoopSend(r)
        <4>1. PICK x \in toSend[r] :
                /\ chan' = [chan EXCEPT ![r] = Append(chan[r], x)]
                /\ toSend' = [toSend EXCEPT ![r] = toSend[r] \ {x}]
          BY <3>2 DEF LoopSend
        <4>2. toSend \in [Runs -> SUBSET Copy] /\ x \in Copy
          BY <1>0 DEF TypeOK
        <4>3. chan \in [Runs -> Seq(Copy)] /\ Len(chan[r]) < Buffer
          BY <1>0, <3>2 DEF Channels, LoopSend
        <4>4. Append(chan[r], x) \in Seq(Copy) /\ Len(Append(chan[r], x)) = Len(chan[r]) + 1
          BY <4>2, <4>3
        <4>5. Len(chan[r]) \in Nat /\ Buffer \in Nat
          BY <4>3, ScanAssumption
        <4>6. Channels'
          BY <1>0, <4>1, <4>3, <4>4, <4>5 DEF Channels
        <4>7. toSend' \in [Runs -> SUBSET Copy]
          BY <4>1, <4>2
        <4> QED
          BY <4>6, <4>7
      <3>3. CASE ~LoopFetch(r) /\ ~LoopSend(r)
        <4>1. UNCHANGED <<toSend, chan>>
          BY <1>2, <3>3 DEF Loop, LoopCheck, LoopEmpty, LoopDrain, CompleteStats,
                            CompleteCancelled, CompleteJob, CleanUp, DeleteRows
        <4> QED
          BY <1>0, <4>1 DEF TypeOK, Channels
      <3> QED
        BY <3>1, <3>2, <3>3
    <2>8. \A s \in Runs : Len(chan'[s]) <= Buffer /\ \A i \in 1..Len(chan'[s]) : chan'[s][i] \in Copy
      BY <2>7 DEF Channels
    <2>9. TypeOK'
      BY <1>0, <2>1, <2>2, <2>3, <2>4, <2>5, <2>6, <2>7, <2>8 DEF TypeOK, hashVars, workVars
    <2> QED
      BY <1>0, <2>1, <2>7, <2>9 DEF Types, HoldsOne, workVars
  <1> QED
    BY <1>1, <1>2

\* What a worker that is not idle has in its hands.
LEMMA HeldCopy ==
  ASSUME Types, NEW r \in Runs, NEW w \in Workers, wpc[<<r, w>>] # "idle"
  PROVE  \E x \in Copy : held[<<r, w>>] = {x}
  BY DEF Types, HoldsOne, Crew

\* The workers keep the types: a copy is retried only below the limit.
LEMMA TypesWorker ==
  ASSUME Types, NEW r \in Runs, NEW w \in Workers, Worker(r, w) PROVE Types'
  <1>0. TypeOK /\ Channels /\ HoldsOne
    BY DEF Types
  <1>1. Crew = Runs \X Workers /\ <<r, w>> \in Crew
    BY DEF Crew
  <1>2. UNCHANGED <<job, alive, client, hashVars, loop, toSend, clean, lost, crashes>>
    BY DEF Worker, Take, Mark, Process, Succeed, FailFile, Retry, Wake, Drop, dbVars, loopVars,
           history
  <1>3. wpc' \in [Crew -> {"idle", "mark", "process", "ok", "warning", "transient",
                           "permanent", "backoff"}]
    <2>1. \E s \in {"idle", "mark", "process", "ok", "warning", "transient", "permanent",
                    "backoff"} : wpc' = [wpc EXCEPT ![<<r, w>>] = s]
      BY DEF Worker, Take, Mark, Process, Succeed, FailFile, Retry, Wake, Drop
    <2> QED
      BY <1>0, <1>1, <2>1 DEF TypeOK
  <1>4. Channels' /\ held' \in [Crew -> SUBSET Copy] /\ HoldsOne'
    <2>1. CASE Take(r, w)
      <3>1. /\ chan \in [Runs -> Seq(Copy)] /\ chan[r] # <<>> /\ Len(chan[r]) <= Buffer
            /\ Buffer \in Nat
        BY <1>0, <2>1, ScanAssumption DEF Channels, Take
      <3>2. /\ Head(chan[r]) \in Copy /\ Tail(chan[r]) \in Seq(Copy)
            /\ Len(Tail(chan[r])) = Len(chan[r]) - 1 /\ Len(chan[r]) \in Nat
        BY <3>1
      <3>3. Channels'
        BY <1>0, <2>1, <3>1, <3>2 DEF Channels, Take
      <3>4. /\ held' = [held EXCEPT ![<<r, w>>] = {Head(chan[r])}]
            /\ wpc' = [wpc EXCEPT ![<<r, w>>] = "mark"]
        BY <2>1 DEF Take
      <3>5. held' \in [Crew -> SUBSET Copy]
        BY <1>0, <3>2, <3>4 DEF TypeOK
      <3>6. held'[<<r, w>>] = {Head(chan[r])}
            /\ \A c \in Crew \ {<<r, w>>} : held'[c] = held[c] /\ wpc'[c] = wpc[c]
        BY <1>0, <1>1, <3>4 DEF TypeOK
      <3>7. HoldsOne'
        BY <1>0, <3>2, <3>6 DEF HoldsOne
      <3> QED
        BY <3>3, <3>5, <3>7
    <2>2. CASE ~Take(r, w)
      <3>1. chan' = chan
        BY <2>2 DEF Worker, Mark, Process, Succeed, FailFile, Retry, Wake, loopVars
      <3>2. \/ /\ wpc[<<r, w>>] # "idle" /\ held' = held
               /\ \E s \in {"process", "ok", "warning", "transient", "permanent", "backoff"} :
                    wpc' = [wpc EXCEPT ![<<r, w>>] = s]
            \/ Drop(r, w)
        BY <2>2 DEF Worker, Mark, Process, Succeed, FailFile, Retry, Wake
      <3>3. Channels'
        BY <1>0, <3>1 DEF Channels
      <3>4. wpc \in [Crew -> {"idle", "mark", "process", "ok", "warning", "transient",
                              "permanent", "backoff"}] /\ held \in [Crew -> SUBSET Copy]
        BY <1>0 DEF TypeOK
      <3>5. held' \in [Crew -> SUBSET Copy]
        BY <3>2, <3>4 DEF Drop
      <3>6. HoldsOne'
        BY <1>0, <1>1, <3>2, <3>4 DEF HoldsOne, Drop
      <3> QED
        BY <3>3, <3>5, <3>6
    <2> QED
      BY <2>1, <2>2
  <1>5. /\ cp' \in [OnDisk -> {"none", "pending", "processing", "completed", "warning", "failed"}]
        /\ retries' \in [OnDisk -> 0..MaxRetries]
        /\ known' \subseteq OnDisk \cup Gone /\ media' \subseteq OnDisk \cup Gone
        /\ found' \in [Runs -> SUBSET OnDisk] /\ failed' \subseteq OnDisk
    <2>1. CASE Take(r, w)
      BY <1>0, <2>1 DEF Take, dbVars, history, TypeOK
    <2>2. CASE ~Take(r, w)
      <3>1. wpc[<<r, w>>] # "idle"
        BY <2>2 DEF Worker, Mark, Process, Succeed, FailFile, Retry, Wake
      <3>2. PICK x \in Copy : held[<<r, w>>] = {x}
        BY <3>1, HeldCopy
      <3>3. x.file \in OnDisk /\ x.retry \in 0..MaxRetries
        BY <3>2 DEF Copy
      <3>4. \/ cp' = cp
            \/ \E s \in {"pending", "processing", "completed", "warning", "failed"} :
                 SetRow(r, x.file, s)
        BY <2>2, <3>2 DEF Worker, Mark, Process, Succeed, FailFile, Retry, Wake, dbVars
      <3>5. \/ retries' = retries
            \/ /\ x.retry < MaxRetries
               /\ retries' = [retries EXCEPT ![x.file] = x.retry + 1]
        BY <2>2, <3>2 DEF Worker, Mark, Process, Succeed, FailFile, Retry, Wake, dbVars
      <3>6. /\ known' \in {known, known \cup {x.file}} /\ media' \in {media, media \cup {x.file}}
            /\ failed' \in {failed, failed \cup {x.file}}
        BY <2>2, <3>2 DEF Worker, Mark, Process, Succeed, FailFile, Retry, Wake, dbVars, history
      <3>7. \/ found' = found
            \/ found' = [found EXCEPT ![r] = found[r] \cup {x.file}]
        BY <2>2, <3>2 DEF Worker, Mark, Process, Succeed, FailFile, Retry, Wake, loopVars
      <3>8. x.retry < MaxRetries => x.retry + 1 \in 0..MaxRetries
        BY <3>3, ScanAssumption
      <3>9. /\ cp \in [OnDisk -> RowStates] /\ retries \in [OnDisk -> 0..MaxRetries]
            /\ found \in [Runs -> SUBSET OnDisk]
            /\ known \subseteq OnDisk \cup Gone /\ media \subseteq OnDisk \cup Gone
            /\ failed \subseteq OnDisk
        BY <1>0 DEF TypeOK, RowStates
      <3>10. cp' \in [OnDisk -> RowStates]
        BY <3>3, <3>4, <3>9 DEF SetRow, RowStates
      <3>11. retries' \in [OnDisk -> 0..MaxRetries]
        BY <3>3, <3>5, <3>8, <3>9
      <3>12. found' \in [Runs -> SUBSET OnDisk]
        BY <3>3, <3>7, <3>9
      <3> QED
        BY <3>3, <3>6, <3>9, <3>10, <3>11, <3>12 DEF RowStates
    <2> QED
      BY <2>1, <2>2
  <1>6. \A s \in Runs : Len(chan'[s]) <= Buffer /\ \A i \in 1..Len(chan'[s]) : chan'[s][i] \in Copy
    BY <1>4 DEF Channels
  <1>7. TypeOK'
    BY <1>0, <1>2, <1>3, <1>4, <1>5, <1>6 DEF TypeOK, hashVars
  <1> QED
    BY <1>4, <1>7 DEF Types

\* Every step keeps the types.
LEMMA TypesStep == Types /\ [Next]_vars => Types'
  <1>1. ASSUME Types, UNCHANGED vars PROVE Types'
    BY <1>1 DEF vars, dbVars, hashVars, loopVars, workVars, history, Types, TypeOK, Channels,
                HoldsOne
  <1> QED
    BY <1>1, TypesOutside, TypesMain, TypesLoop, TypesWorker DEF Next

\* Rows, channels, goroutines and retry counts keep their types: the channel never
\* holds more than its capacity, and no row is retried more than MaxRetries times,
\* however many runs and workers count from copies of it (RetryCheckpoint).
THEOREM ScanTypes == Spec => []TypeOK
  <1>1. Types => TypeOK
    BY DEF Types
  <1> QED
    BY <1>1, TypesInit, TypesStep, PTL DEF Spec

------------------------------------------------------------------------------
(* What completed means, for one run at a time.                             *)

\* Files on disk that the scan has neither recorded nor given up.
Uncovered == OnDisk \ (known \cup failed \cup lost)

\* A row that says processed is true: the file is recorded, or its error was.
RowsTrue ==
  \A f \in OnDisk : /\ cp[f] \in {"completed", "warning"} => f \in known
                    /\ cp[f] = "failed" => f \in failed
ResultsTrue ==
  \A c \in Crew : wpc[c] \in {"ok", "warning"} => \A x \in held[c] : x.file \in known

\* Once the loop is past its drain, nothing is in the channel or with a worker.
Ending == {"stats", "complete", "cleanup", "delete"}
Drained ==
  \A r \in Runs : loop[r] \in Ending \cup {"off"} =>
    chan[r] = <<>> /\ \A w \in Workers : wpc[<<r, w>>] = "idle"

\* What the rows say of the uncovered files at each stage of a run: a scan to be
\* resumed finds them pending, hashing has them before it, afterwards they have rows,
\* and there are none once the loop has seen that all rows are processed.
StageFits(r) ==
  /\ main[r] \in {"init", "discover"} => loop[r] = "off"
  /\ main[r] \in {"off", "init"} /\ Rows # {} => Uncovered \subseteq Pending
  /\ main[r] = "discover" => Rows = {}
  /\ main[r] = "hash" => Uncovered \subseteq Rows \cup toHash[r]
  /\ hashed[r] => main[r] \notin {"off", "init", "discover"} /\ Uncovered \subseteq Rows
  /\ loop[r] \in Ending \cup {"drain"} /\ CtxOK(r) => Uncovered = {}

\* While the server is down nothing runs, and the next start finds the rows as a scan
\* to be resumed does.
Asleep ==
  ~alive => /\ client = "idle" /\ \A r \in Runs : main[r] = "off" /\ loop[r] = "off"
            /\ Rows # {} => Uncovered \subseteq Pending

Covering == /\ Asleep /\ RowsTrue /\ ResultsTrue /\ Drained
            /\ \A r \in Runs : StageFits(r)
            /\ CompletedCovers

\* One run of the job at a time.
OneRun == \A r, s \in Runs : r = s

\* Before the scan there is no row and no run.
LEMMA CoveringInit == Init => Covering
  <1> SUFFICES ASSUME Init PROVE Covering
    OBVIOUS
  <1>1. RowsTrue /\ ResultsTrue /\ CompletedCovers
    BY DEF Init, RowsTrue, ResultsTrue, CompletedCovers
  <1>5. Asleep
    BY DEF Init, Asleep
  <1>2. Drained
    BY DEF Init, Drained, Crew
  <1>3. Rows = {}
    BY DEF Init, Rows
  <1>4. ASSUME NEW r \in Runs PROVE StageFits(r)
    <2>1. main[r] = "off" /\ loop[r] = "off" /\ ~hashed[r]
      BY DEF Init
    <2> QED
      BY <1>3, <2>1 DEF StageFits, Ending
  <1> QED
    BY <1>1, <1>2, <1>4, <1>5 DEF Covering

------------------------------------------------------------------------------
(* What steps do to rows and records *)

\* The process ends with no goroutine left, and gives up what no later run finds.
LEMMA DownEffect ==
  ASSUME Down
  PROVE  /\ UNCHANGED <<job, cp, retries, known, media, failed>> /\ lost' = lost \cup LeftOut
         /\ \A c \in Crew : wpc'[c] = "idle"
         /\ \A r \in Runs : /\ main'[r] = "off" /\ loop'[r] = "off" /\ chan'[r] = <<>>
                            /\ ~hashed'[r] /\ ~clean'[r]
  BY DEF Down, dbVars

\* Launch starts a run where there is none.
LEMMA LaunchEffect ==
  ASSUME Types, NEW s \in Runs, Launch(s)
  PROVE  /\ main[s] = "off" /\ loop[s] = "off" /\ main' = [main EXCEPT ![s] = "init"]
         /\ UNCHANGED <<toHash, hashed, loop, chan, clean, wpc, held>>
  BY DEF Launch, loopVars, workVars

\* Requests and restarts change no row and no record.
LEMMA OutsideEffect ==
  ASSUME Types, StartScan \/ Request \/ Pause \/ Resume \/ Boot
  PROVE  /\ UNCHANGED <<cp, known, media, failed, lost, toHash, hashed, loop, chan, clean,
                        wpc, held>>
         /\ \/ main' = main
            \/ \E s \in Runs : main[s] = "off" /\ loop[s] = "off"
                               /\ main' = [main EXCEPT ![s] = "init"]
  <1>1. CASE Request \/ Pause
    BY <1>1 DEF Request, Pause, dbVars, hashVars, loopVars, workVars, history
  <1>2. CASE StartScan \/ Resume
    BY <1>2, LaunchEffect DEF StartScan, Resume, history
  <1>3. CASE Boot
    <2>1. UNCHANGED <<cp, known, media, failed, lost>>
      BY <1>3 DEF Boot, history
    <2>2. UNCHANGED <<hashVars, loopVars, workVars>> \/ \E s \in Runs : Launch(s)
      BY <1>3 DEF Boot
    <2> QED
      BY <2>1, <2>2, LaunchEffect DEF hashVars, loopVars, workVars
  <1> QED
    BY <1>1, <1>2, <1>3

\* runScan inserts and deletes rows; it touches no worker and no loop but its own,
\* and forgets records only of files that are gone.
LEMMA MainEffect ==
  ASSUME Types, NEW r \in Runs, Main(r)
  PROVE  /\ UNCHANGED <<media, failed, chan, clean, wpc, held>>
         /\ known \cap OnDisk \subseteq known' /\ lost \subseteq lost'
         /\ \A f \in OnDisk : cp'[f] \in {cp[f], "none", "pending"}
         /\ \/ loop' = loop
            \/ /\ main[r] \in {"init", "discover"}
               /\ loop' = [loop EXCEPT ![r] = "check"]
  <1>1. UNCHANGED <<media, failed, chan, clean, wpc, held>> /\ lost \subseteq lost'
    BY DEF Main, InitFresh, InitCompleted, InitResume, InitAgain, WalkFails, NothingToScan,
           Discover, Hash, HashFails, HashDone, FailJob, Return, dbVars, loopVars, workVars, history
  <1>2. known \cap OnDisk \subseteq known'
    BY DEF Main, InitFresh, InitCompleted, InitResume, InitAgain, WalkFails, NothingToScan,
           Discover, Deleted, Hash, HashFails, HashDone, FailJob, Return, dbVars
  <1>3. \A f \in OnDisk : cp'[f] \in {cp[f], "none", "pending"}
    BY DEF Main, InitFresh, InitCompleted, InitResume, InitAgain, DeleteAll, WalkFails,
           NothingToScan, Discover, Hash, HashFails, HashDone, FailJob, Return, dbVars
  <1>4. loop' = loop \/ (main[r] \in {"init", "discover"} /\ loop' = [loop EXCEPT ![r] = "check"])
    BY DEF Main, InitFresh, InitCompleted, InitResume, InitAgain, WalkFails, NothingToScan,
           Discover, Hash, HashFails, HashDone, FailJob, Return, loopVars
  <1> QED
    BY <1>1, <1>2, <1>3, <1>4

\* The loop deletes the rows at its very end, and otherwise leaves them alone.
LEMMA LoopEffect ==
  ASSUME Types, NEW r \in Runs, Loop(r), ~CompletePanics(r)
  PROVE  /\ UNCHANGED <<known, failed, main, toHash, hashed, wpc, held>> /\ lost \subseteq lost'
         /\ \/ cp' = cp
            \/ loop[r] = "delete" /\ CtxOK(r) /\ cp' = [f \in OnDisk |-> "none"]
         /\ loop[r] # "off" /\ \E s \in {"off", "check", "fetch", "empty", "send", "drain", "stats",
                      "complete", "cleanup", "delete"} : loop' = [loop EXCEPT ![r] = s]
  <1>1. UNCHANGED <<known, failed, main, toHash, hashed, wpc, held>> /\ lost \subseteq lost'
    BY DEF Loop, LoopCheck, LoopFetch, LoopEmpty, LoopSend, LoopDrain, CompleteStats,
           CompleteCancelled, CompleteJob, CleanUp, DeleteRows, dbVars, hashVars, workVars, history
  <1>2. cp' = cp \/ (loop[r] = "delete" /\ CtxOK(r) /\ cp' = [f \in OnDisk |-> "none"])
    BY DEF Loop, LoopCheck, LoopFetch, LoopEmpty, LoopSend, LoopDrain, CompleteStats,
           CompleteCancelled, CompleteJob, CleanUp, DeleteRows, DeleteAll, dbVars
  <1>3. loop[r] # "off" /\ \E s \in {"off", "check", "fetch", "empty", "send", "drain", "stats",
                  "complete", "cleanup", "delete"} : loop' = [loop EXCEPT ![r] = s]
    BY DEF Loop, LoopCheck, LoopFetch, LoopEmpty, LoopSend, LoopDrain, CompleteStats,
           CompleteCancelled, CompleteJob, CleanUp, DeleteRows, LoopEnds
  <1> QED
    BY <1>1, <1>2, <1>3

\* A worker writes the row of the copy in its hands, if the run's context allows.
LEMMA WorkerEffect ==
  ASSUME Types, NEW r \in Runs, NEW w \in Workers, Worker(r, w)
  PROVE  /\ UNCHANGED <<job, lost, main, toHash, hashed, loop, clean>>
         /\ known \subseteq known' /\ failed \subseteq failed' /\ media \subseteq media'
         /\ Rows' = Rows /\ (~CtxOK(r) => cp' = cp)
         /\ wpc[<<r, w>>] # "idle" \/ chan[r] # <<>>
         /\ wpc' = [wpc EXCEPT ![<<r, w>>] = wpc'[<<r, w>>]]
         /\ held' = [held EXCEPT ![<<r, w>>] = held'[<<r, w>>]]
         /\ \/ chan' = chan
            \/ chan[r] # <<>> /\ chan' = [chan EXCEPT ![r] = Tail(chan[r])]
  <1>0. Crew = Runs \X Workers /\ <<r, w>> \in Crew
    BY DEF Crew
  <1>1. UNCHANGED <<job, lost, main, toHash, hashed, loop, clean>>
    BY DEF Worker, Take, Mark, Process, Succeed, FailFile, Retry, Wake, dbVars, hashVars, loopVars,
           history
  <1>2. known \subseteq known' /\ failed \subseteq failed' /\ media \subseteq media'
    <2>1. CASE Take(r, w)
      BY <2>1 DEF Take, dbVars, history
    <2>2. CASE ~Take(r, w)
      <3>1. PICK x \in Copy : held[<<r, w>>] = {x}
        BY <2>2, HeldCopy DEF Worker, Mark, Process, Succeed, FailFile, Retry, Wake
      <3> QED
        BY <2>2, <3>1 DEF Worker, Mark, Process, Succeed, FailFile, Retry, Wake, dbVars, history
    <2> QED
      BY <2>1, <2>2
  <1>3. wpc[<<r, w>>] # "idle" \/ chan[r] # <<>>
    BY DEF Worker, Take, Mark, Process, Succeed, FailFile, Retry, Wake
  <1>4. wpc \in [Crew -> {"idle", "mark", "process", "ok", "warning", "transient",
                          "permanent", "backoff"}] /\ held \in [Crew -> SUBSET Copy]
    BY DEF Types, TypeOK
  <1>5. /\ \E s \in {"idle", "mark", "process", "ok", "warning", "transient", "permanent",
                     "backoff"} : wpc' = [wpc EXCEPT ![<<r, w>>] = s]
        /\ \E h : held' = [held EXCEPT ![<<r, w>>] = h]
    <2>1. held' = held => held' = [held EXCEPT ![<<r, w>>] = held[<<r, w>>]]
      BY <1>4
    <2> QED
      BY <2>1 DEF Worker, Take, Mark, Process, Succeed, FailFile, Retry, Wake, Drop
  <1>6. /\ wpc' = [wpc EXCEPT ![<<r, w>>] = wpc'[<<r, w>>]]
        /\ held' = [held EXCEPT ![<<r, w>>] = held'[<<r, w>>]]
    BY <1>0, <1>4, <1>5
  <1>7. chan' = chan \/ (chan[r] # <<>> /\ chan' = [chan EXCEPT ![r] = Tail(chan[r])])
    BY DEF Worker, Take, Mark, Process, Succeed, FailFile, Retry, Wake, loopVars
  <1>8. Rows' = Rows /\ (~CtxOK(r) => cp' = cp)
    <2>1. CASE Take(r, w)
      BY <2>1 DEF Take, dbVars, Rows
    <2>2. CASE ~Take(r, w)
      <3>1. PICK x \in Copy : held[<<r, w>>] = {x}
        BY <2>2, HeldCopy DEF Worker, Mark, Process, Succeed, FailFile, Retry, Wake
      <3>2. \/ cp' = cp
            \/ \E s \in {"pending", "processing", "completed", "warning", "failed"} :
                 SetRow(r, x.file, s)
        BY <2>2, <3>1 DEF Worker, Mark, Process, Succeed, FailFile, Retry, Wake, dbVars
      <3>3. cp \in [OnDisk -> RowStates]
        BY DEF Types, TypeOK, RowStates
      <3> QED
        BY <3>2, <3>3 DEF SetRow, Rows
    <2> QED
      BY <2>1, <2>2
  <1> QED
    BY <1>1, <1>2, <1>3, <1>6, <1>7, <1>8

------------------------------------------------------------------------------
(* Results are true and the loop drains, whoever runs                         *)

\* A row says completed only of a file that is recorded, failed only of one whose
\* error was: the worker has recorded the file before it writes the row.
LEMMA ResultsStep ==
  ASSUME Types, RowsTrue, ResultsTrue, [Next]_vars PROVE RowsTrue' /\ ResultsTrue'
  <1>0. cp \in [OnDisk -> RowStates] /\ wpc \in [Crew -> {"idle", "mark", "process", "ok",
                 "warning", "transient", "permanent", "backoff"}]
    BY DEF Types, TypeOK, RowStates
  <1>1. ASSUME /\ UNCHANGED failed /\ known \cap OnDisk \subseteq known'
               /\ \A f \in OnDisk : cp'[f] \in {cp[f], "none", "pending"}
               /\ \A c \in Crew : wpc'[c] = "idle" \/ (wpc'[c] = wpc[c] /\ held'[c] = held[c])
        PROVE  RowsTrue' /\ ResultsTrue'
    <2>1. RowsTrue'
      BY <1>1 DEF RowsTrue
    <2>2. \A c \in Crew : \A x \in held[c] : x.file \in OnDisk
      BY DEF Types, TypeOK, Copy
    <2>3. ResultsTrue'
      BY <1>1, <2>2 DEF ResultsTrue
    <2> QED
      BY <2>1, <2>3
  <1>2. CASE StartScan \/ Request \/ Pause \/ Resume \/ Boot
    <2>1. UNCHANGED <<failed, known, cp, wpc, held>>
      BY <1>2, OutsideEffect
    <2> QED
      BY <1>1, <2>1
  <1>3. CASE Crash \/ \E r \in Runs : CompletePanics(r)
    <2>1. UNCHANGED <<failed, known, cp>> /\ \A c \in Crew : wpc'[c] = "idle"
      BY <1>3, DownEffect DEF Crash, CompletePanics
    <2> QED
      BY <1>1, <2>1
  <1>4. ASSUME NEW r \in Runs, Main(r) PROVE RowsTrue' /\ ResultsTrue'
    BY <1>1, <1>4, MainEffect
  <1>5. ASSUME NEW r \in Runs, Loop(r), ~CompletePanics(r) PROVE RowsTrue' /\ ResultsTrue'
    <2>1. UNCHANGED <<failed, known, wpc, held>> /\ \A f \in OnDisk : cp'[f] \in {cp[f], "none"}
      BY <1>5, LoopEffect
    <2> QED
      BY <1>1, <2>1
  <1>6. ASSUME NEW r \in Runs, NEW w \in Workers, Worker(r, w) PROVE RowsTrue' /\ ResultsTrue'
    <2> DEFINE c == <<r, w>>
    <2>0. c \in Crew /\ Crew = Runs \X Workers
      BY DEF Crew
    <2>1. /\ known \subseteq known' /\ failed \subseteq failed'
          /\ \A d \in Crew \ {c} : wpc'[d] = wpc[d] /\ held'[d] = held[d]
      BY <1>6, <2>0, WorkerEffect DEF Types, TypeOK
    <2>2. CASE Take(r, w)
      <3>1. wpc'[c] = "mark" /\ cp' = cp
        BY <1>0, <2>0, <2>2 DEF Take, dbVars
      <3> QED
        BY <2>1, <3>1 DEF RowsTrue, ResultsTrue
    <2>3. CASE ~Take(r, w)
      <3>1. PICK x \in Copy : held[c] = {x}
        BY <1>6, <2>3, HeldCopy DEF Worker, Mark, Process, Succeed, FailFile, Retry, Wake
      <3>2. x.file \in OnDisk
        BY DEF Copy
      <3>3. CASE Process(r, w)
        <4>1. UNCHANGED <<cp, held>> /\ \E s \in {"ok", "warning", "transient", "permanent"} :
                wpc' = [wpc EXCEPT ![c] = s] /\ (s \in {"ok", "warning"} => x.file \in known')
          BY <3>1, <3>3 DEF Process
        <4>2. wpc'[c] \in {"ok", "warning"} => x.file \in known'
          BY <1>0, <2>0, <4>1
        <4> QED
          BY <2>1, <3>1, <4>1, <4>2 DEF RowsTrue, ResultsTrue
      <3>4. CASE Succeed(r, w)
        <4>1. x.file \in known /\ wpc'[c] = "idle"
          BY <1>0, <2>0, <3>1, <3>4 DEF ResultsTrue, Succeed, Drop
        <4>2. \A f \in OnDisk : cp'[f] = cp[f] \/ (f = x.file /\ cp'[f] \in {"completed", "warning"})
          BY <1>0, <3>1, <3>4 DEF Succeed, SetRow
        <4> QED
          BY <2>1, <4>1, <4>2 DEF RowsTrue, ResultsTrue
      <3>5. CASE FailFile(r, w)
        <4>1. wpc'[c] = "idle"
          BY <1>0, <2>0, <3>5 DEF FailFile, Drop
        <4>2. \A f \in OnDisk : cp'[f] = cp[f] \/ (f = x.file /\ cp'[f] = "failed" /\ f \in failed')
          BY <1>0, <3>1, <3>5 DEF FailFile, SetRow
        <4> QED
          BY <2>1, <4>1, <4>2 DEF RowsTrue, ResultsTrue
      <3>6. CASE Mark(r, w) \/ Retry(r, w) \/ Wake(r, w)
        <4>1. wpc'[c] \in {"idle", "process", "backoff"}
          BY <1>0, <2>0, <3>6 DEF Mark, Retry, Wake, Drop
        <4>2. \A f \in OnDisk : cp'[f] = cp[f] \/ cp'[f] \in {"processing", "pending"}
          BY <1>0, <3>1, <3>6 DEF Mark, Retry, Wake, SetRow
        <4> QED
          BY <2>1, <4>1, <4>2 DEF RowsTrue, ResultsTrue
      <3> QED
        BY <1>6, <2>3, <3>3, <3>4, <3>5, <3>6 DEF Worker
    <2> QED
      BY <2>2, <2>3
  <1>7. CASE UNCHANGED vars
    BY <1>7 DEF vars, dbVars, workVars, history, RowsTrue, ResultsTrue
  <1> QED
    BY <1>2, <1>3, <1>4, <1>5, <1>6, <1>7 DEF Next

\* The loop ends only with an empty channel and idle workers, and what is at an end
\* stays so: a worker needs a copy, a copy needs the loop.
LEMMA DrainedStep == ASSUME Types, Drained, [Next]_vars PROVE Drained'
  <1>0. /\ Crew = Runs \X Workers
        /\ loop \in [Runs -> {"off", "check", "fetch", "empty", "send", "drain", "stats",
                              "complete", "cleanup", "delete"}]
        /\ wpc \in [Crew -> {"idle", "mark", "process", "ok",
                 "warning", "transient", "permanent", "backoff"}]
        /\ chan \in [Runs -> Seq(Copy)]
    BY DEF Types, TypeOK, Channels, Crew
  <1>1. CASE StartScan \/ Request \/ Pause \/ Resume \/ Boot
    <2>1. UNCHANGED <<loop, chan, wpc>>
      BY <1>1, OutsideEffect
    <2> QED
      BY <2>1 DEF Drained
  <1>2. CASE Crash \/ \E r \in Runs : CompletePanics(r)
    <2>1. (\A r \in Runs : chan'[r] = <<>>) /\ \A c \in Crew : wpc'[c] = "idle"
      BY <1>2, DownEffect DEF Crash, CompletePanics
    <2> QED
      BY <1>0, <2>1 DEF Drained
  <1>3. ASSUME NEW r \in Runs, Main(r) PROVE Drained'
    <2>1. UNCHANGED <<chan, wpc>> /\ \A s \in Runs : loop'[s] \in {loop[s], "check"}
      BY <1>0, <1>3, MainEffect
    <2> QED
      BY <2>1 DEF Drained, Ending
  <1>4. ASSUME NEW r \in Runs, Loop(r), ~CompletePanics(r) PROVE Drained'
    <2>1. wpc' = wpc /\ \A s \in Runs \ {r} : loop'[s] = loop[s]
      BY <1>0, <1>4, LoopEffect
    <2>2. \A s \in Runs \ {r} : chan'[s] = chan[s]
      BY <1>0, <1>4 DEF Loop, LoopCheck, LoopFetch, LoopEmpty, LoopSend, LoopDrain, CompleteStats,
           CompleteCancelled, CompleteJob, CleanUp, DeleteRows
    <2>3. loop'[r] \in Ending \cup {"off"} =>
            chan'[r] = <<>> /\ \A w \in Workers : wpc[<<r, w>>] = "idle"
      <3>1. CASE loop[r] \in Ending \cup {"off"}
        <4>1. chan' = chan
          BY <1>4, <3>1 DEF Loop, LoopCheck, LoopFetch, LoopEmpty, LoopSend, LoopDrain, CompleteStats,
             CompleteCancelled, CompleteJob, CleanUp, DeleteRows, Ending
        <4> QED
          BY <3>1, <4>1 DEF Drained
      <3>2. CASE LoopDrain(r)
        BY <3>2 DEF LoopDrain
      <3>3. CASE loop[r] \notin Ending \cup {"off"} /\ ~LoopDrain(r)
        <4>1. loop'[r] \in {"check", "fetch", "empty", "send", "drain"}
          BY <1>0, <1>4, <3>3 DEF Loop, LoopCheck, LoopFetch, LoopEmpty, LoopSend, CompleteStats,
             CompleteCancelled, CompleteJob, CleanUp, DeleteRows, Ending
        <4> QED
          BY <4>1 DEF Ending
      <3> QED
        BY <3>1, <3>2, <3>3
    <2> QED
      BY <2>1, <2>2, <2>3 DEF Drained
  <1>5. ASSUME NEW r \in Runs, NEW w \in Workers, Worker(r, w) PROVE Drained'
    <2>1. loop[r] \notin Ending \cup {"off"}
      BY <1>5, WorkerEffect DEF Drained
    <2>2. loop' = loop /\ \A s \in Runs \ {r} : chan'[s] = chan[s]
      BY <1>0, <1>5, WorkerEffect
    <2>3. wpc' = [wpc EXCEPT ![<<r, w>>] = wpc'[<<r, w>>]]
      BY <1>5, WorkerEffect
    <2>4. \A s \in Runs \ {r} : \A v \in Workers : <<s, v>> \in Crew \ {<<r, w>>}
      BY <1>0
    <2>5. \A s \in Runs \ {r} : \A v \in Workers : wpc'[<<s, v>>] = wpc[<<s, v>>]
      BY <1>0, <2>3, <2>4
    <2> QED
      BY <2>1, <2>2, <2>5 DEF Drained
  <1>6. CASE UNCHANGED vars
    BY <1>6 DEF vars, loopVars, workVars, Drained
  <1> QED
    BY <1>1, <1>2, <1>3, <1>4, <1>5, <1>6 DEF Next

------------------------------------------------------------------------------
(* The stages of a run, one run at a time                                     *)

\* Files are only ever covered, never uncovered: no record of a file on disk, no
\* failure and no file given up is forgotten.
LEMMA UncoveredShrinks ==
  ASSUME Types, [Next]_vars PROVE Uncovered' \subseteq Uncovered
  <1>1. ASSUME known \cap OnDisk \subseteq known', failed \subseteq failed', lost \subseteq lost'
        PROVE  Uncovered' \subseteq Uncovered
    BY <1>1 DEF Uncovered
  <1>2. CASE StartScan \/ Request \/ Pause \/ Resume \/ Boot
    BY <1>1, <1>2, OutsideEffect
  <1>3. CASE Crash \/ \E r \in Runs : CompletePanics(r)
    BY <1>1, <1>3, DownEffect DEF Crash, CompletePanics
  <1>4. ASSUME NEW r \in Runs, Main(r) PROVE Uncovered' \subseteq Uncovered
    BY <1>1, <1>4, MainEffect
  <1>5. ASSUME NEW r \in Runs, Loop(r), ~CompletePanics(r) PROVE Uncovered' \subseteq Uncovered
    BY <1>1, <1>5, LoopEffect
  <1>6. ASSUME NEW r \in Runs, NEW w \in Workers, Worker(r, w) PROVE Uncovered' \subseteq Uncovered
    BY <1>1, <1>6, WorkerEffect
  <1>7. CASE UNCHANGED vars
    BY <1>1, <1>7 DEF vars, dbVars, history
  <1> QED
    BY <1>2, <1>3, <1>4, <1>5, <1>6, <1>7 DEF Next

\* A row of an uncovered file is not one that says processed.
LEMMA UncoveredRows ==
  ASSUME Types, RowsTrue
  PROVE  \A f \in Uncovered : cp[f] \in {"none", "pending", "processing"}
  BY DEF Types, TypeOK, RowsTrue, Uncovered

\* A crash or the end of a run gives up what is left out: files that stay uncovered
\* are pending, unless there is no row at all.
LEMMA LeftPending ==
  ASSUME Types, RowsTrue, UNCHANGED <<cp, known, failed>>, lost' = lost \cup LeftOut
  PROVE  Rows' # {} => Uncovered' \subseteq Pending'
  <1> SUFFICES ASSUME Rows # {}, NEW f \in Uncovered' PROVE cp[f] = "pending"
    BY DEF Rows, Pending, Uncovered
  <1>1. f \in Uncovered /\ f \in OnDisk /\ f \notin known /\ f \notin LeftOut
    BY DEF Uncovered
  <1>2. cp[f] \notin {"none", "processing"}
    BY <1>1 DEF LeftOut
  <1> QED
    BY <1>1, <1>2, UncoveredRows

\* A run that is off with a loop that is off fits whatever hashing left behind.
LEMMA OffFits ==
  ASSUME NEW r \in Runs, main[r] = "off", ~hashed[r], Rows # {} => Uncovered \subseteq Pending
  PROVE  StageFits(r)
  BY DEF StageFits, CtxOK

\* The goroutine of runScan goes from stage to stage as the stages fit.
LEMMA StageMain ==
  ASSUME OneRun, Types, Covering, NEW r \in Runs, Main(r)
  PROVE  StageFits(r)' /\ CompletedCovers'
  <1>0. /\ main \in [Runs -> {"off", "init", "discover", "hash", "wait", "fail", "return"}]
        /\ hashed \in [Runs -> BOOLEAN] /\ toHash \in [Runs -> SUBSET OnDisk]
        /\ loop \in [Runs -> {"off", "check", "fetch", "empty", "send", "drain", "stats",
                              "complete", "cleanup", "delete"}]
        /\ cp \in [OnDisk -> RowStates]
    BY DEF Types, TypeOK, RowStates
  <1>1. StageFits(r) /\ RowsTrue /\ (job = "completed" => Uncovered = {})
    BY DEF Covering, CompletedCovers, Uncovered
  <1>2. Uncovered' \subseteq Uncovered
    BY UncoveredShrinks DEF Next
  <1>3. ASSUME job' = job \/ Uncovered = {} \/ job' = "failed" PROVE CompletedCovers'
    BY <1>1, <1>2, <1>3 DEF CompletedCovers, Uncovered
  <1>4. Rows \subseteq OnDisk /\ Pending \subseteq Rows
    BY DEF Rows, Pending
  <1>5. CASE InitFresh(r)
    <2>1. /\ main[r] = "init" /\ Rows = {} /\ main'[r] = "discover"
          /\ UNCHANGED <<cp, job, known, failed, lost, toHash, hashed, loop>>
      BY <1>0, <1>5 DEF InitFresh, dbVars, loopVars, history
    <2>2. UNCHANGED <<Rows, Pending, Uncovered>>
      BY <2>1 DEF Rows, Pending, Uncovered
    <2> QED
      BY <1>1, <1>3, <2>1, <2>2 DEF StageFits, CtxOK, Ending
  <1>6. CASE InitCompleted(r)
    <2>1. /\ main[r] = "init" /\ Rows # {} /\ Pending = {} /\ main'[r] = "off" /\ ~hashed'[r]
      BY <1>0, <1>6 DEF InitCompleted, Returns
    <2>2. Uncovered = {}
      BY <1>1, <2>1 DEF StageFits
    <2>3. Uncovered' = {}
      BY <1>2, <2>2
    <2> QED
      BY <1>3, <2>1, <2>2, <2>3 DEF StageFits, CtxOK
  <1>7. CASE InitResume(r)
    <2>1. /\ main[r] = "init" /\ Pending # {} /\ main'[r] = "wait" /\ loop'[r] = "check"
          /\ UNCHANGED <<cp, job>>
      BY <1>0, <1>7 DEF InitResume, dbVars
    <2>2. Uncovered \subseteq Rows /\ Rows' = Rows
      BY <1>1, <1>4, <2>1 DEF StageFits, Rows
    <2> QED
      BY <1>2, <1>3, <2>1, <2>2 DEF StageFits, Ending
  <1>8. CASE InitAgain(r)
    <2>1. /\ main[r] = "init" /\ main'[r] = "discover" /\ UNCHANGED <<job, hashed, loop>>
          /\ cp' = [f \in OnDisk |-> "none"] /\ Pending # {} /\ loop[r] = "off"
      BY <1>0, <1>1, <1>8 DEF InitAgain, DeleteAll, loopVars, StageFits
    <2>2. Rows' = {} /\ ~hashed[r]
      BY <1>1, <2>1 DEF Rows, StageFits
    <2> QED
      BY <1>2, <1>3, <2>1, <2>2 DEF StageFits, Ending
  <1>9. CASE WalkFails(r)
    <2>1. main[r] = "discover" /\ main'[r] = "fail" /\ UNCHANGED <<cp, job, hashed, loop>>
      BY <1>0, <1>9 DEF WalkFails, dbVars, loopVars
    <2>2. Rows' = Rows
      BY <2>1 DEF Rows
    <2> QED
      BY <1>1, <1>2, <1>3, <2>1, <2>2 DEF StageFits, Ending
  <1>10. CASE NothingToScan(r)
    <2>1. Changed = {} /\ main'[r] = "off" /\ ~hashed'[r]
      BY <1>0, <1>10 DEF NothingToScan, Returns
    <2>2. Uncovered = {} /\ Uncovered' = {}
      BY <1>2, <2>1 DEF Changed, Uncovered
    <2> QED
      BY <1>3, <2>1, <2>2 DEF StageFits, CtxOK
  <1>11. CASE Discover(r)
    <2>1. /\ main[r] = "discover" /\ main'[r] = "hash" /\ loop'[r] = "check"
          /\ toHash'[r] = Changed /\ UNCHANGED <<cp, job, hashed>>
      BY <1>0, <1>11 DEF Discover
    <2>2. Rows' = Rows /\ Uncovered \subseteq Changed
      BY <2>1 DEF Rows, Uncovered, Changed
    <2> QED
      BY <1>1, <1>2, <1>3, <2>1, <2>2 DEF StageFits, Ending
  <1>12. CASE Hash(r)
    <2>1. PICK b \in SUBSET (toHash[r] \ Rows) :
            /\ cp' = [f \in OnDisk |-> IF f \in b THEN "pending" ELSE cp[f]]
            /\ toHash' = [toHash EXCEPT ![r] = toHash[r] \ b]
      BY <1>12 DEF Hash
    <2>2. main[r] = "hash" /\ UNCHANGED <<main, job, hashed, loop>>
      BY <1>12 DEF Hash, loopVars
    <2>3. b \subseteq OnDisk
      BY <1>0, <2>1
    <2>4. Rows' = Rows \cup b
      BY <1>0, <2>1, <2>3 DEF Rows
    <2>5. toHash'[r] = toHash[r] \ b
      BY <1>0, <2>1
    <2> QED
      BY <1>1, <1>2, <1>3, <2>2, <2>4, <2>5 DEF StageFits, CtxOK
  <1>13. CASE HashFails(r)
    <2>1. UNCHANGED <<cp, job, main, toHash, hashed, loop>> /\ main[r] = "hash"
      BY <1>13 DEF HashFails, dbVars, loopVars
    <2>2. Rows' = Rows
      BY <2>1 DEF Rows
    <2> QED
      BY <1>1, <1>2, <1>3, <2>1, <2>2 DEF StageFits, CtxOK
  <1>14. CASE HashDone(r)
    <2>1. /\ main[r] = "hash" /\ main'[r] \in {"fail", "wait"} /\ lost' = lost \cup toHash[r]
          /\ UNCHANGED <<cp, job, loop>>
      BY <1>0, <1>14 DEF HashDone, dbVars, loopVars
    <2>2. Rows' = Rows /\ Uncovered' \cap toHash[r] = {}
      BY <2>1 DEF Rows, Uncovered
    <2>3. Uncovered' \subseteq Rows
      BY <1>1, <1>2, <2>1, <2>2 DEF StageFits
    <2> QED
      BY <1>1, <1>2, <1>3, <2>1, <2>2, <2>3 DEF StageFits, CtxOK
  <1>15. CASE FailJob(r)
    <2>1. /\ main[r] = "fail" /\ main'[r] = "return" /\ job' = "failed"
          /\ UNCHANGED <<cp, hashed, loop>>
      BY <1>0, <1>15 DEF FailJob, loopVars
    <2>2. Rows' = Rows
      BY <2>1 DEF Rows
    <2> QED
      BY <1>1, <1>2, <1>3, <2>1, <2>2 DEF StageFits, CtxOK
  <1>16. CASE Return(r)
    <2>1. /\ main'[r] = "off" /\ ~hashed'[r] /\ lost' = lost \cup LeftOut
          /\ UNCHANGED <<job, cp, known, failed>>
      BY <1>0, <1>16 DEF Return, Returns, dbVars
    <2>2. Rows' # {} => Uncovered' \subseteq Pending'
      BY <1>1, <2>1, LeftPending
    <2> QED
      BY <1>3, <2>1, <2>2 DEF StageFits, CtxOK
  <1> QED
    BY <1>5, <1>6, <1>7, <1>8, <1>9, <1>10, <1>11, <1>12, <1>13, <1>14, <1>15, <1>16 DEF Main

\* The processing loop goes to its end only when nothing is uncovered, or without
\* a context, and then changes nothing.
LEMMA StageLoop ==
  ASSUME OneRun, Types, Covering, NEW r \in Runs, Loop(r), ~CompletePanics(r)
  PROVE  StageFits(r)' /\ CompletedCovers'
  <1>0. /\ loop \in [Runs -> {"off", "check", "fetch", "empty", "send", "drain", "stats",
                              "complete", "cleanup", "delete"}]
        /\ cp \in [OnDisk -> RowStates]
    BY DEF Types, TypeOK, RowStates
  <1>1. StageFits(r) /\ RowsTrue /\ (job = "completed" => Uncovered = {})
    BY DEF Covering, CompletedCovers, Uncovered
  <1>2. Uncovered' \subseteq Uncovered
    BY UncoveredShrinks DEF Next
  <1>3. UNCHANGED <<main, toHash, hashed>> /\ loop[r] # "off"
    BY LoopEffect
  <1>4. main[r] \notin {"init", "discover"}
    BY <1>1, <1>3 DEF StageFits
  <1>5. loop'[r] \in Ending \cup {"drain"} /\ CtxOK(r) => Uncovered' = {}
    <2> SUFFICES ASSUME loop'[r] \in Ending \cup {"drain"}, CtxOK(r) PROVE Uncovered' = {}
      OBVIOUS
    <2>1. CASE loop[r] \in Ending \cup {"drain"}
      BY <1>1, <1>2, <2>1 DEF StageFits
    <2>2. CASE LoopCheck(r)
      <3>1. lost' = lost \cup (OnDisk \ known) /\ known' = known
        BY <1>0, <2>2 DEF LoopCheck, dbVars, Ending
      <3> QED
        BY <3>1 DEF Uncovered
    <2>3. CASE LoopEmpty(r)
      <3>1. hashed[r] /\ Rows \subseteq Processed
        BY <1>0, <2>3 DEF LoopEmpty, Ending
      <3>2. Uncovered \subseteq Processed
        BY <1>1, <3>1 DEF StageFits
      <3>3. Uncovered = {}
        BY <1>1, <3>2, UncoveredRows DEF Processed
      <3> QED
        BY <1>2, <3>3
    <2>4. CASE LoopFetch(r) \/ LoopSend(r)
      BY <1>0, <2>4 DEF LoopFetch, LoopSend, Ending
    <2> QED
      BY <2>1, <2>2, <2>3, <2>4 DEF Loop, LoopDrain, CompleteStats, CompleteCancelled, CompleteJob,
             CleanUp, DeleteRows, Ending
  <1>6. job' = job \/ (loop[r] = "complete" /\ CtxOK(r) /\ job' = "completed")
    BY DEF Loop, LoopCheck, LoopFetch, LoopEmpty, LoopSend, LoopDrain, CompleteStats,
           CompleteCancelled, CompleteJob, CleanUp, DeleteRows, dbVars
  <1>7. CompletedCovers'
    <2>1. CASE job' = job
      BY <1>1, <1>2, <2>1 DEF CompletedCovers, Uncovered
    <2>2. CASE loop[r] = "complete" /\ CtxOK(r)
      <3>1. Uncovered = {}
        BY <1>1, <2>2 DEF StageFits, Ending
      <3> QED
        BY <1>2, <3>1 DEF CompletedCovers, Uncovered
    <2> QED
      BY <1>6, <2>1, <2>2
  <1>8. CtxOK(r)' = CtxOK(r)
    BY <1>3 DEF CtxOK
  <1>9. CASE cp' = cp
    <2>1. UNCHANGED <<Rows, Pending>>
      BY <1>9 DEF Rows, Pending
    <2>2. main[r] = "off" /\ Rows # {} => Uncovered' \subseteq Pending
      BY <1>1, <1>2 DEF StageFits
    <2>3. main[r] = "hash" => Uncovered' \subseteq Rows \cup toHash[r]
      BY <1>1, <1>2 DEF StageFits
    <2>4. hashed[r] => main[r] \notin {"off", "init", "discover"} /\ Uncovered' \subseteq Rows
      BY <1>1, <1>2 DEF StageFits
    <2>5. StageFits(r)'
      BY <1>3, <1>4, <1>5, <1>8, <2>1, <2>2, <2>3, <2>4 DEF StageFits
    <2> QED
      BY <1>7, <2>5
  <1>10. CASE loop[r] = "delete" /\ CtxOK(r)
    <2>1. Uncovered' = {}
      BY <1>1, <1>2, <1>10 DEF StageFits, Ending
    <2> QED
      BY <1>1, <1>3, <1>4, <1>7, <1>10, <2>1 DEF StageFits, CtxOK
  <1> QED
    BY <1>9, <1>10, LoopEffect

\* A worker changes what rows say, not which files have one, and nothing once the
\* context is cancelled.
LEMMA StageWorker ==
  ASSUME OneRun, Types, Covering, NEW r \in Runs, NEW w \in Workers, Worker(r, w)
  PROVE  StageFits(r)' /\ CompletedCovers'
  <1>1. /\ UNCHANGED <<job, main, toHash, hashed, loop>> /\ Rows' = Rows
        /\ (~CtxOK(r) => cp' = cp)
        /\ wpc[<<r, w>>] # "idle" \/ chan[r] # <<>>
    BY WorkerEffect
  <1>2. Uncovered' \subseteq Uncovered
    BY UncoveredShrinks DEF Next
  <1>3. StageFits(r) /\ CompletedCovers /\ loop[r] # "off"
    BY <1>1 DEF Covering, Drained
  <1>4. main[r] \notin {"init", "discover"}
    BY <1>3 DEF StageFits
  <1>5. main[r] = "off" => Pending' = Pending
    BY <1>1 DEF CtxOK, Pending
  <1>6. CtxOK(r)' = CtxOK(r)
    BY <1>1 DEF CtxOK
  <1>7. CompletedCovers'
    BY <1>1, <1>2, <1>3 DEF CompletedCovers, Uncovered
  <1>8. main[r] = "off" /\ Rows # {} => Uncovered' \subseteq Pending'
    BY <1>2, <1>3, <1>5 DEF StageFits
  <1>9. main[r] = "hash" => Uncovered' \subseteq Rows \cup toHash[r]
    BY <1>2, <1>3 DEF StageFits
  <1>10. hashed[r] => main[r] \notin {"off", "init", "discover"} /\ Uncovered' \subseteq Rows
    BY <1>2, <1>3 DEF StageFits
  <1>11. loop[r] \in Ending \cup {"drain"} /\ CtxOK(r) => Uncovered' = {}
    BY <1>2, <1>3 DEF StageFits
  <1>12. UNCHANGED <<main, toHash, hashed, loop>> /\ Rows' = Rows
    BY <1>1
  <1>13. StageFits(r)'
    BY <1>4, <1>6, <1>8, <1>9, <1>10, <1>11, <1>12 DEF StageFits
  <1> QED
    BY <1>7, <1>13

\* Only a start ends the sleep: no goroutine is left that could.
LEMMA AsleepStep == ASSUME Types, Covering, [Next]_vars PROVE Asleep'
  <1>1. CASE Crash \/ \E r \in Runs : CompletePanics(r)
    <2>1. /\ UNCHANGED <<cp, known, failed>> /\ lost' = lost \cup LeftOut
          /\ \A r \in Runs : main'[r] = "off" /\ loop'[r] = "off"
      BY <1>1, DownEffect DEF Crash, CompletePanics
    <2>2. Rows' # {} => Uncovered' \subseteq Pending'
      BY <2>1, LeftPending DEF Covering
    <2>3. client' = "idle"
      BY <1>1 DEF Crash, CompletePanics, Down
    <2> QED
      BY <2>1, <2>2, <2>3 DEF Asleep
  <1>2. CASE StartScan \/ Request \/ Pause \/ Resume \/ Boot
    <2>1. alive'
      BY <1>2 DEF StartScan, Request, Pause, Resume, Boot, Covering, Asleep, dbVars
    <2> QED
      BY <2>1 DEF Asleep
  <1>3. ASSUME NEW r \in Runs,
               Main(r) \/ (Loop(r) /\ ~CompletePanics(r)) \/ \E w \in Workers : Worker(r, w)
        PROVE  Asleep'
    <2>1. main[r] # "off" \/ loop[r] # "off"
      <3>1. CASE Main(r)
        BY <3>1 DEF Main, InitFresh, InitCompleted, InitResume, InitAgain, WalkFails, NothingToScan,
                  Discover, Hash, HashFails, HashDone, FailJob, Return
      <3>2. CASE Loop(r) /\ ~CompletePanics(r)
        BY <3>2, LoopEffect
      <3>3. ASSUME NEW w \in Workers, Worker(r, w) PROVE loop[r] # "off"
        BY <3>3, WorkerEffect DEF Covering, Drained
      <3> QED
        BY <1>3, <3>1, <3>2, <3>3
    <2>2. alive
      BY <2>1 DEF Covering, Asleep
    <2>3. alive' = alive
      <3>1. CASE Main(r)
        BY <3>1 DEF Main, InitFresh, InitCompleted, InitResume, InitAgain, WalkFails, NothingToScan,
                  Discover, Hash, HashFails, HashDone, FailJob, Return
      <3>2. CASE Loop(r) /\ ~CompletePanics(r)
        BY <3>2 DEF Loop, LoopCheck, LoopFetch, LoopEmpty, LoopSend, LoopDrain, CompleteStats,
             CompleteCancelled, CompleteJob, CleanUp, DeleteRows
      <3>3. ASSUME NEW w \in Workers, Worker(r, w) PROVE alive' = alive
        BY <3>3 DEF Worker, Take, Mark, Process, Succeed, FailFile, Retry, Wake
      <3> QED
        BY <1>3, <3>1, <3>2, <3>3
    <2> QED
      BY <2>2, <2>3 DEF Asleep
  <1>4. CASE UNCHANGED vars
    <2>1. UNCHANGED <<alive, client, main, loop, Rows, Pending, Uncovered>>
      BY <1>4 DEF vars, dbVars, hashVars, loopVars, history, Rows, Pending, Uncovered
    <2> QED
      BY <2>1 DEF Covering, Asleep
  <1> QED
    BY <1>1, <1>2, <1>3, <1>4 DEF Next

\* Every step of the only run, and every step around it, keeps the stages in order.
LEMMA CoveringStep == ASSUME OneRun PROVE Types /\ Covering /\ [Next]_vars => Covering'
  <1> SUFFICES ASSUME Types, Covering, [Next]_vars
               PROVE  (\A r \in Runs : StageFits(r)') /\ CompletedCovers'
    BY AsleepStep, ResultsStep, DrainedStep DEF Covering
  <1>0. /\ main \in [Runs -> {"off", "init", "discover", "hash", "wait", "fail", "return"}]
        /\ (\A r \in Runs : StageFits(r)) /\ RowsTrue /\ CompletedCovers
    BY DEF Covering, Types, TypeOK
  <1>1. Uncovered' \subseteq Uncovered
    BY UncoveredShrinks
  <1>2. CASE StartScan \/ Request \/ Pause \/ Resume \/ Boot
    <2>1. /\ UNCHANGED <<cp, known, failed, lost, toHash, hashed, loop>>
          /\ \/ main' = main
             \/ \E s \in Runs : main[s] = "off" /\ loop[s] = "off"
                                /\ main' = [main EXCEPT ![s] = "init"]
      BY <1>2, OutsideEffect
    <2>2. UNCHANGED <<Rows, Pending, Uncovered>>
      BY <2>1 DEF Rows, Pending, Uncovered
    <2>3. ASSUME NEW r \in Runs PROVE StageFits(r)'
      <3>1. main'[r] = main[r] \/ (main[r] = "off" /\ loop[r] = "off" /\ main'[r] = "init")
        BY <1>0, <2>1
      <3> QED
        BY <1>0, <2>1, <2>2, <3>1 DEF StageFits, CtxOK, Ending
    <2>4. job' = "completed" => Uncovered = {}
      <3>1. CASE Boot /\ job' # job
        <4>1. ~alive /\ Pending = {} /\ Rows # {}
          BY <3>1 DEF Boot
        <4> QED
          BY <4>1 DEF Covering, Asleep
      <3>2. CASE ~(Boot /\ job' # job)
        <4>1. job' = job \/ job' # "completed"
          BY <1>2, <3>2 DEF StartScan, Request, Pause, Resume, dbVars
        <4> QED
          BY <1>0, <4>1 DEF CompletedCovers, Uncovered
      <3> QED
        BY <3>1, <3>2
    <2> QED
      BY <1>1, <2>3, <2>4 DEF CompletedCovers, Uncovered
  <1>3. CASE Crash \/ \E r \in Runs : CompletePanics(r)
    <2>1. /\ UNCHANGED <<job, cp, known, failed>> /\ lost' = lost \cup LeftOut
          /\ \A r \in Runs : main'[r] = "off" /\ ~hashed'[r]
      BY <1>3, DownEffect DEF Crash, CompletePanics
    <2>2. Rows' # {} => Uncovered' \subseteq Pending'
      BY <1>0, <2>1, LeftPending
    <2> QED
      BY <1>0, <1>1, <2>1, <2>2 DEF StageFits, CtxOK, CompletedCovers, Uncovered
  <1>4. ASSUME NEW r \in Runs, StageFits(r)' PROVE \A s \in Runs : StageFits(s)'
    BY <1>4 DEF OneRun
  <1>5. ASSUME NEW r \in Runs, Main(r)
        PROVE  (\A s \in Runs : StageFits(s)') /\ CompletedCovers'
    BY <1>4, <1>5, StageMain
  <1>6. ASSUME NEW r \in Runs, Loop(r), ~CompletePanics(r)
        PROVE  (\A s \in Runs : StageFits(s)') /\ CompletedCovers'
    BY <1>4, <1>6, StageLoop
  <1>7. ASSUME NEW r \in Runs, NEW w \in Workers, Worker(r, w)
        PROVE  (\A s \in Runs : StageFits(s)') /\ CompletedCovers'
    BY <1>4, <1>7, StageWorker
  <1>8. CASE UNCHANGED vars
    <2>1. UNCHANGED <<job, main, toHash, hashed, loop, Rows, Pending, Uncovered>>
      BY <1>8 DEF vars, dbVars, hashVars, loopVars, history, Rows, Pending, Uncovered
    <2> QED
      BY <1>0, <2>1 DEF StageFits, CtxOK, CompletedCovers, Uncovered
  <1> QED
    BY <1>2, <1>3, <1>5, <1>6, <1>7, <1>8 DEF Next

\* A scan that says completed has dealt with every file on disk, however hashing,
\* fetching, retries, pauses and crashes fall together, as long as the runs of the
\* job do not overlap (runScan, the processing loop, CompleteScan, Boot).
THEOREM CompletedMeansDone == ASSUME OneRun PROVE Spec => []CompletedCovers
  <1>1. Init => Types /\ Covering
    BY TypesInit, CoveringInit
  <1>2. Types /\ Covering /\ [Next]_vars => (Types /\ Covering)'
    BY TypesStep, CoveringStep
  <1>3. Covering => CompletedCovers
    BY DEF Covering
  <1> QED
    BY <1>1, <1>2, <1>3, PTL DEF Spec

------------------------------------------------------------------------------
(* Cleaning up                                                                *)

\* The statistics that allow a clean-up were true when CompleteScan read them, and
\* as the workers are done by then, no file fails behind its back.
CleanRows ==
  \A r \in Runs : clean[r] =>
    /\ loop[r] \in {"complete", "cleanup", "delete"}
    /\ CtxOK(r) => \A f \in OnDisk : cp[f] \notin {"failed", "warning"}

\* Nobody cleans up at the start.
LEMMA CleanInit == Init => CleanRows
  BY DEF Init, CleanRows

\* Every step keeps the statistics true until the loop has ended, with one run.
LEMMA CleanStep ==
  ASSUME OneRun PROVE Types /\ Covering /\ CleanRows /\ [Next]_vars => CleanRows'
  <1> SUFFICES ASSUME Types, Covering, CleanRows, [Next]_vars PROVE CleanRows'
    OBVIOUS
  <1>0. /\ main \in [Runs -> {"off", "init", "discover", "hash", "wait", "fail", "return"}]
        /\ loop \in [Runs -> {"off", "check", "fetch", "empty", "send", "drain", "stats",
                              "complete", "cleanup", "delete"}]
        /\ clean \in [Runs -> BOOLEAN]
    BY DEF Types, TypeOK
  <1>1. CASE StartScan \/ Request \/ Pause \/ Resume \/ Boot
    <2>1. /\ UNCHANGED <<cp, loop, clean>>
          /\ \A r \in Runs : main'[r] = main[r] \/ loop[r] = "off"
      BY <1>0, <1>1, OutsideEffect
    <2> QED
      BY <2>1 DEF CleanRows, CtxOK
  <1>2. CASE Crash \/ \E r \in Runs : CompletePanics(r)
    <2>1. \A r \in Runs : ~clean'[r]
      BY <1>2, DownEffect DEF Crash, CompletePanics
    <2> QED
      BY <2>1 DEF CleanRows
  <1>3. ASSUME NEW r \in Runs, Main(r) PROVE CleanRows'
    <2>1. /\ UNCHANGED clean /\ \A f \in OnDisk : cp'[f] \in {cp[f], "none", "pending"}
          /\ loop' = loop \/ (main[r] \in {"init", "discover"} /\ loop' = [loop EXCEPT ![r] = "check"])
      BY <1>3, MainEffect
    <2>2. CtxOK(r)
      BY <1>3 DEF Main, InitFresh, InitCompleted, InitResume, InitAgain, WalkFails, NothingToScan,
                  Discover, Hash, HashFails, HashDone, FailJob, Return, CtxOK
    <2>3. \A s \in Runs : s = r
      BY DEF OneRun
    <2>4. clean[r] => loop'[r] = loop[r]
      <3>1. main[r] \in {"init", "discover"} => loop[r] = "off"
        BY DEF Covering, StageFits
      <3> QED
        BY <2>1, <3>1 DEF CleanRows
    <2> QED
      BY <2>1, <2>2, <2>3, <2>4 DEF CleanRows
  <1>4. ASSUME NEW r \in Runs, Loop(r), ~CompletePanics(r) PROVE CleanRows'
    <2>1. main' = main /\ (cp' = cp \/ cp' = [f \in OnDisk |-> "none"])
          /\ \A s \in Runs : s = r
      BY <1>4, LoopEffect DEF OneRun
    <2>2. CASE CompleteStats(r)
      <3>1. clean'[r] = (Rows = Completed) /\ loop'[r] = "complete" /\ cp' = cp
        BY <1>0, <2>2 DEF CompleteStats, dbVars
      <3>2. Rows = Completed => \A f \in OnDisk : cp[f] \notin {"failed", "warning"}
        BY DEF Rows, Completed
      <3> QED
        BY <2>1, <3>1, <3>2 DEF CleanRows
    <2>3. CASE ~CompleteStats(r)
      <3>1. clean'[r] => clean[r] /\ loop'[r] \in {"complete", "cleanup", "delete"}
        BY <1>0, <1>4, <2>3 DEF Loop, LoopCheck, LoopFetch, LoopEmpty, LoopSend, LoopDrain,
           CompleteCancelled, CompleteJob, CleanUp, DeleteRows, LoopEnds, CleanRows
      <3> QED
        BY <2>1, <3>1 DEF CleanRows, CtxOK
    <2> QED
      BY <2>2, <2>3
  <1>5. ASSUME NEW r \in Runs, NEW w \in Workers, Worker(r, w) PROVE CleanRows'
    <2>1. loop[r] \notin Ending /\ clean' = clean
      BY <1>5, WorkerEffect DEF Covering, Drained
    <2>2. \A s \in Runs : ~clean[s]
      BY <2>1 DEF OneRun, CleanRows, Ending
    <2> QED
      BY <2>1, <2>2 DEF CleanRows
  <1>6. CASE UNCHANGED vars
    BY <1>6 DEF vars, dbVars, hashVars, loopVars, CleanRows, CtxOK
  <1> QED
    BY <1>1, <1>2, <1>3, <1>4, <1>5, <1>6 DEF Next

\* Cleaning up spares the media of files that failed or were processed with a
\* warning, also when the run resumed the scan of another, as long as the runs of
\* the job do not overlap (CompleteScan, CleanupStaleMedia).
THEOREM FailuresKeepMedia == ASSUME OneRun PROVE Spec => FailedKeepMedia
  <1>1. Types /\ Covering /\ CleanRows /\ [Next]_vars =>
          [\A f \in media \cap OnDisk : cp[f] \in {"failed", "warning"} => f \in media']_vars
    <2> SUFFICES ASSUME Types, CleanRows, Next,
                        NEW f \in media \cap OnDisk, cp[f] \in {"failed", "warning"}
                 PROVE  f \in media'
      OBVIOUS
    <2>1. CASE StartScan \/ Request \/ Pause \/ Resume \/ Boot
      BY <2>1, OutsideEffect
    <2>2. CASE Crash \/ \E r \in Runs : CompletePanics(r)
      BY <2>2, DownEffect DEF Crash, CompletePanics
    <2>3. ASSUME NEW r \in Runs, Main(r) PROVE f \in media'
      BY <2>3, MainEffect
    <2>4. ASSUME NEW r \in Runs, Loop(r), ~CompletePanics(r) PROVE f \in media'
      <3>1. CASE CleanUp(r)
        BY <3>1 DEF CleanUp, CleanRows
      <3>2. CASE ~CleanUp(r)
        BY <2>4, <3>2 DEF Loop, LoopCheck, LoopFetch, LoopEmpty, LoopSend, LoopDrain, CompleteStats,
             CompleteCancelled, CompleteJob, DeleteRows, dbVars
      <3> QED
        BY <3>1, <3>2
    <2>5. ASSUME NEW r \in Runs, NEW w \in Workers, Worker(r, w) PROVE f \in media'
      BY <2>5, WorkerEffect
    <2> QED
      BY <2>1, <2>2, <2>3, <2>4, <2>5 DEF Next
  <1>2. Init => Types /\ Covering /\ CleanRows
    BY TypesInit, CoveringInit, CleanInit
  <1>3. Types /\ Covering /\ CleanRows /\ [Next]_vars => (Types /\ Covering /\ CleanRows)'
    BY TypesStep, CoveringStep, CleanStep
  <1> QED
    BY <1>1, <1>2, <1>3, PTL DEF Spec, FailedKeepMedia
=============================================================================
