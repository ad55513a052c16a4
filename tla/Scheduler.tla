----------------------------- MODULE Scheduler -----------------------------
(***************************************************************************)
(* The unified task scheduler of src/internal/application/scheduler:       *)
(* service.go's execute(), Start, Stop, TriggerTask, CancelExecution and   *)
(* triggerDependents, with the lock and execution tables they keep in the  *)
(* database (infrastructure/persistence/scheduler/repository.go).          *)
(*                                                                         *)
(* Every execution is a goroutine: pc[e] is the next statement of          *)
(* execute() that touches shared state.  Locks and rows survive a crash of *)
(* the process, everything else does not.                                  *)
(*                                                                         *)
(* Which tasks are enabled, and when cron fires them, is CronTable's       *)
(* subject: here cron may fire any task while it is running.  Log text,    *)
(* progress, durations and published events are left out.                  *)
(***************************************************************************)
EXTENDS Naturals, FiniteSets

CONSTANTS
  Tasks,          \* rows of scheduled_tasks that have a handler
  Keys,           \* lock keys
  Execs,          \* execution IDs (bound: executions ever created)
  Roots,          \* those of them for executions cron and clients start (bound)
  NoExec,         \* "no execution": no lock holder, no parent, no request
  KeyOf,          \* task -> lock key (ConcurrencyKey, or the task's own ID)
  DependsOn,      \* task -> set of tasks in its depends_on column
  MayCrash,       \* the process may die (or exit after Stop) and restart
  ManualTriggers, \* clients trigger tasks over HTTP
  ClientMayLeave, \* an HTTP client may drop its trigger request early
  DBFaults,       \* a database call may fail for its own reasons
  EarlyTrigger    \* the HTTP server takes triggers before Start is done

ASSUME SchedulerAssumption ==
  /\ NoExec \notin Execs
  /\ Roots \subseteq Execs
  /\ Tasks # {}
  /\ KeyOf \in [Tasks -> Keys]
  /\ DependsOn \in [Tasks -> SUBSET Tasks]
  /\ {MayCrash, ManualTriggers, ClientMayLeave, DBFaults, EarlyTrigger} \subseteq BOOLEAN

VARIABLES
  alive,      \* the process is up
  startPc,    \* progress of Service.Start
  stopPc,     \* progress of Service.Stop
  cron,       \* the cron loop is firing entries
  running,    \* keys of the in-memory map s.running
  pc,         \* per execution: next statement of execute()
  task,       \* per execution: its task
  parent,     \* per execution: DependencyExecID
  root,       \* per execution: the manual execution whose request context it
              \* uses, NoExec for context.Background()
  mem,        \* per execution: exec.Status of the shared *Execution
  outcome,    \* per execution: what the handler returned
  left,       \* per execution: dependents triggerDependents has yet to start
  row,        \* per execution: status column, "none" when there is no row
  lock,       \* per key: execution_id of its scheduler_locks row, or NoExec
  expired,    \* per key: expires_at < datetime('now') in that row
  ended,      \* manual executions whose request context is cancelled
  cancelled   \* executions whose handler sees a cancelled execCtx (timeout,
              \* CancelExecution, Stop)

procVars == <<alive, startPc, stopPc, cron>>
execVars == <<pc, task, parent, root, mem, outcome, left>>
dbVars   == <<row, lock, expired>>
ctxVars  == <<ended, cancelled>>
vars     == <<procVars, running, execVars, dbVars, ctxVars>>

------------------------------------------------------------------------------
(* Vocabulary *)

\* execute() between the two statements of TryAcquire and lockRepo.Release.
Holding == {"create", "abandon", "track", "start", "saveStart", "run", "release"}

\* The handler of the execution is being called.
Active == {"track", "start", "saveStart", "run", "release"}

\* execCtx exists and the handler has yet to return.
Cancellable == {"start", "saveStart", "run"}

Live == Holding \cup {"insert", "check", "record", "untrack", "finish",
                      "save", "lookup", "spawn"}
Pcs == Live \cup {"unused", "done", "dead"}

Statuses == {"pending", "running", "completed", "failed", "skipped", "interrupted"}
Final    == {"completed", "failed", "skipped"}

Key(e) == KeyOf[task[e]]

\* (mutant: the edge is followed backwards)
DependentsReversed(t) == DependsOn[t]

Dependents(t) == {d \in Tasks : t \in DependsOn[d]}

\* A call made with the execution's context: cancelled contexts fail the call,
\* live ones fail it only when the database does.
CtxDone(e)   == root[e] \in ended
CallWorks(e) == ~CtxDone(e)
CallFails(e) == CtxDone(e) \/ DBFaults

\* Stop holds runningMu while it walks s.running.
MuFree == stopPc # "interrupt"

------------------------------------------------------------------------------
Init ==
  /\ alive = TRUE
  /\ startPc = "idle"
  /\ stopPc = "idle"
  /\ cron = FALSE
  /\ running = {}
  /\ pc = [e \in Execs |-> "unused"]
  /\ task = [e \in Execs |-> CHOOSE t \in Tasks : TRUE]
  /\ parent = [e \in Execs |-> NoExec]
  /\ root = [e \in Execs |-> NoExec]
  /\ mem = [e \in Execs |-> "pending"]
  /\ outcome = [e \in Execs |-> "none"]
  /\ left = [e \in Execs |-> {}]
  /\ row = [e \in Execs |-> "none"]
  /\ lock = [k \in Keys |-> NoExec]
  /\ expired = [k \in Keys |-> FALSE]
  /\ ended = {}
  /\ cancelled = {}

\* execute() up to its first database call: a fresh ID and NewExecution.
Enter(e, t, p, r) ==
  /\ pc[e] = "unused"
  /\ pc' = [pc EXCEPT ![e] = "insert"]
  /\ task' = [task EXCEPT ![e] = t]
  /\ parent' = [parent EXCEPT ![e] = p]
  /\ root' = [root EXCEPT ![e] = r]

\* Execution e moves to statement to; nothing else of its record changes.
Goto(e, to) ==
  /\ pc' = [pc EXCEPT ![e] = to]
  /\ UNCHANGED <<task, parent, root, mem, outcome, left>>

\* Execution e sets its status and moves on.
SetStatus(e, s, to) ==
  /\ pc' = [pc EXCEPT ![e] = to]
  /\ mem' = [mem EXCEPT ![e] = s]
  /\ UNCHANGED <<task, parent, root, outcome, left>>

------------------------------------------------------------------------------
(* Where executions come from *)

\* cron calls the wrapper of scheduleTask.
CronFire(t, e) ==
  /\ alive /\ cron /\ e \in Roots
  /\ Enter(e, t, NoExec, NoExec)
  /\ UNCHANGED <<procVars, running, mem, outcome, left, dbVars, ctxVars>>

\* POST /tasks/:id/trigger: execute() runs in the request's own goroutine and
\* with the request's context.
TriggerTask(t, e) ==
  /\ ManualTriggers /\ alive /\ e \in Roots
  /\ EarlyTrigger \/ startPc = "done"
  /\ Enter(e, t, NoExec, e)
  /\ UNCHANGED <<procVars, running, mem, outcome, left, dbVars, ctxVars>>

\* The request context of a manual execution is cancelled: by net/http once
\* the response is written, or before when the client goes away.
RequestEnds(e) ==
  /\ root[e] = e /\ e \notin ended
  /\ pc[e] = "done" \/ (ClientMayLeave /\ pc[e] \in Live)
  /\ ended' = ended \cup {e}
  /\ UNCHANGED <<procVars, running, execVars, dbVars, cancelled>>

------------------------------------------------------------------------------
(* execute() *)

\* (mutant: the task's ID is stored where the execution's belongs)
AcquireInsertTaskID(e) ==
  /\ pc[e] = "insert"
  /\ lock' = [lock EXCEPT ![Key(e)] = IF @ = NoExec THEN task[e] ELSE @]
  /\ Goto(e, "check")
  /\ UNCHANGED <<procVars, running, row, expired, ctxVars>>

\* (mutant: ON CONFLICT DO UPDATE)
AcquireInsertUpsert(e) ==
  /\ pc[e] = "insert"
  /\ lock' = [lock EXCEPT ![Key(e)] = e]
  /\ expired' = [expired EXCEPT ![Key(e)] = FALSE]
  /\ Goto(e, "check")
  /\ UNCHANGED <<procVars, running, row, ctxVars>>

\* TryAcquire, first statement: INSERT ... ON CONFLICT DO NOTHING.
AcquireInsert(e) ==
  /\ pc[e] = "insert"
  /\ \/ /\ CallWorks(e)
        /\ lock' = [lock EXCEPT ![Key(e)] = IF @ = NoExec THEN e ELSE @]
        /\ expired' = [expired EXCEPT ![Key(e)] = IF lock[Key(e)] = NoExec THEN FALSE ELSE @]
        /\ Goto(e, "check")
     \/ /\ CallFails(e)
        /\ SetStatus(e, "failed", "record")
        /\ UNCHANGED <<lock, expired>>
  /\ UNCHANGED <<procVars, running, row, ctxVars>>

\* TryAcquire, second statement: SELECT the row and compare execution IDs.
\* No row (released in between) is an error, like a failed call.
AcquireCheck(e) ==
  /\ pc[e] = "check"
  /\ \/ /\ CallWorks(e) /\ lock[Key(e)] = e
        /\ Goto(e, "create")
     \/ /\ CallWorks(e) /\ lock[Key(e)] \notin {e, NoExec}
        /\ SetStatus(e, "skipped", "record")
     \/ /\ CallFails(e) \/ lock[Key(e)] = NoExec
        /\ SetStatus(e, "failed", "record")
  /\ UNCHANGED <<procVars, running, dbVars, ctxVars>>

\* The lock was not acquired: the outcome is recorded, errors are ignored.
Record(e) ==
  /\ pc[e] = "record"
  /\ \/ CallWorks(e) /\ row' = [row EXCEPT ![e] = mem[e]]
     \/ CallFails(e) /\ UNCHANGED row
  /\ Goto(e, "done")
  /\ UNCHANGED <<procVars, running, lock, expired, ctxVars>>

\* The initial row; when it cannot be written the execution is given up.
CreateRow(e) ==
  /\ pc[e] = "create"
  /\ \/ CallWorks(e) /\ row' = [row EXCEPT ![e] = mem[e]] /\ Goto(e, "track")
     \/ CallFails(e) /\ UNCHANGED row /\ Goto(e, "abandon")
  /\ UNCHANGED <<procVars, running, lock, expired, ctxVars>>

\* lockRepo.Release deletes by key, whoever holds it; its error is ignored.
ReleaseLock(e) ==
  \/ /\ CallWorks(e)
     /\ lock' = [lock EXCEPT ![Key(e)] = NoExec]
     /\ expired' = [expired EXCEPT ![Key(e)] = FALSE]
  \/ CallFails(e) /\ UNCHANGED <<lock, expired>>

Abandon(e) ==
  /\ pc[e] = "abandon"
  /\ ReleaseLock(e)
  /\ Goto(e, "done")
  /\ UNCHANGED <<procVars, running, row, ctxVars>>

\* s.running[execID] = rt, under runningMu.
Track(e) ==
  /\ pc[e] = "track" /\ MuFree
  /\ running' = running \cup {e}
  /\ Goto(e, "start")
  /\ UNCHANGED <<procVars, dbVars, ctxVars>>

\* exec.Start(), on the Execution that Stop can reach through s.running.
MarkStarted(e) ==
  /\ pc[e] = "start"
  /\ SetStatus(e, "running", "saveStart")
  /\ UNCHANGED <<procVars, running, dbVars, ctxVars>>

SaveStarted(e) ==
  /\ pc[e] = "saveStart"
  /\ \/ CallWorks(e) /\ row' = [row EXCEPT ![e] = mem[e]]
     \/ CallFails(e) /\ UNCHANGED row
  /\ Goto(e, "run")
  /\ UNCHANGED <<procVars, running, lock, expired, ctxVars>>

\* handler.Execute returns: a handler decides for itself what it makes of a
\* cancelled context.
HandlerReturns(e) ==
  /\ pc[e] = "run"
  /\ \E o \in {"ok", "error"} : outcome' = [outcome EXCEPT ![e] = o]
  /\ pc' = [pc EXCEPT ![e] = "release"]
  /\ cancelled' = cancelled \ {e}
  /\ UNCHANGED <<procVars, running, task, parent, root, mem, left, dbVars, ended>>

\* (mutant: the lock is kept when the handler fails)
ReleaseOnSuccess(e) ==
  /\ pc[e] = "release"
  /\ IF outcome[e] = "ok" THEN ReleaseLock(e) ELSE UNCHANGED <<lock, expired>>
  /\ Goto(e, "untrack")
  /\ UNCHANGED <<procVars, running, row, ctxVars>>

Release(e) ==
  /\ pc[e] = "release"
  /\ ReleaseLock(e)
  /\ Goto(e, "untrack")
  /\ UNCHANGED <<procVars, running, row, ctxVars>>

\* (mutant: the entry is never deleted)
UntrackForgets(e) ==
  /\ pc[e] = "untrack" /\ MuFree
  /\ Goto(e, "finish")
  /\ UNCHANGED <<procVars, running, dbVars, ctxVars>>

\* (mutant: the goroutine waits for an entry that Stop has taken out)
UntrackWaits(e) ==
  /\ pc[e] = "untrack" /\ MuFree /\ e \in running
  /\ running' = running \ {e}
  /\ Goto(e, "finish")
  /\ UNCHANGED <<procVars, dbVars, ctxVars>>

\* delete(s.running, execID), under runningMu.
Untrack(e) ==
  /\ pc[e] = "untrack" /\ MuFree
  /\ running' = running \ {e}
  /\ Goto(e, "finish")
  /\ UNCHANGED <<procVars, dbVars, ctxVars>>

\* exec.Fail or exec.Complete.
Finish(e) ==
  /\ pc[e] = "finish"
  /\ SetStatus(e, IF outcome[e] = "ok" THEN "completed" ELSE "failed", "save")
  /\ UNCHANGED <<procVars, running, dbVars, ctxVars>>

\* (mutant: dependents are triggered whatever the result)
SaveResultAlways(e) ==
  /\ pc[e] = "save"
  /\ row' = [row EXCEPT ![e] = mem[e]]
  /\ Goto(e, "lookup")
  /\ UNCHANGED <<procVars, running, lock, expired, ctxVars>>

\* The final Update; its error is ignored.  Success is what Complete set.
SaveResult(e) ==
  /\ pc[e] = "save"
  /\ \/ CallWorks(e) /\ row' = [row EXCEPT ![e] = mem[e]]
     \/ CallFails(e) /\ UNCHANGED row
  /\ Goto(e, IF mem[e] = "completed" THEN "lookup" ELSE "done")
  /\ UNCHANGED <<procVars, running, lock, expired, ctxVars>>

\* taskRepo.GetDependents; an error ends the execution.
LookupDependents(e) ==
  /\ pc[e] = "lookup"
  /\ \/ /\ CallWorks(e)
        /\ left' = [left EXCEPT ![e] = Dependents(task[e])]
        /\ pc' = [pc EXCEPT ![e] = "spawn"]
     \/ /\ CallFails(e)
        /\ pc' = [pc EXCEPT ![e] = "done"]
        /\ UNCHANGED left
  /\ UNCHANGED <<procVars, running, task, parent, root, mem, outcome, dbVars, ctxVars>>

\* One turn of triggerDependents' loop: go s.execute(ctx, dep, ...), with the
\* parent's context.
SpawnDependent(e, t, c) ==
  /\ pc[e] = "spawn" /\ t \in left[e]
  /\ Enter(c, t, e, root[e])
  /\ left' = [left EXCEPT ![e] = @ \ {t}]
  /\ UNCHANGED <<procVars, running, mem, outcome, dbVars, ctxVars>>

SpawnDone(e) ==
  /\ pc[e] = "spawn" /\ left[e] = {}
  /\ Goto(e, "done")
  /\ UNCHANGED <<procVars, running, dbVars, ctxVars>>

\* execCtx is cancelled: by its timeout at any time after it was made, or by
\* CancelExecution, which only finds executions of s.running.
CancelExec(e) ==
  /\ e \notin cancelled /\ pc[e] \in Cancellable
  /\ cancelled' = cancelled \cup {e}
  /\ UNCHANGED <<procVars, running, execVars, dbVars, ended>>

------------------------------------------------------------------------------
(* Service.Start, called once per process in a goroutine of its own *)

StartBegin ==
  /\ alive /\ startPc = "idle"
  /\ startPc' = "mark"
  /\ UNCHANGED <<alive, stopPc, cron, running, execVars, dbVars, ctxVars>>

\* (mutant: pending rows are forgotten)
StartMarkRunning ==
  /\ alive /\ startPc = "mark"
  /\ startPc' = "clean"
  /\ row' = [e \in Execs |-> IF row[e] = "running" THEN "interrupted" ELSE row[e]]
  /\ UNCHANGED <<alive, stopPc, cron, running, execVars, lock, expired, ctxVars>>

\* MarkInterrupted; an error is logged and Start goes on.
StartMark ==
  /\ alive /\ startPc = "mark"
  /\ startPc' = "clean"
  /\ \/ row' = [e \in Execs |->
                  IF row[e] \in {"pending", "running"} THEN "interrupted" ELSE row[e]]
     \/ DBFaults /\ UNCHANGED row
  /\ UNCHANGED <<alive, stopPc, cron, running, execVars, lock, expired, ctxVars>>

\* CleanExpired: the only place where expires_at is ever looked at.
StartClean ==
  /\ alive /\ startPc = "clean"
  /\ startPc' = "cron"
  /\ \/ /\ lock' = [k \in Keys |-> IF expired[k] THEN NoExec ELSE lock[k]]
        /\ expired' = [k \in Keys |-> FALSE]
     \/ DBFaults /\ UNCHANGED <<lock, expired>>
  /\ UNCHANGED <<alive, stopPc, cron, running, execVars, row, ctxVars>>

\* taskRepo.List, scheduleTask for each, cron.Start(); an error ends Start.
StartCron ==
  /\ alive /\ startPc = "cron"
  /\ startPc' = "done"
  /\ \/ cron' = TRUE
     \/ DBFaults /\ UNCHANGED cron
  /\ UNCHANGED <<alive, stopPc, running, execVars, dbVars, ctxVars>>

------------------------------------------------------------------------------
(* Service.Stop, called once by Container.Shutdown *)

\* started is cleared and cron stopped; a Stop before Start does nothing.
StopBegin ==
  /\ alive /\ stopPc = "idle" /\ startPc # "idle"
  /\ stopPc' = "drain"
  /\ cron' = FALSE
  /\ UNCHANGED <<alive, startPc, running, execVars, dbVars, ctxVars>>

\* The wait for cron's jobs ends, by their end or after 30 seconds, and
\* runningMu is taken.
StopLock ==
  /\ alive /\ stopPc = "drain"
  /\ stopPc' = "interrupt"
  /\ UNCHANGED <<alive, startPc, cron, running, execVars, dbVars, ctxVars>>

\* One turn of the loop over s.running.  Emptying the map entry by entry or
\* at the end is the same: runningMu is held.
StopOne(e) ==
  /\ stopPc = "interrupt" /\ e \in running
  /\ running' = running \ {e}
  /\ cancelled' = cancelled \cup ({e} \cap {f \in Execs : pc[f] \in Cancellable})
  /\ SetStatus(e, "interrupted", pc[e])
  /\ \/ row' = [row EXCEPT ![e] = "interrupted"]
     \/ DBFaults /\ UNCHANGED row
  /\ UNCHANGED <<procVars, lock, expired, ended>>

StopEnd ==
  /\ stopPc = "interrupt" /\ running = {}
  /\ stopPc' = "done"
  /\ UNCHANGED <<alive, startPc, cron, running, execVars, dbVars, ctxVars>>

------------------------------------------------------------------------------
(* The process and the clock *)

\* expires_at of a lock passes.  The column is compared as text with
\* datetime('now'), so the moment may be off by the zone's offset: any time.
LockExpires(k) ==
  /\ lock[k] # NoExec /\ ~expired[k]
  /\ expired' = [expired EXCEPT ![k] = TRUE]
  /\ UNCHANGED <<procVars, running, execVars, row, lock, ctxVars>>

\* The process crashes, or exits after Stop: its goroutines and maps are gone,
\* rows and locks stay.
Crash ==
  /\ MayCrash /\ alive
  /\ alive' = FALSE
  /\ startPc' = "idle" /\ stopPc' = "idle" /\ cron' = FALSE
  /\ running' = {}
  /\ pc' = [e \in Execs |-> IF pc[e] \in Live THEN "dead" ELSE pc[e]]
  /\ left' = [e \in Execs |-> {}]
  /\ cancelled' = {}
  /\ UNCHANGED <<task, parent, root, mem, outcome, dbVars, ended>>

Boot ==
  /\ ~alive
  /\ alive' = TRUE
  /\ UNCHANGED <<startPc, stopPc, cron, running, execVars, dbVars, ctxVars>>

------------------------------------------------------------------------------
ExecStep(e) ==
  \/ AcquireInsert(e) \/ AcquireCheck(e) \/ Record(e) \/ CreateRow(e) \/ Abandon(e)
  \/ Track(e) \/ MarkStarted(e) \/ SaveStarted(e) \/ Release(e)
  \/ Untrack(e) \/ Finish(e) \/ SaveResult(e) \/ LookupDependents(e) \/ SpawnDone(e)
  \/ \E t \in Tasks, c \in Execs : SpawnDependent(e, t, c)

ServiceStep ==
  \/ StartBegin \/ StartMark \/ StartClean \/ StartCron
  \/ StopBegin \/ StopLock \/ StopEnd
  \/ \E e \in Execs : StopOne(e)

Next ==
  \/ \E t \in Tasks, e \in Execs : CronFire(t, e) \/ TriggerTask(t, e)
  \/ \E e \in Execs : ExecStep(e) \/ HandlerReturns(e) \/ RequestEnds(e) \/ CancelExec(e)
  \/ ServiceStep
  \/ \E k \in Keys : LockExpires(k)
  \/ Crash
  \/ Boot

Spec == Init /\ [][Next]_vars

\* Goroutines are scheduled, Start runs, and a handler returns once its
\* context is cancelled, which the timeout of execCtx does at the latest.
\* Nothing obliges cron, clients, Stop or a crash to happen.
Fairness ==
  /\ WF_vars(StartBegin \/ StartMark \/ StartClean \/ StartCron)
  /\ WF_vars(StopLock \/ StopEnd \/ \E e \in Execs : StopOne(e))
  /\ \A e \in Execs :
       /\ WF_vars(ExecStep(e))
       /\ WF_vars(CancelExec(e) /\ pc[e] = "run")
       /\ WF_vars(HandlerReturns(e) /\ e \in cancelled)

FairSpec == Spec /\ Fairness

------------------------------------------------------------------------------
(* Properties *)

\* Types of all variables.
TypeOK ==
  /\ alive \in BOOLEAN /\ cron \in BOOLEAN
  /\ startPc \in {"idle", "mark", "clean", "cron", "done"}
  /\ stopPc \in {"idle", "drain", "interrupt", "done"}
  /\ running \subseteq Execs
  /\ pc \in [Execs -> Pcs]
  /\ task \in [Execs -> Tasks]
  /\ parent \in [Execs -> Execs \cup {NoExec}]
  /\ root \in [Execs -> Execs \cup {NoExec}]
  /\ mem \in [Execs -> Statuses]
  /\ outcome \in [Execs -> {"none", "ok", "error"}]
  /\ left \in [Execs -> SUBSET Tasks]
  /\ row \in [Execs -> Statuses \cup {"none"}]
  /\ lock \in [Keys -> Execs \cup {NoExec}]
  /\ expired \in [Keys -> BOOLEAN]
  /\ ended \subseteq Execs
  /\ cancelled \subseteq Execs

\* ConcurrencyKey, "Key to prevent concurrent runs" (task.go): two executions
\* with one key are never between acquiring and releasing at the same time.
MutualExclusion ==
  \A e, f \in Execs :
    pc[e] \in Holding /\ pc[f] \in Holding /\ Key(e) = Key(f) => e = f

\* The inductive form: a holder's lock row names it until it releases it.
LockNamesHolder ==
  \A e \in Execs : pc[e] \in Holding => lock[Key(e)] = e

\* A result once recorded is never overwritten: Stop's "interrupted" cannot
\* reach an execution that already completed, because execute() leaves
\* s.running before it sets its result.
ResultsAreFinal ==
  [][\A e \in Execs : row[e] \in Final => row'[e] = row[e]]_vars

\* A dependent runs only after its parent completed successfully, whatever
\* Stop, cancellation or a crash did to the parent meanwhile.
DependencyAfterSuccess ==
  \A e \in Execs : parent[e] # NoExec => mem[parent[e]] = "completed"

\* As long as no database call fails, a lock row belongs to an execution that
\* is on its way to releasing it, or to one that died with its process; and
\* once Start has marked stale rows, a row that says pending or running is that
\* of an execution of this process.
NothingLeftBehind ==
  /\ \A k \in Keys : lock[k] # NoExec => pc[lock[k]] \in Holding \cup {"check", "dead"}
  /\ alive /\ startPc \in {"clean", "cron", "done"} =>
       \A e \in Execs : row[e] \in {"pending", "running"} => pc[e] \in Live

\* Per key, runs are serial and no execution runs twice: SerialRuns.
OwnerOf(k) ==
  IF \E e \in Execs : pc[e] \in Active /\ Key(e) = k
  THEN CHOOSE e \in Execs : pc[e] \in Active /\ Key(e) = k
  ELSE NoExec
Begun == {e \in Execs : \/ outcome[e] # "none"
                        \/ row[e] \in {"pending", "running", "interrupted"}}

SR == INSTANCE SerialRuns WITH owner <- [k \in Keys |-> OwnerOf(k)], begun <- Begun

RunsAreSerial == SR!Spec

\* e cannot start the dependents in left[e] for want of execution IDs: the
\* model's bound, not the code's.
OutOfIDs(e) == pc[e] = "spawn" /\ left[e] # {} /\ \A c \in Execs : pc[c] # "unused"

\* Every execution that enters execute() leaves it, unless the process dies;
\* with NothingLeftBehind, so every lock it took is given back.
ExecutionsEnd ==
  \A e \in Execs : pc[e] = "insert" ~> pc[e] \in {"done", "dead"} \/ OutOfIDs(e)

\* Execution e succeeded, and its loop over the dependents is to start t.
Triggers(e, t) == pc[e] = "save" /\ mem[e] = "completed" /\ task[e] \in DependsOn[t]

\* e has an execution of its dependent t that came to an end: an outcome is
\* recorded, or the process died.
Triggered(e, t) ==
  \E c \in Execs : parent[c] = e /\ task[c] = t /\ (row[c] \in Final \/ pc[c] = "dead")

\* Every task that depends on a completed run of cron gets an execution of its
\* own with a recorded outcome, unless the process dies first.
DependentsAreRun ==
  \A e \in Execs, t \in Tasks :
    Triggers(e, t) /\ root[e] = NoExec ~>
      Triggered(e, t) \/ pc[e] = "dead" \/ OutOfIDs(e)

\* The same for runs that clients trigger: "Trigger dependent tasks if
\* successful" (service.go) makes no difference.
SuccessTriggersDependents ==
  \A e \in Execs, t \in Tasks :
    Triggers(e, t) ~> Triggered(e, t) \/ pc[e] = "dead" \/ OutOfIDs(e)

\* "Task already running, skipping" (service.go): an execution is skipped only
\* while another of its key is running.
SkipMeansRunning ==
  [][\A e \in Execs :
       mem[e] # "skipped" /\ mem'[e] = "skipped" =>
         \E f \in Execs \ {e} : pc[f] \in Holding \cup {"check"} /\ Key(f) = Key(e)]_vars

\* "Returns true if the lock was acquired, false if it's already held"
\* (repository.go): with a database that answers, TryAcquire does not fail.
AcquireAnswers ==
  \A e \in Execs : mem[e] = "failed" => outcome[e] # "none"

\* "interrupted" is what a shutdown leaves behind ("Mark all running
\* executions as interrupted", service.go).
InterruptedStays ==
  [][\A e \in Execs : row[e] = "interrupted" => row'[e] = "interrupted"]_vars
=============================================================================
