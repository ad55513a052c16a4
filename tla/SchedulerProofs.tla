-------------------------- MODULE SchedulerProofs --------------------------
(***************************************************************************)
(* Theorems about the scheduler service: Scheduler, for every set of       *)
(* tasks, keys and executions, and at the end CronTable, its cron entries. *)
(***************************************************************************)
EXTENDS Scheduler, CronTable, FiniteSetTheorems, TLAPS

USE DEF Holding, Active, Live, Pcs, Statuses, Final

(***************************************************************************)
(* Every reachable state is well typed.                                    *)
(***************************************************************************)
LEMMA TypeInit == Init => TypeOK
  <1> SUFFICES ASSUME Init PROVE TypeOK
    OBVIOUS
  <1>1. (CHOOSE t \in Tasks : TRUE) \in Tasks
    BY SchedulerAssumption
  <1> QED
    BY <1>1, SchedulerAssumption DEF Init, TypeOK

\* TryAcquire's insert writes a lock row of the right type, or none.
LEMMA InsertTypes ==
  ASSUME TypeOK, NEW e \in Execs, AcquireInsert(e)
  PROVE  lock' \in [Keys -> Execs \cup {NoExec}] /\ expired' \in [Keys -> BOOLEAN]
  <1>1. /\ lock \in [Keys -> Execs \cup {NoExec}]
        /\ expired \in [Keys -> BOOLEAN]
        /\ Key(e) \in Keys
    BY SchedulerAssumption DEF TypeOK, Key
  <1> DEFINE k == Key(e)
  <1>2. \/ UNCHANGED <<lock, expired>>
        \/ /\ \E h \in {lock[k], e} : lock' = [lock EXCEPT ![k] = h]
           /\ \E x \in {expired[k], FALSE} : expired' = [expired EXCEPT ![k] = x]
    BY DEF AcquireInsert
  <1>3. ASSUME NEW h \in {lock[k], e}, lock' = [lock EXCEPT ![k] = h]
        PROVE  lock' \in [Keys -> Execs \cup {NoExec}]
    <2>1. h \in Execs \cup {NoExec}
      BY <1>1
    <2> QED
      BY <1>1, <1>3, <2>1
  <1>4. ASSUME NEW x \in {expired[k], FALSE}, expired' = [expired EXCEPT ![k] = x]
        PROVE  expired' \in [Keys -> BOOLEAN]
    <2>1. x \in BOOLEAN
      BY <1>1
    <2> QED
      BY <1>1, <1>4, <2>1
  <1> QED
    BY <1>1, <1>2, <1>3, <1>4

\* Every step keeps every variable in its type.
LEMMA TypeStep == TypeOK /\ [Next]_vars => TypeOK'
  <1> SUFFICES ASSUME TypeOK, [Next]_vars PROVE TypeOK'
    OBVIOUS
  <1> USE SchedulerAssumption DEF TypeOK, procVars, execVars, dbVars, ctxVars
  <1>1. ASSUME NEW t \in Tasks, NEW e \in Execs, CronFire(t, e) PROVE TypeOK'
    BY <1>1 DEF CronFire, Enter
  <1>2. ASSUME NEW t \in Tasks, NEW e \in Execs, TriggerTask(t, e) PROVE TypeOK'
    BY <1>2 DEF TriggerTask, Enter
  <1>3. ASSUME NEW e \in Execs, ExecStep(e) PROVE TypeOK'
    <2> USE DEF Goto, SetStatus, ReleaseLock, Key
    <2>1. CASE AcquireInsert(e)
      <3>2. lock' \in [Keys -> Execs \cup {NoExec}] /\ expired' \in [Keys -> BOOLEAN]
        BY <2>1, InsertTypes
      <3>4. Goto(e, "check") \/ SetStatus(e, "failed", "record")
        BY <2>1 DEF AcquireInsert
      <3>5. pc' \in [Execs -> Pcs] /\ mem' \in [Execs -> Statuses]
        BY <3>4
      <3>6. UNCHANGED <<procVars, running, row, ctxVars, task, parent, root, outcome, left>>
        BY <2>1 DEF AcquireInsert
      <3> QED
        BY <3>2, <3>5, <3>6
    <2>2. CASE AcquireCheck(e)
      <3>1. Goto(e, "create") \/ SetStatus(e, "skipped", "record") \/ SetStatus(e, "failed", "record")
        BY <2>2 DEF AcquireCheck
      <3>2. pc' \in [Execs -> Pcs] /\ mem' \in [Execs -> Statuses]
        BY <3>1
      <3>3. UNCHANGED <<procVars, running, dbVars, ctxVars, task, parent, root, outcome, left>>
        BY <2>2 DEF AcquireCheck
      <3> QED
        BY <3>2, <3>3
    <2>3. CASE Record(e)
      BY <2>3 DEF Record
    <2>4. CASE CreateRow(e)
      BY <2>4 DEF CreateRow
    <2>5. CASE Abandon(e)
      BY <2>5 DEF Abandon
    <2>6. CASE Track(e)
      BY <2>6 DEF Track
    <2>7. CASE MarkStarted(e)
      BY <2>7 DEF MarkStarted
    <2>8. CASE SaveStarted(e)
      BY <2>8 DEF SaveStarted
    <2>9. CASE Release(e)
      BY <2>9 DEF Release
    <2>10. CASE Untrack(e)
      BY <2>10 DEF Untrack
    <2>11. CASE Finish(e)
      BY <2>11 DEF Finish
    <2>12. CASE SaveResult(e)
      BY <2>12 DEF SaveResult
    <2>13. CASE LookupDependents(e)
      BY <2>13 DEF LookupDependents, Dependents
    <2>14. CASE SpawnDone(e)
      BY <2>14 DEF SpawnDone
    <2>15. ASSUME NEW t \in Tasks, NEW c \in Execs, SpawnDependent(e, t, c)
           PROVE TypeOK'
      BY <2>15 DEF SpawnDependent, Enter
    <2> QED
      BY <1>3, <2>1, <2>2, <2>3, <2>4, <2>5, <2>6, <2>7, <2>8, <2>9, <2>10,
         <2>11, <2>12, <2>13, <2>14, <2>15 DEF ExecStep
  <1>4. ASSUME NEW e \in Execs, HandlerReturns(e) PROVE TypeOK'
    BY <1>4 DEF HandlerReturns
  <1>5. ASSUME NEW e \in Execs, RequestEnds(e) PROVE TypeOK'
    BY <1>5 DEF RequestEnds
  <1>6. ASSUME NEW e \in Execs, CancelExec(e) PROVE TypeOK'
    BY <1>6 DEF CancelExec
  <1>7. CASE ServiceStep
    <2>1. CASE StartBegin
      BY <2>1 DEF StartBegin
    <2>2. CASE StartMark
      BY <2>2 DEF StartMark
    <2>3. CASE StartClean
      BY <2>3 DEF StartClean
    <2>4. CASE StartCron
      BY <2>4 DEF StartCron
    <2>5. CASE StopBegin
      BY <2>5 DEF StopBegin
    <2>6. CASE StopLock
      BY <2>6 DEF StopLock
    <2>7. CASE StopEnd
      BY <2>7 DEF StopEnd
    <2>8. ASSUME NEW e \in Execs, StopOne(e) PROVE TypeOK'
      BY <2>8 DEF StopOne, SetStatus
    <2> QED
      BY <1>7, <2>1, <2>2, <2>3, <2>4, <2>5, <2>6, <2>7, <2>8 DEF ServiceStep
  <1>8. ASSUME NEW k \in Keys, LockExpires(k) PROVE TypeOK'
    BY <1>8 DEF LockExpires
  <1>9. CASE Crash
    BY <1>9 DEF Crash
  <1>10. CASE Boot
    BY <1>10 DEF Boot
  <1>11. CASE UNCHANGED vars
    BY <1>11 DEF vars
  <1> QED
    BY <1>1, <1>2, <1>3, <1>4, <1>5, <1>6, <1>7, <1>8, <1>9, <1>10, <1>11 DEF Next

\* Spec keeps every variable in its type.
THEOREM TypeCorrect == Spec => []TypeOK
  <1> QED
    BY TypeInit, TypeStep, PTL DEF Spec

(***************************************************************************)
(* Mutual exclusion, when clients reach the server only after Start.       *)
(*                                                                         *)
(* The argument: a holder's lock row names it.  A row is deleted by its    *)
(* holder, or by CleanExpired, which runs before anything is executed.     *)
(***************************************************************************)
\* Nothing executes before Start is done, and cron fires only afterwards.
QuietStart ==
  /\ startPc # "done" => \A e \in Execs : pc[e] \notin Live
  /\ cron => startPc = "done"

LockInv == TypeOK /\ QuietStart /\ LockNamesHolder

\* No execution is live and no lock is held at the start.
LEMMA LockInvInit == Init => LockInv
  <1> SUFFICES ASSUME Init PROVE LockInv
    OBVIOUS
  <1>1. TypeOK
    BY TypeInit
  <1> QED
    BY <1>1 DEF Init, LockInv, QuietStart, LockNamesHolder

\* A step of an execution that leaves the lock table alone.
LEMMA LockStepKeep ==
  ASSUME LockInv, NEW e \in Execs, NEW to \in Pcs,
         pc[e] \in Live, to \in Holding => pc[e] \in Holding,
         pc' = [pc EXCEPT ![e] = to], UNCHANGED <<startPc, cron, task, lock>>
  PROVE  QuietStart' /\ LockNamesHolder'
  <1> USE DEF LockInv, TypeOK, QuietStart, LockNamesHolder, Key
  <1>1. startPc = "done"
    OBVIOUS
  <1> QED
    BY <1>1

\* A new execution enters.
LEMMA LockStepEnter ==
  ASSUME LockInv, startPc = "done", NEW e \in Execs, NEW t \in Tasks, NEW p, NEW r,
         Enter(e, t, p, r), UNCHANGED <<startPc, cron, lock>>
  PROVE  QuietStart' /\ LockNamesHolder'
  BY DEF LockInv, TypeOK, QuietStart, LockNamesHolder, Key, Enter

\* The holder deletes its row, or fails to.
LEMMA LockStepRelease ==
  ASSUME LockInv, NEW e \in Execs, NEW to \in Pcs \ Holding,
         pc[e] \in Holding, ReleaseLock(e), Goto(e, to), UNCHANGED <<startPc, cron>>
  PROVE  QuietStart' /\ LockNamesHolder'
  <1>1. startPc = "done"
    BY DEF LockInv, QuietStart
  <1>2. ASSUME NEW f \in Execs, pc'[f] \in Holding PROVE lock'[Key(f)'] = f
    <2>1. f # e /\ pc[f] \in Holding
      BY <1>2 DEF LockInv, TypeOK, Goto
    <2>2. lock[Key(f)] = f /\ lock[Key(e)] = e
      BY <2>1 DEF LockInv, LockNamesHolder
    <2>3. Key(f)' = Key(f) /\ Key(f) \in Keys /\ Key(f) # Key(e)
      BY <2>1, <2>2, SchedulerAssumption DEF LockInv, TypeOK, Key, Goto
    <2>4. lock'[Key(f)] = lock[Key(f)]
      BY <2>3 DEF ReleaseLock, LockInv, TypeOK
    <2> QED
      BY <2>2, <2>3, <2>4
  <1> QED
    BY <1>1, <1>2 DEF LockInv, QuietStart, LockNamesHolder

\* Every step of the scheduler keeps the lock invariant: only the insert takes
\* a free row, only the holder deletes it, and Start cleans before anyone holds.
LEMMA LockInvStep ==
  ASSUME EarlyTrigger = FALSE
  PROVE  LockInv /\ [Next]_vars => LockInv'
  <1> SUFFICES ASSUME LockInv, [Next]_vars PROVE QuietStart' /\ LockNamesHolder'
    BY TypeStep DEF LockInv
  <1> USE DEF procVars, execVars, dbVars, ctxVars
  <1>1. ASSUME NEW t \in Tasks, NEW e \in Execs, CronFire(t, e)
        PROVE QuietStart' /\ LockNamesHolder'
    BY <1>1, LockStepEnter DEF CronFire, LockInv, QuietStart
  <1>2. ASSUME NEW t \in Tasks, NEW e \in Execs, TriggerTask(t, e)
        PROVE QuietStart' /\ LockNamesHolder'
    BY <1>2, LockStepEnter DEF TriggerTask
  <1>3. ASSUME NEW e \in Execs, ExecStep(e) PROVE QuietStart' /\ LockNamesHolder'
    <2> USE DEF Goto, SetStatus
    <2>1. CASE AcquireInsert(e)
      <3>1. startPc = "done" /\ UNCHANGED <<startPc, cron, task>>
        BY <2>1 DEF AcquireInsert, LockInv, QuietStart
      <3>2. pc' = [pc EXCEPT ![e] = "check"] \/ pc' = [pc EXCEPT ![e] = "record"]
        BY <2>1 DEF AcquireInsert
      <3>3. \A k \in Keys : lock[k] # NoExec => lock'[k] = lock[k]
        BY <2>1 DEF AcquireInsert, LockInv, TypeOK, Key
      <3>4. ASSUME NEW f \in Execs, pc'[f] \in Holding PROVE lock'[Key(f)'] = f
        <4>1. pc[f] \in Holding
          BY <3>2, <3>4 DEF LockInv, TypeOK
        <4>2. Key(f)' = Key(f) /\ Key(f) \in Keys
          BY <3>1, SchedulerAssumption DEF LockInv, TypeOK, Key
        <4>3. lock[Key(f)] = f
          BY <4>1 DEF LockInv, LockNamesHolder
        <4> QED
          BY <4>2, <4>3, <3>3, SchedulerAssumption
      <3> QED
        BY <3>1, <3>4 DEF LockInv, QuietStart, LockNamesHolder
    <2>2. CASE AcquireCheck(e)
      <3>1. CASE lock[Key(e)] = e /\ Goto(e, "create")
        <4> USE DEF LockInv, TypeOK, QuietStart, LockNamesHolder, Key
        <4>1. startPc = "done" /\ UNCHANGED <<startPc, cron, task, lock>>
          BY <2>2 DEF AcquireCheck
        <4> QED
          BY <3>1, <4>1
      <3>2. CASE pc' = [pc EXCEPT ![e] = "record"]
        BY <2>2, <3>2, LockStepKeep DEF AcquireCheck
      <3> QED
        BY <2>2, <3>1, <3>2 DEF AcquireCheck
    <2>3. CASE Record(e)
      BY <2>3, LockStepKeep DEF Record
    <2>4. CASE CreateRow(e)
      BY <2>4, LockStepKeep DEF CreateRow
    <2>5. CASE Abandon(e)
      BY <2>5, LockStepRelease DEF Abandon
    <2>6. CASE Track(e)
      BY <2>6, LockStepKeep DEF Track
    <2>7. CASE MarkStarted(e)
      BY <2>7, LockStepKeep DEF MarkStarted
    <2>8. CASE SaveStarted(e)
      BY <2>8, LockStepKeep DEF SaveStarted
    <2>9. CASE Release(e)
      BY <2>9, LockStepRelease DEF Release
    <2>10. CASE Untrack(e)
      BY <2>10, LockStepKeep DEF Untrack
    <2>11. CASE Finish(e)
      BY <2>11, LockStepKeep DEF Finish
    <2>12. CASE SaveResult(e)
      BY <2>12, LockStepKeep DEF SaveResult
    <2>13. CASE LookupDependents(e)
      BY <2>13, LockStepKeep DEF LookupDependents
    <2>14. CASE SpawnDone(e)
      BY <2>14, LockStepKeep DEF SpawnDone
    <2>15. ASSUME NEW t \in Tasks, NEW c \in Execs, SpawnDependent(e, t, c)
           PROVE QuietStart' /\ LockNamesHolder'
      <3>1. startPc = "done"
        BY <2>15 DEF SpawnDependent, LockInv, QuietStart
      <3> QED
        BY <2>15, <3>1, LockStepEnter DEF SpawnDependent
    <2> QED
      BY <1>3, <2>1, <2>2, <2>3, <2>4, <2>5, <2>6, <2>7, <2>8, <2>9, <2>10,
         <2>11, <2>12, <2>13, <2>14, <2>15 DEF ExecStep
  <1>4. ASSUME NEW e \in Execs, HandlerReturns(e) PROVE QuietStart' /\ LockNamesHolder'
    BY <1>4, LockStepKeep DEF HandlerReturns
  <1> USE DEF LockInv, TypeOK, QuietStart, LockNamesHolder, Key
  <1>5. ASSUME NEW e \in Execs, RequestEnds(e) PROVE QuietStart' /\ LockNamesHolder'
    BY <1>5 DEF RequestEnds
  <1>6. ASSUME NEW e \in Execs, CancelExec(e) PROVE QuietStart' /\ LockNamesHolder'
    BY <1>6 DEF CancelExec
  <1>7. CASE ServiceStep
    <2>1. CASE StartBegin
      BY <2>1 DEF StartBegin
    <2>2. CASE StartMark
      BY <2>2 DEF StartMark
    <2>3. CASE StartClean
      BY <2>3 DEF StartClean
    <2>4. CASE StartCron
      BY <2>4 DEF StartCron
    <2>5. CASE StopBegin
      BY <2>5 DEF StopBegin
    <2>6. CASE StopLock
      BY <2>6 DEF StopLock
    <2>7. CASE StopEnd
      BY <2>7 DEF StopEnd
    <2>8. ASSUME NEW e \in Execs, StopOne(e) PROVE QuietStart' /\ LockNamesHolder'
      <3>1. pc' = pc
        BY <2>8 DEF StopOne, SetStatus
      <3> QED
        BY <2>8, <3>1 DEF StopOne, SetStatus
    <2> QED
      BY <1>7, <2>1, <2>2, <2>3, <2>4, <2>5, <2>6, <2>7, <2>8 DEF ServiceStep
  <1>8. ASSUME NEW k \in Keys, LockExpires(k) PROVE QuietStart' /\ LockNamesHolder'
    BY <1>8 DEF LockExpires
  <1>9. CASE Crash
    BY <1>9 DEF Crash
  <1>10. CASE Boot
    BY <1>10 DEF Boot
  <1>11. CASE UNCHANGED vars
    BY <1>11 DEF vars
  <1> QED
    BY <1>1, <1>2, <1>3, <1>4, <1>5, <1>6, <1>7, <1>8, <1>9, <1>10, <1>11 DEF Next

\* A holder's lock row names it, so two executions with one key never hold it
\* together: through crashes, restarts, failing calls, cancelled requests and
\* Stop, as long as no client triggers a task before Start is done.
THEOREM LockOwnership ==
  ASSUME EarlyTrigger = FALSE
  PROVE  Spec => []LockNamesHolder
  <1>1. LockInv => LockNamesHolder
    BY DEF LockInv
  <1> QED
    BY <1>1, LockInvInit, LockInvStep, PTL DEF Spec

\* Two executions that share a lock key are never between acquire and release
\* at once, again as long as no client triggers a task before Start is done.
THEOREM ExclusionHolds ==
  ASSUME EarlyTrigger = FALSE
  PROVE  Spec => []MutualExclusion
  <1>1. LockNamesHolder => MutualExclusion
    BY DEF LockNamesHolder, MutualExclusion
  <1> QED
    BY <1>1, LockOwnership, PTL

(***************************************************************************)
(* Recorded results and dependencies.                                      *)
(*                                                                         *)
(* The argument: an execution is in s.running only while its result is not *)
(* set yet (RunningTracked), so Stop never touches one whose row is final, *)
(* and the status of a parent no longer changes.                           *)
(***************************************************************************)
Tracked == {"start", "saveStart", "run", "release", "untrack"}

RunningTracked == \A e \in running : pc[e] \in Tracked

FinalRows == \A e \in Execs : row[e] \in Final => pc[e] \in {"done", "dead", "lookup", "spawn"}

StatusByStep ==
  \A e \in Execs :
    /\ pc[e] \in {"unused", "insert", "check", "create"} => mem[e] = "pending"
    /\ pc[e] = "saveStart" => mem[e] \in {"running", "interrupted"}
    /\ pc[e] \in {"lookup", "spawn"} => mem[e] = "completed"

ParentsDone ==
  \A e \in Execs :
    parent[e] # NoExec => mem[parent[e]] = "completed"
                          /\ pc[parent[e]] \in {"spawn", "done", "dead"}

Ledger == TypeOK /\ RunningTracked /\ FinalRows /\ StatusByStep /\ ParentsDone

FinalRowsKept == \A e \in Execs : row[e] \in Final => row'[e] = row[e]

\* No execution has a row or a result at the start.
LEMMA LedgerInit == Init => Ledger
  <1> SUFFICES ASSUME Init PROVE Ledger
    OBVIOUS
  <1>1. TypeOK
    BY TypeInit
  <1> QED
    BY <1>1 DEF Init, Ledger, RunningTracked, FinalRows, StatusByStep, ParentsDone

\* Every step keeps rows, in-memory results and progress consistent, and no
\* step replaces a final row.
LEMMA LedgerStep == Ledger /\ [Next]_vars => Ledger' /\ FinalRowsKept
  <1> SUFFICES ASSUME Ledger, [Next]_vars
               PROVE  RunningTracked' /\ FinalRows' /\ StatusByStep' /\ ParentsDone'
                      /\ FinalRowsKept
    BY TypeStep DEF Ledger
  <1> DEFINE Goal == RunningTracked' /\ FinalRows' /\ StatusByStep' /\ ParentsDone'
                     /\ FinalRowsKept
  <1> USE SchedulerAssumption
      DEF procVars, execVars, dbVars, ctxVars, Ledger, TypeOK, RunningTracked,
          FinalRows, StatusByStep, ParentsDone, FinalRowsKept, Tracked
  <1>1. ASSUME NEW t \in Tasks, NEW e \in Execs, CronFire(t, e) PROVE Goal
    BY <1>1 DEF CronFire, Enter
  <1>2. ASSUME NEW t \in Tasks, NEW e \in Execs, TriggerTask(t, e) PROVE Goal
    BY <1>2 DEF TriggerTask, Enter
  <1>3. ASSUME NEW e \in Execs, ExecStep(e) PROVE Goal
    <2> USE DEF Goto, SetStatus
    <2>1. CASE AcquireInsert(e)
      <3>1. UNCHANGED <<row, running, parent>> /\ pc[e] \in {"insert", "check"}
        BY <2>1 DEF AcquireInsert
      <3>2. \/ pc' = [pc EXCEPT ![e] = "check"] /\ mem' = mem
            \/ pc' = [pc EXCEPT ![e] = "create"] /\ mem' = mem
            \/ pc' = [pc EXCEPT ![e] = "record"] /\ mem' = [mem EXCEPT ![e] = "failed"]
            \/ pc' = [pc EXCEPT ![e] = "record"] /\ mem' = [mem EXCEPT ![e] = "skipped"]
        BY <2>1 DEF AcquireInsert
      <3>3. CASE mem' = mem
        BY <3>1, <3>2, <3>3
      <3>4. CASE pc' = [pc EXCEPT ![e] = "record"] /\ mem' = [mem EXCEPT ![e] = "failed"]
        BY <3>1, <3>4
      <3>5. CASE pc' = [pc EXCEPT ![e] = "record"] /\ mem' = [mem EXCEPT ![e] = "skipped"]
        BY <3>1, <3>5
      <3> QED
        BY <3>2, <3>3, <3>4, <3>5
    <2>2. CASE AcquireCheck(e)
      <3>1. UNCHANGED <<row, running, parent>> /\ pc[e] \in {"insert", "check"}
        BY <2>2 DEF AcquireCheck
      <3>2. \/ pc' = [pc EXCEPT ![e] = "check"] /\ mem' = mem
            \/ pc' = [pc EXCEPT ![e] = "create"] /\ mem' = mem
            \/ pc' = [pc EXCEPT ![e] = "record"] /\ mem' = [mem EXCEPT ![e] = "failed"]
            \/ pc' = [pc EXCEPT ![e] = "record"] /\ mem' = [mem EXCEPT ![e] = "skipped"]
        BY <2>2 DEF AcquireCheck
      <3>3. CASE mem' = mem
        BY <3>1, <3>2, <3>3
      <3>4. CASE pc' = [pc EXCEPT ![e] = "record"] /\ mem' = [mem EXCEPT ![e] = "failed"]
        BY <3>1, <3>4
      <3>5. CASE pc' = [pc EXCEPT ![e] = "record"] /\ mem' = [mem EXCEPT ![e] = "skipped"]
        BY <3>1, <3>5
      <3> QED
        BY <3>2, <3>3, <3>4, <3>5
    <2>3. CASE Record(e)
      BY <2>3 DEF Record
    <2>4. CASE CreateRow(e)
      BY <2>4 DEF CreateRow
    <2>5. CASE Abandon(e)
      BY <2>5 DEF Abandon
    <2>6. CASE Track(e)
      BY <2>6 DEF Track
    <2>7. CASE MarkStarted(e)
      BY <2>7 DEF MarkStarted
    <2>8. CASE SaveStarted(e)
      BY <2>8 DEF SaveStarted
    <2>9. CASE Release(e)
      BY <2>9 DEF Release
    <2>10. CASE Untrack(e)
      BY <2>10 DEF Untrack
    <2>11. CASE Finish(e)
      BY <2>11 DEF Finish
    <2>12. CASE SaveResult(e)
      BY <2>12 DEF SaveResult
    <2>13. CASE LookupDependents(e)
      BY <2>13 DEF LookupDependents, Dependents
    <2>14. CASE SpawnDone(e)
      BY <2>14 DEF SpawnDone
    <2>15. ASSUME NEW t \in Tasks, NEW c \in Execs, SpawnDependent(e, t, c)
           PROVE Goal
      BY <2>15 DEF SpawnDependent, Enter
    <2> QED
      BY <1>3, <2>1, <2>2, <2>3, <2>4, <2>5, <2>6, <2>7, <2>8, <2>9, <2>10,
         <2>11, <2>12, <2>13, <2>14, <2>15 DEF ExecStep
  <1>4. ASSUME NEW e \in Execs, HandlerReturns(e) PROVE Goal
    BY <1>4 DEF HandlerReturns
  <1>5. ASSUME NEW e \in Execs, RequestEnds(e) PROVE Goal
    BY <1>5 DEF RequestEnds
  <1>6. ASSUME NEW e \in Execs, CancelExec(e) PROVE Goal
    BY <1>6 DEF CancelExec
  <1>7. CASE ServiceStep
    <2>1. CASE StartBegin
      BY <2>1 DEF StartBegin
    <2>2. CASE StartMark
      BY <2>2 DEF StartMark
    <2>3. CASE StartClean
      BY <2>3 DEF StartClean
    <2>4. CASE StartCron
      BY <2>4 DEF StartCron
    <2>5. CASE StopBegin
      BY <2>5 DEF StopBegin
    <2>6. CASE StopLock
      BY <2>6 DEF StopLock
    <2>7. CASE StopEnd
      BY <2>7 DEF StopEnd
    <2>8. ASSUME NEW e \in Execs, StopOne(e) PROVE Goal
      BY <2>8 DEF StopOne, SetStatus
    <2> QED
      BY <1>7, <2>1, <2>2, <2>3, <2>4, <2>5, <2>6, <2>7, <2>8 DEF ServiceStep
  <1>8. ASSUME NEW k \in Keys, LockExpires(k) PROVE Goal
    BY <1>8 DEF LockExpires
  <1>9. CASE Crash
    BY <1>9 DEF Crash
  <1>10. CASE Boot
    BY <1>10 DEF Boot
  <1>11. CASE UNCHANGED vars
    BY <1>11 DEF vars
  <1> QED
    BY <1>1, <1>2, <1>3, <1>4, <1>5, <1>6, <1>7, <1>8, <1>9, <1>10, <1>11 DEF Next

\* A recorded result is never overwritten: not by Stop, not by the marking of
\* stale rows at the next start, whichever calls fail.
THEOREM FinalResults == Spec => ResultsAreFinal
  <1>1. Ledger /\ [Next]_vars => [FinalRowsKept]_vars
    BY LedgerStep
  <1>2. [FinalRowsKept]_vars => [\A e \in Execs : row[e] \in Final => row'[e] = row[e]]_vars
    BY DEF FinalRowsKept
  <1> QED
    BY <1>1, <1>2, LedgerInit, LedgerStep, PTL DEF Spec, ResultsAreFinal

\* An execution triggered by dependency has a parent that completed.
THEOREM ParentsComplete == Spec => []DependencyAfterSuccess
  <1>1. Ledger => DependencyAfterSuccess
    BY DEF Ledger, ParentsDone, DependencyAfterSuccess
  <1> QED
    BY <1>1, LedgerInit, LedgerStep, PTL DEF Spec

(***************************************************************************)
(* Runs are serial: the scheduler implements SerialRuns.                   *)
(*                                                                         *)
(* The argument: the owner of a key is the execution its lock row names    *)
(* while that is with its handler.  CreateRow begins a run: its row was    *)
(* empty before, and no other execution with the key is active.  From then *)
(* on the row says pending, running or interrupted until there is an       *)
(* outcome, so an execution that began stays begun.  Release ends a run,   *)
(* a crash all of them, and every other step stutters.                     *)
(***************************************************************************)
BegunRows == {"pending", "running", "interrupted"}

\* What an execution's row and outcome are worth at each of its statements.
RowsFit ==
  \A e \in Execs :
    /\ pc[e] \in {"unused", "insert", "check", "create", "abandon", "record"} =>
         row[e] = "none" /\ outcome[e] = "none"
    /\ pc[e] = "record" => mem[e] \in {"failed", "skipped"}
    /\ pc[e] \in Active => row[e] \in BegunRows
    /\ pc[e] \in {"release", "untrack", "finish", "save", "lookup", "spawn"} =>
         outcome[e] # "none"

RunLedger == Ledger /\ RowsFit

\* No execution has entered at the start.
LEMMA RunLedgerInit == Init => RunLedger
  <1> SUFFICES ASSUME Init PROVE RowsFit
    BY LedgerInit DEF RunLedger
  <1> QED
    BY DEF Init, RowsFit

\* Every step keeps rows and outcomes in line with progress.
LEMMA RowsFitStep == RunLedger /\ [Next]_vars => RunLedger'
  <1> SUFFICES ASSUME RunLedger, [Next]_vars PROVE RowsFit'
    BY LedgerStep DEF RunLedger
  <1> USE DEF RunLedger, Ledger, TypeOK, StatusByStep, RowsFit, BegunRows,
              procVars, execVars, dbVars, ctxVars
  <1>1. ASSUME NEW t \in Tasks, NEW e \in Execs, CronFire(t, e) PROVE RowsFit'
    BY <1>1 DEF CronFire, Enter
  <1>2. ASSUME NEW t \in Tasks, NEW e \in Execs, TriggerTask(t, e) PROVE RowsFit'
    BY <1>2 DEF TriggerTask, Enter
  <1>3. ASSUME NEW e \in Execs, ExecStep(e) PROVE RowsFit'
    <2> USE DEF Goto, SetStatus
    <2>1. CASE AcquireInsert(e)
      <3>1. UNCHANGED <<row, outcome>> /\ pc[e] = "insert"
        BY <2>1 DEF AcquireInsert
      <3>2. \/ pc' = [pc EXCEPT ![e] = "check"] /\ mem' = mem
            \/ pc' = [pc EXCEPT ![e] = "record"] /\ mem' = [mem EXCEPT ![e] = "failed"]
        BY <2>1 DEF AcquireInsert
      <3> QED
        BY <3>1, <3>2
    <2>2. CASE AcquireCheck(e)
      BY <2>2 DEF AcquireCheck
    <2>3. CASE Record(e)
      BY <2>3 DEF Record
    <2>4. CASE CreateRow(e)
      BY <2>4 DEF CreateRow
    <2>5. CASE Abandon(e)
      BY <2>5 DEF Abandon
    <2>6. CASE Track(e)
      BY <2>6 DEF Track
    <2>7. CASE MarkStarted(e)
      BY <2>7 DEF MarkStarted
    <2>8. CASE SaveStarted(e)
      BY <2>8 DEF SaveStarted
    <2>9. CASE Release(e)
      BY <2>9 DEF Release
    <2>10. CASE Untrack(e)
      BY <2>10 DEF Untrack
    <2>11. CASE Finish(e)
      BY <2>11 DEF Finish
    <2>12. CASE SaveResult(e)
      BY <2>12 DEF SaveResult
    <2>13. CASE LookupDependents(e)
      BY <2>13 DEF LookupDependents
    <2>14. CASE SpawnDone(e)
      BY <2>14 DEF SpawnDone
    <2>15. ASSUME NEW t \in Tasks, NEW c \in Execs, SpawnDependent(e, t, c)
           PROVE RowsFit'
      BY <2>15 DEF SpawnDependent, Enter
    <2> QED
      BY <1>3, <2>1, <2>2, <2>3, <2>4, <2>5, <2>6, <2>7, <2>8, <2>9, <2>10,
         <2>11, <2>12, <2>13, <2>14, <2>15 DEF ExecStep
  <1>4. ASSUME NEW e \in Execs, HandlerReturns(e) PROVE RowsFit'
    BY <1>4 DEF HandlerReturns
  <1>5. ASSUME NEW e \in Execs, RequestEnds(e) PROVE RowsFit'
    BY <1>5 DEF RequestEnds
  <1>6. ASSUME NEW e \in Execs, CancelExec(e) PROVE RowsFit'
    BY <1>6 DEF CancelExec
  <1>7. CASE ServiceStep
    <2>1. CASE StartBegin
      BY <2>1 DEF StartBegin
    <2>2. CASE StartMark
      BY <2>2 DEF StartMark
    <2>3. CASE StartClean
      BY <2>3 DEF StartClean
    <2>4. CASE StartCron
      BY <2>4 DEF StartCron
    <2>5. CASE StopBegin
      BY <2>5 DEF StopBegin
    <2>6. CASE StopLock
      BY <2>6 DEF StopLock
    <2>7. CASE StopEnd
      BY <2>7 DEF StopEnd
    <2>8. ASSUME NEW e \in Execs, StopOne(e) PROVE RowsFit'
      BY <2>8 DEF StopOne, SetStatus, RunningTracked, Tracked
    <2> QED
      BY <1>7, <2>1, <2>2, <2>3, <2>4, <2>5, <2>6, <2>7, <2>8 DEF ServiceStep
  <1>8. ASSUME NEW k \in Keys, LockExpires(k) PROVE RowsFit'
    BY <1>8 DEF LockExpires
  <1>9. CASE Crash
    BY <1>9 DEF Crash
  <1>10. CASE Boot
    BY <1>10 DEF Boot
  <1>11. CASE UNCHANGED vars
    BY <1>11 DEF vars
  <1> QED
    BY <1>1, <1>2, <1>3, <1>4, <1>5, <1>6, <1>7, <1>8, <1>9, <1>10, <1>11 DEF Next

\* Execution e has begun a run, as RunsAreSerial counts it.
HasBegun(e) == outcome[e] # "none" \/ row[e] \in BegunRows

\* The step neither begins nor ends a run.
RunsKept ==
  \A e \in Execs :
    /\ pc'[e] \in Active <=> pc[e] \in Active
    /\ pc[e] \in Active => task'[e] = task[e]
    /\ HasBegun(e)' <=> HasBegun(e)

\* Only CreateRow, Release and a crash begin or end runs.
LEMMA RunEffect ==
  RunLedger /\ [Next]_vars =>
    RunsKept \/ (\E e \in Execs : CreateRow(e) \/ Release(e)) \/ Crash
  <1> SUFFICES ASSUME RunLedger, [Next]_vars, ~Crash,
                      \A e \in Execs : ~CreateRow(e) /\ ~Release(e)
               PROVE  RunsKept
    OBVIOUS
  <1> USE DEF RunLedger, Ledger, TypeOK, StatusByStep, RowsFit, BegunRows, RunsKept, HasBegun,
              procVars, execVars, dbVars, ctxVars
  <1>1. ASSUME NEW t \in Tasks, NEW e \in Execs, CronFire(t, e) PROVE RunsKept
    BY <1>1 DEF CronFire, Enter
  <1>2. ASSUME NEW t \in Tasks, NEW e \in Execs, TriggerTask(t, e) PROVE RunsKept
    BY <1>2 DEF TriggerTask, Enter
  <1>3. ASSUME NEW e \in Execs, ExecStep(e) PROVE RunsKept
    <2> USE DEF Goto, SetStatus
    <2>1. CASE AcquireInsert(e)
      <3>1. UNCHANGED <<row, outcome, task>> /\ pc[e] = "insert"
        BY <2>1 DEF AcquireInsert
      <3>2. pc' = [pc EXCEPT ![e] = "check"] \/ pc' = [pc EXCEPT ![e] = "record"]
        BY <2>1 DEF AcquireInsert
      <3> QED
        BY <3>1, <3>2
    <2>2. CASE AcquireCheck(e)
      BY <2>2 DEF AcquireCheck
    <2>3. CASE Record(e)
      BY <2>3 DEF Record
    <2>4. CASE CreateRow(e)
      BY <2>4
    <2>5. CASE Abandon(e)
      BY <2>5 DEF Abandon
    <2>6. CASE Track(e)
      BY <2>6 DEF Track
    <2>7. CASE MarkStarted(e)
      BY <2>7 DEF MarkStarted
    <2>8. CASE SaveStarted(e)
      BY <2>8 DEF SaveStarted
    <2>9. CASE Release(e)
      BY <2>9
    <2>10. CASE Untrack(e)
      BY <2>10 DEF Untrack
    <2>11. CASE Finish(e)
      BY <2>11 DEF Finish
    <2>12. CASE SaveResult(e)
      BY <2>12 DEF SaveResult
    <2>13. CASE LookupDependents(e)
      BY <2>13 DEF LookupDependents
    <2>14. CASE SpawnDone(e)
      BY <2>14 DEF SpawnDone
    <2>15. ASSUME NEW t \in Tasks, NEW c \in Execs, SpawnDependent(e, t, c)
           PROVE RunsKept
      BY <2>15 DEF SpawnDependent, Enter
    <2> QED
      BY <1>3, <2>1, <2>2, <2>3, <2>4, <2>5, <2>6, <2>7, <2>8, <2>9, <2>10,
         <2>11, <2>12, <2>13, <2>14, <2>15 DEF ExecStep
  <1>4. ASSUME NEW e \in Execs, HandlerReturns(e) PROVE RunsKept
    BY <1>4 DEF HandlerReturns
  <1>5. ASSUME NEW e \in Execs, RequestEnds(e) PROVE RunsKept
    BY <1>5 DEF RequestEnds
  <1>6. ASSUME NEW e \in Execs, CancelExec(e) PROVE RunsKept
    BY <1>6 DEF CancelExec
  <1>7. CASE ServiceStep
    <2>1. CASE StartBegin
      BY <2>1 DEF StartBegin
    <2>2. CASE StartMark
      BY <2>2 DEF StartMark
    <2>3. CASE StartClean
      BY <2>3 DEF StartClean
    <2>4. CASE StartCron
      BY <2>4 DEF StartCron
    <2>5. CASE StopBegin
      BY <2>5 DEF StopBegin
    <2>6. CASE StopLock
      BY <2>6 DEF StopLock
    <2>7. CASE StopEnd
      BY <2>7 DEF StopEnd
    <2>8. ASSUME NEW e \in Execs, StopOne(e) PROVE RunsKept
      BY <2>8 DEF StopOne, SetStatus, RunningTracked, Tracked
    <2> QED
      BY <1>7, <2>1, <2>2, <2>3, <2>4, <2>5, <2>6, <2>7, <2>8 DEF ServiceStep
  <1>8. ASSUME NEW k \in Keys, LockExpires(k) PROVE RunsKept
    BY <1>8 DEF LockExpires
  <1>9. CASE Crash
    BY <1>9
  <1>10. CASE Boot
    BY <1>10 DEF Boot
  <1>11. CASE UNCHANGED vars
    BY <1>11 DEF vars
  <1> QED
    BY <1>1, <1>2, <1>3, <1>4, <1>5, <1>6, <1>7, <1>8, <1>9, <1>10, <1>11 DEF Next

\* OwnerOf names the one active execution of a key, if there is one.
OwnersFit ==
  \A k \in Keys :
    /\ \A e \in Execs : pc[e] \in Active /\ Key(e) = k => OwnerOf(k) = e
    /\ (\A e \in Execs : ~(pc[e] \in Active /\ Key(e) = k)) => OwnerOf(k) = NoExec

\* There is at most one, because the lock row names it.
LEMMA OwnersAreHolders == LockNamesHolder => OwnersFit
  <1> SUFFICES ASSUME LockNamesHolder, NEW k \in Keys
               PROVE  /\ \A e \in Execs : pc[e] \in Active /\ Key(e) = k => OwnerOf(k) = e
                      /\ (\A e \in Execs : ~(pc[e] \in Active /\ Key(e) = k)) =>
                           OwnerOf(k) = NoExec
    BY DEF OwnersFit
  <1>1. ASSUME NEW e \in Execs, pc[e] \in Active, Key(e) = k PROVE OwnerOf(k) = e
    <2> DEFINE f == CHOOSE f \in Execs : pc[f] \in Active /\ Key(f) = k
    <2>1. f \in Execs /\ pc[f] \in Active /\ Key(f) = k
      BY <1>1
    <2>2. OwnerOf(k) = f
      BY <1>1 DEF OwnerOf
    <2> HIDE DEF f
    <2>3. lock[k] = f /\ lock[k] = e
      BY <1>1, <2>1 DEF LockNamesHolder
    <2> QED
      BY <2>2, <2>3
  <1>2. ASSUME \A e \in Execs : ~(pc[e] \in Active /\ Key(e) = k) PROVE OwnerOf(k) = NoExec
    BY <1>2 DEF OwnerOf
  <1> QED
    BY <1>1, <1>2

Owners == [k \in Keys |-> OwnerOf(k)]

\* A step that keeps the runs is a stutter of SerialRuns.
LEMMA RunsStutter ==
  ASSUME TypeOK, OwnersFit, OwnersFit', RunsKept
  PROVE  Owners' = Owners /\ Begun' = Begun
  <1>1. ASSUME NEW k \in Keys PROVE OwnerOf(k)' = OwnerOf(k)
    <2>1. CASE \E e \in Execs : pc[e] \in Active /\ Key(e) = k
      <3>1. PICK e \in Execs : pc[e] \in Active /\ Key(e) = k
        BY <2>1
      <3>2. pc'[e] \in Active /\ Key(e)' = k
        BY <3>1 DEF RunsKept, Key
      <3> QED
        BY <3>1, <3>2 DEF OwnersFit
    <2>2. CASE \A e \in Execs : ~(pc[e] \in Active /\ Key(e) = k)
      <3>1. \A e \in Execs : ~(pc'[e] \in Active /\ Key(e)' = k)
        BY <2>2 DEF RunsKept, Key
      <3> QED
        BY <2>2, <3>1 DEF OwnersFit
    <2> QED
      BY <2>1, <2>2
  <1>2. Begun = {e \in Execs : HasBegun(e)} /\ Begun' = {e \in Execs : HasBegun(e)'}
    BY DEF Begun, HasBegun, BegunRows
  <1>3. Begun' = Begun
    BY <1>2 DEF RunsKept
  <1> QED
    BY <1>1, <1>3 DEF Owners

\* Writing the initial row begins a run of the execution, or changes nothing.
LEMMA CreateBegins ==
  ASSUME RunLedger, LockNamesHolder, OwnersFit, OwnersFit', NEW e \in Execs, CreateRow(e)
  PROVE  \/ Owners' = Owners /\ Begun' = Begun
         \/ \E k \in Keys : /\ Owners[k] = NoExec /\ e \notin Begun
                            /\ Owners' = [Owners EXCEPT ![k] = e]
                            /\ Begun' = Begun \cup {e}
  <1>0. TypeOK /\ Key(e) \in Keys
    BY SchedulerAssumption DEF RunLedger, Ledger, TypeOK, Key
  <1>1. /\ pc[e] = "create" /\ UNCHANGED <<task, outcome>>
        /\ \A f \in Execs : Key(f)' = Key(f)
    BY DEF CreateRow, Goto, Key
  <1>2. CASE UNCHANGED row /\ pc' = [pc EXCEPT ![e] = "abandon"]
    <2>1. RunsKept
      BY <1>0, <1>1, <1>2 DEF TypeOK, RunsKept, HasBegun
    <2> QED
      BY <1>0, <2>1, RunsStutter
  <1>3. CASE row' = [row EXCEPT ![e] = mem[e]] /\ pc' = [pc EXCEPT ![e] = "track"]
    <2>1. PICK k \in Keys : k = Key(e)
      BY <1>0
    <2>2. Owners[k] = NoExec
      <3>1. \A f \in Execs : ~(pc[f] \in Active /\ Key(f) = k)
        BY <1>1, <2>1 DEF LockNamesHolder
      <3> QED
        BY <3>1 DEF Owners, OwnersFit
    <2>3. OwnerOf(k)' = e
      <3>1. pc'[e] \in Active /\ Key(e)' = k
        BY <1>0, <1>1, <1>3, <2>1 DEF TypeOK
      <3> QED
        BY <3>1 DEF OwnersFit
    <2>4. ASSUME NEW l \in Keys \ {k} PROVE OwnerOf(l)' = OwnerOf(l)
      <3>1. \A f \in Execs : pc'[f] \in Active /\ Key(f)' = l
                             <=> pc[f] \in Active /\ Key(f) = l
        BY <1>0, <1>1, <1>3, <2>1 DEF TypeOK
      <3> QED
        BY <3>1 DEF OwnersFit
    <2>5. Owners' = [Owners EXCEPT ![k] = e]
      BY <2>3, <2>4 DEF Owners
    <2>6. mem[e] = "pending" /\ ~HasBegun(e)
      BY <1>1 DEF RunLedger, Ledger, StatusByStep, RowsFit, HasBegun, BegunRows
    <2>7. \A f \in Execs : HasBegun(f)' <=> HasBegun(f) \/ f = e
      BY <1>0, <1>1, <1>3, <2>6 DEF TypeOK, HasBegun, BegunRows
    <2>8. Begun = {f \in Execs : HasBegun(f)} /\ Begun' = {f \in Execs : HasBegun(f)'}
      BY DEF Begun, HasBegun, BegunRows
    <2>9. e \notin Begun /\ Begun' = Begun \cup {e}
      BY <2>6, <2>7, <2>8
    <2> QED
      BY <2>2, <2>5, <2>9
  <1> QED
    BY <1>2, <1>3 DEF CreateRow, Goto

\* Releasing the lock ends the run, whether or not its row could be deleted.
LEMMA ReleaseEnds ==
  ASSUME RunLedger, LockNamesHolder, OwnersFit, OwnersFit', NEW e \in Execs, Release(e)
  PROVE  Owners' = [Owners EXCEPT ![Key(e)] = NoExec] /\ Begun' = Begun /\ Key(e) \in Keys
  <1>0. TypeOK /\ Key(e) \in Keys
    BY SchedulerAssumption DEF RunLedger, Ledger, TypeOK, Key
  <1>1. /\ pc[e] = "release" /\ pc' = [pc EXCEPT ![e] = "untrack"]
        /\ UNCHANGED <<row, outcome>> /\ \A f \in Execs : Key(f)' = Key(f)
    BY DEF Release, Goto, Key
  <1>2. \A f \in Execs : f # e /\ pc[f] \in Active => Key(f) # Key(e)
    BY <1>1 DEF LockNamesHolder
  <1>3. OwnerOf(Key(e))' = NoExec
    <2>1. \A f \in Execs : ~(pc'[f] \in Active /\ Key(f)' = Key(e))
      BY <1>0, <1>1, <1>2 DEF TypeOK
    <2>2. Key(e)' = Key(e)
      BY <1>1
    <2> QED
      BY <1>0, <2>1, <2>2 DEF OwnersFit
  <1>4. ASSUME NEW l \in Keys \ {Key(e)} PROVE OwnerOf(l)' = OwnerOf(l)
    <2>1. \A f \in Execs : pc'[f] \in Active /\ Key(f)' = l <=> pc[f] \in Active /\ Key(f) = l
      BY <1>0, <1>1 DEF TypeOK
    <2> QED
      BY <2>1 DEF OwnersFit
  <1>5. Owners' = [Owners EXCEPT ![Key(e)] = NoExec]
    BY <1>0, <1>1, <1>3, <1>4 DEF Owners
  <1>6. Begun' = Begun
    BY <1>1 DEF Begun
  <1> QED
    BY <1>0, <1>5, <1>6

\* A crash ends every run and starts none.
LEMMA CrashEnds ==
  ASSUME TypeOK, OwnersFit', Crash
  PROVE  Owners' = [k \in Keys |-> NoExec] /\ Begun' = Begun
  <1>1. \A e \in Execs : pc'[e] \notin Active
    BY DEF Crash, TypeOK
  <1>2. UNCHANGED <<row, outcome>>
    BY DEF Crash, dbVars
  <1> QED
    BY <1>1, <1>2 DEF OwnersFit, Owners, Begun

\* Each step of the scheduler is a step of SerialRuns or a stutter.
LEMMA RunStep ==
  ASSUME RunLedger, LockNamesHolder, OwnersFit, OwnersFit', [Next]_vars
  PROVE  [SR!Next]_<<Owners, Begun>>
  <1>1. CASE RunsKept
    BY <1>1, RunsStutter DEF RunLedger, Ledger
  <1>2. ASSUME NEW e \in Execs, CreateRow(e) PROVE [SR!Next]_<<Owners, Begun>>
    BY <1>2, CreateBegins DEF SR!Next, SR!Begin, Owners
  <1>3. ASSUME NEW e \in Execs, Release(e) PROVE [SR!Next]_<<Owners, Begun>>
    BY <1>3, ReleaseEnds DEF SR!Next, SR!End, Owners
  <1>4. CASE Crash
    BY <1>4, CrashEnds DEF RunLedger, Ledger, SR!Next, SR!Crash, Owners
  <1> QED
    BY <1>1, <1>2, <1>3, <1>4, RunEffect

\* The scheduler implements SerialRuns: per key, runs follow one another, no
\* execution runs twice, and a crash starts none; through restarts, failing
\* calls and Stop, as long as no client triggers a task before Start is done.
THEOREM RunsSerialize ==
  ASSUME EarlyTrigger = FALSE
  PROVE  Spec => RunsAreSerial
  <1>1. Init => SR!Init
    <2> SUFFICES ASSUME Init PROVE SR!Init
      OBVIOUS
    <2>1. \A k \in Keys : OwnerOf(k) = NoExec
      BY DEF Init, OwnerOf
    <2>2. Begun = {}
      BY DEF Init, Begun
    <2> QED
      BY <2>1, <2>2 DEF SR!Init
  <1>2. LockInv => LockNamesHolder
    BY DEF LockInv
  <1>3. /\ RunLedger /\ LockNamesHolder /\ OwnersFit /\ OwnersFit' /\ [Next]_vars
        => [SR!Next]_<<Owners, Begun>>
    BY RunStep
  <1>4. [SR!Next]_<<Owners, Begun>> => [SR!Next]_<<[k \in Keys |-> OwnerOf(k)], Begun>>
    BY DEF Owners
  <1> QED
    BY <1>1, <1>2, <1>3, <1>4, OwnersAreHolders, RunLedgerInit, RowsFitStep, LockInvInit,
       LockInvStep, PTL DEF Spec, RunsAreSerial, SR!Spec

(***************************************************************************)
(* Nothing is left behind, when the database answers and runs are cron's.  *)
(*                                                                         *)
(* The argument: without failing calls a lock row is written and deleted   *)
(* by the execution that goes on to check and release it, so it names one  *)
(* that is on its way, or died there.  A row that says pending or running  *)
(* is its execution's until the result replaces it; those of executions    *)
(* that died are marked before Start is past that statement.               *)
(***************************************************************************)
\* No execution runs in a request's context.
NoRequests == \A e \in Execs : root[e] = NoExec

\* A lock row is that of an execution with its key, on its way or dead.
LocksAccounted ==
  \A k \in Keys :
    lock[k] # NoExec => Key(lock[k]) = k /\ pc[lock[k]] \in Holding \cup {"check", "dead"}

\* The result is set before it is saved, and final once it is.
RowsSettled ==
  \A e \in Execs :
    /\ pc[e] = "save" => mem[e] \in {"completed", "failed"}
    /\ pc[e] \in {"lookup", "spawn", "done"} => row[e] \notin {"pending", "running"}

\* Start has marked the rows of the dead, and a process begins with Start.
DeadMarked ==
  /\ alive /\ startPc \in {"clean", "cron", "done"} =>
       \A e \in Execs : pc[e] = "dead" => row[e] \notin {"pending", "running"}
  /\ ~alive => startPc = "idle"

TidyInv == RunLedger /\ NoRequests /\ LocksAccounted /\ RowsSettled /\ DeadMarked

\* Nothing is held or recorded at the start.
LEMMA TidyInit == Init => TidyInv
  <1> SUFFICES ASSUME Init PROVE NoRequests /\ LocksAccounted /\ RowsSettled /\ DeadMarked
    BY RunLedgerInit DEF TidyInv
  <1> QED
    BY DEF Init, NoRequests, LocksAccounted, RowsSettled, DeadMarked

\* No call fails.
LEMMA CallsAnswer ==
  ASSUME DBFaults = FALSE, TypeOK, NoRequests
  PROVE  \A e \in Execs : CallWorks(e) /\ ~CallFails(e)
  BY SchedulerAssumption DEF TypeOK, NoRequests, CallWorks, CallFails, CtxDone

\* A step that leaves the lock table alone and keeps what holders do.
LEMMA LocksKept ==
  ASSUME LocksAccounted, TypeOK, NEW e \in Execs, NEW to \in Pcs,
         pc' = [pc EXCEPT ![e] = to], UNCHANGED lock,
         \A f \in Execs : pc[f] # "unused" => task'[f] = task[f],
         pc[e] \in Holding \cup {"check", "dead"} =>
           to \in Holding \cup {"check", "dead"} \/ lock[Key(e)] # e
  PROVE  LocksAccounted'
  <1> SUFFICES ASSUME NEW k \in Keys, lock[k] # NoExec
               PROVE  /\ Key(lock[k])' = k
                      /\ pc'[lock[k]] \in Holding \cup {"check", "dead"}
    BY DEF LocksAccounted
  <1>1. PICK f \in Execs : f = lock[k]
    BY DEF TypeOK
  <1>2. Key(f) = k /\ pc[f] \in Holding \cup {"check", "dead"}
    BY <1>1 DEF LocksAccounted
  <1>3. Key(f)' = k
    BY <1>2 DEF Key
  <1>4. pc'[f] \in Holding \cup {"check", "dead"}
    BY <1>1, <1>2 DEF TypeOK
  <1> QED
    BY <1>1, <1>3, <1>4 DEF Key

\* The row is deleted, so its holder may leave.
LEMMA LocksReleased ==
  ASSUME LocksAccounted, TypeOK, NEW e \in Execs, CallWorks(e), ~CallFails(e), ReleaseLock(e),
         NEW to \in Pcs, Goto(e, to)
  PROVE  LocksAccounted'
  <1>1. /\ lock' = [lock EXCEPT ![Key(e)] = NoExec]
        /\ pc' = [pc EXCEPT ![e] = to] /\ task' = task
    BY DEF ReleaseLock, Goto
  <1> SUFFICES ASSUME NEW k \in Keys, lock'[k] # NoExec
               PROVE  /\ Key(lock[k])' = k
                      /\ pc'[lock'[k]] \in Holding \cup {"check", "dead"}
    BY DEF LocksAccounted
  <1>2. k # Key(e) /\ lock'[k] = lock[k]
    BY <1>1 DEF TypeOK
  <1>3. PICK f \in Execs : f = lock[k]
    BY <1>2 DEF TypeOK
  <1>4. Key(f) = k /\ pc[f] \in Holding \cup {"check", "dead"} /\ f # e
    BY <1>2, <1>3 DEF LocksAccounted
  <1>5. Key(f)' = k /\ pc'[f] = pc[f]
    BY <1>1, <1>4 DEF Key, TypeOK
  <1> QED
    BY <1>2, <1>3, <1>4, <1>5 DEF Key

\* The insert writes a row of its own execution, which goes on to check it.
LEMMA LocksInserted ==
  ASSUME LocksAccounted, TypeOK, NEW e \in Execs, ~CallFails(e), AcquireInsert(e)
  PROVE  LocksAccounted'
  <1>1. /\ pc[e] = "insert" /\ pc' = [pc EXCEPT ![e] = "check"] /\ task' = task
        /\ lock' = [lock EXCEPT ![Key(e)] = IF @ = NoExec THEN e ELSE @]
    BY DEF AcquireInsert, Goto
  <1> SUFFICES ASSUME NEW k \in Keys, lock'[k] # NoExec
               PROVE  /\ Key(lock[k])' = k
                      /\ pc'[lock'[k]] \in Holding \cup {"check", "dead"}
    BY DEF LocksAccounted
  <1>2. \A f \in Execs : Key(f)' = Key(f)
    BY <1>1 DEF Key
  <1>3. CASE lock'[k] = lock[k]
    <2>1. PICK f \in Execs : f = lock[k]
      BY <1>3 DEF TypeOK
    <2>2. Key(f) = k /\ pc[f] \in Holding \cup {"check", "dead"}
      BY <1>3, <2>1 DEF LocksAccounted
    <2>3. pc'[f] \in Holding \cup {"check", "dead"}
      BY <1>1, <2>2 DEF TypeOK
    <2> QED
      BY <1>2, <1>3, <2>1, <2>2, <2>3 DEF Key
  <1>4. CASE lock'[k] = e /\ k = Key(e)
    <2>1. pc'[e] = "check"
      BY <1>1 DEF TypeOK
    <2> QED
      BY <1>2, <1>4, <2>1 DEF Key
  <1> QED
    BY <1>1, <1>3, <1>4 DEF TypeOK

\* No step leaves a lock row to an execution that has gone past it.
LEMMA LocksStep ==
  ASSUME DBFaults = FALSE, ManualTriggers = FALSE, TidyInv, [Next]_vars
  PROVE  LocksAccounted'
  <1>0. TypeOK /\ LocksAccounted /\ \A e \in Execs : CallWorks(e) /\ ~CallFails(e)
    BY CallsAnswer DEF TidyInv, RunLedger, Ledger
  <1> USE DEF procVars, execVars, dbVars, ctxVars
  <1>1. ASSUME NEW t \in Tasks, NEW e \in Execs, CronFire(t, e) PROVE LocksAccounted'
    BY <1>0, <1>1, LocksKept DEF CronFire, Enter, TypeOK
  <1>2. ASSUME NEW t \in Tasks, NEW e \in Execs, TriggerTask(t, e) PROVE LocksAccounted'
    BY <1>2 DEF TriggerTask
  <1>3. ASSUME NEW e \in Execs, ExecStep(e) PROVE LocksAccounted'
    <2> USE DEF Goto, SetStatus
    <2>1. CASE AcquireInsert(e)
      BY <1>0, <2>1, LocksInserted
    <2>2. CASE AcquireCheck(e)
      <3>1. UNCHANGED <<lock, task>>
        BY <2>2 DEF AcquireCheck
      <3>2. CASE pc' = [pc EXCEPT ![e] = "create"]
        BY <1>0, <3>1, <3>2, LocksKept
      <3>3. CASE pc' = [pc EXCEPT ![e] = "record"] /\ lock[Key(e)] # e
        BY <1>0, <3>1, <3>3, LocksKept
      <3> QED
        BY <1>0, <2>2, <3>2, <3>3, SchedulerAssumption DEF AcquireCheck
    <2>3. CASE Record(e)
      BY <1>0, <2>3, LocksKept DEF Record
    <2>4. CASE CreateRow(e)
      BY <1>0, <2>4, LocksKept DEF CreateRow
    <2>5. CASE Abandon(e)
      BY <1>0, <2>5, LocksReleased DEF Abandon
    <2>6. CASE Track(e)
      BY <1>0, <2>6, LocksKept DEF Track
    <2>7. CASE MarkStarted(e)
      BY <1>0, <2>7, LocksKept DEF MarkStarted
    <2>8. CASE SaveStarted(e)
      BY <1>0, <2>8, LocksKept DEF SaveStarted
    <2>9. CASE Release(e)
      BY <1>0, <2>9, LocksReleased DEF Release
    <2>10. CASE Untrack(e)
      BY <1>0, <2>10, LocksKept DEF Untrack
    <2>11. CASE Finish(e)
      BY <1>0, <2>11, LocksKept DEF Finish
    <2>12. CASE SaveResult(e)
      BY <1>0, <2>12, LocksKept DEF SaveResult
    <2>13. CASE LookupDependents(e)
      BY <1>0, <2>13, LocksKept DEF LookupDependents
    <2>14. CASE SpawnDone(e)
      BY <1>0, <2>14, LocksKept DEF SpawnDone
    <2>15. ASSUME NEW t \in Tasks, NEW c \in Execs, SpawnDependent(e, t, c)
           PROVE LocksAccounted'
      BY <1>0, <2>15, LocksKept DEF SpawnDependent, Enter, TypeOK
    <2> QED
      BY <1>3, <2>1, <2>2, <2>3, <2>4, <2>5, <2>6, <2>7, <2>8, <2>9, <2>10,
         <2>11, <2>12, <2>13, <2>14, <2>15 DEF ExecStep
  <1>4. ASSUME NEW e \in Execs, HandlerReturns(e) PROVE LocksAccounted'
    BY <1>0, <1>4, LocksKept DEF HandlerReturns
  <1>5. ASSUME NEW e \in Execs, RequestEnds(e) PROVE LocksAccounted'
    BY <1>0, <1>5 DEF RequestEnds, LocksAccounted, Key
  <1>6. ASSUME NEW e \in Execs, CancelExec(e) PROVE LocksAccounted'
    BY <1>0, <1>6 DEF CancelExec, LocksAccounted, Key
  <1>7. CASE ServiceStep
    <2>1. CASE StartBegin
      BY <1>0, <2>1 DEF StartBegin, LocksAccounted, Key
    <2>2. CASE StartMark
      BY <1>0, <2>2 DEF StartMark, LocksAccounted, Key
    <2>3. CASE StartClean
      <3>1. \A k \in Keys : lock'[k] \in {lock[k], NoExec}
        BY <1>0, <2>3 DEF StartClean
      <3>2. UNCHANGED <<pc, task>>
        BY <2>3 DEF StartClean
      <3> QED
        BY <1>0, <3>1, <3>2 DEF LocksAccounted, Key
    <2>4. CASE StartCron
      BY <1>0, <2>4 DEF StartCron, LocksAccounted, Key
    <2>5. CASE StopBegin
      BY <1>0, <2>5 DEF StopBegin, LocksAccounted, Key
    <2>6. CASE StopLock
      BY <1>0, <2>6 DEF StopLock, LocksAccounted, Key
    <2>7. CASE StopEnd
      BY <1>0, <2>7 DEF StopEnd, LocksAccounted, Key
    <2>8. ASSUME NEW e \in Execs, StopOne(e) PROVE LocksAccounted'
      <3>1. pc' = pc /\ UNCHANGED <<lock, task>>
        BY <1>0, <2>8 DEF StopOne, SetStatus, TypeOK
      <3> QED
        BY <1>0, <3>1 DEF LocksAccounted, Key
    <2> QED
      BY <1>7, <2>1, <2>2, <2>3, <2>4, <2>5, <2>6, <2>7, <2>8 DEF ServiceStep
  <1>8. ASSUME NEW k \in Keys, LockExpires(k) PROVE LocksAccounted'
    BY <1>0, <1>8 DEF LockExpires, LocksAccounted, Key
  <1>9. CASE Crash
    <2>1. UNCHANGED <<lock, task>>
      BY <1>9 DEF Crash
    <2>2. \A e \in Execs : pc[e] \in Holding \cup {"check", "dead"} => pc'[e] = "dead"
      BY <1>0, <1>9 DEF Crash, TypeOK
    <2> QED
      BY <1>0, <2>1, <2>2 DEF LocksAccounted, Key, TypeOK
  <1>10. CASE Boot
    BY <1>0, <1>10 DEF Boot, LocksAccounted, Key
  <1>11. CASE UNCHANGED vars
    BY <1>0, <1>11 DEF vars, LocksAccounted, Key
  <1> QED
    BY <1>1, <1>2, <1>3, <1>4, <1>5, <1>6, <1>7, <1>8, <1>9, <1>10, <1>11 DEF Next

\* No step leaves a row unsettled that no execution is going to settle.
LEMMA TidyStep ==
  ASSUME DBFaults = FALSE, ManualTriggers = FALSE
  PROVE  TidyInv /\ [Next]_vars => TidyInv'
  <1> SUFFICES ASSUME TidyInv, [Next]_vars PROVE NoRequests' /\ RowsSettled' /\ DeadMarked'
    BY LocksStep, RowsFitStep DEF TidyInv
  <1> DEFINE Goal == NoRequests' /\ RowsSettled' /\ DeadMarked'
  <1>0. \A e \in Execs : CallWorks(e) /\ ~CallFails(e)
    BY CallsAnswer DEF TidyInv, RunLedger, Ledger
  <1> USE <1>0, SchedulerAssumption
      DEF TidyInv, RunLedger, Ledger, TypeOK, RowsFit, BegunRows, StatusByStep, NoRequests,
          RowsSettled, DeadMarked, procVars, execVars, dbVars, ctxVars
  <1>1. ASSUME NEW t \in Tasks, NEW e \in Execs, CronFire(t, e) PROVE Goal
    BY <1>1 DEF CronFire, Enter
  <1>2. ASSUME NEW t \in Tasks, NEW e \in Execs, TriggerTask(t, e) PROVE Goal
    BY <1>2 DEF TriggerTask, Enter
  <1>3. ASSUME NEW e \in Execs, ExecStep(e) PROVE Goal
    <2> USE DEF Goto, SetStatus
    <2>1. CASE AcquireInsert(e)
      <3>1. /\ UNCHANGED <<row, root, alive, startPc, mem>>
            /\ pc' = [pc EXCEPT ![e] = "check"]
        BY <2>1 DEF AcquireInsert
      <3>2. pc[e] = "insert"
        BY <2>1 DEF AcquireInsert
      <3> QED
        BY <3>1, <3>2
    <2>2. CASE AcquireCheck(e)
      BY <2>2 DEF AcquireCheck
    <2>3. CASE Record(e)
      BY <2>3 DEF Record
    <2>4. CASE CreateRow(e)
      BY <2>4 DEF CreateRow
    <2>5. CASE Abandon(e)
      BY <2>5 DEF Abandon
    <2>6. CASE Track(e)
      BY <2>6 DEF Track
    <2>7. CASE MarkStarted(e)
      BY <2>7 DEF MarkStarted
    <2>8. CASE SaveStarted(e)
      BY <2>8 DEF SaveStarted
    <2>9. CASE Release(e)
      BY <2>9 DEF Release
    <2>10. CASE Untrack(e)
      BY <2>10 DEF Untrack
    <2>11. CASE Finish(e)
      BY <2>11 DEF Finish
    <2>12. CASE SaveResult(e)
      BY <2>12 DEF SaveResult
    <2>13. CASE LookupDependents(e)
      BY <2>13 DEF LookupDependents
    <2>14. CASE SpawnDone(e)
      BY <2>14 DEF SpawnDone
    <2>15. ASSUME NEW t \in Tasks, NEW c \in Execs, SpawnDependent(e, t, c)
           PROVE Goal
      BY <2>15 DEF SpawnDependent, Enter
    <2> QED
      BY <1>3, <2>1, <2>2, <2>3, <2>4, <2>5, <2>6, <2>7, <2>8, <2>9, <2>10,
         <2>11, <2>12, <2>13, <2>14, <2>15 DEF ExecStep
  <1>4. ASSUME NEW e \in Execs, HandlerReturns(e) PROVE Goal
    BY <1>4 DEF HandlerReturns
  <1>5. ASSUME NEW e \in Execs, RequestEnds(e) PROVE Goal
    BY <1>5 DEF RequestEnds
  <1>6. ASSUME NEW e \in Execs, CancelExec(e) PROVE Goal
    BY <1>6 DEF CancelExec
  <1>7. CASE ServiceStep
    <2>1. CASE StartBegin
      BY <2>1 DEF StartBegin
    <2>2. CASE StartMark
      BY <2>2 DEF StartMark
    <2>3. CASE StartClean
      BY <2>3 DEF StartClean
    <2>4. CASE StartCron
      BY <2>4 DEF StartCron
    <2>5. CASE StopBegin
      BY <2>5 DEF StopBegin
    <2>6. CASE StopLock
      BY <2>6 DEF StopLock
    <2>7. CASE StopEnd
      BY <2>7 DEF StopEnd
    <2>8. ASSUME NEW e \in Execs, StopOne(e) PROVE Goal
      BY <2>8 DEF StopOne, SetStatus, RunningTracked, Tracked
    <2> QED
      BY <1>7, <2>1, <2>2, <2>3, <2>4, <2>5, <2>6, <2>7, <2>8 DEF ServiceStep
  <1>8. ASSUME NEW k \in Keys, LockExpires(k) PROVE Goal
    BY <1>8 DEF LockExpires
  <1>9. CASE Crash
    BY <1>9 DEF Crash
  <1>10. CASE Boot
    BY <1>10 DEF Boot
  <1>11. CASE UNCHANGED vars
    BY <1>11 DEF vars
  <1> QED
    BY <1>1, <1>2, <1>3, <1>4, <1>5, <1>6, <1>7, <1>8, <1>9, <1>10, <1>11 DEF Next

\* With a database that answers and no client that triggers tasks, a lock row is
\* that of an execution on its way to releasing it, or of one that died, and
\* after Start's statement no row says pending or running for want of an
\* execution: whatever the interleaving of runs, Stop, crashes and restarts.
THEOREM NothingStays ==
  ASSUME DBFaults = FALSE, ManualTriggers = FALSE
  PROVE  Spec => []NothingLeftBehind
  <1>1. TidyInv => NothingLeftBehind
    <2> SUFFICES ASSUME TidyInv PROVE NothingLeftBehind
      OBVIOUS
    <2>1. \A k \in Keys : lock[k] # NoExec => pc[lock[k]] \in Holding \cup {"check", "dead"}
      BY DEF TidyInv, LocksAccounted
    <2>2. ASSUME NEW e \in Execs, row[e] \in {"pending", "running"},
                 alive, startPc \in {"clean", "cron", "done"}
          PROVE  pc[e] \in Live
      BY <2>2 DEF TidyInv, RunLedger, Ledger, TypeOK, RowsFit, RowsSettled, DeadMarked
    <2> QED
      BY <2>1, <2>2 DEF NothingLeftBehind
  <1> QED
    BY <1>1, TidyInit, TidyStep, PTL DEF Spec

------------------------------------------------------------------------------
(* The cron entries (CronTable), for any tasks, schedules and clients, also   *)
(* when clients update one task at the same time or before start-up is done.  *)

\* A caller between its statements has a task and a row in its hands.
JobsSet == \A c \in Callers : step[c] # "idle" => job[c] \in [task : CronTasks, row : Rows]

\* cron numbers its entries: no number is used twice.
IDsUnique == \A x, y \in entries : x.id = y.id => x = y
IDsUsed   == \A x \in entries : x.id <= lastID

\* Between AddFunc and the write to s.cronIDs the new entry exists, for the
\* caller's task, and nobody else knows its number: no other caller removes it.
AddedExist ==
  \A c \in Callers : step[c] = "track" =>
    \E x \in entries : x.id = added[c] /\ x.task = job[c].task
AddedPrivate ==
  \A c \in Callers : step[c] = "track" =>
    /\ \A t \in CronTasks : cronIDs[t] # added[c]
    /\ \A d \in Callers \ {c} : step[d] = "track" => added[d] # added[c]

Inv == CronTypeOK /\ JobsSet /\ IDsUnique /\ IDsUsed /\ AddedExist /\ AddedPrivate
       /\ TrackedEntriesExist

\* There is no entry at the start.
LEMMA InvInit == CronInit => Inv
  <1> SUFFICES ASSUME CronInit PROVE Inv
    OBVIOUS
  <1>1. CronTypeOK
    BY CronAssumption DEF CronInit, CronTypeOK, NoEntry, Rows, Specs, Callers
  <1> QED
    BY <1>1 DEF CronInit, Inv, JobsSet, IDsUnique, IDsUsed, AddedExist, AddedPrivate,
                TrackedEntriesExist

\* scheduleTask adds an entry under the next number, or rejects the schedule.
LEMMA AddStep == ASSUME Inv, NEW c \in Callers, AddEntry(c) PROVE Inv'
  <1> USE CronAssumption DEF Inv, EntryIDs
  <1>0. job[c] \in [task : CronTasks, row : Rows] /\ lastID \in Nat /\ lastID < MaxEntries
    BY DEF AddEntry, JobsSet, CronTypeOK
  <1>1. CASE Schedulable(job[c].row)
    <2> DEFINE new == [id |-> lastID + 1, task |-> job[c].task, schedule |-> job[c].row.schedule]
    <2>0. /\ step[c] = "add" /\ lastID' = lastID + 1
          /\ entries' = entries \cup {new}
          /\ added' = [added EXCEPT ![c] = lastID + 1]
          /\ step' = [step EXCEPT ![c] = "track"]
          /\ UNCHANGED <<db, cronIDs, toLoad, loaded, job>>
      BY <1>1 DEF AddEntry
    <2>1. new \in Entries
      BY <1>0, <1>1 DEF Entries, Schedulable, Rows
    <2> HIDE DEF new
    <2>2. CronTypeOK'
      BY <1>0, <2>0, <2>1 DEF CronTypeOK
    <2>3. new.id = lastID + 1 /\ new.task = job[c].task
      BY DEF new
    <2>4. \A x \in entries : x.id \in Nat /\ x.id <= lastID /\ x.id # lastID + 1
      BY <1>0 DEF CronTypeOK, Entries, IDsUsed
    <2>5. JobsSet'
      BY <1>0, <2>0 DEF JobsSet, CronTypeOK
    <2>6. IDsUnique' /\ IDsUsed'
      BY <1>0, <2>0, <2>3, <2>4 DEF IDsUnique, IDsUsed
    <2>7. AddedExist'
      BY <2>0, <2>3 DEF AddedExist, CronTypeOK
    <2>8. \A t \in CronTasks : cronIDs[t] # lastID + 1
      <3> SUFFICES ASSUME NEW t \in CronTasks, cronIDs[t] = lastID + 1 PROVE FALSE
        OBVIOUS
      <3>1. PICK x \in entries : x.id = cronIDs[t]
        BY <1>0 DEF TrackedEntriesExist, NoEntry
      <3> QED
        BY <2>4, <3>1
    <2>9. \A d \in Callers : step[d] = "track" => added[d] # lastID + 1
      BY <2>4 DEF AddedExist
    <2>10. AddedPrivate'
      BY <2>0, <2>8, <2>9 DEF AddedPrivate, CronTypeOK
    <2>11. TrackedEntriesExist'
      BY <2>0 DEF TrackedEntriesExist
    <2> QED
      BY <2>2, <2>5, <2>6, <2>7, <2>10, <2>11
  <1>2. CASE ~Schedulable(job[c].row)
    <2>1. /\ step' = [step EXCEPT ![c] = "idle"] /\ job' = [job EXCEPT ![c] = NoJob]
          /\ added' = [added EXCEPT ![c] = NoEntry]
          /\ UNCHANGED <<lastID, entries, db, cronIDs, toLoad, loaded>>
      BY <1>2 DEF AddEntry, Return
    <2>2. CronTypeOK'
      BY <2>1 DEF CronTypeOK
    <2> QED
      BY <2>1, <2>2 DEF CronTypeOK, JobsSet, IDsUnique, IDsUsed, AddedExist, AddedPrivate,
                        TrackedEntriesExist
  <1> QED
    BY <1>1, <1>2

\* s.cronIDs takes the number over from its caller.
LEMMA TrackStep == ASSUME Inv, NEW c \in Callers, TrackEntry(c) PROVE Inv'
  <1> USE DEF Inv
  <1>0. job[c] \in [task : CronTasks, row : Rows] /\ added[c] \in EntryIDs \cup {NoEntry}
    BY DEF TrackEntry, JobsSet, CronTypeOK
  <1> DEFINE t == job[c].task
  <1>1. /\ t \in CronTasks /\ step[c] = "track"
        /\ cronIDs' = [cronIDs EXCEPT ![t] = added[c]]
        /\ step' = [step EXCEPT ![c] = "idle"] /\ job' = [job EXCEPT ![c] = NoJob]
        /\ added' = [added EXCEPT ![c] = NoEntry]
        /\ UNCHANGED <<db, entries, lastID, toLoad, loaded>>
    BY <1>0 DEF TrackEntry, Return
  <1>2. \E x \in entries : x.id = added[c] /\ x.task = t
    BY <1>1 DEF AddedExist
  <1> HIDE DEF t
  <1>3. CronTypeOK'
    BY <1>0, <1>1 DEF CronTypeOK
  <1>4. JobsSet' /\ IDsUnique' /\ IDsUsed' /\ AddedExist'
    BY <1>1 DEF CronTypeOK, JobsSet, IDsUnique, IDsUsed, AddedExist
  <1>5. AddedPrivate'
    BY <1>1 DEF CronTypeOK, AddedPrivate
  <1>6. TrackedEntriesExist'
    BY <1>1, <1>2 DEF CronTypeOK, TrackedEntriesExist
  <1> QED
    BY <1>3, <1>4, <1>5, <1>6

\* UpdateTask removes the entry that s.cronIDs remembers and forgets it.  Its
\* number is neither another task's nor that of an entry about to be tracked.
LEMMA RemoveStep == ASSUME Inv, NEW c \in Callers, RemoveEntry(c) PROVE Inv'
  <1> USE DEF Inv
  <1>0. job[c] \in [task : CronTasks, row : Rows]
    BY DEF RemoveEntry, JobsSet
  <1> DEFINE t == job[c].task
             gone == cronIDs[t]
  <1>1. /\ t \in CronTasks /\ step[c] = "remove"
        /\ entries' = {x \in entries : x.id # gone}
        /\ cronIDs' = [cronIDs EXCEPT ![t] = NoEntry]
        /\ UNCHANGED <<db, lastID, toLoad, loaded>>
        /\ \/ step' = [step EXCEPT ![c] = "add"] /\ UNCHANGED <<job, added>>
           \/ /\ step' = [step EXCEPT ![c] = "idle"] /\ job' = [job EXCEPT ![c] = NoJob]
              /\ added' = [added EXCEPT ![c] = NoEntry]
    BY <1>0 DEF RemoveEntry, Return
  <1>2. gone # NoEntry => \E x \in entries : x.id = gone /\ x.task = t
    BY <1>1 DEF TrackedEntriesExist
  <1> HIDE DEF t, gone
  <1>3. CronTypeOK'
    BY <1>1 DEF CronTypeOK
  <1>4. JobsSet'
    BY <1>1 DEF CronTypeOK, JobsSet
  <1>5. IDsUnique' /\ IDsUsed'
    BY <1>1 DEF IDsUnique, IDsUsed
  <1>6. \A d \in Callers : step'[d] = "track" =>
          d # c /\ step[d] = "track" /\ added'[d] = added[d] /\ job'[d] = job[d]
    BY <1>1 DEF CronTypeOK
  <1>7. \A d \in Callers : step[d] = "track" => added[d] # gone
    BY <1>1 DEF AddedPrivate, gone
  <1>8. AddedExist'
    BY <1>1, <1>6, <1>7 DEF AddedExist
  <1>9. \A d \in Callers : step[d] = "track" => added[d] # NoEntry
    BY DEF AddedExist, CronTypeOK, Entries, EntryIDs, NoEntry
  <1>10. AddedPrivate'
    BY <1>1, <1>6, <1>9 DEF AddedPrivate, CronTypeOK
  <1>11. TrackedEntriesExist'
    <2> SUFFICES ASSUME NEW u \in CronTasks, cronIDs'[u] # NoEntry
                 PROVE  \E x \in entries' : x.id = cronIDs'[u] /\ x.task = u
      BY DEF TrackedEntriesExist
    <2>1. u # t /\ cronIDs'[u] = cronIDs[u]
      BY <1>1 DEF CronTypeOK
    <2>2. PICK x \in entries : x.id = cronIDs[u] /\ x.task = u
      BY <2>1 DEF TrackedEntriesExist
    <2>3. x.id # gone
      BY <1>2, <2>1, <2>2 DEF IDsUnique
    <2> QED
      BY <1>1, <2>1, <2>2, <2>3
  <1> QED
    BY <1>3, <1>4, <1>5, <1>8, <1>10, <1>11

\* The remaining statements touch neither entries nor s.cronIDs.
LEMMA QuietStep ==
  ASSUME Inv, NEW c \in Callers, step[c] # "track",
         NEW j \in [task : CronTasks, row : Rows], NEW s \in {"get", "remove", "add"},
         job' = [job EXCEPT ![c] = j], step' = [step EXCEPT ![c] = s],
         UNCHANGED <<entries, cronIDs, lastID, added>>
  PROVE  JobsSet' /\ IDsUnique' /\ IDsUsed' /\ AddedExist' /\ AddedPrivate'
         /\ TrackedEntriesExist'
  BY DEF Inv, CronTypeOK, JobsSet, IDsUnique, IDsUsed, AddedExist, AddedPrivate,
         TrackedEntriesExist

\* Every step of Start and of the clients keeps the invariant.
LEMMA InvStep == Inv /\ [CronNext]_cronVars => Inv'
  <1> SUFFICES ASSUME Inv, [CronNext]_cronVars PROVE Inv'
    OBVIOUS
  <1>1. ASSUME NEW t \in CronTasks, StartNext(t) PROVE Inv'
    <2> DEFINE j == [task |-> t, row |-> loaded[t]]
    <2>1. Start \in Callers /\ j \in [task : CronTasks, row : Rows] /\ step[Start] # "track"
      BY <1>1 DEF StartNext, Callers, Inv, CronTypeOK
    <2>2. CronTypeOK'
      BY <1>1, <2>1 DEF StartNext, Inv, CronTypeOK
    <2> QED
      BY <1>1, <2>1, <2>2, QuietStep DEF StartNext, Inv
  <1>2. ASSUME NEW c \in Clients, NEW t \in CronTasks, UpdateRow(c, t) PROVE Inv'
    <2>1. PICK r \in Rows : db' = [db EXCEPT ![t] = r]
      BY <1>2 DEF UpdateRow
    <2> DEFINE j == [task |-> t, row |-> db'[t]]
    <2>2. c \in Callers /\ j \in [task : CronTasks, row : Rows] /\ step[c] # "track"
      BY <1>2, <2>1 DEF UpdateRow, Callers, Inv, CronTypeOK
    <2>3. CronTypeOK'
      BY <1>2, <2>1, <2>2 DEF UpdateRow, Inv, CronTypeOK
    <2> QED
      BY <1>2, <2>2, <2>3, QuietStep DEF UpdateRow, Inv
  <1>3. ASSUME NEW c \in Clients, ReloadRow(c) PROVE Inv'
    <2> DEFINE j == [job[c] EXCEPT !.row = db[job[c].task]]
    <2>1. c \in Callers /\ step[c] = "get" /\ job[c] \in [task : CronTasks, row : Rows]
      BY <1>3 DEF ReloadRow, Callers, Inv, JobsSet
    <2>2. j \in [task : CronTasks, row : Rows]
      BY <2>1 DEF Inv, CronTypeOK
    <2>3. CronTypeOK'
      BY <1>3, <2>1, <2>2 DEF ReloadRow, Inv, CronTypeOK
    <2> QED
      BY <1>3, <2>1, <2>2, <2>3, QuietStep DEF ReloadRow, Inv
  <1>4. ASSUME NEW c \in Clients, RemoveEntry(c) PROVE Inv'
    BY <1>4, RemoveStep DEF Callers
  <1>5. CASE UNCHANGED cronVars
    BY <1>5 DEF cronVars, Inv, CronTypeOK, JobsSet, IDsUnique, IDsUsed, AddedExist, AddedPrivate,
                TrackedEntriesExist
  <1> QED
    BY <1>1, <1>2, <1>3, <1>4, <1>5, AddStep, TrackStep DEF CronNext

\* s.cronIDs never names an entry that cron no longer has, whoever updates what
\* and when (scheduleTask, UpdateTask, Start).
THEOREM TrackedExist == CronSpec => []TrackedEntriesExist
  <1>1. Inv => TrackedEntriesExist
    BY DEF Inv
  <1> QED
    BY <1>1, InvInit, InvStep, PTL DEF CronSpec

\* Rows, entries and callers keep their types: only schedules that cron accepts
\* become entries, and entry ids stay below the counter (scheduleTask, UpdateTask).
THEOREM CronTypes == CronSpec => []CronTypeOK
  <1>1. Inv => CronTypeOK
    BY DEF Inv
  <1> QED
    BY <1>1, InvInit, InvStep, PTL DEF CronSpec

------------------------------------------------------------------------------
(* Entries follow the rows when no two callers have one task in their hands *)
(* and clients come after start-up.                                         *)

\* (SameTask and EarlyClients false.)  A task is in the hands of one caller, and
\* of none before Start has passed it to scheduleTask.
OneCaller ==
  \A c, d \in Callers :
    step[c] # "idle" /\ step[d] # "idle" /\ job[c].task = job[d].task => c = d
NotBeforeStart == \A c \in Callers : step[c] # "idle" => job[c].task \notin toLoad

\* The row in a caller's hands, or in Start's list, is the row in the table.
RowsFresh ==
  /\ \A t \in toLoad : loaded[t] = db[t]
  /\ \A c \in Callers : step[c] # "idle" => job[c].row = db[job[c].task]

\* cron has no entry for the task, and s.cronIDs none to remember.
Unscheduled(t) == cronIDs[t] = NoEntry /\ \A x \in entries : x.task # t

\* What UpdateTask and scheduleTask have made of the entries of their task so far.
Half(c) ==
  LET t == job[c].task IN
  /\ step[c] \in {"get", "remove"} => \A x \in entries : x.task = t => x.id = cronIDs[t]
  /\ step[c] = "add" => Unscheduled(t)
  /\ step[c] = "track" =>
       /\ Schedulable(job[c].row)
       /\ \A x \in entries : x.task = t =>
            x.id = added[c] /\ x.schedule = job[c].row.schedule

\* The entries of a task that nobody is changing.
Busy(t) == \E c \in Callers : step[c] # "idle" /\ job[c].task = t
Matches(t) ==
  /\ \A x \in entries : x.task = t =>
       x.id = cronIDs[t] /\ Schedulable(db[t]) /\ x.schedule = db[t].schedule
  /\ Schedulable(db[t]) => \E x \in entries : x.task = t

Scheduled ==
  /\ \A t \in toLoad : Unscheduled(t)
  /\ \A c \in Callers : step[c] # "idle" => Half(c)
  /\ \A t \in CronTasks \ toLoad : Busy(t) \/ Matches(t)

Alone == OneCaller /\ NotBeforeStart /\ RowsFresh /\ Scheduled

\* At the start every task is in Start's list and has no entry.
LEMMA AloneInit == CronInit => Alone
  BY DEF CronInit, Alone, OneCaller, NotBeforeStart, RowsFresh, Scheduled, Unscheduled, NoEntry

\* A step of c on task t that leaves the other tasks and callers as they are keeps
\* Alone if it does so for c and t: what every statement's proof comes down to.
LEMMA OneTaskStep ==
  ASSUME Inv, Alone, NEW c \in Callers, NEW t \in CronTasks,
         step[c] # "idle" => job[c].task = t,
         \A d \in Callers \ {c} : step[d] # "idle" => job[d].task # t,
         \A d \in Callers \ {c} : step'[d] = step[d] /\ job'[d] = job[d] /\ added'[d] = added[d],
         \A u \in CronTasks \ {t} : db'[u] = db[u] /\ cronIDs'[u] = cronIDs[u],
         \A x \in entries : x.task # t => x \in entries',
         \A x \in entries' : x.task # t => x \in entries,
         toLoad' = toLoad \ {t}, loaded' = loaded,
         step'[c] # "idle" => job'[c].task = t /\ job'[c].row = db'[t] /\ Half(c)',
         step'[c] = "idle" => Matches(t)'
  PROVE  Alone'
  <1> USE DEF Alone
  <1>0. toLoad \subseteq CronTasks /\ JobsSet
    BY DEF Inv, CronTypeOK
  <1>1. OneCaller'
    BY DEF OneCaller
  <1>2. NotBeforeStart'
    BY DEF NotBeforeStart
  <1>3. \A d \in Callers \ {c} : step[d] # "idle" => job[d].task \in CronTasks \ {t}
    BY <1>0 DEF JobsSet
  <1>4. RowsFresh'
    BY <1>0, <1>3 DEF RowsFresh
  <1>5. \A u \in toLoad' : Unscheduled(u)'
    BY <1>0 DEF Scheduled, Unscheduled
  <1>6. ASSUME NEW d \in Callers, step'[d] # "idle" PROVE Half(d)'
    <2>1. CASE d = c
      BY <1>6, <2>1
    <2>2. CASE d # c
      <3> DEFINE u == job[d].task
      <3>1. step'[d] = step[d] /\ job'[d] = job[d] /\ added'[d] = added[d]
        BY <2>2
      <3>2. u \in CronTasks \ {t} /\ Half(d)
        BY <1>3, <1>6, <2>2, <3>1 DEF Scheduled
      <3>3. cronIDs'[u] = cronIDs[u] /\ \A x \in entries' : x.task = u => x \in entries
        BY <3>2
      <3> QED
        BY <3>1, <3>2, <3>3 DEF Half, Unscheduled, Schedulable
    <2> QED
      BY <2>1, <2>2
  <1>7. ASSUME NEW u \in CronTasks \ toLoad', ~Busy(u)' PROVE Matches(u)'
    <2>1. CASE u = t
      BY <1>7, <2>1 DEF Busy
    <2>2. CASE u # t
      <3>1. u \notin toLoad /\ ~Busy(u)
        BY <1>7, <2>2 DEF Busy
      <3>2. Matches(u)
        BY <3>1 DEF Scheduled
      <3>3. /\ db'[u] = db[u] /\ cronIDs'[u] = cronIDs[u]
            /\ \A x \in entries' : x.task = u => x \in entries
            /\ \A x \in entries : x.task = u => x \in entries'
        BY <2>2
      <3> QED
        BY <3>2, <3>3 DEF Matches, Schedulable
    <2> QED
      BY <2>1, <2>2
  <1> QED
    BY <1>1, <1>2, <1>4, <1>5, <1>6, <1>7 DEF Scheduled

\* What is known of the task in the hands of a caller between its statements.
LEMMA MyTask ==
  ASSUME Inv, Alone, NEW c \in Callers, step[c] # "idle"
  PROVE  /\ job[c] \in [task : CronTasks, row : Rows] /\ job[c].task \in CronTasks \ toLoad
         /\ job[c].row = db[job[c].task] /\ Half(c)
         /\ \A d \in Callers \ {c} : step[d] # "idle" => job[d].task # job[c].task
  BY DEF Inv, JobsSet, Alone, NotBeforeStart, RowsFresh, Scheduled, OneCaller

\* AddFunc: the first entry of the task, or none when the row asks for none.
LEMMA AloneAdd == ASSUME Inv, Alone, NEW c \in Callers, AddEntry(c) PROVE Alone'
  <1>0. PICK t : t = job[c].task
    OBVIOUS
  <1> DEFINE r == job[c].row
  <1>1. step[c] = "add"
    BY DEF AddEntry
  <1>2. /\ job[c] \in [task : CronTasks, row : Rows] /\ t \in CronTasks \ toLoad /\ r = db[t]
        /\ Half(c) /\ \A d \in Callers \ {c} : step[d] # "idle" => job[d].task # t
    BY <1>0, <1>1, MyTask
  <1>3. cronIDs[t] = NoEntry /\ \A x \in entries : x.task # t
    BY <1>0, <1>1, <1>2 DEF Half, Unscheduled
  <1>4. CASE Schedulable(r)
    <2> DEFINE new == [id |-> lastID + 1, task |-> t, schedule |-> r.schedule]
    <2>1. /\ entries' = entries \cup {new}
          /\ added' = [added EXCEPT ![c] = lastID + 1]
          /\ step' = [step EXCEPT ![c] = "track"]
          /\ UNCHANGED <<db, cronIDs, toLoad, loaded, job>>
      BY <1>0, <1>4 DEF AddEntry
    <2>2. new.id = lastID + 1 /\ new.task = t /\ new.schedule = r.schedule
      OBVIOUS
    <2>3. step'[c] = "track" /\ added'[c] = lastID + 1 /\ job'[c] = job[c]
      BY <2>1 DEF Inv, CronTypeOK
    <2> HIDE DEF new, r
    <2>4. \A x \in entries' : x.task = t => x = new
      BY <1>3, <2>1
    <2>5. Half(c)'
      BY <1>0, <1>4, <2>2, <2>3, <2>4 DEF Half, Schedulable, r
    <2>6. /\ \A d \in Callers \ {c} : step'[d] = step[d] /\ job'[d] = job[d] /\ added'[d] = added[d]
          /\ toLoad' = toLoad \ {t}
          /\ \A x \in entries : x.task # t => x \in entries'
          /\ \A x \in entries' : x.task # t => x \in entries
      BY <1>2, <2>1, <2>2 DEF Inv, CronTypeOK
    <2>7. job'[c].task = t /\ job'[c].row = db'[t]
      BY <1>0, <1>2, <2>1, <2>3 DEF r
    <2> QED
      BY <1>0, <1>2, <2>1, <2>3, <2>5, <2>6, <2>7, OneTaskStep
  <1>5. CASE ~Schedulable(r)
    <2>1. /\ step' = [step EXCEPT ![c] = "idle"] /\ job' = [job EXCEPT ![c] = NoJob]
          /\ added' = [added EXCEPT ![c] = NoEntry]
          /\ UNCHANGED <<entries, db, cronIDs, toLoad, loaded>>
      BY <1>5 DEF AddEntry, Return
    <2> HIDE DEF r
    <2>2. /\ \A d \in Callers \ {c} : step'[d] = step[d] /\ job'[d] = job[d] /\ added'[d] = added[d]
          /\ toLoad' = toLoad \ {t} /\ step'[c] = "idle"
      BY <1>2, <2>1 DEF Inv, CronTypeOK
    <2>3. Matches(t)'
      BY <1>2, <1>3, <1>5, <2>1 DEF Matches, Schedulable
    <2> QED
      BY <1>0, <1>2, <2>1, <2>2, <2>3, OneTaskStep
  <1> QED
    BY <1>4, <1>5

\* s.cronIDs takes over the task's only entry, which has its row's schedule.
LEMMA AloneTrack == ASSUME Inv, Alone, NEW c \in Callers, TrackEntry(c) PROVE Alone'
  <1>0. PICK t : t = job[c].task
    OBVIOUS
  <1> DEFINE r == job[c].row
  <1>1. step[c] = "track"
    BY DEF TrackEntry
  <1>2. /\ job[c] \in [task : CronTasks, row : Rows] /\ t \in CronTasks \ toLoad /\ r = db[t]
        /\ Half(c) /\ \A d \in Callers \ {c} : step[d] # "idle" => job[d].task # t
    BY <1>0, <1>1, MyTask
  <1>3. /\ Schedulable(r) /\ \E x \in entries : x.task = t
        /\ \A x \in entries : x.task = t => x.id = added[c] /\ x.schedule = r.schedule
    BY <1>0, <1>1, <1>2 DEF Half, Inv, AddedExist
  <1>4. /\ cronIDs' = [cronIDs EXCEPT ![t] = added[c]]
        /\ step' = [step EXCEPT ![c] = "idle"] /\ job' = [job EXCEPT ![c] = NoJob]
        /\ added' = [added EXCEPT ![c] = NoEntry]
        /\ UNCHANGED <<db, entries, toLoad, loaded>>
    BY <1>0 DEF TrackEntry, Return
  <1> HIDE DEF r
  <1>5. /\ \A d \in Callers \ {c} : step'[d] = step[d] /\ job'[d] = job[d] /\ added'[d] = added[d]
        /\ toLoad' = toLoad \ {t} /\ step'[c] = "idle"
        /\ \A u \in CronTasks \ {t} : cronIDs'[u] = cronIDs[u]
        /\ cronIDs'[t] = added[c]
    BY <1>2, <1>4 DEF Inv, CronTypeOK
  <1>6. Matches(t)'
    BY <1>2, <1>3, <1>4, <1>5 DEF Matches, Schedulable
  <1> QED
    BY <1>0, <1>2, <1>4, <1>5, <1>6, OneTaskStep

\* All entries of the task are the one that s.cronIDs remembers: UpdateTask removes
\* it, and no other task's.
LEMMA AloneRemove == ASSUME Inv, Alone, NEW c \in Callers, RemoveEntry(c) PROVE Alone'
  <1>0. PICK t : t = job[c].task
    OBVIOUS
  <1> DEFINE r == job[c].row
             gone == cronIDs[t]
  <1>1. step[c] = "remove"
    BY DEF RemoveEntry
  <1>2. /\ job[c] \in [task : CronTasks, row : Rows] /\ t \in CronTasks \ toLoad /\ r = db[t]
        /\ Half(c) /\ \A d \in Callers \ {c} : step[d] # "idle" => job[d].task # t
    BY <1>0, <1>1, MyTask
  <1>3. \A x \in entries : x.task = t => x.id = gone
    BY <1>0, <1>1, <1>2 DEF Half
  <1>4. \A x \in entries : x.id = gone => x.task = t
    <2>1. \A x \in entries : x.id # NoEntry
      BY DEF Inv, CronTypeOK, Entries, EntryIDs, NoEntry
    <2>2. gone # NoEntry => \E x \in entries : x.id = gone /\ x.task = t
      BY <1>2 DEF Inv, TrackedEntriesExist
    <2> QED
      BY <2>1, <2>2 DEF Inv, IDsUnique
  <1>5. /\ entries' = {x \in entries : x.id # gone}
        /\ cronIDs' = [cronIDs EXCEPT ![t] = NoEntry]
        /\ UNCHANGED <<db, toLoad, loaded>>
        /\ \/ r.enabled /\ step' = [step EXCEPT ![c] = "add"] /\ UNCHANGED <<job, added>>
           \/ /\ ~r.enabled
              /\ step' = [step EXCEPT ![c] = "idle"] /\ job' = [job EXCEPT ![c] = NoJob]
              /\ added' = [added EXCEPT ![c] = NoEntry]
    BY <1>0 DEF RemoveEntry, Return
  <1> HIDE DEF r, gone
  <1>6. /\ \A d \in Callers \ {c} : step'[d] = step[d] /\ job'[d] = job[d] /\ added'[d] = added[d]
        /\ toLoad' = toLoad \ {t}
        /\ \A u \in CronTasks \ {t} : cronIDs'[u] = cronIDs[u]
        /\ cronIDs'[t] = NoEntry
    BY <1>2, <1>5 DEF Inv, CronTypeOK
  <1>7. /\ \A x \in entries' : x.task # t
        /\ \A x \in entries : x.task # t => x \in entries'
        /\ \A x \in entries' : x \in entries
    BY <1>3, <1>4, <1>5
  <1>8. Unscheduled(t)'
    BY <1>6, <1>7 DEF Unscheduled
  <1>9. CASE r.enabled
    <2>1. step'[c] = "add" /\ job'[c] = job[c]
      BY <1>5, <1>9 DEF Inv, CronTypeOK
    <2>2. Half(c)'
      BY <1>0, <1>8, <2>1 DEF Half, Unscheduled
    <2>3. job'[c].task = t /\ job'[c].row = db'[t]
      BY <1>0, <1>2, <1>5, <2>1 DEF r
    <2> QED
      BY <1>0, <1>2, <1>5, <1>6, <1>7, <2>1, <2>2, <2>3, OneTaskStep
  <1>10. CASE ~r.enabled
    <2>1. step'[c] = "idle"
      BY <1>5, <1>10 DEF Inv, CronTypeOK
    <2>2. Matches(t)'
      BY <1>2, <1>5, <1>7, <1>10 DEF Matches, Schedulable
    <2> QED
      BY <1>0, <1>2, <1>5, <1>6, <1>7, <2>1, <2>2, OneTaskStep
  <1> QED
    BY <1>9, <1>10

\* Start passes a task of its list to scheduleTask: the row is as it read it.
LEMMA AloneStart == ASSUME Inv, Alone, NEW t \in CronTasks, StartNext(t) PROVE Alone'
  <1> DEFINE c == Start
  <1>1. /\ c \in Callers /\ step[c] = "idle" /\ t \in toLoad
        /\ toLoad' = toLoad \ {t}
        /\ job' = [job EXCEPT ![c] = [task |-> t, row |-> loaded[t]]]
        /\ step' = [step EXCEPT ![c] = "add"]
        /\ UNCHANGED <<db, entries, cronIDs, loaded, added>>
    BY DEF StartNext, Callers
  <1>2. loaded[t] = db[t] /\ Unscheduled(t)
    BY <1>1 DEF Alone, RowsFresh, Scheduled
  <1> HIDE DEF c
  <1>3. \A d \in Callers \ {c} : step[d] # "idle" => job[d].task # t
    BY <1>1 DEF Alone, NotBeforeStart
  <1>4. /\ \A d \in Callers \ {c} : step'[d] = step[d] /\ job'[d] = job[d] /\ added'[d] = added[d]
        /\ step'[c] = "add" /\ job'[c].task = t /\ job'[c].row = db'[t]
    BY <1>1, <1>2 DEF Inv, CronTypeOK
  <1>5. Half(c)'
    BY <1>1, <1>2, <1>4 DEF Half, Unscheduled
  <1> QED
    BY <1>1, <1>3, <1>4, <1>5, OneTaskStep

\* A client takes a task that nobody is changing: its entries are the one that
\* s.cronIDs remembers, or none.
LEMMA AloneUpdate ==
  ASSUME SameTask = FALSE, EarlyClients = FALSE, Inv, Alone,
         NEW c \in Clients, NEW t \in CronTasks, UpdateRow(c, t)
  PROVE  Alone'
  <1>1. PICK r \in Rows : db' = [db EXCEPT ![t] = r]
    BY DEF UpdateRow
  <1>2. /\ c \in Callers /\ step[c] = "idle" /\ toLoad = {}
        /\ \A d \in Callers : step[d] = "idle" \/ job[d].task # t
        /\ job' = [job EXCEPT ![c] = [task |-> t, row |-> db'[t]]]
        /\ step' = [step EXCEPT ![c] = "get"]
        /\ UNCHANGED <<entries, cronIDs, toLoad, loaded, added>>
    BY DEF UpdateRow, Callers
  <1>3. Matches(t)
    BY <1>2 DEF Alone, Scheduled, Busy
  <1>4. /\ \A d \in Callers \ {c} : step'[d] = step[d] /\ job'[d] = job[d] /\ added'[d] = added[d]
        /\ step'[c] = "get" /\ job'[c].task = t /\ job'[c].row = db'[t]
        /\ \A u \in CronTasks \ {t} : db'[u] = db[u]
        /\ toLoad' = toLoad \ {t}
    BY <1>1, <1>2 DEF Inv, CronTypeOK
  <1>5. Half(c)'
    BY <1>2, <1>3, <1>4 DEF Half, Matches
  <1> QED
    BY <1>2, <1>4, <1>5, OneTaskStep

\* taskRepo.Get reads what the client's own Update has written.
LEMMA AloneReload == ASSUME Inv, Alone, NEW c \in Callers, ReloadRow(c) PROVE Alone'
  <1>0. PICK t : t = job[c].task
    OBVIOUS
  <1>1. /\ step[c] = "get" /\ job' = [job EXCEPT ![c].row = db[t]]
        /\ step' = [step EXCEPT ![c] = "remove"]
        /\ UNCHANGED <<db, entries, cronIDs, toLoad, loaded, added>>
    BY <1>0 DEF ReloadRow
  <1>2. /\ job[c] \in [task : CronTasks, row : Rows] /\ t \in CronTasks \ toLoad
        /\ Half(c) /\ \A d \in Callers \ {c} : step[d] # "idle" => job[d].task # t
    BY <1>0, <1>1, MyTask
  <1>3. job'[c] = [job[c] EXCEPT !.row = db[t]]
    BY <1>1 DEF Inv, CronTypeOK
  <1>4. job'[c].task = t /\ job'[c].row = db'[t]
    BY <1>0, <1>1, <1>2, <1>3
  <1>5. \A x \in entries : x.task = t => x.id = cronIDs[t]
    BY <1>0, <1>1, <1>2 DEF Half
  <1>6. /\ \A d \in Callers \ {c} : step'[d] = step[d] /\ job'[d] = job[d] /\ added'[d] = added[d]
        /\ step'[c] = "remove" /\ toLoad' = toLoad \ {t}
    BY <1>1, <1>2 DEF Inv, CronTypeOK
  <1>7. Half(c)'
    BY <1>1, <1>4, <1>5, <1>6 DEF Half
  <1> QED
    BY <1>0, <1>1, <1>2, <1>4, <1>6, <1>7, OneTaskStep

\* Every step keeps the entries in line, for one caller at a time per task.
LEMMA AloneStep ==
  ASSUME SameTask = FALSE, EarlyClients = FALSE
  PROVE  Inv /\ Alone /\ [CronNext]_cronVars => Alone'
  <1> SUFFICES ASSUME Inv, Alone, [CronNext]_cronVars PROVE Alone'
    OBVIOUS
  <1>1. CASE UNCHANGED cronVars
    BY <1>1 DEF cronVars, Alone, OneCaller, NotBeforeStart, RowsFresh, Scheduled, Unscheduled,
                Half, Busy, Matches, Schedulable
  <1> QED
    BY <1>1, AloneAdd, AloneTrack, AloneRemove, AloneStart, AloneUpdate, AloneReload
       DEF CronNext, Callers

\* When no update is under way, cron fires each task by the schedule in its row,
\* once, and a disabled one not at all, provided that updates of one task do not
\* overlap and that clients come after start-up (UpdateTask, scheduleTask, Start).
THEOREM EntriesMatch ==
  ASSUME SameTask = FALSE, EarlyClients = FALSE
  PROVE  CronSpec => []CronMatchesRows
  <1>1. ASSUME Inv, Alone PROVE CronMatchesRows
    <2> SUFFICES ASSUME Quiescent, NEW t \in CronTasks
                 PROVE  LET mine == {x \in entries : x.task = t} IN
                        IF Schedulable(db[t])
                        THEN Cardinality(mine) = 1 /\ \A x \in mine : x.schedule = db[t].schedule
                        ELSE mine = {}
      BY DEF CronMatchesRows
    <2> DEFINE mine == {x \in entries : x.task = t}
    <2>1. Matches(t)
      BY <1>1 DEF Alone, Scheduled, Busy, Quiescent
    <2>2. \A x \in mine : Schedulable(db[t]) /\ x.schedule = db[t].schedule
      BY <2>1 DEF Matches
    <2>3. \A x, y \in mine : x = y
      BY <1>1, <2>1 DEF Matches, Inv, IDsUnique
    <2>4. ASSUME Schedulable(db[t]) PROVE Cardinality(mine) = 1
      <3>1. PICK x : x \in mine
        BY <2>1, <2>4 DEF Matches
      <3>2. mine = {x}
        BY <2>3, <3>1
      <3> QED
        BY <3>2, FS_Singleton
    <2> QED
      BY <2>2, <2>4
  <1>2. CronInit => Inv /\ Alone
    BY InvInit, AloneInit
  <1>3. Inv /\ Alone /\ [CronNext]_cronVars => (Inv /\ Alone)'
    BY InvStep, AloneStep
  <1>4. Inv /\ Alone => CronMatchesRows
    BY <1>1
  <1> QED
    BY <1>2, <1>3, <1>4, PTL DEF CronSpec
=============================================================================
