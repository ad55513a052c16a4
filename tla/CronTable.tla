----------------------------- MODULE CronTable -----------------------------
(***************************************************************************)
(* The scheduler's cron entries: Service.UpdateTask (EnableTask,           *)
(* DisableTask), scheduleTask and the scheduling loop of Start, in         *)
(* src/internal/application/scheduler/service.go.                          *)
(*                                                                         *)
(* A task's configuration is kept three times: its row in scheduled_tasks, *)
(* the cron library's entries, and s.cronIDs, which remembers one entry    *)
(* per task.  Each HTTP client runs UpdateTask statement by statement.     *)
(*                                                                         *)
(* Names that Scheduler has, too, begin with Cron here: SchedulerProofs    *)
(* extends both modules.                                                   *)
(***************************************************************************)
EXTENDS Naturals, FiniteSets

CONSTANTS
  CronTasks,    \* tasks with a registered handler
  Schedules,    \* cron expressions the library accepts
  BadSchedule,  \* one it rejects
  Clients,      \* concurrent callers of UpdateTask
  SameTask,     \* two of them may update one task at the same time
  EarlyClients, \* clients reach the server before Start is done
  MaxEntries    \* bound: cron entries ever added

NoEntry == 0
EntryIDs == 1..MaxEntries
Specs == Schedules \cup {BadSchedule}

ASSUME CronAssumption ==
  /\ BadSchedule \notin Schedules /\ MaxEntries \in Nat /\ CronTasks # {}
  /\ {SameTask, EarlyClients} \subseteq BOOLEAN

VARIABLES
  db,        \* per task: its enabled and schedule columns
  entries,   \* the cron library's entries: id, task, schedule
  cronIDs,   \* s.cronIDs: per task the entry it remembers
  lastID,    \* the library's nextID
  toLoad,    \* tasks of Start's List it has yet to pass to scheduleTask
  loaded,    \* Start's snapshot of them
  step,      \* per caller: next statement ("idle", "get", "remove", "add", "track")
  job,       \* per caller: the task it updates and its snapshot of the row
  added      \* per caller: the entry its AddFunc returned

Start == "Start"
Callers == Clients \cup {Start}
Rows == [enabled : BOOLEAN, schedule : Specs]
NoJob == [task |-> NoEntry, row |-> NoEntry]
Entries == [id : EntryIDs, task : CronTasks, schedule : Schedules]

cronVars == <<db, entries, cronIDs, lastID, toLoad, loaded, step, job, added>>

CronInit ==
  /\ db \in [CronTasks -> [enabled : BOOLEAN, schedule : Schedules]]
  /\ entries = {}
  /\ cronIDs = [t \in CronTasks |-> NoEntry]
  /\ lastID = 0
  /\ toLoad = CronTasks
  /\ loaded = db
  /\ step = [c \in Callers |-> "idle"]
  /\ job = [c \in Callers |-> NoJob]
  /\ added = [c \in Callers |-> NoEntry]

------------------------------------------------------------------------------
(* scheduleTask *)

\* The caller returns; its local variables are gone.
Return(c) ==
  /\ step' = [step EXCEPT ![c] = "idle"]
  /\ job' = [job EXCEPT ![c] = NoJob]
  /\ added' = [added EXCEPT ![c] = NoEntry]

\* The checks before AddFunc.
Schedulable(r) == r.enabled /\ r.schedule \in Schedules

\* AddFunc: a rejected expression is an error of the caller's.
AddEntry(c) ==
  /\ step[c] = "add" /\ lastID < MaxEntries
  /\ IF Schedulable(job[c].row)
     THEN /\ lastID' = lastID + 1
          /\ entries' = entries \cup {[id |-> lastID', task |-> job[c].task,
                                       schedule |-> job[c].row.schedule]}
          /\ added' = [added EXCEPT ![c] = lastID']
          /\ step' = [step EXCEPT ![c] = "track"]
          /\ UNCHANGED job
     ELSE Return(c) /\ UNCHANGED <<lastID, entries>>
  /\ UNCHANGED <<db, cronIDs, toLoad, loaded>>

\* s.cronIDs[task.ID] = cronID, whatever was there.
TrackEntry(c) ==
  /\ step[c] = "track"
  /\ cronIDs' = [cronIDs EXCEPT ![job[c].task] = added[c]]
  /\ Return(c)
  /\ UNCHANGED <<db, entries, lastID, toLoad, loaded>>

\* Start's loop: scheduleTask for the next task of its snapshot.
StartNext(t) ==
  /\ step[Start] = "idle" /\ t \in toLoad
  /\ toLoad' = toLoad \ {t}
  /\ job' = [job EXCEPT ![Start] = [task |-> t, row |-> loaded[t]]]
  /\ step' = [step EXCEPT ![Start] = "add"]
  /\ UNCHANGED <<db, entries, cronIDs, lastID, loaded, added>>

------------------------------------------------------------------------------
(* UpdateTask *)

\* taskRepo.Update: COALESCE keeps a column the client does not set, so any
\* row may result, one with a schedule that cron rejects included.
UpdateRow(c, t) ==
  /\ step[c] = "idle"
  /\ EarlyClients \/ (toLoad = {} /\ step[Start] = "idle")
  /\ SameTask \/ \A d \in Callers : step[d] = "idle" \/ job[d].task # t
  /\ \E r \in Rows : db' = [db EXCEPT ![t] = r]
  /\ job' = [job EXCEPT ![c] = [task |-> t, row |-> db'[t]]]
  /\ step' = [step EXCEPT ![c] = "get"]
  /\ UNCHANGED <<entries, cronIDs, lastID, toLoad, loaded, added>>

\* taskRepo.Get: the row as it is now, other clients' updates included.
ReloadRow(c) ==
  /\ step[c] = "get"
  /\ job' = [job EXCEPT ![c].row = db[job[c].task]]
  /\ step' = [step EXCEPT ![c] = "remove"]
  /\ UNCHANGED <<db, entries, cronIDs, lastID, toLoad, loaded, added>>

\* (mutant: the map entry is kept when the cron entry is removed)
RemoveEntryOnly(c) ==
  /\ step[c] = "remove"
  /\ entries' = {x \in entries : x.id # cronIDs[job[c].task]}
  /\ IF job[c].row.enabled
     THEN step' = [step EXCEPT ![c] = "add"] /\ UNCHANGED <<job, added>>
     ELSE Return(c)
  /\ UNCHANGED <<db, cronIDs, lastID, toLoad, loaded>>

\* (mutant: the map entry is deleted and the cron entry stays)
RemoveIDOnly(c) ==
  /\ step[c] = "remove"
  /\ cronIDs' = [cronIDs EXCEPT ![job[c].task] = NoEntry]
  /\ IF job[c].row.enabled
     THEN step' = [step EXCEPT ![c] = "add"] /\ UNCHANGED <<job, added>>
     ELSE Return(c)
  /\ UNCHANGED <<db, entries, lastID, toLoad, loaded>>

\* Under s.mu: cron.Remove and delete(s.cronIDs, id).
RemoveEntry(c) ==
  /\ step[c] = "remove"
  /\ entries' = {x \in entries : x.id # cronIDs[job[c].task]}
  /\ cronIDs' = [cronIDs EXCEPT ![job[c].task] = NoEntry]
  /\ IF job[c].row.enabled
     THEN step' = [step EXCEPT ![c] = "add"] /\ UNCHANGED <<job, added>>
     ELSE Return(c)
  /\ UNCHANGED <<db, lastID, toLoad, loaded>>

------------------------------------------------------------------------------
CronNext ==
  \/ \E t \in CronTasks : StartNext(t)
  \/ \E c \in Clients, t \in CronTasks : UpdateRow(c, t)
  \/ \E c \in Clients : ReloadRow(c) \/ RemoveEntry(c)
  \/ \E c \in Callers : AddEntry(c) \/ TrackEntry(c)

CronSpec == CronInit /\ [][CronNext]_cronVars

------------------------------------------------------------------------------
(* Properties *)

\* Types of all variables.
CronTypeOK ==
  /\ db \in [CronTasks -> Rows] /\ loaded \in [CronTasks -> Rows]
  /\ entries \subseteq Entries
  /\ cronIDs \in [CronTasks -> EntryIDs \cup {NoEntry}]
  /\ lastID \in 0..MaxEntries
  /\ toLoad \subseteq CronTasks
  /\ step \in [Callers -> {"idle", "get", "remove", "add", "track"}]
  /\ job \in [Callers -> {NoJob} \cup [task : CronTasks, row : Rows]]
  /\ added \in [Callers -> EntryIDs \cup {NoEntry}]

\* s.cronIDs never names an entry that cron no longer has, so that the next
\* UpdateTask and GetTaskStatus find the one they mean.
TrackedEntriesExist ==
  \A t \in CronTasks : cronIDs[t] # NoEntry =>
    \E x \in entries : x.id = cronIDs[t] /\ x.task = t

\* When no update is under way, cron fires each task by the schedule in its
\* row, once, and a disabled task not at all ("Remove old cron entry").
Quiescent == toLoad = {} /\ \A c \in Callers : step[c] = "idle"

CronMatchesRows ==
  Quiescent =>
    \A t \in CronTasks :
      LET mine == {x \in entries : x.task = t} IN
      IF Schedulable(db[t])
      THEN Cardinality(mine) = 1 /\ \A x \in mine : x.schedule = db[t].schedule
      ELSE mine = {}
=============================================================================
