SPECIFICATION CronSpec
CONSTANTS
  CronTasks = {scan, probe}
  Schedules = {hourly, daily}
  BadSchedule = bad
  Clients = {c1, c2}
  SameTask = FALSE
  EarlyClients = FALSE
  MaxEntries = 5
\* Cron entries run out (MaxEntries): the model's bound.
CHECK_DEADLOCK FALSE
INVARIANTS
  
  TrackedEntriesExist
