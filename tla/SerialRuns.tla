----------------------------- MODULE SerialRuns -----------------------------
(***************************************************************************)
(* What the scheduler promises of ConcurrencyKey ("Key to prevent          *)
(* concurrent runs", domain/scheduler/task.go): per key one execution at a *)
(* time is with its handler, an execution reaches its handler at most      *)
(* once, and a crash ends every run without starting any.                  *)
(***************************************************************************)
CONSTANTS Keys, Execs, NoExec

VARIABLES
  owner,  \* per key: the execution that is running, or NoExec
  begun   \* executions that ever began

Init ==
  /\ owner = [k \in Keys |-> NoExec]
  /\ begun = {}

Begin(k, e) ==
  /\ owner[k] = NoExec /\ e \notin begun
  /\ owner' = [owner EXCEPT ![k] = e]
  /\ begun' = begun \cup {e}

End(k) ==
  /\ owner' = [owner EXCEPT ![k] = NoExec]
  /\ UNCHANGED begun

Crash ==
  /\ owner' = [k \in Keys |-> NoExec]
  /\ UNCHANGED begun

Next ==
  \/ \E k \in Keys : End(k) \/ \E e \in Execs : Begin(k, e)
  \/ Crash

Spec == Init /\ [][Next]_<<owner, begun>>
=============================================================================
