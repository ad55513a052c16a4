--------------------------- MODULE CircuitBreaker ---------------------------
(***************************************************************************)
(* The circuit breaker of one enrichment stage and the workers that ask it *)
(* (circuit_breaker.go and the loop of worker_pool.go, in                  *)
(* src/internal/application/enrichment/pipeline).                          *)
(*                                                                         *)
(* A worker asks Allow once and then processes a whole batch, recording    *)
(* the outcome of each call of the enricher.  Timeouts are counted in      *)
(* units of resetTimeout; "elapsed" says that currentResetTimeout has      *)
(* passed since lastStateChange.  The service behind the enricher is up or *)
(* down: a call may fail only while it is down.                            *)
(***************************************************************************)
EXTENDS Naturals, FiniteSets

CONSTANTS
  Workers,    \* workers of the stage
  BatchSize,  \* jobs a worker processes between two calls of Allow
  Threshold,  \* failureThreshold (10)
  MaxTimeout, \* maxResetTimeout / resetTimeout (12)
  Manual,     \* clients call Reset
  MaxCount    \* bound: consecutiveFailures is not counted further

ASSUME BreakerAssumption ==
  /\ BatchSize \in Nat \ {0} /\ Threshold \in Nat \ {0} /\ MaxTimeout \in Nat \ {0}
  /\ Manual \in BOOLEAN /\ MaxCount \in Nat /\ MaxCount > Threshold

VARIABLES
  state,     \* "closed", "open", "half_open"
  failures,  \* consecutiveFailures, up to MaxCount
  timeout,   \* currentResetTimeout
  elapsed,   \* the reset timeout has elapsed
  left,      \* per worker: jobs of its batch still to process
  probing,   \* history: workers admitted since the circuit became half open
  up         \* the service works

breaker == <<state, failures, timeout, elapsed>>
vars == <<breaker, left, probing, up>>

Init ==
  /\ state = "closed" /\ failures = 0 /\ timeout = 1 /\ elapsed = FALSE
  /\ left = [w \in Workers |-> 0] /\ probing = {} /\ up = TRUE

\* transitionTo restarts the clock of the state.
TransitionTo(s) == state' = s /\ elapsed' = (s = state /\ elapsed)

------------------------------------------------------------------------------
(* Allow, asked by an idle worker; it then claims between one and BatchSize jobs. *)

Admit(w) ==
  /\ left[w] = 0
  /\ \E n \in 1..BatchSize : left' = [left EXCEPT ![w] = n]
  /\ UNCHANGED <<failures, timeout, up>>

AllowClosed(w) == state = "closed" /\ Admit(w) /\ UNCHANGED <<state, elapsed, probing>>

AllowOpen(w) ==
  /\ state = "open" /\ elapsed
  /\ TransitionTo("half_open") /\ probing' = {w} /\ Admit(w)

\* "Allow one probe request": every worker that asks is let through.
AllowHalfOpen(w) ==
  /\ state = "half_open" /\ Admit(w)
  /\ probing' = probing \cup {w}
  /\ UNCHANGED <<state, elapsed>>

------------------------------------------------------------------------------
(* One job of the batch: the enricher answers and the outcome is recorded. *)

\* (mutant: a success does not reset the count)
SuccessKeepsCount(w) ==
  /\ left[w] > 0
  /\ IF state = "half_open"
     THEN timeout' = 1 /\ TransitionTo("closed")
     ELSE UNCHANGED <<timeout, state, elapsed>>
  /\ left' = [left EXCEPT ![w] = @ - 1]
  /\ UNCHANGED <<failures, probing, up>>

\* (mutant: a success does not close the circuit)
SuccessOnlyCounts(w) ==
  /\ left[w] > 0
  /\ failures' = 0
  /\ left' = [left EXCEPT ![w] = @ - 1]
  /\ UNCHANGED <<state, timeout, elapsed, probing, up>>

RecordSuccess(w) ==
  /\ left[w] > 0
  /\ failures' = 0
  /\ IF state = "half_open"
     THEN timeout' = 1 /\ TransitionTo("closed")
     ELSE UNCHANGED <<timeout, state, elapsed>>
  /\ left' = [left EXCEPT ![w] = @ - 1]
  /\ UNCHANGED <<probing, up>>

Lesser(a, b) == IF a < b THEN a ELSE b

\* (mutant: failures of calls admitted earlier back off an open circuit, too)
FailureAlwaysBacksOff(w) ==
  /\ left[w] > 0 /\ ~up
  /\ failures' = Lesser(failures + 1, MaxCount)
  /\ CASE state = "closed" /\ failures + 1 >= Threshold ->
            TransitionTo("open") /\ UNCHANGED timeout
       [] state \in {"half_open", "open"} ->
            TransitionTo("open") /\ timeout' = Lesser(2 * timeout, MaxTimeout)
       [] OTHER -> UNCHANGED <<state, timeout, elapsed>>
  /\ left' = [left EXCEPT ![w] = @ - 1]
  /\ UNCHANGED <<probing, up>>

RecordFailure(w) ==
  /\ left[w] > 0 /\ ~up
  /\ failures' = Lesser(failures + 1, MaxCount)
  /\ CASE state = "closed" /\ failures + 1 >= Threshold ->
            TransitionTo("open") /\ UNCHANGED timeout
       [] state = "half_open" ->
            TransitionTo("open") /\ timeout' = Lesser(2 * timeout, MaxTimeout)
       [] OTHER -> UNCHANGED <<state, timeout, elapsed>>
  /\ left' = [left EXCEPT ![w] = @ - 1]
  /\ UNCHANGED <<probing, up>>

\* A job that cannot be built reaches no enricher and records nothing.
BuildFails(w) ==
  /\ left[w] > 0
  /\ left' = [left EXCEPT ![w] = @ - 1]
  /\ UNCHANGED <<breaker, probing, up>>

------------------------------------------------------------------------------

Reset ==
  /\ Manual
  /\ failures' = 0 /\ timeout' = 1 /\ TransitionTo("closed")
  /\ UNCHANGED <<left, probing, up>>

TimePasses ==
  /\ state = "open" /\ ~elapsed /\ elapsed' = TRUE
  /\ UNCHANGED <<state, failures, timeout, left, probing, up>>

ServiceChanges == up' = ~up /\ UNCHANGED <<breaker, left, probing>>

Allow(w) == AllowClosed(w) \/ AllowOpen(w) \/ AllowHalfOpen(w)

Next ==
  \/ \E w \in Workers : Allow(w) \/ RecordSuccess(w) \/ RecordFailure(w) \/ BuildFails(w)
  \/ Reset \/ TimePasses \/ ServiceChanges

Spec == Init /\ [][Next]_vars

\* Time passes, workers keep asking, and a worker with jobs gets answers: not
\* every job is impossible to build.
Fairness ==
  /\ WF_vars(TimePasses)
  /\ \A w \in Workers : WF_vars(Allow(w)) /\ SF_vars(RecordSuccess(w))
FairSpec == Spec /\ Fairness

------------------------------------------------------------------------------
(* Properties *)

\* Every variable has its type; the backoff never exceeds its cap.
TypeOK ==
  /\ state \in {"closed", "open", "half_open"}
  /\ failures \in 0..MaxCount /\ timeout \in 1..MaxTimeout
  /\ elapsed \in BOOLEAN /\ up \in BOOLEAN
  /\ left \in [Workers -> 0..BatchSize] /\ probing \subseteq Workers

\* A closed circuit has seen fewer than failureThreshold failures in a row,
\* whatever late answers were recorded while it was open or half open.
ClosedBelowThreshold == state = "closed" => failures < Threshold

\* The reset timeout grows only when a half open circuit reopens, and a circuit
\* that closes starts afresh: late answers of calls admitted before the trip
\* neither lengthen nor restart the wait (RecordFailure in the open state).
BackoffOnlyByProbes ==
  [][/\ timeout' > timeout => state = "half_open" /\ state' = "open"
     /\ (state = "open" /\ state' = "open") => (elapsed => elapsed')
     /\ (state # "closed" /\ state' = "closed") => timeout' = 1]_vars

\* A half open circuit has one worker probing at a time: "Allow one probe request".
OneProbe == state = "half_open" => Cardinality({w \in probing : left[w] > 0}) <= 1

\* Once the service works for good, the circuit closes.
CircuitCloses == <>[]up => []<>(state = "closed")
=============================================================================
