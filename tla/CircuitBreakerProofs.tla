------------------------ MODULE CircuitBreakerProofs ------------------------
(***************************************************************************)
(* Proofs about CircuitBreaker, for any set of workers, batch size,        *)
(* threshold and cap.                                                      *)
(***************************************************************************)
EXTENDS CircuitBreaker, TLAPS

\* What every step of the breaker and its workers keeps: the types, and a
\* closed circuit's count below the threshold.
Inv == TypeOK /\ ClosedBelowThreshold

\* The initial state satisfies the invariant (NewCircuitBreaker).
LEMMA InvInit == Init => Inv
<1> SUFFICES ASSUME Init PROVE Inv
  OBVIOUS
<1>1. 0 \in 0..MaxCount /\ 1 \in 1..MaxTimeout /\ 0 \in 0..BatchSize /\ 0 < Threshold
  BY BreakerAssumption
<1>2. left \in [Workers -> 0..BatchSize]
  BY <1>1 DEF Init
<1>3. QED BY <1>1, <1>2 DEF Init, Inv, TypeOK, ClosedBelowThreshold

\* Allow keeps the invariant: an open circuit only becomes half open.
LEMMA InvAllow == ASSUME Inv, NEW w \in Workers, Allow(w) PROVE Inv'
<1>1. \A n \in 1..BatchSize : [left EXCEPT ![w] = n] \in [Workers -> 0..BatchSize]
  BY BreakerAssumption DEF Inv, TypeOK
<1>2. CASE AllowClosed(w)
  BY <1>1, <1>2 DEF AllowClosed, Admit, Inv, TypeOK, ClosedBelowThreshold
<1>3. CASE AllowOpen(w)
  BY <1>1, <1>3 DEF AllowOpen, Admit, TransitionTo, Inv, TypeOK, ClosedBelowThreshold
<1>4. CASE AllowHalfOpen(w)
  BY <1>1, <1>4 DEF AllowHalfOpen, Admit, Inv, TypeOK, ClosedBelowThreshold
<1>5. QED BY <1>2, <1>3, <1>4 DEF Allow

\* Recording a success keeps the invariant: it clears the count.
LEMMA InvSuccess == ASSUME Inv, NEW w \in Workers, RecordSuccess(w) PROVE Inv'
<1>1. left' \in [Workers -> 0..BatchSize]
  BY BreakerAssumption DEF RecordSuccess, Inv, TypeOK
<1>2. CASE state = "half_open"
  BY <1>1, <1>2, BreakerAssumption
  DEF RecordSuccess, TransitionTo, Inv, TypeOK, ClosedBelowThreshold
<1>3. CASE state # "half_open"
  BY <1>1, <1>3, BreakerAssumption
  DEF RecordSuccess, TransitionTo, Inv, TypeOK, ClosedBelowThreshold
<1>4. QED BY <1>2, <1>3

\* Recording a failure keeps the invariant: the failure that would reach the
\* threshold of a closed circuit opens it.
LEMMA InvFailure == ASSUME Inv, NEW w \in Workers, RecordFailure(w) PROVE Inv'
<1>1. left' \in [Workers -> 0..BatchSize]
  BY BreakerAssumption DEF RecordFailure, Inv, TypeOK
<1>2. failures' \in 0..MaxCount /\ failures' <= failures + 1
  BY BreakerAssumption DEF RecordFailure, Lesser, Inv, TypeOK
<1>3. CASE state = "closed" /\ failures + 1 >= Threshold
  BY <1>1, <1>2, <1>3, BreakerAssumption
  DEF RecordFailure, TransitionTo, Inv, TypeOK, ClosedBelowThreshold
<1>4. CASE state = "half_open"
  BY <1>1, <1>2, <1>4, BreakerAssumption
  DEF RecordFailure, TransitionTo, Lesser, Inv, TypeOK, ClosedBelowThreshold
<1>5. CASE state # "half_open" /\ ~(state = "closed" /\ failures + 1 >= Threshold)
  BY <1>1, <1>2, <1>5, BreakerAssumption
  DEF RecordFailure, Inv, TypeOK, ClosedBelowThreshold
<1>6. QED BY <1>3, <1>4, <1>5

\* Every step keeps the invariant.
LEMMA InvStep == Inv /\ [Next]_vars => Inv'
<1> SUFFICES ASSUME Inv, [Next]_vars PROVE Inv'
  OBVIOUS
<1>1. ASSUME NEW w \in Workers, BuildFails(w) PROVE Inv'
  BY <1>1, BreakerAssumption DEF BuildFails, breaker, Inv, TypeOK, ClosedBelowThreshold
<1>2. CASE Reset
  BY <1>2, BreakerAssumption DEF Reset, TransitionTo, Inv, TypeOK, ClosedBelowThreshold
<1>3. CASE TimePasses
  BY <1>3 DEF TimePasses, Inv, TypeOK, ClosedBelowThreshold
<1>4. CASE ServiceChanges
  BY <1>4 DEF ServiceChanges, breaker, Inv, TypeOK, ClosedBelowThreshold
<1>5. CASE UNCHANGED vars
  BY <1>5 DEF vars, breaker, Inv, TypeOK, ClosedBelowThreshold
<1>6. QED BY <1>1, <1>2, <1>3, <1>4, <1>5, InvAllow, InvSuccess, InvFailure DEF Next

\* A circuit that is closed has counted fewer failures than its threshold:
\* RecordFailure and Reset, in every interleaving with late answers.
THEOREM ThresholdHolds == Spec => []ClosedBelowThreshold
<1>1. Inv => ClosedBelowThreshold
  BY DEF Inv
<1>2. QED BY InvInit, InvStep, <1>1, PTL DEF Spec

\* What one step may do to the wait of an open circuit.
LEMMA BackoffStep ==
  ASSUME Inv, [Next]_vars
  PROVE /\ timeout' > timeout => state = "half_open" /\ state' = "open"
        /\ (state = "open" /\ state' = "open") => (elapsed => elapsed')
        /\ (state # "closed" /\ state' = "closed") => timeout' = 1
<1>0. timeout \in 1..MaxTimeout /\ MaxTimeout \in Nat
  BY BreakerAssumption DEF Inv, TypeOK
<1>1. ASSUME NEW w \in Workers, Allow(w) PROVE UNCHANGED timeout /\
        (UNCHANGED <<state, elapsed>> \/ state' = "half_open")
  BY <1>1 DEF Allow, AllowClosed, AllowOpen, AllowHalfOpen, Admit, TransitionTo
<1>2. ASSUME NEW w \in Workers, RecordSuccess(w)
      PROVE UNCHANGED <<timeout, state, elapsed>> \/ (timeout' = 1 /\ state' = "closed")
  BY <1>2 DEF RecordSuccess, TransitionTo
<1>3. ASSUME NEW w \in Workers, RecordFailure(w)
      PROVE \/ UNCHANGED <<timeout, state, elapsed>>
            \/ UNCHANGED timeout /\ state = "closed" /\ state' = "open"
            \/ state = "half_open" /\ state' = "open"
  BY <1>3 DEF RecordFailure, TransitionTo
<1>4. ASSUME NEW w \in Workers, BuildFails(w) PROVE UNCHANGED <<timeout, state, elapsed>>
  BY <1>4 DEF BuildFails, breaker
<1>5. Reset => timeout' = 1 /\ state' = "closed"
  BY DEF Reset, TransitionTo
<1>6. TimePasses => UNCHANGED <<timeout, state>> /\ elapsed'
  BY DEF TimePasses
<1>7. ServiceChanges \/ UNCHANGED vars => UNCHANGED <<timeout, state, elapsed>>
  BY DEF ServiceChanges, breaker, vars
<1>8. QED BY <1>0, <1>1, <1>2, <1>3, <1>4, <1>5, <1>6, <1>7 DEF Next

\* The wait of an open circuit grows only when a probe fails, late answers do
\* not restart it, and a circuit that closes starts afresh.
THEOREM BackoffHolds == Spec => BackoffOnlyByProbes
<1>1. Inv /\ [Next]_vars =>
        [/\ timeout' > timeout => state = "half_open" /\ state' = "open"
         /\ (state = "open" /\ state' = "open") => (elapsed => elapsed')
         /\ (state # "closed" /\ state' = "closed") => timeout' = 1]_vars
  BY BackoffStep
<1>2. QED BY InvInit, InvStep, <1>1, PTL DEF Spec, BackoffOnlyByProbes

\* The breaker's fields keep their types, the timeout its cap, and no worker
\* handles more than its batch (Allow, RecordSuccess, RecordFailure, Reset).
THEOREM BreakerTypes == Spec => []TypeOK
<1>1. Inv => TypeOK
  BY DEF Inv
<1>2. QED BY InvInit, InvStep, <1>1, PTL DEF Spec
=============================================================================
