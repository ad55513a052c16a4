---------------------------- MODULE MCScheduler ----------------------------
(* Instances of Scheduler for TLC. *)
EXTENDS Scheduler, TLC

CONSTANTS scan, probe, k1, r1, r2

\* probe depends on scan; both use the same concurrency key.
SharedKey == [t \in {scan, probe} |-> k1]

Chain == (scan :> {}) @@ (probe :> {scan})

\* Execution IDs are interchangeable.
Ids == Permutations(Execs)
=============================================================================
