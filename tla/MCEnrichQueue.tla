---------------------------- MODULE MCEnrichQueue ----------------------------
(* Instances of EnrichQueue for TLC: who works for which stage. *)
EXTENDS EnrichQueue, TLC

CONSTANTS w1, w2, w3

OneStage == w1 :> 1 @@ w2 :> 1
TwoStages == w1 :> 1 @@ w2 :> 2

\* Two workers for the first stage and one for the second.
Shared == w1 :> 1 @@ w2 :> 1 @@ w3 :> 2
Swap == Permutations({w1, w2})
=============================================================================
