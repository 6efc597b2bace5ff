------------------------ MODULE MCScheduledLifecycle ------------------------
(* Instances of ScheduledLifecycle for TLC: two runs of the lifecycle job,   *)
(* which nothing tells apart, and one of the price job.                      *)
EXTENDS ScheduledLifecycle, TLC

CONSTANTS t1, d1, w1, w2

AllDecks == [t \in Tournaments |-> Decks]
InRegistration == [t \in Tournaments |-> "registration"]
Leases == [j \in Jobs |-> 1]
Symmetry == Permutations({w1, w2})
=============================================================================
