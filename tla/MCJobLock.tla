----------------------------- MODULE MCJobLock -----------------------------
(* Runs of the price job and one of the tournament job.  The timeouts keep  *)
(* the order of the code's 300 and 180 seconds; a unit of the clock is one  *)
(* in which a run can begin, purge, insert and release.                     *)
EXTENDS JobLock

CONSTANTS p1, p2, t1

ThreeRuns == {p1, p2, t1}
TwoRuns == {p1, t1}
TwoNames == {"price_and_score", "tournament_lifecycle"}
JobOfRun == [r \in Runs |-> IF r = t1 THEN "tournament_lifecycle" ELSE "price_and_score"]
Timeouts == [n \in TwoNames |-> IF n = "price_and_score" THEN 3 ELSE 2]
=============================================================================
