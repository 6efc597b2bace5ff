------------------------- MODULE ScheduledLifecycle -------------------------
(***************************************************************************)
(* The scheduler's jobs under their locks: TournamentLifecycle, whose      *)
(* tasks are runs of JobLock.  Several runs of tournament_lifecycle come   *)
(* about where the one at startup (SchedulerService.start) or the one of a *)
(* process being replaced meets the one of the cron trigger; nothing but   *)
(* the row of job_locks keeps them apart.                                  *)
(*                                                                         *)
(* The body of a job is the steps its task takes in TournamentLifecycle    *)
(* while its run is at work; the step that ends the body ends the run's    *)
(* work.  Nothing ends a body when its lease does: that no body takes so   *)
(* long is a condition of time, which Overrun drops.                       *)
(***************************************************************************)
EXTENDS TournamentLifecycle

CONSTANTS
    Timeout,    \* lock_timeout_seconds of each job
    Overrun,    \* whether a run may outlive its lease
    MaxTime,    \* bound: the clock of JobLock stops here
    MaxTroubles \* bound: failures and crashes, of bodies and locks together

ASSUME SeparateAssumption == LifecycleTasks \cap PriceTasks = {}
ASSUME OverrunAssumption == Overrun \in BOOLEAN

VARIABLES now, locks, run, began, lockFaults, lockCrashes

lockVars == <<now, locks, run, began, lockFaults, lockCrashes>>

Jobs == {"tournament_lifecycle", "price_and_score"}
JobOf == [w \in Tasks |->
            IF w \in LifecycleTasks THEN "tournament_lifecycle" ELSE "price_and_score"]

ASSUME LeaseAssumption == Timeout \in [Jobs -> Nat]
ASSUME LockAssumption ==
    /\ MaxTime \in Nat /\ MaxFaults \in Nat /\ MaxCrashes \in Nat
    /\ None \notin [by : Tasks, expires : Nat]

Lock == INSTANCE JobLock WITH
    Names <- Jobs, Runs <- Tasks,
    pc <- run, faults <- lockFaults, crashes <- lockCrashes

ScheduledInit == Init /\ Lock!Init

\* The run still has time: from the clock it read to its lease.
InTime(w) == run[w] \in {"purge", "insert", "working"} => now < Lock!Lease(w)

Tick ==
    /\ Overrun \/ \A w \in Tasks : InTime(w)
    /\ Lock!Tick
    /\ UNCHANGED vars

\* acquire and release, with their failures.
Locking(w) ==
    /\ Lock!Begin(w) \/ Lock!Purge(w) \/ Lock!Insert(w) \/ Lock!Release(w)
       \/ Lock!InsertUnanswered(w) \/ Lock!AcquireFails(w) \/ Lock!ReleaseFails(w)
    /\ UNCHANGED vars

\* A step of the body; the last one hands over to release.
Body(w) ==
    /\ run[w] = "working"
    /\ LifecycleBegin(w) \/ PriceBegin(w) \/ Work(w) \/ Fails(w)
    /\ IF task'[w].pc = "idle" THEN Lock!Finish(w) ELSE UNCHANGED lockVars

\* price_and_score finds no tournament to score, or fails before it has one.
NothingToScore(w) ==
    /\ w \in PriceTasks /\ task[w].pc = "idle"
    /\ Lock!Finish(w)
    /\ UNCHANGED vars

\* The process of a run stops, wherever the run is.
Stop(w) ==
    /\ Lock!Crash(w)
    /\ Crash(w) \/ (task[w].pc = "idle" /\ UNCHANGED vars)

ScheduledNext ==
    /\ \/ Tick
       \/ \E w \in Tasks : Locking(w) \/ Body(w) \/ NothingToScore(w) \/ Stop(w)
       \/ (\E t \in Tournaments : DatePasses(t)) /\ UNCHANGED lockVars
    /\ faults' + lockFaults' + lockCrashes' <= MaxTroubles

ScheduledSpec == ScheduledInit /\ [][ScheduledNext]_<<vars, lockVars>>

----------------------------------------------------------------------------
\* One run at a time: the lock keeps a run that is in its body alone with its job as
\* long as runs are in time, and whatever is in the middle of a body holds the lock
\* (async with JobLockService, SchedulerService).
OneBody ==
    /\ \A w \in Tasks : task[w].pc # "idle" => run[w] = "working"
    /\ \A v, w \in Tasks :
          (JobOf[v] = JobOf[w] /\ task[v].pc # "idle" /\ task[w].pc # "idle") => v = w
=============================================================================
