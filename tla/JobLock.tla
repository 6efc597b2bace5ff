------------------------------ MODULE JobLock ------------------------------
(***************************************************************************)
(* The lock that keeps two runs of a background job apart:                 *)
(* services/lock_service.py over the table job_locks, as the scheduler     *)
(* uses it for price_and_score and tournament_lifecycle.                   *)
(*                                                                         *)
(* A run reads the clock once, deletes every expired row in one            *)
(* transaction and inserts its own in another; a row is a lease that       *)
(* nobody renews.  A run is reused for the next occurrence of its job, so  *)
(* it stands for the lock_id of each: the row of an earlier occurrence is  *)
(* gone before a later one can insert, as a name has one row.              *)
(***************************************************************************)
EXTENDS Naturals

CONSTANTS
    Names,      \* the job names
    Runs,       \* the tasks that run jobs
    JobOf,      \* the job each task runs
    Timeout,    \* lock_timeout_seconds of each job
    MaxTime,    \* bound: the clock stops here
    MaxFaults,  \* bound: database errors during acquire or release
    MaxCrashes, \* bound: processes that stop while their run is under way
    None        \* no row

ASSUME JobsAssumption == JobOf \in [Runs -> Names] /\ Timeout \in [Names -> Nat]
ASSUME BoundsAssumption == MaxTime \in Nat /\ MaxFaults \in Nat /\ MaxCrashes \in Nat
ASSUME NoneAssumption == None \notin [by : Runs, expires : Nat]

VARIABLES
    now,     \* the clock
    locks,   \* job_locks: at most one row for a name, its primary key
    pc,      \* where each run is
    began,   \* the time each run read on entry to acquire
    faults, crashes

vars == <<now, locks, pc, began, faults, crashes>>

Row == [by : Runs, expires : Nat]
Lease(r) == began[r] + Timeout[JobOf[r]]

Init ==
    /\ now = 0
    /\ locks = [n \in Names |-> None]
    /\ pc = [r \in Runs |-> "idle"]
    /\ began = [r \in Runs |-> 0]
    /\ faults = 0 /\ crashes = 0

Tick ==
    /\ now < MaxTime
    /\ now' = now + 1
    /\ UNCHANGED <<locks, pc, began, faults, crashes>>

\* acquire reads the clock.
Begin(r) ==
    /\ pc[r] = "idle"
    /\ began' = [began EXCEPT ![r] = now]
    /\ pc' = [pc EXCEPT ![r] = "purge"]
    /\ UNCHANGED <<now, locks, faults, crashes>>

\* Mutants of Purge: <= for <, and no delete at all.
PurgeAtExpiry(r) ==
    /\ pc[r] = "purge"
    /\ locks' = [n \in Names |->
                   IF locks[n] # None /\ locks[n].expires <= began[r] THEN None ELSE locks[n]]
    /\ pc' = [pc EXCEPT ![r] = "insert"]
    /\ UNCHANGED <<now, began, faults, crashes>>

PurgeSkipped(r) ==
    /\ pc[r] = "purge"
    /\ pc' = [pc EXCEPT ![r] = "insert"]
    /\ UNCHANGED <<now, locks, began, faults, crashes>>

\* First transaction of acquire: the expired rows of every job go.
Purge(r) ==
    /\ pc[r] = "purge"
    /\ locks' = [n \in Names |->
                   IF locks[n] # None /\ locks[n].expires < began[r] THEN None ELSE locks[n]]
    /\ pc' = [pc EXCEPT ![r] = "insert"]
    /\ UNCHANGED <<now, began, faults, crashes>>

\* Mutant of Insert: a row without its expiry.
InsertNoExpiry(r) ==
    /\ pc[r] = "insert"
    /\ IF locks[JobOf[r]] = None
         THEN /\ locks' = [locks EXCEPT ![JobOf[r]] = [by |-> r, expires |-> None]]
              /\ pc' = [pc EXCEPT ![r] = "working"]
         ELSE /\ pc' = [pc EXCEPT ![r] = "idle"]
              /\ UNCHANGED locks
    /\ UNCHANGED <<now, began, faults, crashes>>

\* Second transaction: INSERT ... ON CONFLICT DO NOTHING.  The row returned,
\* or none, decides whether the job does its work.
Insert(r) ==
    /\ pc[r] = "insert"
    /\ IF locks[JobOf[r]] = None
         THEN /\ locks' = [locks EXCEPT ![JobOf[r]] = [by |-> r, expires |-> Lease(r)]]
              /\ pc' = [pc EXCEPT ![r] = "working"]
         ELSE /\ pc' = [pc EXCEPT ![r] = "idle"]
              /\ UNCHANGED locks
    /\ UNCHANGED <<now, began, faults, crashes>>

\* The commit takes effect and its answer is lost: acquire returns False, the
\* row stays and no release will remove it.
InsertUnanswered(r) ==
    /\ pc[r] = "insert" /\ faults < MaxFaults
    /\ locks[JobOf[r]] = None
    /\ locks' = [locks EXCEPT ![JobOf[r]] = [by |-> r, expires |-> Lease(r)]]
    /\ pc' = [pc EXCEPT ![r] = "idle"]
    /\ faults' = faults + 1
    /\ UNCHANGED <<now, began, crashes>>

\* Either transaction fails: acquire rolls back and returns False.
AcquireFails(r) ==
    /\ pc[r] \in {"purge", "insert"} /\ faults < MaxFaults
    /\ pc' = [pc EXCEPT ![r] = "idle"]
    /\ faults' = faults + 1
    /\ UNCHANGED <<now, locks, began, crashes>>

\* The body of the job ends, by a return or by an exception.  It takes as long
\* as it takes: nothing stops it when the lease runs out.
Finish(r) ==
    /\ pc[r] = "working"
    /\ pc' = [pc EXCEPT ![r] = "release"]
    /\ UNCHANGED <<now, locks, began, faults, crashes>>

\* Mutant of Release: the delete without locked_by.
ReleaseAny(r) ==
    /\ pc[r] = "release"
    /\ locks' = [locks EXCEPT ![JobOf[r]] = None]
    /\ pc' = [pc EXCEPT ![r] = "idle"]
    /\ UNCHANGED <<now, began, faults, crashes>>

\* release deletes the row only when it is this run's.
Release(r) ==
    /\ pc[r] = "release"
    /\ LET n == JobOf[r]
       IN locks' = IF locks[n] # None /\ locks[n].by = r THEN [locks EXCEPT ![n] = None] ELSE locks
    /\ pc' = [pc EXCEPT ![r] = "idle"]
    /\ UNCHANGED <<now, began, faults, crashes>>

\* The delete fails: the error is logged and the row stays until it expires.
ReleaseFails(r) ==
    /\ pc[r] = "release" /\ faults < MaxFaults
    /\ pc' = [pc EXCEPT ![r] = "idle"]
    /\ faults' = faults + 1
    /\ UNCHANGED <<now, locks, began, crashes>>

\* The process stops and is started again; only the table survives.
Crash(r) ==
    /\ pc[r] # "idle" /\ crashes < MaxCrashes
    /\ pc' = [pc EXCEPT ![r] = "idle"]
    /\ crashes' = crashes + 1
    /\ UNCHANGED <<now, locks, began, faults>>

Run(r) == Begin(r) \/ Purge(r) \/ Insert(r) \/ Finish(r) \/ Release(r)

Fault(r) == InsertUnanswered(r) \/ AcquireFails(r) \/ ReleaseFails(r) \/ Crash(r)

Next == Tick \/ \E r \in Runs : Run(r) \/ Fault(r)

Spec == Init /\ [][Next]_vars

\* A job is rescheduled by its cron trigger and its steps end.
FairSpec == Spec /\ WF_vars(Tick) /\ \A r \in Runs : WF_vars(Run(r))

----------------------------------------------------------------------------
\* Type correctness.
TypeOK ==
    /\ now \in Nat
    /\ locks \in [Names -> Row \union {None}]
    /\ pc \in [Runs -> {"idle", "purge", "insert", "working", "release"}]
    /\ began \in [Runs -> Nat]
    /\ faults \in Nat /\ crashes \in Nat

\* While no lease has run out, at most one run of a job is in its body: of two
\* runs of one job that are both at work, one has outlived its lease.
OneUnexpiredHolder ==
    \A p, q \in Runs :
        (p # q /\ JobOf[p] = JobOf[q] /\ pc[p] = "working" /\ pc[q] = "working")
            => (Lease(p) < now \/ Lease(q) < now)

\* A run that is at work under a lease that has not run out still has its row:
\* no other run, of this job or of another, has purged or released it.
HolderKeepsRow ==
    \A r \in Runs :
        (pc[r] = "working" /\ Lease(r) >= now)
            => locks[JobOf[r]] = [by |-> r, expires |-> Lease(r)]

\* A row that has not expired is removed by the release of the run that wrote
\* it and by nothing else, whatever the other runs do late.
LeaseProtected ==
    [][\A n \in Names :
          (locks[n] # None /\ locks[n].expires >= now /\ locks'[n] # locks[n])
              => /\ pc[locks[n].by] = "release"
                 /\ pc'[locks[n].by] = "idle"]_vars

\* The row of a run that is no longer under way.
Orphan(n) == locks[n] # None /\ pc[locks[n].by] \notin {"working", "release"}

\* A row left by a crash, a failed release or an unanswered insert does not
\* block its job for ever: once it expires some run removes it.
OrphanRemoved ==
    \A n \in Names :
        (Orphan(n) /\ locks[n].expires < MaxTime) ~> (locks[n] = None)
=============================================================================
