--------------------------- MODULE JobLockProofs ---------------------------
(***************************************************************************)
(* What the job lock promises, for any jobs, runs and timeouts.            *)
(*                                                                         *)
(* The argument is one invariant: no run reads a clock ahead of the        *)
(* present, so a purge, which compares rows with the time its run read at  *)
(* the start, removes only rows that have expired by now; hence a run      *)
(* whose lease has not run out keeps its row from the insert that gave it  *)
(* the lock to the release, and two such rows of one name are the same row. *)
(***************************************************************************)
EXTENDS JobLock, TLAPS

BeganInThePast == \A r \in Runs : began[r] <= now

LeaseHeld ==
    \A r \in Runs :
        (pc[r] \in {"working", "release"} /\ Lease(r) >= now)
            => locks[JobOf[r]] = [by |-> r, expires |-> Lease(r)]

IInv == TypeOK /\ BeganInThePast /\ LeaseHeld

USE JobsAssumption, BoundsAssumption

\* A lease is a time.
LEMMA LeaseIsTime ==
    ASSUME TypeOK, NEW r \in Runs
    PROVE  JobOf[r] \in Names /\ Lease(r) \in Nat
<1>1. JobOf[r] \in Names
    OBVIOUS
<1>2. Timeout[JobOf[r]] \in Nat /\ began[r] \in Nat
    BY <1>1 DEF TypeOK
<1> QED
    BY <1>1, <1>2 DEF Lease

\* The row a run writes is a row of the table.
LEMMA NewRow ==
    ASSUME TypeOK, NEW r \in Runs
    PROVE  /\ [by |-> r, expires |-> Lease(r)] \in Row
           /\ [locks EXCEPT ![JobOf[r]] = [by |-> r, expires |-> Lease(r)]]
                 \in [Names -> Row \union {None}]
BY LeaseIsTime DEF TypeOK, Row

\* An entry of the table that is not None is a row.
LEMMA Entry ==
    ASSUME TypeOK, NEW n \in Names, locks[n] # None
    PROVE  locks[n] \in Row /\ locks[n].by \in Runs /\ locks[n].expires \in Nat
BY DEF TypeOK, Row

LEMMA InitIInv == Init => IInv
BY DEF Init, IInv, TypeOK, BeganInThePast, LeaseHeld

\* Every step keeps the variables in their types.
LEMMA TypeStep == TypeOK /\ [Next]_vars => TypeOK'
<1> SUFFICES ASSUME TypeOK, [Next]_vars PROVE TypeOK'
    OBVIOUS
<1>1. CASE Tick
    BY <1>1 DEF Tick, TypeOK
<1>2. ASSUME NEW r \in Runs, Begin(r) PROVE TypeOK'
    BY <1>2 DEF Begin, TypeOK
<1>3. ASSUME NEW r \in Runs, Purge(r) PROVE TypeOK'
    BY <1>3 DEF Purge, TypeOK
<1>4. ASSUME NEW r \in Runs, Insert(r) PROVE TypeOK'
    BY <1>4, NewRow DEF Insert, TypeOK
<1>5. ASSUME NEW r \in Runs, Finish(r) PROVE TypeOK'
    BY <1>5 DEF Finish, TypeOK
<1>6. ASSUME NEW r \in Runs, Release(r) PROVE TypeOK'
    BY <1>6 DEF Release, TypeOK
<1>7. ASSUME NEW r \in Runs, InsertUnanswered(r) PROVE TypeOK'
    BY <1>7, NewRow DEF InsertUnanswered, TypeOK
<1>8. ASSUME NEW r \in Runs, AcquireFails(r) PROVE TypeOK'
    BY <1>8 DEF AcquireFails, TypeOK
<1>9. ASSUME NEW r \in Runs, ReleaseFails(r) PROVE TypeOK'
    BY <1>9 DEF ReleaseFails, TypeOK
<1>10. ASSUME NEW r \in Runs, Crash(r) PROVE TypeOK'
    BY <1>10 DEF Crash, TypeOK
<1>11. CASE UNCHANGED vars
    BY <1>11 DEF vars, TypeOK
<1> QED
    BY <1>1, <1>2, <1>3, <1>4, <1>5, <1>6, <1>7, <1>8, <1>9, <1>10, <1>11
       DEF Next, Run, Fault

\* Time does not go back and a run reads it only on entry.
LEMMA BeganStep == TypeOK /\ BeganInThePast /\ [Next]_vars => BeganInThePast'
<1> SUFFICES ASSUME TypeOK, BeganInThePast, [Next]_vars, NEW q \in Runs
             PROVE  began'[q] <= now'
    BY DEF BeganInThePast
<1>1. began[q] \in Nat /\ now \in Nat /\ began[q] <= now
    BY DEF TypeOK, BeganInThePast
<1>2. CASE Tick
    BY <1>1, <1>2 DEF Tick
<1>3. ASSUME NEW r \in Runs, Begin(r) PROVE began'[q] <= now'
    BY <1>1, <1>3 DEF Begin, TypeOK
<1>4. ASSUME UNCHANGED <<now, began>> PROVE began'[q] <= now'
    BY <1>1, <1>4
<1> QED
    BY <1>2, <1>3, <1>4 DEF Next, Run, Fault, vars, Purge, Insert, Finish, Release,
       InsertUnanswered, AcquireFails, ReleaseFails, Crash

\* The run of the step is not the one whose lease is looked at, or the step
\* does not concern it: its pc, its lease and the clock stay.
LEMMA LeaseStep == IInv /\ [Next]_vars => LeaseHeld'
<1> SUFFICES ASSUME IInv, [Next]_vars, NEW q \in Runs,
                    pc'[q] \in {"working", "release"}, Lease(q)' >= now'
             PROVE  locks'[JobOf[q]] = [by |-> q, expires |-> Lease(q)']
    BY DEF LeaseHeld
<1>t. TypeOK /\ BeganInThePast /\ LeaseHeld
    BY DEF IInv
<1>n. JobOf[q] \in Names /\ Lease(q) \in Nat /\ now \in Nat /\ began[q] \in Nat
    BY <1>t, LeaseIsTime DEF TypeOK
<1> DEFINE Holds == pc[q] \in {"working", "release"} /\ Lease(q) >= now
<1>h. ASSUME Holds PROVE locks[JobOf[q]] = [by |-> q, expires |-> Lease(q)]
    BY <1>h, <1>t DEF LeaseHeld
<1>1. CASE Tick
    <2>1. Lease(q)' = Lease(q) /\ pc'[q] = pc[q] /\ locks' = locks /\ now' = now + 1
        BY <1>1 DEF Tick, Lease
    <2> QED
        BY <2>1, <1>n, <1>h
<1>2. ASSUME NEW r \in Runs, Begin(r)
      PROVE  locks'[JobOf[q]] = [by |-> q, expires |-> Lease(q)']
    <2>1. q # r
        BY <1>2, <1>t DEF Begin, TypeOK
    <2>2. Lease(q)' = Lease(q) /\ pc'[q] = pc[q] /\ locks' = locks /\ now' = now
        BY <1>2, <2>1, <1>t DEF Begin, Lease, TypeOK
    <2> QED
        BY <2>2, <1>h
<1>3. ASSUME NEW r \in Runs, Purge(r)
      PROVE  locks'[JobOf[q]] = [by |-> q, expires |-> Lease(q)']
    <2>1. q # r
        BY <1>3, <1>t DEF Purge, TypeOK
    <2>2. Lease(q)' = Lease(q) /\ pc'[q] = pc[q] /\ now' = now
        BY <1>3, <2>1, <1>t DEF Purge, Lease, TypeOK
    <2>3. locks[JobOf[q]] = [by |-> q, expires |-> Lease(q)] /\ Lease(q) >= now
        BY <2>2, <1>h
    <2>4. began[r] \in Nat /\ began[r] <= now
        BY <1>t DEF TypeOK, BeganInThePast
    <2>5. locks[JobOf[q]].expires = Lease(q)
        BY <2>3
    <2>6. ~(locks[JobOf[q]].expires < began[r])
        BY <2>3, <2>4, <2>5, <1>n
    <2>7. locks'[JobOf[q]] = locks[JobOf[q]]
        BY <2>6, <1>3, <1>n DEF Purge
    <2> QED
        BY <2>7, <2>3, <2>2
<1>4. ASSUME NEW r \in Runs, Insert(r) \/ InsertUnanswered(r)
      PROVE  locks'[JobOf[q]] = [by |-> q, expires |-> Lease(q)']
    <2>1. Lease(q)' = Lease(q) /\ now' = now
        BY <1>4 DEF Insert, InsertUnanswered, Lease
    <2>2. CASE q = r
        <3>1. Insert(r) /\ locks[JobOf[r]] = None
            BY <1>4, <2>2, <1>t DEF Insert, InsertUnanswered, TypeOK
        <3> QED
            BY <3>1, <2>1, <2>2, <1>n, <1>t DEF Insert, TypeOK
    <2>3. CASE q # r
        <3>1. pc'[q] = pc[q]
            BY <1>4, <2>3, <1>t DEF Insert, InsertUnanswered, TypeOK
        <3>2. locks[JobOf[q]] = [by |-> q, expires |-> Lease(q)]
            BY <3>1, <2>1, <1>h
        <3>3. [by |-> q, expires |-> Lease(q)] # None
            BY <1>n, NoneAssumption
        <3>4. locks'[JobOf[q]] = locks[JobOf[q]]
            BY <1>4, <3>2, <3>3, <1>n, <1>t DEF Insert, InsertUnanswered, TypeOK
        <3> QED
            BY <3>4, <3>2, <2>1
    <2> QED
        BY <2>2, <2>3
<1>5. ASSUME NEW r \in Runs, Finish(r)
      PROVE  locks'[JobOf[q]] = [by |-> q, expires |-> Lease(q)']
    <2>1. Lease(q)' = Lease(q) /\ now' = now /\ locks' = locks
        BY <1>5 DEF Finish, Lease
    <2>2. pc[q] \in {"working", "release"}
        BY <1>5, <1>t DEF Finish, TypeOK
    <2> QED
        BY <2>1, <2>2, <1>h
<1>6. ASSUME NEW r \in Runs, Release(r)
      PROVE  locks'[JobOf[q]] = [by |-> q, expires |-> Lease(q)']
    <2>1. q # r
        BY <1>6, <1>t DEF Release, TypeOK
    <2>2. Lease(q)' = Lease(q) /\ pc'[q] = pc[q] /\ now' = now
        BY <1>6, <2>1, <1>t DEF Release, Lease, TypeOK
    <2>3. locks[JobOf[q]] = [by |-> q, expires |-> Lease(q)]
        BY <2>2, <1>h
    <2>4. locks[JobOf[q]].by # r
        BY <2>3, <2>1
    <2>5. locks'[JobOf[q]] = locks[JobOf[q]]
        <3>1. CASE JobOf[q] = JobOf[r]
            BY <3>1, <2>4, <1>6 DEF Release
        <3>2. CASE JobOf[q] # JobOf[r]
            BY <3>2, <1>6, <1>n, <1>t DEF Release, TypeOK
        <3> QED
            BY <3>1, <3>2
    <2> QED
        BY <2>5, <2>3, <2>2
<1>7. ASSUME NEW r \in Runs, AcquireFails(r) \/ ReleaseFails(r) \/ Crash(r)
      PROVE  locks'[JobOf[q]] = [by |-> q, expires |-> Lease(q)']
    <2>1. q # r
        BY <1>7, <1>t DEF AcquireFails, ReleaseFails, Crash, TypeOK
    <2>2. Lease(q)' = Lease(q) /\ pc'[q] = pc[q] /\ locks' = locks /\ now' = now
        BY <1>7, <2>1, <1>t DEF AcquireFails, ReleaseFails, Crash, Lease, TypeOK
    <2> QED
        BY <2>2, <1>h
<1>8. CASE UNCHANGED vars
    <2>1. Lease(q)' = Lease(q) /\ pc' = pc /\ locks' = locks /\ now' = now
        BY <1>8 DEF vars, Lease
    <2> QED
        BY <2>1, <1>h
<1> QED
    BY <1>1, <1>2, <1>3, <1>4, <1>5, <1>6, <1>7, <1>8 DEF Next, Run, Fault

\* IInv is an invariant.
LEMMA Inductive == Spec => []IInv
<1>1. Init => IInv
    BY InitIInv
<1>2. IInv /\ [Next]_vars => IInv'
    BY TypeStep, BeganStep, LeaseStep DEF IInv
<1> QED
    BY <1>1, <1>2, PTL DEF Spec

\* Every variable stays in its type (JobLockService and job_locks).
THEOREM TypeCorrect == Spec => []TypeOK
<1>1. IInv => TypeOK
    BY DEF IInv
<1> QED
    BY <1>1, Inductive, PTL

\* A run at work within its lease still has its row in job_locks.
THEOREM RowKept == Spec => []HolderKeepsRow
<1>1. IInv => HolderKeepsRow
    BY DEF IInv, LeaseHeld, HolderKeepsRow
<1> QED
    BY <1>1, Inductive, PTL

\* Two runs of a job are at work at once only when one has outlived its lease:
\* what acquire and release guarantee, for any timeouts and any number of runs.
THEOREM Exclusive == Spec => []OneUnexpiredHolder
<1>1. IInv => OneUnexpiredHolder
    <2> SUFFICES ASSUME IInv, NEW p \in Runs, NEW q \in Runs,
                        p # q, JobOf[p] = JobOf[q], pc[p] = "working", pc[q] = "working",
                        ~(Lease(p) < now), ~(Lease(q) < now)
                 PROVE  FALSE
        BY DEF OneUnexpiredHolder
    <2>1. Lease(p) \in Nat /\ Lease(q) \in Nat /\ now \in Nat
        BY LeaseIsTime DEF IInv, TypeOK
    <2>2. locks[JobOf[p]] = [by |-> p, expires |-> Lease(p)]
        BY <2>1 DEF IInv, LeaseHeld
    <2>3. locks[JobOf[q]] = [by |-> q, expires |-> Lease(q)]
        BY <2>1 DEF IInv, LeaseHeld
    <2>4. [by |-> p, expires |-> Lease(p)].by = [by |-> q, expires |-> Lease(q)].by
        BY <2>2, <2>3
    <2> QED
        BY <2>4
<1> QED
    BY <1>1, Inductive, PTL

\* One step removes an unexpired row only as the release of its writer.
LEMMA ProtectedStep ==
    ASSUME IInv, [Next]_vars, NEW n \in Names,
           locks[n] # None, locks[n].expires >= now, locks'[n] # locks[n]
    PROVE  pc[locks[n].by] = "release" /\ pc'[locks[n].by] = "idle"
<1>t. TypeOK /\ BeganInThePast
    BY DEF IInv
<1>e. locks[n].by \in Runs /\ locks[n].expires \in Nat /\ now \in Nat
    BY <1>t, Entry DEF TypeOK
<1>1. ASSUME NEW r \in Runs, Purge(r) PROVE FALSE
    <2>1. began[r] \in Nat /\ began[r] <= now
        BY <1>t DEF TypeOK, BeganInThePast
    <2>2. ~(locks[n].expires < began[r])
        BY <2>1, <1>e
    <2> QED
        BY <2>2, <1>1 DEF Purge
<1>2. ASSUME NEW r \in Runs, Insert(r) \/ InsertUnanswered(r) PROVE FALSE
    BY <1>2, <1>t DEF Insert, InsertUnanswered, TypeOK
<1>3. ASSUME NEW r \in Runs, Release(r)
      PROVE  pc[locks[n].by] = "release" /\ pc'[locks[n].by] = "idle"
    <2>1. locks[n].by = r
        BY <1>3, <1>t DEF Release, TypeOK
    <2> QED
        BY <2>1, <1>3, <1>t DEF Release, TypeOK
<1>4. ASSUME locks' = locks PROVE FALSE
    BY <1>4
<1> QED
    BY <1>1, <1>2, <1>3, <1>4 DEF Next, Run, Fault, vars, Tick, Begin, Finish,
       AcquireFails, ReleaseFails, Crash

\* A live lease is taken away by nobody: purges and releases of other runs,
\* however late, leave it (the conditions of both DELETEs).
THEOREM Protected == Spec => LeaseProtected
<1>1. IInv /\ [Next]_vars
        => [\A n \in Names :
              (locks[n] # None /\ locks[n].expires >= now /\ locks'[n] # locks[n])
                  => /\ pc[locks[n].by] = "release"
                     /\ pc'[locks[n].by] = "idle"]_vars
    BY ProtectedStep
<1> QED
    BY <1>1, Inductive, PTL DEF Spec, LeaseProtected
=============================================================================
